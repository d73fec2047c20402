------------------------------ MODULE AgentNet ------------------------------
(***************************************************************************)
(* invoke_agent_net and invoke_agent: one invocation of an agent_net.      *)
(*                                                                         *)
(* A net is the sequence of the edges its flow lines spell out, in source  *)
(* order; an edge written twice is there twice.  topo_order is computed    *)
(* first, with the stack of nodes whose incoming edges have all been       *)
(* counted off, one edge at a time.                                        *)
(*                                                                         *)
(* The nodes are then walked in this order, up to MaxIterations times; a   *)
(* node is an agent, called with its retries, or something else that can   *)
(* be called (a function, another net).  What is open is what the model    *)
(* answers, what other nodes return and whether `until` holds.             *)
(***************************************************************************)
EXTENDS Integers, Sequences, FiniteSets

CONSTANTS
    Node,     \* names of nodes
    Flows,    \* the nets looked at: sequences of edges <<from, to>>
    Kind,     \* "agent", "other" (a closure, a net), "undefined"
    Accept,   \* the model each agent accepts
    Produce,  \* the model each agent produces
    Retries,  \* the retries of each agent
    Model,    \* names of models; a value that is no record has NoModel
    NoModel,
    Outside   \* where the input of the net comes from

ASSUME FlowsAssumption == Flows \subseteq Seq(Node \X Node)
ASSUME NetAssumption ==
    /\ Kind \in [Node -> {"agent", "other", "undefined"}]
    /\ Accept \in [Node -> Model] /\ Produce \in [Node -> Model]
    /\ Retries \in [Node -> Nat]
    /\ NoModel \notin Model /\ Outside \notin Node

VARIABLES
    flow,      \* the net that is invoked
    pending,   \* indexes of the edges not counted off yet
    indeg,     \* what is left of the number of edges into each node
    queue,     \* topo_order's stack; its end is popped first
    out,       \* the order so far
    phase,     \* where the interpreter is
    until,     \* the net has an until clause
    input,     \* the argument of the net
    iter,      \* the iteration, from 1
    pos,       \* the position in the order
    nodeOut,   \* node_out: what is stored under each node in this iteration
    given,     \* the value handed to the node that runs
    attempt,   \* attempts that failed, of the agent that runs
    calls,     \* calls of the model made for each agent
    failed,    \* nodes that ran in this iteration and yielded nothing
    terminal,  \* last_terminal_value
    outcome

topoVars == <<flow, pending, indeg, queue, out>>
netVars == <<phase, until, input, iter, pos, nodeOut, given, attempt, calls,
             failed, terminal, outcome>>
vars == <<topoVars, netVars>>

-----------------------------------------------------------------------------
(* The graph of the net and its topological order.                         *)

From(e) == flow[e][1]
To(e) == flow[e][2]
Edges == DOMAIN flow

\* The nodes of the net.
NodesOf(f) == {f[e][1] : e \in DOMAIN f} \union {f[e][2] : e \in DOMAIN f}
\* Edges of f into node n that are in the set s.
Into(f, s, n) == {e \in s : f[e][2] = n}

Preds(n) == {From(e) : e \in {d \in Edges : To(d) = n}}

\* A node without edges into it gets the input of the net, one without edges
\* out of it yields its value.
Entries == {n \in NodesOf(flow) : \A e \in Edges : To(e) # n}
Terminals == {n \in NodesOf(flow) : \A e \in Edges : From(e) # n}

\* Nodes are listed in the order in which the flow lines first name them.
NameAt(f, k) == IF k % 2 = 1 THEN f[(k + 1) \div 2][1] ELSE f[k \div 2][2]
FirstNamedAt(f, n) ==
    CHOOSE k \in 1..(2 * Len(f)) :
        NameAt(f, k) = n /\ \A j \in 1..(k - 1) : NameAt(f, j) # n
\* The nodes of s in that order: there is one such sequence.
InSourceOrder(f, s) ==
    {q \in [1..Cardinality(s) -> s] :
        /\ \A x \in s : \E i \in 1..Cardinality(s) : q[i] = x
        /\ \A i, j \in 1..Cardinality(s) : i < j =>
              q[i] # q[j] /\ FirstNamedAt(f, q[i]) < FirstNamedAt(f, q[j])}

Listed(s) == {s[k] : k \in DOMAIN s}
TopoInit ==
    /\ flow \in Flows
    /\ pending = DOMAIN flow
    /\ indeg = [n \in NodesOf(flow) |-> Cardinality(Into(flow, pending, n))]
    /\ \E s \in SUBSET NodesOf(flow) :
        /\ s = {n \in NodesOf(flow) : indeg[n] = 0}
        /\ queue \in InSourceOrder(flow, s)
    /\ out = <<>>

\* The edges out of the node popped last are counted off in source order.
Open == {e \in pending : From(e) \in Listed(out)}

\* Seeded fault: a node is queued as soon as one of its predecessors is out.
BugCountOff ==
    /\ Open # {}
    /\ \E e \in Open :
        /\ \A d \in Open : e <= d
        /\ pending' = pending \ {e}
        /\ indeg' = [indeg EXCEPT ![To(e)] = @ - 1]
        /\ queue' = IF To(e) \notin Listed(queue) \union Listed(out)
                    THEN Append(queue, To(e)) ELSE queue
    /\ UNCHANGED <<flow, out>>

\* One edge: saturating_sub, and the node it leads to is pushed at zero.
CountOff ==
    /\ Open # {}
    /\ \E e \in Open :
        /\ \A d \in Open : e <= d
        /\ pending' = pending \ {e}
        /\ LET left == IF indeg[To(e)] = 0 THEN 0 ELSE indeg[To(e)] - 1
           IN  /\ indeg' = [indeg EXCEPT ![To(e)] = left]
               /\ queue' = IF left = 0 THEN Append(queue, To(e)) ELSE queue
    /\ UNCHANGED <<flow, out>>

Pop ==
    /\ Open = {} /\ queue # <<>>
    /\ out' = Append(out, queue[Len(queue)])
    /\ queue' = SubSeq(queue, 1, Len(queue) - 1)
    /\ UNCHANGED <<flow, pending, indeg>>

Sorted == Open = {} /\ queue = <<>>

TopoNext == CountOff \/ Pop

-----------------------------------------------------------------------------
(* The iterations over the nodes.                                          *)

\* AGENT_NET_MAX_ITERATIONS.
MaxIterations == 3

\* A value is told apart by the node that made it, the iteration it was made
\* in and the name of its model; the version of the model is not part of it.
Values == [by : Node \union {Outside}, iter : 0..MaxIterations,
           model : Model \union {NoModel}]
\* No value: no value is of this iteration.
Nothing == [by |-> Outside, iter |-> MaxIterations + 1, model |-> NoModel]

node == out[pos]
Succs(x) == {To(e) : e \in {d \in Edges : From(d) = x}}

Init ==
    /\ TopoInit
    /\ phase = "call"
    /\ until \in BOOLEAN
    /\ input \in [by : {Outside}, iter : {0}, model : Model \union {NoModel}]
    /\ iter = 0 /\ pos = 1
    /\ nodeOut = [x \in Node |-> Nothing] /\ given = input
    /\ attempt = 0 /\ calls = [x \in Node |-> 0] /\ failed = {}
    /\ terminal = Nothing /\ outcome = "none"

BadArity ==
    /\ phase = "call"
    /\ phase' = "done" /\ outcome' = "raised"
    /\ UNCHANGED <<topoVars, until, input, iter, pos, nodeOut, given, attempt,
                   calls, failed, terminal>>

Sort ==
    /\ phase \in {"call", "sort"}
    /\ TopoNext
    /\ phase' = "sort"
    /\ UNCHANGED <<until, input, iter, pos, nodeOut, given, attempt, calls,
                   failed, terminal, outcome>>

\* Seeded fault: the map of the last iteration is kept.
BugStaleMap ==
    /\ iter' = iter + 1 /\ pos' = 1 /\ phase' = "walk"
    /\ nodeOut' = [x \in Node |-> IF x \in Entries THEN input ELSE nodeOut[x]]
    /\ failed' = {}
    /\ UNCHANGED <<topoVars, until, input, given, attempt, calls, terminal,
                   outcome>>

\* net_iter: a fresh map with the input under the entries.
BeginIteration ==
    /\ iter' = iter + 1 /\ pos' = 1 /\ phase' = "walk"
    /\ nodeOut' = [x \in Node |-> IF x \in Entries THEN input ELSE Nothing]
    /\ failed' = {}
    /\ UNCHANGED <<topoVars, until, input, given, attempt, calls, terminal,
                   outcome>>

FirstIteration == phase \in {"call", "sort"} /\ Sorted /\ BeginIteration
-----------------------------------------------------------------------------
(* One node of the walk.                                                   *)

\* What is stored under the node or else under one of its predecessors; which
\* one, the order of a hash map decides.
Offered ==
    IF nodeOut[node] # Nothing
    THEN {nodeOut[node]}
    ELSE {nodeOut[p] : p \in Preds(node)} \ {Nothing}

AtNode == phase = "walk" /\ pos <= Len(out)

GoOn == pos' = pos + 1 /\ phase' = "walk"

\* Seeded fault: a node without input is waited for.
BugNoInput ==
    /\ AtNode /\ Offered = {}
    /\ pos' = pos /\ phase' = "walk"
    /\ UNCHANGED <<topoVars, until, input, iter, nodeOut, given, attempt, calls,
                   failed, terminal, outcome>>

NoInput ==
    /\ AtNode /\ Offered = {}
    /\ GoOn
    /\ UNCHANGED <<topoVars, until, input, iter, nodeOut, given, attempt, calls,
                   failed, terminal, outcome>>

\* edge_skip: the agent does not accept the value offered.
EdgeSkip ==
    /\ AtNode /\ Kind[node] = "agent"
    /\ \E v \in Offered : v.model # Accept[node]
    /\ GoOn
    /\ UNCHANGED <<topoVars, until, input, iter, nodeOut, given, attempt, calls,
                   failed, terminal, outcome>>

\* An error that leaves the net through `?`: no net_exit is recorded.
Abort ==
    /\ phase' = "done" /\ outcome' = "raised"
    /\ UNCHANGED <<topoVars, until, input, iter, pos, nodeOut, given, terminal,
                   failed>>

Undefined ==
    /\ AtNode /\ Kind[node] = "undefined" /\ Offered # {}
    /\ Abort /\ UNCHANGED <<attempt, calls>>

RunNode ==
    /\ AtNode /\ Kind[node] # "undefined"
    /\ \E v \in Offered :
        /\ Kind[node] = "agent" => v.model = Accept[node]
        /\ given' = v
    /\ phase' = Kind[node] /\ attempt' = 0
    /\ UNCHANGED <<topoVars, until, input, iter, pos, nodeOut, calls, failed,
                   terminal, outcome>>

\* Seeded fault: the value of any node is taken for that of a terminal one.
BugYield(v) ==
    /\ nodeOut' = [x \in Node |->
                     IF x = node \/ x \in Succs(node) THEN v ELSE nodeOut[x]]
    /\ terminal' = v
    /\ GoOn
    /\ UNCHANGED <<topoVars, until, input, iter, given, failed, outcome>>

\* A value is stored under the node and under every node it leads to.
Yield(v) ==
    /\ nodeOut' = [x \in Node |->
                     IF x = node \/ x \in Succs(node) THEN v ELSE nodeOut[x]]
    /\ terminal' = IF node \in Terminals THEN v ELSE terminal
    /\ GoOn
    /\ UNCHANGED <<topoVars, until, input, iter, given, failed, outcome>>

\* invoke_agent checks its input against `accept` before it calls the model: the
\* walk compared the name of the model only, and the fields, or the version, may
\* not be those the agent accepts.  The error is not an attempt that failed.
InputRejected ==
    /\ phase = "agent" /\ attempt = 0
    /\ Abort /\ UNCHANGED <<attempt, calls>>

CallModel == phase = "agent" /\ calls' = [calls EXCEPT ![node] = @ + 1]

AgentAnswers ==
    /\ CallModel
    /\ Yield([by |-> node, iter |-> iter, model |-> Produce[node]])
    /\ UNCHANGED attempt

\* The backend fails, a budget is exceeded or the answer does not fit the
\* model: any error counts as an attempt.
AttemptFails ==
    /\ CallModel
    /\ attempt < Retries[node]
    /\ attempt' = attempt + 1
    /\ UNCHANGED <<topoVars, phase, until, input, iter, pos, nodeOut, given,
                   failed, terminal, outcome>>

\* The last attempt fails: invoke_agent returns the last error, not an Err
\* value, and the net does not catch it.
AgentFails ==
    /\ CallModel
    /\ attempt = Retries[node]
    /\ Abort /\ UNCHANGED attempt

OtherReturns ==
    /\ phase = "other"
    /\ \E m \in Model \union {NoModel} :
        Yield([by |-> node, iter |-> iter, model |-> m])
    /\ UNCHANGED <<attempt, calls>>

\* An Err value, such as that of a nested net that is exhausted.
OtherErr ==
    /\ phase = "other"
    /\ GoOn
    /\ failed' = failed \union {node}
    /\ UNCHANGED <<topoVars, until, input, iter, nodeOut, given, attempt, calls,
                   terminal, outcome>>

OtherRaises == phase = "other" /\ Abort /\ UNCHANGED <<attempt, calls>>
-----------------------------------------------------------------------------
(* The end of an iteration.                                                *)

WalkedAll == phase = "walk" /\ pos > Len(out)

Finish(converged) ==
    /\ phase' = "done"
    /\ outcome' = IF converged /\ terminal # Nothing THEN "ok" ELSE "exhausted"
    /\ UNCHANGED <<topoVars, until, input, iter, pos, nodeOut, given, attempt,
                   calls, failed, terminal>>

\* Without until, or when it is true.
Converge == WalkedAll /\ Finish(TRUE)

\* until is false, no boolean or fails.
NotYet == WalkedAll /\ until /\ iter < MaxIterations /\ BeginIteration

Exhaust == WalkedAll /\ until /\ iter = MaxIterations /\ Finish(FALSE)

NodeStep ==
    \/ NoInput \/ EdgeSkip \/ Undefined \/ RunNode
    \/ InputRejected \/ AgentAnswers \/ AttemptFails \/ AgentFails
    \/ OtherReturns \/ OtherErr \/ OtherRaises

Next ==
    \/ BadArity \/ Sort \/ FirstIteration
    \/ NodeStep
    \/ Converge \/ NotYet \/ Exhaust

\* Weak fairness: the interpreter is one thread and does not stop by itself;
\* a call of the model or of a node returns or fails.
Spec == Init /\ [][Next]_vars /\ WF_vars(Next)

-----------------------------------------------------------------------------
(* Properties.                                                             *)

Phases == {"call", "sort", "walk", "agent", "other", "done"}
Outcomes == {"none", "ok", "exhausted", "raised"}

TopoTypeOK ==
    /\ flow \in Flows
    /\ pending \subseteq Edges
    /\ indeg \in [NodesOf(flow) -> Nat]
    /\ queue \in Seq(NodesOf(flow)) /\ out \in Seq(NodesOf(flow))

TypeOK ==
    /\ TopoTypeOK
    /\ phase \in Phases /\ outcome \in Outcomes
    /\ until \in BOOLEAN
    /\ input \in Values /\ given \in Values
    /\ iter \in 0..MaxIterations /\ pos \in 1..(Len(out) + 1)
    /\ nodeOut \in [Node -> Values \union {Nothing}]
    /\ attempt \in Nat /\ calls \in [Node -> Nat]
    /\ failed \subseteq Node
    /\ terminal \in Values \union {Nothing}

\* docs/language.md section 14.1, a net is a graph that is walked along its
\* edges: topo_order lists a node once, after all its predecessors, whatever
\* the order of the flow lines and however often they repeat an edge.
TopologicalOrder ==
    /\ \A j, k \in DOMAIN out : out[j] = out[k] => j = k
    /\ \A e \in Edges : \A k \in DOMAIN out :
          out[k] = To(e) => \E j \in 1..(k - 1) : out[j] = From(e)

\* A node that topo_order leaves out, and that the net therefore never runs,
\* has a predecessor that is left out too: it is on a cycle or behind one.
LeftOutIsCyclic ==
    Sorted => \A x \in NodesOf(flow) \ Listed(out) :
                  \E p \in Preds(x) : p \notin Listed(out)

\* topo_order as a whole: what it lists is in order, and what it leaves out
\* could not have been listed.
OrderIsRight == TopologicalOrder /\ LeftOutIsCyclic

\* Everything from which edges of the net f lead to x: the least set that holds
\* the nodes right before x and those right before its own members.
IsUpstream(f, y, x) ==
    LET before(z) == {f[e][1] : e \in Into(f, DOMAIN f, z)}
    IN  \A S \in SUBSET NodesOf(f) :
            before(x) \subseteq S /\ (\A z \in S : before(z) \subseteq S) => y \in S

\* A node that runs is given the input of the net or a value made in this very
\* iteration by a node from which edges lead to it: node_out is fresh in every
\* iteration and a value never runs against an edge.
InputFromUpstream ==
    phase \in {"agent", "other"} =>
        \/ given = input
        \/ given.iter = iter /\ IsUpstream(flow, given.by, node)

\* docs/language.md section 13.1: `retries`.  The model is called at most once
\* more than that for an agent in an iteration, and never for a node that was
\* not reached.
CallBudget ==
    \A x \in Node : calls[x] <= iter * (1 + Retries[x])

\* x yielded a value in this iteration.
YieldedNow(x) == nodeOut[x].by = x /\ nodeOut[x].iter = iter

\* The node at k is the last terminal one to have yielded in this iteration.
LastYield(k) ==
    /\ out[k] \in Terminals /\ YieldedNow(out[k])
    /\ \A j \in (k + 1)..Len(out) : out[j] \in Terminals => ~YieldedNow(out[j])

\* The value a net has to return is that of the last terminal node in the order
\* that yielded one in the last iteration.  Only if none did is it a value left
\* from an earlier iteration, or nothing at all (README, Findings).
ValueIsLast ==
    /\ \A k \in 1..Len(out) : LastYield(k) => terminal = nodeOut[out[k]]
    /\ terminal.iter = iter => \E k \in 1..Len(out) : LastYield(k)

\* docs/language.md section 14.3: what a net returns was made by a terminal node,
\* by the last one that yielded in its last iteration if any did; a net that is
\* done was neither cut short nor run on; one that is exhausted though `until`
\* never failed to hold has no terminal node that ever yielded a value.
HonestResult ==
    /\ outcome = "ok" => terminal.by \in Terminals /\ terminal.iter \in 1..iter
    /\ outcome = "exhausted" => terminal = Nothing \/ (until /\ iter = MaxIterations)
    /\ outcome \in {"ok", "exhausted"} =>
          pos = Len(out) + 1 /\ (iter = 1 \/ until) /\ ValueIsLast

\* Weak fairness of the net: an invocation returns, cycles or not, whatever the
\* model answers.
Ends == <>(phase = "done")

\* An invocation ends, and within the calls it may make.
EndsWithinBudget == Ends /\ []CallBudget

-----------------------------------------------------------------------------
(* Claims that the code does not meet (README, Findings): no run checks     *)
(* them, and TLC refutes each when it is added to the invariants of the run. *)

\* docs/language.md section 14.3: `iterations` is reached "with no terminal output"
\* when a net returns the Err "exhausted".
ExhaustedHasNothing == outcome = "exhausted" => terminal = Nothing

\* docs/language.md section 14.1: "the runtime re-runs the entire DAG until the
\* predicate holds".  What is returned is of the run the predicate held for.
ResultIsFresh == outcome = "ok" => terminal.iter = iter

\* docs/language.md section 14.3: "a consumer agent that would receive an `err`
\* instead receives nothing for that iteration".  A node whose predecessors all
\* ended with an Err does not run.
ErrFeedsNothing ==
    phase \in {"agent", "other"} /\ node \notin Entries =>
        ~ (Preds(node) \subseteq failed)
=============================================================================
