----------------------------- MODULE AgentNetProofs ---------------------------
(***************************************************************************)
(* First topo_order, for every net: a node is queued exactly when nothing  *)
(* is left of the count of its incoming edges, and that count is the       *)
(* number of edges not counted off.  Then the walk: what is stored under a *)
(* node, what was spent on it, and what has been yielded.  Last, why every *)
(* step of it gets an invocation closer to its end.                        *)
(***************************************************************************)
EXTENDS AgentNet, CommonProofs

Counted == \A x \in NodesOf(flow) : indeg[x] = Cardinality(Into(flow, pending, x))

CountedFromOut == \A e \in Edges \ pending : From(e) \in Listed(out)

QueuedAtZero ==
    \A x \in NodesOf(flow) :
        x \in Listed(out) \union Listed(queue) <=> indeg[x] = 0

\* A node is queued once and, once out, not queued again.
QueuedOnce ==
    /\ \A j, k \in DOMAIN queue : queue[j] = queue[k] => j = k
    /\ Listed(queue) \intersect Listed(out) = {}

TopoInv ==
    /\ TopoTypeOK
    /\ Counted /\ CountedFromOut /\ QueuedAtZero /\ QueuedOnce
    /\ TopologicalOrder

-----------------------------------------------------------------------------

LEMMA FlowFacts ==
    ASSUME NEW f \in Flows
    PROVE  /\ Len(f) \in Nat /\ DOMAIN f = 1..Len(f)
           /\ \A e \in DOMAIN f : f[e] = <<f[e][1], f[e][2]>>
           /\ \A e \in DOMAIN f : f[e][1] \in NodesOf(f) /\ f[e][2] \in NodesOf(f)
           /\ NodesOf(f) \subseteq Node
<1>1. f \in Seq(Node \X Node)
  BY FlowsAssumption
<1>2. Len(f) \in Nat /\ DOMAIN f = 1..Len(f)
  BY <1>1
<1>3. \A e \in DOMAIN f : f[e] \in Node \X Node
  BY <1>1
<1>4. \A e \in DOMAIN f : f[e] = <<f[e][1], f[e][2]>> /\ f[e][1] \in Node /\ f[e][2] \in Node
  BY <1>3
<1> QED BY <1>2, <1>4 DEF NodesOf

LEMMA NodesFinite ==
    ASSUME NEW f \in Flows
    PROVE  IsFiniteSet(NodesOf(f))
<1> DEFINE from == [e \in 1..Len(f) |-> f[e][1]]
           to == [e \in 1..Len(f) |-> f[e][2]]
           A == {f[e][1] : e \in 1..Len(f)}
           B == {f[e][2] : e \in 1..Len(f)}
<1>1. Len(f) \in Nat /\ DOMAIN f = 1..Len(f)
  BY FlowFacts
<1>2. IsFiniteSet(1..Len(f))
  BY <1>1, FS_Interval
<1>3. from \in Surjection(1..Len(f), A) /\ to \in Surjection(1..Len(f), B)
  BY DEF Surjection
<1> HIDE DEF from, to, A, B
<1>4. IsFiniteSet(A) /\ IsFiniteSet(B)
  BY <1>2, <1>3, FS_Surjection
<1>5. IsFiniteSet(A \union B)
  BY <1>4, FS_Union
<1> QED BY <1>1, <1>5 DEF NodesOf, A, B

\* The edges into a node are finitely many; none is left when the count is 0,
\* and one less when one of them is taken away.
LEMMA IntoFacts ==
    ASSUME NEW f \in Flows, NEW s \in SUBSET (DOMAIN f), NEW x
    PROVE  /\ Cardinality(Into(f, s, x)) \in Nat
           /\ Cardinality(Into(f, s, x)) = 0 <=> Into(f, s, x) = {}
           /\ \A e \in s : Cardinality(Into(f, s \ {e}, x)) =
                  IF f[e][2] = x THEN Cardinality(Into(f, s, x)) - 1
                                 ELSE Cardinality(Into(f, s, x))
<1>1. IsFiniteSet(DOMAIN f)
  BY FlowFacts, FS_Interval
<1>2. Into(f, s, x) \in SUBSET (DOMAIN f)
  BY DEF Into
<1>3. IsFiniteSet(Into(f, s, x))
  BY <1>1, <1>2, FS_Subset
<1>4. ASSUME NEW e \in s
      PROVE  Cardinality(Into(f, s \ {e}, x)) =
                 IF f[e][2] = x THEN Cardinality(Into(f, s, x)) - 1
                                ELSE Cardinality(Into(f, s, x))
  <2>1. Into(f, s \ {e}, x) = Into(f, s, x) \ {e}
    BY DEF Into
  <2>2. e \in Into(f, s, x) <=> f[e][2] = x
    BY DEF Into
  <2>3. Cardinality(Into(f, s, x) \ {e}) =
            IF e \in Into(f, s, x) THEN Cardinality(Into(f, s, x)) - 1
                                   ELSE Cardinality(Into(f, s, x))
    BY <1>3, FS_RemoveElement
  <2> QED BY <2>1, <2>2, <2>3
<1> QED BY <1>3, <1>4, FS_EmptySet, FS_CardinalityType

LEMMA ListedFacts ==
    ASSUME NEW S, NEW s \in Seq(S), NEW x
    PROVE  /\ Listed(Append(s, x)) = Listed(s) \union {x}
           /\ \A k \in DOMAIN s : Append(s, x)[k] = s[k]
           /\ DOMAIN s = 1..Len(s) /\ Len(s) \in Nat
           /\ DOMAIN Append(s, x) = 1..(Len(s) + 1)
           /\ Append(s, x)[Len(s) + 1] = x
<1>1. /\ DOMAIN s = 1..Len(s) /\ Len(s) \in Nat
      /\ \A k \in 1..Len(s) : Append(s, x)[k] = s[k]
      /\ Append(s, x)[Len(s) + 1] = x
      /\ DOMAIN Append(s, x) = 1..(Len(s) + 1)
  OBVIOUS
<1>2. 1..(Len(s) + 1) = 1..Len(s) \union {Len(s) + 1}
  BY <1>1
<1>3. Listed(Append(s, x)) = {s[k] : k \in 1..Len(s)} \union {x}
  BY <1>1, <1>2 DEF Listed
<1> QED BY <1>1, <1>3 DEF Listed

-----------------------------------------------------------------------------

LEMMA TopoInitInv == TopoInit => TopoInv
<1> SUFFICES ASSUME TopoInit PROVE TopoInv
  OBVIOUS
<1> DEFINE zero == {x \in NodesOf(flow) : indeg[x] = 0}
<1>1. /\ flow \in Flows /\ pending = DOMAIN flow /\ out = <<>>
      /\ indeg = [x \in NodesOf(flow) |-> Cardinality(Into(flow, pending, x))]
      /\ queue \in InSourceOrder(flow, zero)
  BY DEF TopoInit
<1>2. indeg \in [NodesOf(flow) -> Nat]
  BY <1>1, IntoFacts
<1>3. Cardinality(zero) \in Nat
  <2>1. zero \in SUBSET NodesOf(flow)
    OBVIOUS
  <2> HIDE DEF zero
  <2> QED BY <1>1, <2>1, NodesFinite, FS_Subset, FS_CardinalityType
<1>4. /\ queue \in Seq(NodesOf(flow)) /\ Len(queue) = Cardinality(zero)
      /\ \A x \in zero : \E i \in 1..Len(queue) : queue[i] = x
      /\ \A i \in 1..Len(queue) : queue[i] \in zero
      /\ \A i, j \in 1..Len(queue) : i < j => queue[i] # queue[j]
  <2>1. /\ queue \in [1..Cardinality(zero) -> zero]
        /\ \A x \in zero : \E i \in 1..Cardinality(zero) : queue[i] = x
        /\ \A i, j \in 1..Cardinality(zero) : i < j => queue[i] # queue[j]
    BY <1>1 DEF InSourceOrder
  <2>2. zero \subseteq NodesOf(flow)
    OBVIOUS
  <2> HIDE DEF zero
  <2>3. queue \in Seq(NodesOf(flow)) /\ Len(queue) = Cardinality(zero)
    BY <1>3, <2>1, <2>2
  <2> QED BY <2>1, <2>3
<1>5. Listed(queue) = zero /\ Listed(out) = {}
  <2>1. DOMAIN queue = 1..Len(queue) /\ DOMAIN out = {}
    BY <1>1, <1>4
  <2> HIDE DEF zero
  <2> QED BY <1>4, <2>1 DEF Listed
<1>6. TopoTypeOK
  BY <1>1, <1>2, <1>4 DEF TopoTypeOK, Edges
<1>7. Counted /\ CountedFromOut
  BY <1>1 DEF Counted, CountedFromOut, Edges
<1>8. QueuedAtZero
  BY <1>5 DEF QueuedAtZero
<1>9. QueuedOnce
  <2> SUFFICES \A j, k \in 1..Len(queue) : queue[j] = queue[k] => j = k
    BY <1>4, <1>5 DEF QueuedOnce
  <2> HIDE DEF zero
  <2>1. Len(queue) \in Nat
    BY <1>3, <1>4
  <2>2. \A j, k \in 1..Len(queue) : j < k \/ k < j \/ j = k
    BY <2>1
  <2> QED BY <1>4, <2>2
<1>10. TopologicalOrder
  BY <1>1 DEF TopologicalOrder
<1> QED BY <1>6, <1>7, <1>8, <1>9, <1>10 DEF TopoInv

\* The edge counted off is one that Counted counts, so the count is not 0
\* before, and the node it leads to is neither queued nor out.
LEMMA CountOffInv == TopoInv /\ CountOff => TopoInv'
<1> SUFFICES ASSUME TopoInv, CountOff PROVE TopoInv'
  OBVIOUS
<1> USE DEF TopoInv, Edges, From, To
<1>1. PICK e \in Open :
        /\ pending' = pending \ {e}
        /\ LET left == IF indeg[To(e)] = 0 THEN 0 ELSE indeg[To(e)] - 1
           IN  /\ indeg' = [indeg EXCEPT ![To(e)] = left]
               /\ queue' = IF left = 0 THEN Append(queue, To(e)) ELSE queue
  BY DEF CountOff
<1>2. /\ e \in pending /\ e \in DOMAIN flow /\ From(e) \in Listed(out)
      /\ flow \in Flows /\ pending \in SUBSET DOMAIN flow
      /\ flow' = flow /\ out' = out
      /\ queue \in Seq(NodesOf(flow)) /\ indeg \in [NodesOf(flow) -> Nat]
  BY DEF Open, CountOff, TopoTypeOK
<1> DEFINE n == flow[e][2]
<1>3. n \in NodesOf(flow)
  BY <1>2, FlowFacts
<1>4. indeg[n] \in Nat /\ indeg[n] # 0
  <2>1. indeg[n] = Cardinality(Into(flow, pending, n))
    BY <1>3 DEF Counted
  <2>2. e \in Into(flow, pending, n)
    BY <1>2 DEF Into
  <2> HIDE DEF n
  <2> QED BY <1>2, <1>3, <2>1, <2>2, IntoFacts
<1>5. /\ indeg' = [indeg EXCEPT ![n] = indeg[n] - 1]
      /\ queue' = IF indeg[n] - 1 = 0 THEN Append(queue, n) ELSE queue
  BY <1>1, <1>4
<1>6. n \notin Listed(queue) /\ n \notin Listed(out)
  BY <1>3, <1>4 DEF QueuedAtZero
<1> HIDE DEF n
<1>7. \A x \in NodesOf(flow) : indeg'[x] = IF x = n THEN indeg[n] - 1 ELSE indeg[x]
  BY <1>2, <1>3, <1>5
<1>8. Listed(queue') = IF indeg[n] - 1 = 0 THEN Listed(queue) \union {n} ELSE Listed(queue)
  BY <1>2, <1>5, ListedFacts
<1>9. TopoTypeOK'
  <2>1. queue' \in Seq(NodesOf(flow))
    BY <1>2, <1>3, <1>5
  <2>2. indeg' \in [NodesOf(flow) -> Nat]
    BY <1>2, <1>3, <1>4, <1>5
  <2> QED BY <1>1, <1>2, <2>1, <2>2 DEF TopoTypeOK
<1>10. Counted'
  <2> SUFFICES ASSUME NEW x \in NodesOf(flow)
               PROVE  indeg'[x] = Cardinality(Into(flow, pending \ {e}, x))
    BY <1>1, <1>2 DEF Counted
  <2>1. indeg[x] = Cardinality(Into(flow, pending, x))
    BY DEF Counted
  <2>2. Cardinality(Into(flow, pending \ {e}, x)) =
            IF n = x THEN Cardinality(Into(flow, pending, x)) - 1
                     ELSE Cardinality(Into(flow, pending, x))
    BY <1>2, IntoFacts DEF n
  <2> QED BY <1>7, <2>1, <2>2
<1>11. CountedFromOut'
  BY <1>1, <1>2 DEF CountedFromOut
<1>12. QueuedAtZero'
  <2> SUFFICES ASSUME NEW x \in NodesOf(flow)
               PROVE  x \in Listed(out) \union Listed(queue') <=> indeg'[x] = 0
    BY <1>2 DEF QueuedAtZero
  <2>1. CASE x = n
    BY <1>4, <1>6, <1>7, <1>8, <2>1
  <2>2. CASE x # n
    BY <1>7, <1>8, <2>2 DEF QueuedAtZero
  <2> QED BY <2>1, <2>2
<1>13. QueuedOnce'
  <2>1. Listed(queue') \intersect Listed(out) = {}
    BY <1>6, <1>8 DEF QueuedOnce
  <2>2. CASE indeg[n] - 1 = 0
    <3>1. queue' = Append(queue, n)
      BY <1>5, <2>2
    <3>2. /\ DOMAIN queue = 1..Len(queue) /\ Len(queue) \in Nat
          /\ DOMAIN queue' = 1..(Len(queue) + 1)
          /\ \A k \in 1..Len(queue) : queue'[k] = queue[k]
          /\ queue'[Len(queue) + 1] = n
      BY <1>2, <3>1, ListedFacts
    <3>3. \A k \in 1..Len(queue) : queue[k] # n
      BY <1>6, <3>2 DEF Listed
    <3>4. \A j, k \in 1..(Len(queue) + 1) : queue'[j] = queue'[k] => j = k
      <4> TAKE j, k \in 1..(Len(queue) + 1)
      <4>1. (j \in 1..Len(queue) \/ j = Len(queue) + 1) /\ (k \in 1..Len(queue) \/ k = Len(queue) + 1)
        BY <3>2
      <4> QED BY <3>2, <3>3, <4>1 DEF QueuedOnce
    <3> QED BY <1>2, <2>1, <3>2, <3>4 DEF QueuedOnce
  <2>3. CASE indeg[n] - 1 # 0
    BY <1>2, <1>5, <2>1, <2>3 DEF QueuedOnce
  <2> QED BY <2>2, <2>3
<1>14. TopologicalOrder'
  BY <1>2 DEF TopologicalOrder
<1> QED BY <1>9, <1>10, <1>11, <1>12, <1>13, <1>14

\* Nothing is left of the count of a node that is popped, so all its edges
\* were counted off, and their other ends are out.
LEMMA PopInv == TopoInv /\ Pop => TopoInv'
<1> SUFFICES ASSUME TopoInv, Pop PROVE TopoInv'
  OBVIOUS
<1> USE DEF TopoInv, Edges, From, To
<1> DEFINE n == queue[Len(queue)]
<1>1. /\ out' = Append(out, n) /\ queue' = SubSeq(queue, 1, Len(queue) - 1)
      /\ flow' = flow /\ pending' = pending /\ indeg' = indeg
      /\ queue # <<>>
      /\ flow \in Flows /\ pending \in SUBSET DOMAIN flow
      /\ queue \in Seq(NodesOf(flow)) /\ out \in Seq(NodesOf(flow))
  BY DEF Pop, TopoTypeOK
<1>2. /\ DOMAIN queue = 1..Len(queue) /\ Len(queue) \in Nat /\ Len(queue) # 0
      /\ DOMAIN queue' = 1..(Len(queue) - 1)
      /\ \A k \in 1..(Len(queue) - 1) : queue'[k] = queue[k]
      /\ queue' \in Seq(NodesOf(flow))
      /\ n \in NodesOf(flow)
  BY <1>1
<1>3. n \in Listed(queue)
  BY <1>2 DEF Listed
<1>4. indeg[n] = 0 /\ n \notin Listed(out)
  BY <1>2, <1>3 DEF QueuedAtZero, QueuedOnce
<1> HIDE DEF n
<1>5. Listed(out') = Listed(out) \union {n}
  BY <1>1, ListedFacts
<1>6. Listed(queue') = Listed(queue) \ {n}
  <2>1. \A k \in 1..(Len(queue) - 1) : queue[k] # n
    BY <1>2 DEF QueuedOnce, n
  <2>2. 1..Len(queue) = 1..(Len(queue) - 1) \union {Len(queue)}
    BY <1>2
  <2>3. queue[Len(queue)] = n
    BY DEF n
  <2> QED BY <1>2, <2>1, <2>2, <2>3 DEF Listed
<1>7. TopoTypeOK'
  BY <1>1, <1>2 DEF TopoTypeOK
<1>8. Counted'
  BY <1>1 DEF Counted
<1>9. CountedFromOut'
  BY <1>1, <1>5 DEF CountedFromOut
<1>10. QueuedAtZero'
  BY <1>1, <1>3, <1>5, <1>6 DEF QueuedAtZero
<1>11. QueuedOnce'
  <2>1. \A j, k \in DOMAIN queue' : queue'[j] = queue'[k] => j = k
    BY <1>2 DEF QueuedOnce
  <2>2. Listed(queue') \intersect Listed(out') = {}
    BY <1>5, <1>6 DEF QueuedOnce
  <2> QED BY <2>1, <2>2 DEF QueuedOnce
<1>12. \A e \in DOMAIN flow : flow[e][2] = n => flow[e][1] \in Listed(out)
  <2> SUFFICES ASSUME NEW e \in DOMAIN flow, flow[e][2] = n
               PROVE  e \notin pending
    BY DEF CountedFromOut
  <2>1. Into(flow, pending, n) = {}
    BY <1>1, <1>2, <1>4, IntoFacts DEF Counted
  <2> QED BY <2>1 DEF Into
<1>13. TopologicalOrder'
  <2>1. /\ DOMAIN out = 1..Len(out) /\ Len(out) \in Nat
        /\ DOMAIN out' = 1..(Len(out) + 1)
        /\ \A k \in 1..Len(out) : out'[k] = out[k]
        /\ out'[Len(out) + 1] = n
    BY <1>1, ListedFacts
  <2>2. \A k \in 1..(Len(out) + 1) : k \in 1..Len(out) \/ k = Len(out) + 1
    BY <2>1
  <2>3. \A k \in 1..Len(out) : out[k] # n
    BY <1>4, <2>1 DEF Listed
  <2>4. \A j, k \in 1..(Len(out) + 1) : out'[j] = out'[k] => j = k
    BY <2>1, <2>2, <2>3 DEF TopologicalOrder
  <2>5. ASSUME NEW e \in DOMAIN flow, NEW k \in 1..(Len(out) + 1), out'[k] = flow[e][2]
        PROVE  \E j \in 1..(k - 1) : out'[j] = flow[e][1]
    <3>1. CASE k \in 1..Len(out)
      <4>1. PICK j \in 1..(k - 1) : out[j] = flow[e][1]
        BY <2>1, <2>5, <3>1 DEF TopologicalOrder
      <4>2. j \in 1..Len(out)
        BY <2>1, <3>1
      <4> QED BY <2>1, <4>1, <4>2
    <3>2. CASE k = Len(out) + 1
      <4>1. flow[e][1] \in Listed(out)
        BY <1>12, <2>1, <2>5, <3>2
      <4>2. PICK j \in 1..Len(out) : out[j] = flow[e][1]
        BY <2>1, <4>1 DEF Listed
      <4>3. j \in 1..(k - 1)
        BY <2>1, <3>2
      <4> QED BY <2>1, <4>2, <4>3
    <3> QED BY <2>2, <3>1, <3>2
  <2>6. \A e \in DOMAIN flow : \A k \in DOMAIN out' :
            out'[k] = flow[e][2] => \E j \in 1..(k - 1) : out'[j] = flow[e][1]
    BY <2>1, <2>5
  <2>7. \A j, k \in DOMAIN out' : out'[j] = out'[k] => j = k
    BY <2>1, <2>4
  <2>8. DOMAIN flow' = DOMAIN flow /\ \A e : flow'[e] = flow[e]
    BY <1>1
  <2> HIDE DEF TopoInv
  <2> QED BY <2>6, <2>7, <2>8 DEF TopologicalOrder
<1> QED BY <1>7, <1>8, <1>9, <1>10, <1>11, <1>13

-----------------------------------------------------------------------------

LEMMA TopoStepInv == TopoInv /\ [Next]_vars => TopoInv'
<1> SUFFICES ASSUME TopoInv, [Next]_vars PROVE TopoInv'
  OBVIOUS
<1>1. CASE UNCHANGED topoVars
  BY <1>1 DEF topoVars, TopoInv, TopoTypeOK, Counted, CountedFromOut,
              QueuedAtZero, QueuedOnce, TopologicalOrder, Edges, From, To
<1>2. CASE Sort
  BY <1>2, CountOffInv, PopInv DEF Sort, TopoNext
<1>3. UNCHANGED topoVars \/ Sort
  BY DEF Next, NodeStep, BadArity, FirstIteration, BeginIteration, NoInput,
         EdgeSkip, Undefined, InputRejected, Abort, RunNode, AgentAnswers, AttemptFails,
         AgentFails, OtherReturns, OtherErr, OtherRaises, Converge, NotYet,
         Exhaust, Finish, Yield, vars
<1> QED BY <1>1, <1>2, <1>3

\* The invariant of topo_order, for every net.
THEOREM TopoInvariant == Spec => []TopoInv
<1>1. Init => TopoInv
  BY TopoInitInv DEF Init
<1> QED BY <1>1, TopoStepInv, PTL DEF Spec

\* Whatever the net, a node comes once and after all its predecessors.
THEOREM OrderRespectsEdges == Spec => []TopologicalOrder
<1>1. TopoInv => TopologicalOrder
  BY DEF TopoInv
<1> QED BY <1>1, TopoInvariant, PTL

\* Whatever the net, a node is left out only behind one that is left out: what
\* has no cycle among what leads to it is run.
THEOREM OnlyCyclesLeftOut == Spec => []LeftOutIsCyclic
<1>1. TopoInv => LeftOutIsCyclic
  <2> SUFFICES ASSUME TopoInv, Sorted, NEW x \in NodesOf(flow) \ Listed(out)
               PROVE  \E p \in Preds(x) : p \notin Listed(out)
    BY DEF LeftOutIsCyclic
  <2>1. flow \in Flows /\ pending \in SUBSET DOMAIN flow
    BY DEF TopoInv, TopoTypeOK, Edges
  <2>2. Listed(queue) = {}
    BY DEF Sorted, Listed
  <2>3. Cardinality(Into(flow, pending, x)) # 0
    BY <2>2 DEF TopoInv, QueuedAtZero, Counted
  <2>4. PICK e \in pending : flow[e][2] = x
    <3>1. Into(flow, pending, x) # {}
      BY <2>1, <2>3, IntoFacts
    <3> QED BY <3>1 DEF Into
  <2>5. From(e) \notin Listed(out)
    BY DEF Sorted, Open
  <2>6. From(e) \in Preds(x)
    BY <2>1, <2>4 DEF Preds, Edges, From, To
  <2> QED BY <2>5, <2>6
<1> QED BY <1>1, TopoInvariant, PTL

\* topo_order, whatever the net: in order, and complete but for cycles.
THEOREM TopologicalSort == Spec => []OrderIsRight
<1>1. TopologicalOrder /\ LeftOutIsCyclic => OrderIsRight
  BY DEF OrderIsRight
<1> QED BY <1>1, OrderRespectsEdges, OnlyCyclesLeftOut, PTL


-----------------------------------------------------------------------------
(* The walk.                                                               *)

InWalk == phase \in {"walk", "agent", "other"}

\* Where the interpreter is.
Position ==
    /\ phase \in {"call", "sort"} =>
          iter = 0 /\ pos = 1 /\ terminal = Nothing /\ calls = [x \in Node |-> 0]
    /\ InWalk => Sorted /\ iter >= 1
    /\ iter > 1 => until
    /\ phase # "done" => outcome = "none"
    /\ phase \in {"agent", "other"} => pos <= Len(out) /\ phase = Kind[node]
    /\ phase = "agent" => attempt <= Retries[node]

\* The nodes that this iteration is past.
Passed == {out[k] : k \in 1..(pos - 1)}

\* Calls of the model for each agent in this iteration are at most these.
Spent ==
    [x \in Node |-> IF x \in Passed THEN 1 + Retries[x]
                    ELSE IF phase = "agent" /\ x = node THEN attempt ELSE 0]

CallsCounted ==
    InWalk => \A x \in Node :
                  calls[x] <= (iter - 1) * (1 + Retries[x]) + Spent[x]

\* A value stored under a node is the input, or of this iteration and by the
\* node itself, which then is passed, or by one upstream of it.
StoredFromUpstream ==
    InWalk => \A x \in Node :
        \/ nodeOut[x] \in {Nothing, input}
        \/ /\ nodeOut[x].iter = iter
           /\ IsUpstream(flow, nodeOut[x].by, x) \/ (nodeOut[x].by = x /\ x \in Passed)

TerminalYielded ==
    terminal # Nothing => terminal.by \in Terminals /\ terminal.iter \in 1..iter

\* The part of HonestResult that does not speak of single nodes.
ResultInBounds ==
    /\ outcome = "ok" => terminal.by \in Terminals /\ terminal.iter \in 1..iter
    /\ outcome = "exhausted" => terminal = Nothing \/ (until /\ iter = MaxIterations)
    /\ outcome \in {"ok", "exhausted"} => pos = Len(out) + 1 /\ (iter = 1 \/ until)

NetInv ==
    /\ TypeOK
    /\ Position /\ CallsCounted /\ CallBudget
    /\ StoredFromUpstream /\ InputFromUpstream
    /\ TerminalYielded /\ ResultInBounds

Inductive == TopoInv /\ NetInv

LEMMA UpstreamFacts ==
    ASSUME NEW f \in Flows, NEW e \in DOMAIN f
    PROVE  /\ IsUpstream(f, f[e][1], f[e][2])
           /\ \A y : IsUpstream(f, y, f[e][1]) => IsUpstream(f, y, f[e][2])
<1> DEFINE before(z) == {f[d][1] : d \in Into(f, DOMAIN f, z)}
<1>1. f[e][1] \in before(f[e][2])
  BY DEF Into
<1>2. f[e][1] \in NodesOf(f)
  BY DEF NodesOf
<1> HIDE DEF before
<1>3. \A y, x : IsUpstream(f, y, x) <=>
          \A S \in SUBSET NodesOf(f) :
              before(x) \subseteq S /\ (\A z \in S : before(z) \subseteq S) => y \in S
  BY DEF IsUpstream, before
<1> QED BY <1>1, <1>2, <1>3

\* The walk is along a list of nodes, each once.
LEMMA WalkFacts ==
    ASSUME Inductive
    PROVE  /\ Len(out) \in Nat /\ DOMAIN out = 1..Len(out)
           /\ NodesOf(flow) \subseteq Node /\ flow \in Flows
           /\ \A k \in 1..Len(out) : out[k] \in NodesOf(flow)
           /\ pos \in 1..(Len(out) + 1)
           /\ pos <= Len(out) =>
                 /\ node \in NodesOf(flow) /\ node \in Node
                 /\ node \notin Passed
                 /\ {out[k] : k \in 1..((pos + 1) - 1)} = Passed \union {node}
<1>1. /\ flow \in Flows /\ out \in Seq(NodesOf(flow)) /\ pos \in 1..(Len(out) + 1)
  BY DEF Inductive, NetInv, TypeOK, TopoTypeOK
<1>2. /\ Len(out) \in Nat /\ DOMAIN out = 1..Len(out)
      /\ \A k \in 1..Len(out) : out[k] \in NodesOf(flow)
      /\ NodesOf(flow) \subseteq Node
  BY <1>1, FlowFacts
<1>3. ASSUME pos <= Len(out)
      PROVE  /\ node \in NodesOf(flow)
             /\ node \notin Passed
             /\ {out[k] : k \in 1..((pos + 1) - 1)} = Passed \union {node}
  <2>1. pos \in 1..Len(out) /\ node \in NodesOf(flow)
    BY <1>1, <1>2, <1>3 DEF node
  <2>2. \A k \in 1..(pos - 1) : out[k] # node
    BY <1>2, <2>1 DEF Inductive, TopoInv, TopologicalOrder, node
  <2>3. 1..((pos + 1) - 1) = 1..(pos - 1) \union {pos}
    BY <2>1
  <2> QED BY <2>1, <2>2, <2>3 DEF Passed, node
<1> QED BY <1>1, <1>2, <1>3

\* What a step that leaves the order alone leaves alone with it.
LEMMA SameOrder ==
    ASSUME UNCHANGED topoVars
    PROVE  /\ flow' = flow /\ out' = out
           /\ Sorted' = Sorted /\ Terminals' = Terminals /\ Entries' = Entries
           /\ TopoTypeOK' = TopoTypeOK
<1>1. flow' = flow /\ pending' = pending /\ indeg' = indeg /\ queue' = queue /\ out' = out
  BY DEF topoVars
<1>2. Sorted' = Sorted
  BY <1>1 DEF Sorted, Open, From
<1>3. Terminals' = Terminals /\ Entries' = Entries
  BY <1>1 DEF Terminals, Entries, Edges, From, To
<1>4. TopoTypeOK' = TopoTypeOK
  BY <1>1 DEF TopoTypeOK, Edges
<1> QED BY <1>1, <1>2, <1>3, <1>4

\* The arithmetic of an iteration.
LEMMA OneMoreIteration ==
    ASSUME NEW i \in Nat, NEW r \in Nat
    PROVE  /\ (i - 1) * (1 + r) + (1 + r) = i * (1 + r)
           /\ i * (1 + r) \in Nat
           /\ ((i + 1) - 1) * (1 + r) = i * (1 + r)
           /\ (i + 1) * (1 + r) = i * (1 + r) + (1 + r)
<1>1. (i - 1) * (1 + r) + (1 + r) = i * (1 + r)
  OBVIOUS
<1>2. ((i + 1) - 1) = i
  OBVIOUS
<1>3. (i + 1) * (1 + r) = i * (1 + r) + (1 + r)
  OBVIOUS
<1> QED BY <1>1, <1>2, <1>3

\* The budget follows from the count, of any iteration.
LEMMA BudgetFromCount ==
    ASSUME NEW i \in Nat, NEW c \in [Node -> Nat], NEW t,
           \A x \in Node : /\ t[x] \in Nat /\ t[x] <= 1 + Retries[x]
                           /\ c[x] <= (i - 1) * (1 + Retries[x]) + t[x]
    PROVE  \A x \in Node : c[x] <= i * (1 + Retries[x])
<1> SUFFICES ASSUME NEW x \in Node PROVE c[x] <= i * (1 + Retries[x])
  OBVIOUS
<1> DEFINE a == (i - 1) * (1 + Retries[x])
           b == i * (1 + Retries[x])
<1>1. Retries[x] \in Nat /\ c[x] \in Nat
  BY NetAssumption
<1>2. a \in Int
  BY <1>1
<1>2a. b = a + (1 + Retries[x])
  BY <1>1, OneMoreIteration
<1>3. c[x] <= a + t[x] /\ t[x] \in Nat /\ t[x] <= 1 + Retries[x]
  OBVIOUS
<1> HIDE DEF a, b
<1>4. c[x] <= b
  BY <1>1, <1>2, <1>2a, <1>3
<1> QED BY <1>4 DEF b

-----------------------------------------------------------------------------
(* The steps of the walk.                                                  *)

LEMMA InitInv == Init => Inductive
<1> SUFFICES ASSUME Init PROVE Inductive
  OBVIOUS
<1>1. TopoInv
  BY TopoInitInv DEF Init
<1>2. TypeOK
  <2>1. TopoTypeOK
    BY <1>1 DEF TopoInv
  <2>2. out = <<>> /\ Len(out) = 0
    BY DEF Init, TopoInit
  <2>3. input \in Values
    BY DEF Init, Values, MaxIterations
  <2> QED BY <2>1, <2>2, <2>3 DEF Init, TypeOK, Phases, Outcomes, MaxIterations
<1>3. CallBudget
  BY NetAssumption DEF Init, CallBudget
<1> QED BY <1>1, <1>2, <1>3 DEF Inductive, NetInv, Init, Position, CallsCounted,
           StoredFromUpstream, InputFromUpstream, TerminalYielded, ResultInBounds, InWalk

\* What the walk spends grows by at least one call for the node it passes.
LEMMA GoOnFacts ==
    ASSUME Inductive, InWalk, pos <= Len(out), UNCHANGED topoVars, GoOn
    PROVE  /\ Passed' = Passed \union {node}
           /\ pos' \in 1..(Len(out) + 1)
           /\ \A x \in Node : /\ Spent[x] \in Nat /\ Spent'[x] \in Nat
                              /\ Spent'[x] <= 1 + Retries[x]
                              /\ Spent[x] <= Spent'[x]
                              /\ x = node => Spent[x] + 1 <= Spent'[x]
<1>1. /\ out' = out /\ pos' = pos + 1 /\ phase' = "walk"
      /\ pos \in 1..(Len(out) + 1) /\ Len(out) \in Nat
      /\ node \in Node /\ node \notin Passed
      /\ {out[k] : k \in 1..((pos + 1) - 1)} = Passed \union {node}
  BY SameOrder, WalkFacts DEF GoOn
<1>2. Passed' = Passed \union {node}
  BY <1>1 DEF Passed
<1>3. /\ attempt \in Nat
      /\ phase = "agent" => attempt <= Retries[node]
      /\ \A x \in Node : Retries[x] \in Nat
  BY NetAssumption DEF Inductive, NetInv, TypeOK, Position
<1>4. \A x \in Node : Spent'[x] = IF x \in Passed \union {node} THEN 1 + Retries[x] ELSE 0
  BY <1>1, <1>2 DEF Spent
<1>5. \A x \in Node : Spent[x] = IF x \in Passed THEN 1 + Retries[x]
                                 ELSE IF phase = "agent" /\ x = node THEN attempt ELSE 0
  BY DEF Spent
<1> HIDE DEF Spent, Passed, node
<1>6. ASSUME NEW x \in Node
      PROVE  /\ Spent[x] \in Nat /\ Spent'[x] \in Nat
             /\ Spent'[x] <= 1 + Retries[x]
             /\ Spent[x] <= Spent'[x]
             /\ x = node => Spent[x] + 1 <= Spent'[x]
  <2>1. Retries[x] \in Nat /\ attempt \in Nat
    BY <1>3
  <2>2. CASE x = node
    <3>1. Spent'[x] = 1 + Retries[x]
      BY <1>4, <2>2
    <3>2. Spent[x] = IF phase = "agent" THEN attempt ELSE 0
      BY <1>1, <1>5, <2>2
    <3> QED BY <1>3, <2>1, <2>2, <3>1, <3>2
  <2>3. CASE x # node
    <3>1. Spent'[x] = Spent[x] /\ (Spent[x] = 1 + Retries[x] \/ Spent[x] = 0)
      BY <1>4, <1>5, <2>3
    <3> QED BY <2>1, <2>3, <3>1
  <2> QED BY <2>2, <2>3
<1> QED BY <1>1, <1>2, <1>6

\* Calls of the model stay within what is spent.
LEMMA CountedOn ==
    ASSUME Inductive, InWalk, iter' = iter,
           \A x \in Node : /\ Spent[x] \in Nat /\ Spent'[x] \in Nat
                           /\ calls'[x] \in Nat
                           /\ calls'[x] - calls[x] <= Spent'[x] - Spent[x]
    PROVE  CallsCounted'
<1> SUFFICES ASSUME NEW x \in Node
             PROVE  calls'[x] <= (iter - 1) * (1 + Retries[x]) + Spent'[x]
  BY DEF CallsCounted
<1>1. iter \in Nat /\ Retries[x] \in Nat /\ calls[x] \in Nat
  BY NetAssumption DEF Inductive, NetInv, TypeOK, MaxIterations
<1>2. calls[x] <= (iter - 1) * (1 + Retries[x]) + Spent[x]
  BY DEF Inductive, NetInv, CallsCounted
<1> DEFINE a == (iter - 1) * (1 + Retries[x])
<1>3. a \in Int
  BY <1>1
<1> HIDE DEF a
<1>4. calls[x] <= a + Spent[x]
  BY <1>2 DEF a
<1>5. calls'[x] <= a + Spent'[x]
  BY <1>1, <1>3, <1>4
<1> QED BY <1>5 DEF a

\* A node that is passed over, or whose run yields nothing.
LEMMA SkipInv ==
    ASSUME Inductive, phase \in {"walk", "other"}, pos <= Len(out), GoOn,
           failed' \subseteq Node,
           UNCHANGED <<topoVars, until, input, iter, nodeOut, given, attempt,
                       calls, terminal, outcome>>
    PROVE  NetInv'
<1> USE DEF NetInv, Inductive
<1>1. /\ phase' = "walk" /\ InWalk /\ out' = out /\ flow' = flow
      /\ Sorted' = Sorted /\ TopoTypeOK' = TopoTypeOK /\ Terminals' = Terminals
  BY SameOrder DEF GoOn, InWalk
<1>2. /\ Passed' = Passed \union {node} /\ pos' \in 1..(Len(out) + 1)
      /\ \A x \in Node : /\ Spent[x] \in Nat /\ Spent'[x] \in Nat
                         /\ Spent[x] <= Spent'[x]
  BY <1>1, GoOnFacts
<1>3. TypeOK'
  BY <1>1, <1>2 DEF TypeOK, Phases
<1>4. Position'
  BY <1>1 DEF Position, InWalk
<1>5. CallsCounted'
  <2>1. \A x \in Node : calls'[x] \in Nat /\ calls'[x] - calls[x] = 0
    BY DEF TypeOK
  <2> QED BY <1>1, <1>2, <2>1, CountedOn
<1>6. CallBudget'
  BY DEF CallBudget
<1>7. StoredFromUpstream'
  BY <1>1, <1>2 DEF StoredFromUpstream
<1>8. InputFromUpstream' /\ ResultInBounds'
  BY <1>1 DEF InputFromUpstream, ResultInBounds, Position, InWalk
<1>9. TerminalYielded'
  BY <1>1 DEF TerminalYielded
<1> QED BY <1>3, <1>4, <1>5, <1>6, <1>7, <1>8, <1>9

\* A node that yields a value of its own.
LEMMA YieldInv ==
    ASSUME Inductive, phase \in {"agent", "other"},
           NEW m \in Model \union {NoModel},
           Yield([by |-> node, iter |-> iter, model |-> m]),
           attempt' = attempt,
           calls' = calls \/ calls' = [calls EXCEPT ![node] = @ + 1]
    PROVE  NetInv'
<1> USE DEF NetInv, Inductive
<1> DEFINE v == [by |-> node, iter |-> iter, model |-> m]
<1>1. /\ InWalk /\ pos <= Len(out) /\ GoOn /\ UNCHANGED topoVars
      /\ UNCHANGED <<until, input, iter, given, failed, outcome>>
      /\ nodeOut' = [x \in Node |->
                       IF x = node \/ x \in Succs(node) THEN v ELSE nodeOut[x]]
      /\ terminal' = IF node \in Terminals THEN v ELSE terminal
  BY DEF Yield, InWalk, Position
<1>2. /\ phase' = "walk" /\ out' = out /\ flow' = flow
      /\ Sorted' = Sorted /\ TopoTypeOK' = TopoTypeOK /\ Terminals' = Terminals
  BY <1>1, SameOrder DEF GoOn
<1>3. /\ Passed' = Passed \union {node} /\ pos' \in 1..(Len(out) + 1)
      /\ \A x \in Node : /\ Spent[x] \in Nat /\ Spent'[x] \in Nat
                         /\ Spent'[x] <= 1 + Retries[x]
                         /\ Spent[x] <= Spent'[x]
                         /\ x = node => Spent[x] + 1 <= Spent'[x]
  BY <1>1, GoOnFacts
<1>4. /\ node \in Node /\ flow \in Flows /\ iter \in 1..MaxIterations
      /\ calls \in [Node -> Nat]
  BY <1>1, WalkFacts DEF TypeOK, Position, MaxIterations
<1>5. v \in Values /\ v.by = node /\ v.iter = iter /\ v # Nothing
  BY <1>4 DEF Values, Nothing, MaxIterations
<1>6. \A x \in Succs(node) : IsUpstream(flow, node, x)
  <2> SUFFICES ASSUME NEW e \in DOMAIN flow, flow[e][1] = node
               PROVE  IsUpstream(flow, node, flow[e][2])
    BY DEF Succs, Edges, From, To
  <2> QED BY <1>4, UpstreamFacts
<1> HIDE DEF v
<1>7. calls' \in [Node -> Nat] /\ \A x \in Node :
          calls'[x] - calls[x] = 0 \/ (x = node /\ calls'[x] - calls[x] = 1)
  <2>1. CASE calls' = calls
    BY <1>4, <2>1
  <2>2. CASE calls' = [calls EXCEPT ![node] = @ + 1]
    BY <1>4, <2>2
  <2> QED BY <2>1, <2>2
<1>8. TypeOK'
  <2>1. nodeOut' \in [Node -> Values \union {Nothing}] /\ terminal' \in Values \union {Nothing}
    BY <1>1, <1>5 DEF TypeOK
  <2> QED BY <1>1, <1>2, <1>3, <1>7, <2>1 DEF TypeOK, Phases
<1>9. Position'
  BY <1>1, <1>2 DEF Position, InWalk
<1>10. CallsCounted'
  <2>1. \A x \in Node : /\ calls'[x] \in Nat /\ calls[x] \in Nat
                        /\ calls'[x] - calls[x] <= Spent'[x] - Spent[x]
    BY <1>3, <1>4, <1>7
  <2> QED BY <1>1, <1>3, <2>1, CountedOn
<1>11. CallBudget'
  <2>1. InWalk' /\ iter' \in Nat
    BY <1>1, <1>2, <1>4 DEF InWalk
  <2>2. \A x \in Node : /\ Spent'[x] \in Nat /\ Spent'[x] <= 1 + Retries[x]
                        /\ calls'[x] <= (iter' - 1) * (1 + Retries[x]) + Spent'[x]
    BY <1>1, <1>3, <1>10, <2>1 DEF CallsCounted
  <2>3. \A x \in Node : calls'[x] <= iter' * (1 + Retries[x])
    BY <1>7, <2>1, <2>2, BudgetFromCount
  <2> QED BY <2>3 DEF CallBudget
<1>12. StoredFromUpstream'
  <2> SUFFICES ASSUME NEW x \in Node
               PROVE  \/ nodeOut'[x] \in {Nothing, input}
                      \/ /\ nodeOut'[x].iter = iter
                         /\ \/ IsUpstream(flow, nodeOut'[x].by, x)
                            \/ nodeOut'[x].by = x /\ x \in Passed \union {node}
    BY <1>1, <1>2, <1>3 DEF StoredFromUpstream
  <2>1. CASE x = node \/ x \in Succs(node)
    BY <1>1, <1>5, <1>6, <2>1
  <2>2. CASE ~(x = node \/ x \in Succs(node))
    <3>1. nodeOut'[x] = nodeOut[x]
      BY <1>1, <2>2
    <3> QED BY <1>1, <3>1 DEF StoredFromUpstream
  <2> QED BY <2>1, <2>2
<1>13. InputFromUpstream' /\ ResultInBounds'
  BY <1>1, <1>2 DEF InputFromUpstream, ResultInBounds, Position
<1>14. TerminalYielded'
  BY <1>1, <1>2, <1>4, <1>5 DEF TerminalYielded
<1> QED BY <1>8, <1>9, <1>10, <1>11, <1>12, <1>13, <1>14

LEMMA RunNodeInv == Inductive /\ RunNode => NetInv'
<1> SUFFICES ASSUME Inductive, RunNode PROVE NetInv'
  OBVIOUS
<1> USE DEF NetInv, Inductive
<1>1. PICK v \in Offered : given' = v
  BY DEF RunNode
<1>2. /\ phase = "walk" /\ pos <= Len(out) /\ Kind[node] # "undefined"
      /\ phase' = Kind[node] /\ attempt' = 0
      /\ UNCHANGED topoVars
      /\ UNCHANGED <<until, input, iter, pos, nodeOut, calls, failed, terminal, outcome>>
  BY DEF RunNode, AtNode
<1>3. /\ out' = out /\ flow' = flow /\ Sorted' = Sorted
      /\ TopoTypeOK' = TopoTypeOK /\ Terminals' = Terminals /\ node' = node
  BY <1>2, SameOrder DEF node
<1>4. /\ node \in Node /\ node \notin Passed /\ flow \in Flows
      /\ NodesOf(flow) \subseteq Node
  BY <1>2, WalkFacts
<1>5. phase' \in {"agent", "other"} /\ Kind[node] = phase'
  BY <1>2, <1>4, NetAssumption
<1>6. /\ nodeOut \in [Node -> Values \union {Nothing}]
      /\ v # Nothing
      /\ v = nodeOut[node] \/ \E e \in DOMAIN flow : flow[e][2] = node /\ v = nodeOut[flow[e][1]]
  <2>1. nodeOut \in [Node -> Values \union {Nothing}]
    BY DEF TypeOK
  <2>2. v \in IF nodeOut[node] # Nothing THEN {nodeOut[node]}
              ELSE {nodeOut[p] : p \in Preds(node)} \ {Nothing}
    BY <1>1 DEF Offered
  <2>3. \A p \in Preds(node) : \E e \in DOMAIN flow : flow[e][2] = node /\ p = flow[e][1]
    BY DEF Preds, From, To, Edges
  <2> HIDE DEF node
  <2> QED BY <2>1, <2>2, <2>3
<1>7. \A e \in DOMAIN flow : flow[e][1] \in Node
  BY <1>4, FlowFacts
<1>8. InWalk /\ StoredFromUpstream
  BY <1>2 DEF InWalk
<1>9. InputFromUpstream'
  <2>1. CASE v = nodeOut[node]
    <3>1. v = input \/ (v.iter = iter /\ IsUpstream(flow, v.by, node))
      BY <1>4, <1>6, <1>8, <2>1 DEF StoredFromUpstream
    <3> QED BY <1>1, <1>2, <1>3, <3>1 DEF InputFromUpstream
  <2>2. ASSUME NEW e \in DOMAIN flow, flow[e][2] = node, v = nodeOut[flow[e][1]]
        PROVE  InputFromUpstream'
    <3>1. \/ v = input
          \/ v.iter = iter /\ (IsUpstream(flow, v.by, flow[e][1]) \/ v.by = flow[e][1])
      BY <1>6, <1>7, <1>8, <2>2 DEF StoredFromUpstream
    <3>2. /\ IsUpstream(flow, flow[e][1], node)
          /\ IsUpstream(flow, v.by, flow[e][1]) => IsUpstream(flow, v.by, node)
      BY <1>4, <2>2, UpstreamFacts
    <3>3. v = input \/ (v.iter = iter /\ IsUpstream(flow, v.by, node))
      BY <3>1, <3>2
    <3> QED BY <1>1, <1>2, <1>3, <3>3 DEF InputFromUpstream
  <2> QED BY <1>6, <2>1, <2>2
<1>10. Passed' = Passed
  BY <1>2, <1>3 DEF Passed
<1>11. \A x \in Node : Spent'[x] = Spent[x]
  BY <1>2, <1>3, <1>10 DEF Spent
<1>12. TypeOK'
  <2>1. given' \in Values
    BY <1>1, <1>4, <1>6, <1>7
  <2> QED BY <1>2, <1>3, <1>5, <2>1 DEF TypeOK, Phases
<1>13. Position'
  BY <1>2, <1>3, <1>5, NetAssumption, <1>4 DEF Position, InWalk
<1>14. CallsCounted' /\ CallBudget' /\ StoredFromUpstream'
  BY <1>2, <1>3, <1>8, <1>10, <1>11 DEF CallsCounted, CallBudget, StoredFromUpstream
<1>15. TerminalYielded' /\ ResultInBounds'
  BY <1>2, <1>3, <1>5 DEF TerminalYielded, ResultInBounds, Position
<1> QED BY <1>9, <1>12, <1>13, <1>14, <1>15

LEMMA AttemptFailsInv == Inductive /\ AttemptFails => NetInv'
<1> SUFFICES ASSUME Inductive, AttemptFails PROVE NetInv'
  OBVIOUS
<1> USE DEF NetInv, Inductive
<1>1. /\ phase = "agent" /\ calls' = [calls EXCEPT ![node] = @ + 1]
      /\ attempt < Retries[node] /\ attempt' = attempt + 1
      /\ UNCHANGED topoVars
      /\ UNCHANGED <<phase, until, input, iter, pos, nodeOut, given, failed, terminal, outcome>>
  BY DEF AttemptFails, CallModel
<1>2. /\ InWalk /\ pos <= Len(out) /\ iter \in 1..MaxIterations
  BY <1>1 DEF InWalk, Position, TypeOK, MaxIterations
<1>3. /\ out' = out /\ flow' = flow /\ Sorted' = Sorted
      /\ TopoTypeOK' = TopoTypeOK /\ Terminals' = Terminals /\ node' = node
  BY <1>1, SameOrder DEF node
<1>4. node \in Node /\ node \notin Passed
  BY <1>2, WalkFacts
<1>5. Passed' = Passed
  BY <1>1, <1>3 DEF Passed
<1>6. /\ attempt \in Nat /\ calls \in [Node -> Nat] /\ iter \in Nat
      /\ \A x \in Node : Retries[x] \in Nat
  BY NetAssumption DEF TypeOK, MaxIterations
<1>7. \A x \in Node : /\ Spent[x] \in Nat /\ Spent'[x] \in Nat
                      /\ Spent'[x] <= 1 + Retries[x]
                      /\ Spent'[x] - Spent[x] = IF x = node THEN 1 ELSE 0
  <2>1. \A x \in Node : Spent[x] = IF x \in Passed THEN 1 + Retries[x]
                                   ELSE IF x = node THEN attempt ELSE 0
    BY <1>1 DEF Spent
  <2>2. \A x \in Node : Spent'[x] = IF x \in Passed THEN 1 + Retries[x]
                                    ELSE IF x = node THEN attempt + 1 ELSE 0
    BY <1>1, <1>3, <1>5 DEF Spent
  <2> HIDE DEF Spent, Passed, node
  <2>3. SUFFICES ASSUME NEW x \in Node
                 PROVE  /\ Spent[x] \in Nat /\ Spent'[x] \in Nat
                        /\ Spent'[x] <= 1 + Retries[x]
                        /\ Spent'[x] - Spent[x] = IF x = node THEN 1 ELSE 0
    OBVIOUS
  <2>4. Retries[x] \in Nat
    BY <1>6
  <2>5. CASE x = node
    <3>1. Spent[x] = attempt /\ Spent'[x] = attempt + 1
      BY <1>4, <2>1, <2>2, <2>5
    <3> QED BY <1>1, <1>6, <2>5, <3>1
  <2>6. CASE x # node
    <3>1. Spent'[x] = Spent[x] /\ (Spent[x] = 1 + Retries[x] \/ Spent[x] = 0)
      BY <2>1, <2>2, <2>6
    <3> QED BY <2>4, <2>6, <3>1
  <2> QED BY <2>5, <2>6
<1>8. calls' \in [Node -> Nat] /\ \A x \in Node :
          calls'[x] - calls[x] = IF x = node THEN 1 ELSE 0
  BY <1>1, <1>4, <1>6
<1>9. TypeOK'
  BY <1>1, <1>3, <1>6, <1>8 DEF TypeOK
<1>10. Position'
  BY <1>1, <1>3, <1>4, <1>6 DEF Position, InWalk
<1>11. CallsCounted'
  BY <1>1, <1>2, <1>7, <1>8, CountedOn
<1>12. CallBudget'
  <2>1. InWalk'
    BY <1>1 DEF InWalk
  <2>2. \A x \in Node : /\ Spent'[x] \in Nat /\ Spent'[x] <= 1 + Retries[x]
                        /\ calls'[x] <= (iter' - 1) * (1 + Retries[x]) + Spent'[x]
    BY <1>7, <1>11, <2>1 DEF CallsCounted
  <2>3. \A x \in Node : calls'[x] <= iter' * (1 + Retries[x])
    BY <1>1, <1>6, <1>8, <2>2, BudgetFromCount
  <2> QED BY <2>3 DEF CallBudget
<1>13. StoredFromUpstream' /\ InputFromUpstream'
  BY <1>1, <1>2, <1>3, <1>5 DEF StoredFromUpstream, InputFromUpstream
<1>14. TerminalYielded' /\ ResultInBounds'
  BY <1>1, <1>3 DEF TerminalYielded, ResultInBounds, Position
<1> QED BY <1>9, <1>10, <1>11, <1>12, <1>13, <1>14

\* An error that leaves the net, after a call of the model or without one.
LEMMA AbortInv ==
    ASSUME Inductive, InWalk, pos <= Len(out), Abort, attempt' = attempt,
           \/ calls' = calls
           \/ phase = "agent" /\ calls' = [calls EXCEPT ![node] = @ + 1]
    PROVE  NetInv'
<1> USE DEF NetInv, Inductive
<1>1. /\ phase' = "done" /\ outcome' = "raised" /\ UNCHANGED topoVars
      /\ UNCHANGED <<until, input, iter, pos, nodeOut, given, terminal, failed>>
  BY DEF Abort
<1>2. out' = out /\ TopoTypeOK' = TopoTypeOK /\ Terminals' = Terminals
  BY <1>1, SameOrder
<1>3. /\ node \in Node /\ node \notin Passed
      /\ attempt \in Nat /\ calls \in [Node -> Nat] /\ iter \in Nat
      /\ \A x \in Node : Retries[x] \in Nat
      /\ phase = "agent" => attempt <= Retries[node]
  BY WalkFacts, NetAssumption DEF TypeOK, MaxIterations, Position
<1>4. calls' \in [Node -> Nat]
  BY <1>3
<1>5. CallBudget'
  <2>1. CASE calls' = calls
    BY <1>1, <2>1 DEF CallBudget
  <2>2. CASE phase = "agent" /\ calls' = [calls EXCEPT ![node] = @ + 1]
    <3> DEFINE t == [x \in Node |-> IF x = node THEN 1 + Retries[x] ELSE Spent[x]]
    <3>1. ASSUME NEW x \in Node
          PROVE  /\ t[x] \in Nat /\ t[x] <= 1 + Retries[x]
                 /\ calls'[x] <= (iter - 1) * (1 + Retries[x]) + t[x]
      <4> DEFINE a == (iter - 1) * (1 + Retries[x])
      <4>1. a \in Int /\ calls[x] \in Nat /\ Retries[x] \in Nat
        BY <1>3
      <4>2. calls[x] <= a + Spent[x]
        BY DEF CallsCounted
      <4> HIDE DEF a
      <4>3. CASE x = node
        <5>1. Spent[x] = attempt /\ calls'[x] = calls[x] + 1
          BY <1>3, <2>2, <4>3 DEF Spent
        <5>2. calls'[x] <= a + (1 + Retries[x])
          BY <1>3, <2>2, <4>1, <4>2, <4>3, <5>1
        <5> QED BY <4>1, <4>3, <5>2 DEF a
      <4>4. CASE x # node
        <5>1. calls'[x] = calls[x] /\ t[x] = Spent[x]
          BY <1>3, <2>2, <4>4
        <5>2. Spent[x] = 1 + Retries[x] \/ Spent[x] = 0
          BY <4>4 DEF Spent
        <5>3. calls'[x] <= a + t[x] /\ t[x] \in Nat /\ t[x] <= 1 + Retries[x]
          BY <4>1, <4>2, <5>1, <5>2
        <5> QED BY <5>3 DEF a
      <4> QED BY <4>3, <4>4
    <3> HIDE DEF t
    <3>2. \A x \in Node : calls'[x] <= iter * (1 + Retries[x])
      BY <1>3, <1>4, <3>1, BudgetFromCount
    <3> QED BY <1>1, <3>2 DEF CallBudget
  <2> QED BY <2>1, <2>2
<1>6. TypeOK'
  BY <1>1, <1>2, <1>4 DEF TypeOK, Phases, Outcomes
<1>7. Position'
  BY <1>1 DEF Position, InWalk
<1>8. CallsCounted' /\ StoredFromUpstream' /\ InputFromUpstream' /\ ResultInBounds'
  BY <1>1 DEF CallsCounted, StoredFromUpstream, InputFromUpstream, ResultInBounds, InWalk
<1>9. TerminalYielded'
  BY <1>1, <1>2 DEF TerminalYielded
<1> QED BY <1>5, <1>6, <1>7, <1>8, <1>9

\* A new iteration: nothing is stored but the input, nothing is spent.
LEMMA BeginInv ==
    ASSUME Inductive, BeginIteration, UNCHANGED outcome,
           \/ FirstIteration
           \/ phase = "walk" /\ pos > Len(out) /\ until /\ iter < MaxIterations
    PROVE  NetInv'
<1> USE DEF NetInv, Inductive
<1>1. /\ iter' = iter + 1 /\ pos' = 1 /\ phase' = "walk"
      /\ nodeOut' = [x \in Node |-> IF x \in Entries THEN input ELSE Nothing]
      /\ failed' = {} /\ UNCHANGED topoVars
      /\ UNCHANGED <<until, input, given, attempt, calls, terminal, outcome>>
  BY DEF BeginIteration
<1>2. /\ out' = out /\ flow' = flow /\ Sorted' = Sorted
      /\ TopoTypeOK' = TopoTypeOK /\ Terminals' = Terminals
  BY <1>1, SameOrder
<1>3. /\ iter \in Nat /\ iter < MaxIterations /\ Sorted /\ outcome = "none"
      /\ iter >= 1 => until
      /\ Len(out) \in Nat
  BY WalkFacts DEF FirstIteration, Position, InWalk, TypeOK, MaxIterations
<1>4. /\ calls \in [Node -> Nat] /\ \A x \in Node : Retries[x] \in Nat
  BY NetAssumption DEF TypeOK
<1>5. \A x \in Node : calls[x] <= iter * (1 + Retries[x])
  BY DEF CallBudget
<1>6. Passed' = {}
  BY <1>1 DEF Passed
<1>7. \A x \in Node : Spent'[x] = 0
  BY <1>1, <1>6 DEF Spent
<1>8. TypeOK'
  BY <1>1, <1>2, <1>3 DEF TypeOK, Phases, MaxIterations
<1>9. Position'
  BY <1>1, <1>2, <1>3 DEF Position, InWalk
<1>10. CallsCounted'
  <2> SUFFICES ASSUME NEW x \in Node
               PROVE  calls[x] <= ((iter + 1) - 1) * (1 + Retries[x]) + 0
    BY <1>1, <1>7 DEF CallsCounted
  <2> DEFINE b == iter * (1 + Retries[x])
  <2>1. ((iter + 1) - 1) * (1 + Retries[x]) = b /\ b \in Nat /\ calls[x] <= b
    BY <1>3, <1>4, <1>5, OneMoreIteration
  <2> HIDE DEF b
  <2> QED BY <2>1
<1>11. CallBudget'
  <2> SUFFICES ASSUME NEW x \in Node PROVE calls[x] <= (iter + 1) * (1 + Retries[x])
    BY <1>1 DEF CallBudget
  <2> DEFINE b == iter * (1 + Retries[x])
  <2>1. b \in Nat /\ calls[x] <= b /\ calls[x] \in Nat /\ Retries[x] \in Nat
    BY <1>3, <1>4, <1>5, OneMoreIteration
  <2>2. (iter + 1) * (1 + Retries[x]) = b + (1 + Retries[x])
    BY <1>3, <2>1, OneMoreIteration
  <2> HIDE DEF b
  <2> QED BY <2>1, <2>2
<1>12. StoredFromUpstream' /\ InputFromUpstream'
  BY <1>1, <1>2 DEF StoredFromUpstream, InputFromUpstream
<1>13. TerminalYielded'
  BY <1>1, <1>2, <1>3 DEF TerminalYielded
<1>14. ResultInBounds'
  BY <1>1, <1>3 DEF ResultInBounds
<1> QED BY <1>8, <1>9, <1>10, <1>11, <1>12, <1>13, <1>14

\* The end of the invocation.
LEMMA FinishInv ==
    ASSUME Inductive, WalkedAll, NEW c \in BOOLEAN, Finish(c),
           c = FALSE => until /\ iter = MaxIterations
    PROVE  NetInv'
<1> USE DEF NetInv, Inductive
<1>1. /\ phase = "walk" /\ pos > Len(out) /\ phase' = "done"
      /\ outcome' = IF c /\ terminal # Nothing THEN "ok" ELSE "exhausted"
      /\ UNCHANGED topoVars
      /\ UNCHANGED <<until, input, iter, pos, nodeOut, given, attempt, calls,
                     failed, terminal>>
  BY DEF WalkedAll, Finish
<1>2. /\ out' = out /\ TopoTypeOK' = TopoTypeOK /\ Terminals' = Terminals
      /\ Len(out) \in Nat /\ pos \in 1..(Len(out) + 1)
  BY <1>1, SameOrder, WalkFacts
<1>3. iter \in Nat /\ iter >= 1 /\ (iter > 1 => until)
  BY <1>1 DEF Position, InWalk, TypeOK
<1>4. TypeOK'
  BY <1>1, <1>2 DEF TypeOK, Phases, Outcomes
<1>5. Position'
  BY <1>1 DEF Position, InWalk
<1>6. CallsCounted' /\ StoredFromUpstream' /\ InputFromUpstream'
  BY <1>1 DEF CallsCounted, StoredFromUpstream, InputFromUpstream, InWalk
<1>7. CallBudget'
  BY <1>1 DEF CallBudget
<1>8. TerminalYielded'
  BY <1>1, <1>2 DEF TerminalYielded
<1>9. ResultInBounds'
  <2>1. pos = Len(out) + 1
    BY <1>1, <1>2
  <2>2. c \in BOOLEAN /\ (~c => until /\ iter = MaxIterations)
    OBVIOUS
  <2>3. terminal # Nothing => terminal.by \in Terminals /\ terminal.iter \in 1..iter
    BY DEF TerminalYielded
  <2>4. iter = 1 \/ until
    BY <1>3
  <2>5. /\ outcome' = "ok" => terminal # Nothing
        /\ outcome' = "exhausted" => ~c \/ terminal = Nothing
    BY <1>1
  <2> QED BY <1>1, <1>2, <2>1, <2>2, <2>3, <2>4, <2>5 DEF ResultInBounds
<1> QED BY <1>4, <1>5, <1>6, <1>7, <1>8, <1>9

\* Before the walk: the arity is wrong, or the order is computed.
LEMMA BeforeWalkInv ==
    ASSUME Inductive, TopoInv', BadArity \/ Sort
    PROVE  NetInv'
<1> USE DEF NetInv, Inductive
<1>1. /\ phase \in {"call", "sort"} /\ phase' \in {"sort", "done"}
      /\ outcome' \in {"none", "raised"} /\ (phase' # "done" => outcome' = "none")
      /\ UNCHANGED <<until, input, iter, pos, nodeOut, given, attempt, calls,
                     failed, terminal>>
  BY DEF BadArity, Sort, Position
<1>2. /\ iter = 0 /\ pos = 1 /\ terminal = Nothing /\ calls = [x \in Node |-> 0]
  BY <1>1 DEF Position
<1>3. TopoTypeOK' /\ Len(out') \in Nat
  BY DEF TopoInv, TopoTypeOK
<1>4. TypeOK'
  BY <1>1, <1>2, <1>3 DEF TypeOK, Phases, Outcomes
<1>5. Position'
  BY <1>1, <1>2 DEF Position, InWalk
<1>6. CallsCounted' /\ StoredFromUpstream' /\ InputFromUpstream'
  BY <1>1 DEF CallsCounted, StoredFromUpstream, InputFromUpstream, InWalk
<1>7. CallBudget'
  BY <1>1 DEF CallBudget
<1>8. TerminalYielded' /\ ResultInBounds'
  BY <1>1, <1>2 DEF TerminalYielded, ResultInBounds
<1> QED BY <1>4, <1>5, <1>6, <1>7, <1>8

-----------------------------------------------------------------------------

LEMMA StepInv == Inductive /\ [Next]_vars => Inductive'
<1> SUFFICES ASSUME Inductive, [Next]_vars PROVE Inductive'
  OBVIOUS
<1>1. TopoInv'
  BY TopoStepInv DEF Inductive
<1> SUFFICES NetInv'
  BY <1>1 DEF Inductive
<1>2. CASE BadArity \/ Sort
  BY <1>1, <1>2, BeforeWalkInv
<1>3. CASE FirstIteration
  BY <1>3, BeginInv DEF FirstIteration, BeginIteration
<1>4. CASE NoInput \/ EdgeSkip
  BY <1>4, SkipInv DEF NoInput, EdgeSkip, AtNode, Inductive, NetInv, TypeOK
<1>5. CASE Undefined \/ InputRejected \/ OtherRaises
  BY <1>5, AbortInv DEF Undefined, InputRejected, OtherRaises, AtNode, InWalk, Inductive, NetInv, Position
<1>6. CASE RunNode
  BY <1>6, RunNodeInv
<1>7. CASE AgentAnswers
  <2>1. /\ phase = "agent" /\ attempt' = attempt
        /\ calls' = [calls EXCEPT ![node] = @ + 1]
        /\ Yield([by |-> node, iter |-> iter, model |-> Produce[node]])
    BY <1>7 DEF AgentAnswers, CallModel
  <2>2. node \in Node
    BY <2>1, WalkFacts DEF Inductive, NetInv, Position
  <2>3. Produce[node] \in Model \union {NoModel}
    BY <2>2, NetAssumption
  <2> QED BY <2>1, <2>3, YieldInv
<1>8. CASE AttemptFails
  BY <1>8, AttemptFailsInv
<1>9. CASE AgentFails
  BY <1>9, AbortInv DEF AgentFails, CallModel, InWalk, Inductive, NetInv, Position
<1>10. CASE OtherReturns
  BY <1>10, YieldInv DEF OtherReturns
<1>11. CASE OtherErr
  <2>1. phase = "other" /\ pos <= Len(out)
    BY <1>11 DEF OtherErr, Inductive, NetInv, Position
  <2>2. failed' \subseteq Node
    BY <1>11, <2>1, WalkFacts DEF OtherErr, Inductive, NetInv, TypeOK
  <2> QED BY <1>11, <2>1, <2>2, SkipInv DEF OtherErr
<1>12. CASE Converge
  BY <1>12, FinishInv DEF Converge
<1>13. CASE NotYet
  BY <1>13, BeginInv DEF NotYet, WalkedAll, BeginIteration
<1>14. CASE Exhaust
  BY <1>14, FinishInv DEF Exhaust
<1>15. CASE UNCHANGED vars
  <2>1. /\ UNCHANGED topoVars
        /\ UNCHANGED <<phase, until, input, iter, pos, nodeOut, given, attempt, calls,
                       failed, terminal, outcome>>
    BY <1>15 DEF vars, netVars
  <2>2. /\ out' = out /\ flow' = flow /\ Sorted' = Sorted
        /\ TopoTypeOK' = TopoTypeOK /\ Terminals' = Terminals
    BY <2>1, SameOrder
  <2> QED BY <2>1, <2>2 DEF Inductive, NetInv, TypeOK, Position, CallsCounted,
            CallBudget, StoredFromUpstream, InputFromUpstream, TerminalYielded,
            ResultInBounds, InWalk, Passed, Spent, node
<1> QED BY <1>2, <1>3, <1>4, <1>5, <1>6, <1>7, <1>8, <1>9, <1>10, <1>11, <1>12,
           <1>13, <1>14, <1>15 DEF Next, NodeStep

\* The inductive invariant of an invocation of an agent_net, for every net,
\* every kind of node and any number of retries.
THEOREM InductiveInvariant == Spec => []Inductive
BY InitInv, StepInv, PTL DEF Spec

\* Every state of an invocation is well typed.
THEOREM TypeCorrect == Spec => []TypeOK
<1>1. Inductive => TypeOK
  BY DEF Inductive, NetInv
<1> QED BY <1>1, InductiveInvariant, PTL

\* A node that runs is given the input or a value that was made upstream of it
\* in this iteration.
THEOREM InputComesFromUpstream == Spec => []InputFromUpstream
<1>1. Inductive => InputFromUpstream
  BY DEF Inductive, NetInv
<1> QED BY <1>1, InductiveInvariant, PTL

\* The model is called at most 1 + retries times for an agent per iteration.
THEOREM CallsAreBounded == Spec => []CallBudget
<1>1. Inductive => CallBudget
  BY DEF Inductive, NetInv
<1> QED BY <1>1, InductiveInvariant, PTL

-----------------------------------------------------------------------------
(* What a net returns.                                                     *)

\* A node that this iteration has not come to has nothing of its own stored.
AheadIsEmpty == \A k \in pos..Len(out) : nodeOut[out[k]].by # out[k]

\* The input is of no node, and nothing is stored before the walk.
StoredInWalk ==
    /\ input.by = Outside
    /\ phase \in {"call", "sort"} => nodeOut = [x \in Node |-> Nothing]

LastInv == StoredInWalk /\ AheadIsEmpty /\ ValueIsLast

LEMMA LastInit == Init => LastInv
<1> SUFFICES ASSUME Init PROVE LastInv
  OBVIOUS
<1>1. \A x \in Node : nodeOut[x] = Nothing /\ Nothing.by = Outside
  BY DEF Init, Nothing
<1>2. out = <<>> /\ pos = 1 /\ iter = 0 /\ terminal = Nothing
  BY DEF Init, TopoInit
<1>3. Len(out) = 0 /\ terminal.iter # iter
  BY <1>2 DEF Nothing, MaxIterations
<1>4. StoredInWalk
  BY DEF Init, StoredInWalk
<1> QED BY <1>2, <1>3, <1>4 DEF LastInv, AheadIsEmpty, ValueIsLast

OutOfNodes == \A k \in 1..Len(out) : out[k] \in Node

LEMMA ListsNodes == Inductive => OutOfNodes
BY WalkFacts DEF OutOfNodes

\* The order grows before the walk, while nothing is stored.
LEMMA LastBeforeWalk ==
    ASSUME Inductive, Inductive', LastInv, BadArity \/ Sort
    PROVE  LastInv'
<1>1. /\ UNCHANGED <<nodeOut, terminal, iter, pos, input>> /\ phase \in {"call", "sort"}
      /\ nodeOut = [x \in Node |-> Nothing]
  BY DEF BadArity, Sort, LastInv, StoredInWalk
<1>2. terminal = Nothing /\ iter = 0
  BY <1>1 DEF Inductive, NetInv, Position
<1>3. \A k \in 1..Len(out') : out'[k] \in Node
  <2>1. OutOfNodes'
    BY ListsNodes, PTL
  <2> QED BY <2>1 DEF OutOfNodes
<1>4. pos' = pos /\ pos = 1
  BY <1>1 DEF BadArity, Sort, Inductive, NetInv, Position
<1>5. Nothing.by \notin Node /\ Nothing.iter # 0
  BY NetAssumption DEF Nothing, MaxIterations
<1>6. \A k \in 1..Len(out') : nodeOut'[out'[k]] = Nothing
  BY <1>1, <1>3
<1>7. \A k \in 1..Len(out') : nodeOut'[out'[k]].by # out'[k]
  BY <1>3, <1>5, <1>6
<1> QED BY <1>1, <1>2, <1>4, <1>5, <1>7
        DEF LastInv, StoredInWalk, AheadIsEmpty, ValueIsLast, LastYield, YieldedNow

\* An iteration begins with nothing yielded in it.
LEMMA LastBegin ==
    ASSUME Inductive, Inductive', LastInv, BeginIteration
    PROVE  LastInv'
<1>1. /\ iter' = iter + 1 /\ pos' = 1 /\ UNCHANGED topoVars /\ terminal' = terminal
      /\ nodeOut' = [x \in Node |-> IF x \in Entries THEN input ELSE Nothing]
  BY DEF BeginIteration
<1>2. out' = out /\ Len(out) \in Nat /\ \A k \in 1..Len(out) : out[k] \in Node
  BY <1>1, SameOrder, WalkFacts
<1>3. iter \in 0..MaxIterations /\ (terminal # Nothing => terminal.iter \in 1..iter)
  BY DEF Inductive, NetInv, TypeOK, TerminalYielded
<1>4. input.by = Outside /\ Outside \notin Node /\ Nothing.by = Outside
  BY NetAssumption DEF Nothing, LastInv, StoredInWalk
<1>5. \A k \in 1..Len(out) : nodeOut'[out[k]].by # out[k]
  BY <1>1, <1>2, <1>4
<1>6. terminal.iter # iter + 1
  <2>1. CASE terminal = Nothing
    <3>1. iter' \in 0..MaxIterations
      BY DEF Inductive, NetInv, TypeOK
    <3> QED BY <1>1, <2>1, <3>1 DEF Nothing, MaxIterations
  <2>2. CASE terminal # Nothing
    BY <1>3, <2>2 DEF MaxIterations
  <2> QED BY <2>1, <2>2
<1>7. StoredInWalk'
  BY <1>4 DEF StoredInWalk, BeginIteration
<1> QED BY <1>1, <1>2, <1>5, <1>6, <1>7
        DEF LastInv, AheadIsEmpty, ValueIsLast, LastYield, YieldedNow

\* A node yields: what the others stored of their own stays as it was.
LEMMA LastYields ==
    ASSUME Inductive, LastInv, phase \in {"agent", "other"},
           NEW m \in Model \union {NoModel},
           Yield([by |-> node, iter |-> iter, model |-> m])
    PROVE  LastInv'
<1> DEFINE v == [by |-> node, iter |-> iter, model |-> m]
<1>1. /\ pos <= Len(out) /\ pos' = pos + 1 /\ phase' = "walk"
      /\ UNCHANGED topoVars /\ iter' = iter /\ input' = input
      /\ nodeOut' = [x \in Node |->
                       IF x = node \/ x \in Succs(node) THEN v ELSE nodeOut[x]]
      /\ terminal' = IF node \in Terminals THEN v ELSE terminal
  BY DEF Yield, GoOn, Inductive, NetInv, Position
<1>2. /\ out' = out /\ Terminals' = Terminals
      /\ Len(out) \in Nat /\ DOMAIN out = 1..Len(out) /\ pos \in 1..Len(out)
      /\ \A k \in 1..Len(out) : out[k] \in Node
      /\ node = out[pos] /\ v.by = node /\ v.iter = iter
  BY <1>1, SameOrder, WalkFacts DEF node
<1>3. /\ \A j, k \in DOMAIN out : out[j] = out[k] => j = k
      /\ \A e \in Edges : \A k \in DOMAIN out :
            out[k] = To(e) => \E j \in 1..(k - 1) : out[j] = From(e)
  BY DEF Inductive, TopoInv, TopologicalOrder
<1> HIDE DEF v, node
<1>4. \A k \in 1..Len(out) : k # pos => out[k] # node
  BY <1>2, <1>3
<1>5. ASSUME NEW k \in 1..(pos - 1)
      PROVE  nodeOut'[out[k]] = nodeOut[out[k]]
  <2>1. k \in 1..Len(out) /\ out[k] \in Node /\ out[k] # node
    BY <1>2, <1>4
  <2>2. out[k] \notin Succs(node)
    <3>1. SUFFICES ASSUME out[k] \in Succs(node) PROVE FALSE
      OBVIOUS
    <3>2. PICK e \in Edges : From(e) = node /\ To(e) = out[k]
      BY <3>1 DEF Succs
    <3>3. PICK j \in 1..(k - 1) : out[j] = node
      BY <1>2, <1>3, <2>1, <3>2
    <3>4. j \in 1..Len(out) /\ j # pos
      BY <1>2, <3>3
    <3> QED BY <1>4, <3>3, <3>4
  <2> QED BY <1>1, <2>1, <2>2
<1>6. ASSUME NEW k \in (pos + 1)..Len(out)
      PROVE  nodeOut'[out[k]].by # out[k] /\ nodeOut[out[k]].by # out[k]
  <2>1. /\ k \in 1..Len(out) /\ out[k] \in Node /\ out[k] # node
        /\ nodeOut[out[k]].by # out[k]
    BY <1>2, <1>4 DEF LastInv, AheadIsEmpty
  <2>2. nodeOut'[out[k]] \in {v, nodeOut[out[k]]}
    BY <1>1, <2>1
  <2> QED BY <1>2, <2>1, <2>2
<1>p. PICK p \in Nat : p = pos
  BY <1>2
<1>7. nodeOut'[out[p]] = v
  BY <1>p, <1>1, <1>2
<1>8. /\ \A k \in 1..(p - 1) : YieldedNow(out[k])' <=> YieldedNow(out[k])
      /\ \A k \in (p + 1)..Len(out) : ~YieldedNow(out[k])' /\ ~YieldedNow(out[k])
      /\ YieldedNow(out[p])'
  BY <1>p, <1>1, <1>2, <1>5, <1>6, <1>7 DEF YieldedNow
<1>9. AheadIsEmpty' /\ StoredInWalk'
  BY <1>p, <1>1, <1>2, <1>6 DEF AheadIsEmpty, LastInv, StoredInWalk
<1>10. ValueIsLast'
  <2>0. \A k \in 1..Len(out) : k \in 1..(p - 1) \/ k = p \/ k \in (p + 1)..Len(out)
    BY <1>p, <1>2
  <2>1. \A k \in 1..Len(out) :
           LastYield(k)' <=> out[k] \in Terminals /\ YieldedNow(out[k])'
                             /\ \A j \in (k + 1)..Len(out) :
                                   out[j] \in Terminals => ~YieldedNow(out[j])'
    BY <1>p, <1>2 DEF LastYield, YieldedNow
  <2>2. CASE node \in Terminals
    <3>1. terminal' = v
      BY <1>1, <2>2
    <3>2. LastYield(p)'
      BY <1>p, <1>2, <1>8, <2>1, <2>2
    <3>3. ASSUME NEW k \in 1..Len(out), LastYield(k)'
          PROVE  k = p
      <4>1. k \notin 1..(p - 1)
        <5>1. SUFFICES ASSUME k \in 1..(p - 1) PROVE FALSE
          OBVIOUS
        <5>2. p \in (k + 1)..Len(out)
          BY <1>p, <1>2, <5>1
        <5> QED BY <1>p, <1>2, <1>8, <2>1, <2>2, <3>3, <5>2
      <4>2. k \notin (p + 1)..Len(out)
        BY <1>8, <2>1, <3>3
      <4> QED BY <2>0, <4>1, <4>2
    <3> QED BY <1>p, <1>2, <1>7, <3>1, <3>2, <3>3 DEF ValueIsLast
  <2>3. CASE node \notin Terminals
    <3>1. terminal' = terminal
      BY <1>1, <2>3
    <3>2. ASSUME NEW k \in 1..Len(out)
          PROVE  /\ LastYield(k)' <=> LastYield(k)
                 /\ LastYield(k) => nodeOut'[out[k]] = nodeOut[out[k]]
      <4>1. \A j \in 1..Len(out) :
               out[j] \in Terminals => (YieldedNow(out[j])' <=> YieldedNow(out[j]))
        BY <1>p, <1>2, <1>8, <2>0, <2>3
      <4>2. \A j \in (k + 1)..Len(out) : j \in 1..Len(out)
        BY <1>p, <1>2
      <4>3. LastYield(k)' <=> LastYield(k)
        BY <2>1, <4>1, <4>2 DEF LastYield
      <4>4. LastYield(k) => k \in 1..(p - 1)
        BY <1>p, <1>2, <1>8, <2>0, <2>3 DEF LastYield
      <4> QED BY <1>p, <1>5, <4>3, <4>4
    <3> QED BY <1>p, <1>1, <1>2, <3>1, <3>2 DEF ValueIsLast, LastInv
  <2> QED BY <2>2, <2>3
<1> QED BY <1>9, <1>10 DEF LastInv

\* A step that stores nothing, and does not go back.
LEMMA LastStays ==
    ASSUME Inductive, LastInv, UNCHANGED topoVars,
           UNCHANGED <<iter, nodeOut, terminal, input>>,
           pos' = pos \/ pos' = pos + 1,
           phase' \notin {"call", "sort"} \/ phase' = phase
    PROVE  LastInv'
<1>1. out' = out /\ Terminals' = Terminals /\ Len(out) \in Nat /\ pos \in 1..(Len(out) + 1)
  BY SameOrder, WalkFacts
<1>2. \A k \in pos'..Len(out) : k \in pos..Len(out)
  BY <1>1
<1>3. AheadIsEmpty' /\ StoredInWalk'
  BY <1>1, <1>2 DEF LastInv, AheadIsEmpty, StoredInWalk
<1>4. ValueIsLast'
  BY <1>1 DEF LastInv, ValueIsLast, LastYield, YieldedNow
<1> QED BY <1>3, <1>4 DEF LastInv

LEMMA LastStep == Inductive /\ Inductive' /\ LastInv /\ [Next]_vars => LastInv'
<1> SUFFICES ASSUME Inductive, Inductive', LastInv, [Next]_vars PROVE LastInv'
  OBVIOUS
<1>1. CASE BadArity \/ Sort
  BY <1>1, LastBeforeWalk
<1>2. CASE FirstIteration \/ NotYet
  BY <1>2, LastBegin DEF FirstIteration, NotYet
<1>3. CASE AgentAnswers
  <2>1. /\ phase = "agent"
        /\ Yield([by |-> node, iter |-> iter, model |-> Produce[node]])
    BY <1>3 DEF AgentAnswers, CallModel
  <2>2. Produce[node] \in Model \union {NoModel}
    BY <2>1, WalkFacts, NetAssumption DEF Inductive, NetInv, Position
  <2> QED BY <2>1, <2>2, LastYields
<1>4. CASE OtherReturns
  BY <1>4, LastYields DEF OtherReturns
<1>5. CASE NoInput \/ EdgeSkip \/ OtherErr
  BY <1>5, LastStays DEF NoInput, EdgeSkip, OtherErr, GoOn
<1>6. CASE Undefined \/ InputRejected \/ AgentFails \/ OtherRaises
  BY <1>6, LastStays DEF Undefined, InputRejected, AgentFails, OtherRaises, Abort
<1>7. CASE RunNode
  <2>1. phase' = Kind[node] /\ node \in Node
    BY <1>7, WalkFacts DEF RunNode, AtNode
  <2>2. phase' \notin {"call", "sort"}
    BY <2>1, NetAssumption
  <2> QED BY <1>7, <2>2, LastStays DEF RunNode
<1>8. CASE AttemptFails
  BY <1>8, LastStays DEF AttemptFails
<1>9. CASE Converge \/ Exhaust
  BY <1>9, LastStays DEF Converge, Exhaust, Finish
<1>10. CASE UNCHANGED vars
  BY <1>10, LastStays DEF vars, netVars
<1> QED BY <1>1, <1>2, <1>3, <1>4, <1>5, <1>6, <1>7, <1>8, <1>9, <1>10
        DEF Next, NodeStep

\* What a net returns is what it did: the value of a terminal node, the last one
\* to have yielded in the last iteration if one did; "exhausted" only after every
\* iteration it may make, or with nothing that a terminal node ever yielded.
THEOREM ResultIsHonest == Spec => []HonestResult
<1>1. Spec => []LastInv
  BY InductiveInvariant, LastInit, LastStep, PTL DEF Spec
<1>2. Inductive /\ LastInv => HonestResult
  BY DEF Inductive, NetInv, ResultInBounds, LastInv, HonestResult
<1> QED BY <1>1, <1>2, InductiveInvariant, PTL
-----------------------------------------------------------------------------
(* Invocations end.                                                        *)

\* What is left of the node at hand: the attempts of its agent, once it runs;
\* before that, to run it at all.
AtHand ==
    IF pos > Len(out) THEN 0
    ELSE CASE phase = "walk" -> Retries[node] + 1
           [] phase = "agent" -> Retries[node] - attempt
           [] phase = "other" -> 0

\* What an invocation has still to do: the iterations it may go on for; the edges
\* to count off and then the nodes queued, or the nodes to pass and then what is
\* left of the one at hand.
NetRank ==
    CASE phase = "done" -> <<0, 0, 0>>
      [] phase \in {"call", "sort"} ->
            <<MaxIterations + 1, Cardinality(pending), Len(queue)>>
      [] InWalk -> <<MaxIterations + 1 - iter, Len(out) + 1 - pos, AtHand>>

\* No invocation goes on for ever, on a cycle or not: every step of topo_order, of
\* the walk and of invoke_agent lowers the rank of what is left.
NetAdvances ==
    [][/\ NetRank \in Ranks
       /\ Lower(NetRank', NetRank)]_vars

\* The rank at each place of the interpreter.
RankAt ==
    /\ phase = "done" => NetRank = <<0, 0, 0>>
    /\ phase \in {"call", "sort"} =>
          NetRank = <<MaxIterations + 1, Cardinality(pending), Len(queue)>>
    /\ InWalk => NetRank = <<MaxIterations + 1 - iter, Len(out) + 1 - pos, AtHand>>
    /\ InWalk => AtHand \in Nat
    /\ NetRank \in Ranks

LEMMA NetRankAt == Inductive => RankAt
<1> SUFFICES ASSUME Inductive PROVE RankAt
  OBVIOUS
<1>1. /\ phase = "done" => NetRank = <<0, 0, 0>>
      /\ phase \in {"call", "sort"} =>
            NetRank = <<MaxIterations + 1, Cardinality(pending), Len(queue)>>
      /\ InWalk => NetRank = <<MaxIterations + 1 - iter, Len(out) + 1 - pos, AtHand>>
  BY DEF NetRank, InWalk
<1>2. InWalk => AtHand \in Nat
  <2> SUFFICES ASSUME InWalk PROVE AtHand \in Nat
    OBVIOUS
  <2>1. CASE pos > Len(out)
    BY <2>1 DEF AtHand
  <2>2. CASE ~(pos > Len(out))
    <3>1. node \in Node
      BY <2>2, WalkFacts DEF Inductive, NetInv, TypeOK
    <3>2. Retries[node] \in Nat /\ attempt \in Nat /\ (phase = "agent" => attempt <= Retries[node])
      BY <3>1, NetAssumption DEF Inductive, NetInv, TypeOK, Position
    <3>3. \/ phase = "walk" /\ AtHand = Retries[node] + 1
          \/ phase = "agent" /\ AtHand = Retries[node] - attempt
          \/ phase = "other" /\ AtHand = 0
      BY <2>2 DEF InWalk, AtHand
    <3> QED BY <3>2, <3>3
  <2> QED BY <2>1, <2>2
<1>3. /\ MaxIterations + 1 - iter \in Nat /\ Len(out) + 1 - pos \in Nat
      /\ MaxIterations + 1 \in Nat
  BY WalkFacts DEF Inductive, NetInv, TypeOK, MaxIterations
<1>4. Cardinality(pending) \in Nat /\ Len(queue) \in Nat
  <2>1. pending \subseteq DOMAIN flow /\ flow \in Flows /\ queue \in Seq(NodesOf(flow))
    BY DEF Inductive, TopoInv, TopoTypeOK, Edges
  <2>2. IsFiniteSet(pending)
    BY <2>1, FlowFacts, FS_Interval, FS_Subset
  <2> QED BY <2>1, <2>2, FS_CardinalityType
<1>5. phase \in {"call", "sort", "done"} \/ InWalk
  BY DEF Inductive, NetInv, TypeOK, Phases, InWalk
<1>6. NetRank \in Ranks
  BY <1>1, <1>2, <1>3, <1>4, <1>5 DEF Ranks
<1> QED BY <1>1, <1>2, <1>6 DEF RankAt

LEMMA SortLowers ==
    ASSUME Inductive, Inductive', Sort
    PROVE  Lower(NetRank', NetRank)
<1>r. RankAt /\ RankAt'
  BY NetRankAt, PTL
<1>1. /\ NetRank = <<MaxIterations + 1, Cardinality(pending), Len(queue)>>
      /\ NetRank' = <<MaxIterations + 1, Cardinality(pending'), Len(queue')>>
  BY <1>r DEF RankAt, Sort
<1>2. /\ pending \subseteq DOMAIN flow /\ flow \in Flows /\ queue \in Seq(NodesOf(flow))
  BY DEF Inductive, TopoInv, TopoTypeOK, Edges
<1>3. IsFiniteSet(pending)
  BY <1>2, FlowFacts, FS_Interval, FS_Subset
<1>4. CASE CountOff
  <2>1. PICK e \in pending : pending' = pending \ {e}
    BY <1>4 DEF CountOff, Open
  <2>2. Cardinality(pending') = Cardinality(pending) - 1 /\ Cardinality(pending) \in Nat
    BY <1>3, <2>1, FS_RemoveElement, FS_CardinalityType
  <2>3. Cardinality(pending') < Cardinality(pending)
    BY <2>2
  <2> QED BY <1>1, <2>3, LowerTriple
<1>5. CASE Pop
  <2>1. pending' = pending /\ queue # <<>> /\ queue' = SubSeq(queue, 1, Len(queue) - 1)
    BY <1>5 DEF Pop
  <2>2. Len(queue') < Len(queue)
    BY <1>2, <2>1
  <2> QED BY <1>1, <2>1, <2>2, LowerTriple
<1> QED BY <1>4, <1>5 DEF Sort, TopoNext

\* What ends an invocation or begins an iteration.
LEMMA EndsLower ==
    ASSUME Inductive, Inductive', phase # "done",
           \/ phase' = "done"
           \/ FirstIteration
           \/ NotYet
    PROVE  Lower(NetRank', NetRank)
<1>r. RankAt /\ RankAt'
  BY NetRankAt, PTL
<1>1. phase \in {"call", "sort"} \/ InWalk
  BY DEF Inductive, NetInv, TypeOK, Phases, InWalk
<1>2. iter \in 0..MaxIterations /\ iter' \in 0..MaxIterations /\ MaxIterations = 3
  BY DEF Inductive, NetInv, TypeOK, MaxIterations
<1>3. CASE phase' = "done"
  <2>1. PICK a, b, c : a > 0 /\ NetRank = <<a, b, c>>
    BY <1>r, <1>1, <1>2 DEF RankAt
  <2>2. NetRank' = <<0, 0, 0>> /\ 0 < a
    BY <1>r, <1>3, <2>1 DEF RankAt
  <2> QED BY <2>1, <2>2, LowerTriple
<1>4. CASE FirstIteration
  <2>1. phase \in {"call", "sort"} /\ phase' = "walk" /\ iter' = iter + 1
    BY <1>4 DEF FirstIteration, BeginIteration
  <2>2. PICK b, c : NetRank = <<MaxIterations + 1, b, c>>
    BY <1>r, <2>1 DEF RankAt
  <2>3. PICK d, e : NetRank' = <<MaxIterations + 1 - (iter + 1), d, e>>
    BY <1>r, <2>1 DEF RankAt, InWalk
  <2>4. MaxIterations + 1 - (iter + 1) < MaxIterations + 1
    BY <1>2
  <2> QED BY <2>2, <2>3, <2>4, LowerTriple
<1>5. CASE NotYet
  <2>1. phase = "walk" /\ phase' = "walk" /\ iter' = iter + 1
    BY <1>5 DEF NotYet, WalkedAll, BeginIteration
  <2>2. PICK b, c : NetRank = <<MaxIterations + 1 - iter, b, c>>
    BY <1>r, <2>1 DEF RankAt, InWalk
  <2>3. PICK d, e : NetRank' = <<MaxIterations + 1 - (iter + 1), d, e>>
    BY <1>r, <2>1 DEF RankAt, InWalk
  <2>4. MaxIterations + 1 - (iter + 1) < MaxIterations + 1 - iter
    BY <1>2
  <2> QED BY <2>2, <2>3, <2>4, LowerTriple
<1> QED BY <1>3, <1>4, <1>5

\* What goes on to the next node.
LEMMA GoOnLowers ==
    ASSUME Inductive, Inductive', InWalk, pos <= Len(out), GoOn,
           out' = out, iter' = iter
    PROVE  Lower(NetRank', NetRank)
<1>r. RankAt /\ RankAt'
  BY NetRankAt, PTL
<1>1. pos' = pos + 1 /\ phase' = "walk" /\ pos \in Nat /\ Len(out) \in Nat
  BY WalkFacts DEF GoOn, Inductive, NetInv, TypeOK
<1>2. NetRank = <<MaxIterations + 1 - iter, Len(out) + 1 - pos, AtHand>>
  BY <1>r DEF RankAt
<1>3. PICK c : NetRank' = <<MaxIterations + 1 - iter, Len(out) + 1 - (pos + 1), c>>
  BY <1>r, <1>1 DEF RankAt, InWalk
<1>4. Len(out) + 1 - (pos + 1) < Len(out) + 1 - pos
  BY <1>1
<1> QED BY <1>2, <1>3, <1>4, LowerTriple

\* What stays at the node.
LEMMA StayLowers ==
    ASSUME Inductive, Inductive', RunNode \/ AttemptFails
    PROVE  Lower(NetRank', NetRank)
<1>r. RankAt /\ RankAt'
  BY NetRankAt, PTL
<1>1. /\ out' = out /\ iter' = iter /\ pos' = pos
      /\ phase \in {"walk", "agent"} /\ pos <= Len(out)
      /\ phase' \in {"agent", "other"}
  <2>1. CASE RunNode
    <3>1. AtNode /\ UNCHANGED <<topoVars, iter, pos>> /\ phase' = Kind[node]
          /\ Kind[node] # "undefined"
      BY <2>1 DEF RunNode
    <3>2. phase = "walk" /\ pos <= Len(out)
      BY <3>1 DEF AtNode
    <3>3. node \in Node
      BY <3>2, WalkFacts DEF Inductive, NetInv, TypeOK
    <3>4. Kind[node] \in {"agent", "other", "undefined"}
      BY <3>3, NetAssumption
    <3> QED BY <3>1, <3>2, <3>4 DEF topoVars
  <2>2. CASE AttemptFails
    BY <2>2 DEF AttemptFails, CallModel, topoVars, Inductive, NetInv, Position
  <2> QED BY <2>1, <2>2
<1>2. node' = node /\ node \in Node
  <2>1. node \in Node
    BY <1>1, WalkFacts DEF Inductive, NetInv, TypeOK
  <2> QED BY <1>1, <2>1 DEF node
<1>3. Retries[node] \in Nat /\ attempt \in Nat
  BY <1>2, NetAssumption DEF Inductive, NetInv, TypeOK
<1>4. ~(pos > Len(out)) /\ ~(pos' > Len(out'))
  BY <1>1, WalkFacts DEF Inductive, NetInv, TypeOK
<1>5. AtHand' < AtHand
  <2>1. CASE RunNode
    <3>1. phase = "walk" /\ attempt' = 0
      BY <2>1 DEF RunNode, AtNode
    <3>2. AtHand = Retries[node] + 1
      BY <1>4, <3>1 DEF AtHand
    <3>3. CASE phase' = "agent"
      <4>1. AtHand' = Retries[node] - 0
        BY <1>2, <1>4, <3>1, <3>3 DEF AtHand
      <4> QED BY <1>3, <3>2, <4>1
    <3>4. CASE phase' = "other"
      <4>1. AtHand' = 0
        BY <1>4, <3>4 DEF AtHand
      <4> QED BY <1>3, <3>2, <4>1
    <3> QED BY <1>1, <3>3, <3>4
  <2>2. CASE AttemptFails
    <3>1. phase = "agent" /\ phase' = "agent" /\ attempt' = attempt + 1
      BY <2>2 DEF AttemptFails, CallModel
    <3>2. AtHand = Retries[node] - attempt /\ AtHand' = Retries[node] - (attempt + 1)
      BY <1>2, <1>4, <3>1 DEF AtHand
    <3> QED BY <1>3, <3>2
  <2> QED BY <2>1, <2>2
<1>6. /\ NetRank = <<MaxIterations + 1 - iter, Len(out) + 1 - pos, AtHand>>
      /\ NetRank' = <<MaxIterations + 1 - iter, Len(out) + 1 - pos, AtHand'>>
  BY <1>r, <1>1 DEF RankAt, InWalk
<1> QED BY <1>5, <1>6, LowerTriple

LEMMA NextLowers ==
    ASSUME Inductive, Inductive', Next
    PROVE  Lower(NetRank', NetRank)
<1>1. CASE Sort
  BY <1>1, SortLowers
<1>2. CASE FirstIteration \/ NotYet
  BY <1>2, EndsLower DEF FirstIteration, NotYet, WalkedAll
<1>3. CASE BadArity \/ Undefined \/ InputRejected \/ AgentFails \/ OtherRaises \/ Converge \/ Exhaust
  <2>1. phase # "done" /\ phase' = "done"
    BY <1>3 DEF BadArity, Undefined, InputRejected, AgentFails, OtherRaises, Converge, Exhaust, AtNode,
                CallModel, Abort, WalkedAll, Finish
  <2> QED BY <2>1, EndsLower
<1>4. CASE NoInput \/ EdgeSkip \/ AgentAnswers \/ OtherReturns \/ OtherErr
  <2>1. InWalk /\ pos <= Len(out)
    BY <1>4 DEF NoInput, EdgeSkip, AgentAnswers, OtherReturns, OtherErr, AtNode, CallModel,
                InWalk, Inductive, NetInv, Position
  <2>2. GoOn /\ out' = out /\ iter' = iter
    BY <1>4 DEF NoInput, EdgeSkip, AgentAnswers, OtherReturns, OtherErr, Yield, topoVars
  <2> QED BY <2>1, <2>2, GoOnLowers
<1>5. CASE RunNode \/ AttemptFails
  BY <1>5, StayLowers
<1> QED BY <1>1, <1>2, <1>3, <1>4, <1>5 DEF Next, NodeStep

\* Every step of an invocation gets it closer to its end, for every net, with
\* cycles or without, and whatever its nodes and the model do.
THEOREM EveryStepAdvances == Spec => NetAdvances
<1>1. Inductive /\ Inductive' /\ [Next]_vars =>
         [/\ NetRank \in Ranks
          /\ Lower(NetRank', NetRank)]_vars
  BY NetRankAt, NextLowers DEF RankAt
<1> QED BY <1>1, InductiveInvariant, PTL DEF Spec, NetAdvances
=============================================================================
