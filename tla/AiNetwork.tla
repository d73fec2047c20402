------------------------------ MODULE AiNetwork -----------------------------
(***************************************************************************)
(* ai.network: a program builds a network of named agents and runs it on a *)
(* message; each round asks the current agent, whose reply ends the talk,  *)
(* hands it to an agent it names or leaves it to the next in order         *)
(* (run_ai_network of runtime/eval.rs).  What the capability in scope says *)
(* of the run is an input here (Caps has the check), and it only decides   *)
(* which model is asked.                                                   *)
(***************************************************************************)
EXTENDS Integers, Sequences, SequencesExt

CONSTANTS
    AgentNames, \* names of agents
    Entries,    \* names a run may start at
    Models,     \* names of models a capability may prescribe
    LimitArgs,  \* what ai.network may be given: <<>> or <<max_rounds>>
    DefaultRounds, \* the limit when it is given nothing: 10 in the code
    MaxAgents   \* bound on the agents of a network

VARIABLES
    agents,     \* names of the agents, in the order they were added
    maxRounds,  \* the limit of the network
    refused,    \* the capability in scope refused the run
    model,      \* the model that is asked
    phase,      \* "build", "talk", "done" or "raised"
    current,    \* the agent whose turn it is
    talk        \* the trace: who spoke, and how the reply went on

modelVars == <<refused, model>>
netVars == <<agents, maxRounds, modelVars, phase, current, talk>>

NoOne == "no one"

\* What enforce_ai_cap answers besides a model: none is prescribed under cap[*],
\* or the run is refused.
AnyModel == "any model"
Refusal == "refusal"

NetInit ==
    /\ agents = <<>> /\ phase = "build" /\ current = NoOne /\ talk = <<>>
    /\ maxRounds = 0 /\ refused = FALSE /\ model = "default"

\* builtin_ai_network: a limit below one is refused, without one it is DefaultRounds.
NewNetwork(args) ==
    /\ phase = "build" /\ maxRounds = 0
    /\ IF args # <<>> /\ args[1] <= 0
       THEN phase' = "raised" /\ UNCHANGED maxRounds
       ELSE maxRounds' = (IF args = <<>> THEN DefaultRounds ELSE args[1]) /\ UNCHANGED phase
    /\ UNCHANGED <<agents, modelVars, current, talk>>

\* network.agent(name, system) on a var binding; nothing keeps the names apart.
AddAgent(name) ==
    /\ phase \in {"build", "done"} /\ maxRounds > 0 /\ Len(agents) < MaxAgents
    /\ agents' = Append(agents, name)
    /\ phase' = "build" /\ current' = NoOne /\ talk' = <<>>
    /\ UNCHANGED <<maxRounds, modelVars>>

\* Each run begins a talk of its own.  A refusal is dropped (unwrap_or_default)
\* and the talk goes to the default model.
Run(entry, answer) ==
    /\ phase \in {"build", "done"} /\ maxRounds > 0
    /\ refused' = (answer = Refusal)
    /\ model' = IF answer \in {AnyModel, Refusal} THEN "default" ELSE answer
    /\ phase' = IF agents = <<>> THEN "raised" ELSE "talk"
    /\ current' = entry /\ talk' = <<>>
    /\ UNCHANGED <<agents, maxRounds>>

\* The position of the first agent of that name.
Position(name) == SelectInSeq(agents, LAMBDA a : a = name)

\* Seeded fault: the next position is taken without going round.
BugNextAgent(name) == agents[IF Position(name) < Len(agents) THEN Position(name) + 1
                             ELSE Len(agents)]

NextAgent(name) == agents[(Position(name) % Len(agents)) + 1]

\* How a reply goes on: it holds the sentinel, it begins with ">>NAME:", or
\* neither.  A name no agent has is no hand-off.
Ends == "until"
Plain == "plain"

Successor(reply) ==
    IF reply \in Range(agents) THEN reply ELSE NextAgent(current)

\* One round; the model may fail, which raises and loses the talk so far.
Round(reply, ok) ==
    /\ phase = "talk" /\ Len(talk) < maxRounds
    /\ IF ~Contains(agents, current) \/ ~ok
       THEN phase' = "raised" /\ UNCHANGED <<current, talk>>
       ELSE /\ talk' = Append(talk, [from |-> current, reply |-> reply])
            /\ IF reply = Ends THEN phase' = "done" /\ UNCHANGED current
               ELSE current' = Successor(reply) /\ UNCHANGED phase
    /\ UNCHANGED <<agents, maxRounds, modelVars>>

Finish ==
    /\ phase = "talk" /\ Len(talk) >= maxRounds
    /\ phase' = "done"
    /\ UNCHANGED <<agents, maxRounds, modelVars, current, talk>>

NetNext ==
    \/ \E args \in LimitArgs : NewNetwork(args)
    \/ \E name \in AgentNames : AddAgent(name)
    \/ \E entry \in Entries, answer \in Models \cup {AnyModel, Refusal} : Run(entry, answer)
    \/ \E reply \in AgentNames \cup {Ends, Plain}, ok \in BOOLEAN : Round(reply, ok)
    \/ Finish
=============================================================================
