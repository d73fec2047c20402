---------------------------- MODULE SagaContract ----------------------------
(***************************************************************************)
(* What a saga promises its caller: steps succeed one after the other; if  *)
(* all do, the saga commits; when one fails, the ones before it are undone *)
(* from the last to the first, and the saga reports either that all of     *)
(* them were, or that it could not go on undoing.  A requires clause that  *)
(* cannot be evaluated abandons the saga where it stands.                  *)
(***************************************************************************)
EXTENDS Naturals, Sequences

CONSTANTS Steps,     \* the number of steps
          Label      \* the name of each step

VARIABLES state,        \* "idle", "forward" or "backward"
          done,         \* how many steps succeeded: 1, 2, ... in order
          compensated,  \* the steps undone since, in order
          report        \* what the last call reported

contractVars == <<state, done, compensated, report>>

CInit == state = "idle" /\ done = 0 /\ compensated = <<>> /\ report = "none"

ToUndo == done - Len(compensated)

Refuse ==
    /\ state = "idle"
    /\ report' = "arity"
    /\ UNCHANGED <<state, done, compensated>>

Begin ==
    /\ state = "idle"
    /\ state' = "forward" /\ done' = 0 /\ compensated' = <<>> /\ report' = "none"

Advance ==
    /\ state = "forward" /\ done < Steps
    /\ done' = done + 1
    /\ UNCHANGED <<state, compensated, report>>

Finish ==
    /\ state = "forward" /\ done = Steps
    /\ state' = "idle" /\ report' = "ok"
    /\ UNCHANGED <<done, compensated>>

Abandon ==
    /\ state = "forward" /\ done < Steps
    /\ state' = "idle" /\ report' = "raised"
    /\ UNCHANGED <<done, compensated>>

Fail ==
    /\ state = "forward" /\ done < Steps
    /\ state' = "backward"
    /\ UNCHANGED <<done, compensated, report>>

UndoLast ==
    /\ state = "backward" /\ ToUndo > 0
    /\ compensated' = Append(compensated, ToUndo)
    /\ UNCHANGED <<state, done, report>>

\* Weaker than what is promised, and only where two steps have one name: the undo
\* that runs may be that of an earlier step with the name of the one in line.
UndoNamesake ==
    /\ state = "backward" /\ ToUndo > 0
    /\ \E i \in 1..(ToUndo - 1) :
          /\ Label[i] = Label[ToUndo]
          /\ compensated' = Append(compensated, i)
    /\ UNCHANGED <<state, done, report>>

AllUndone ==
    /\ state = "backward" /\ ToUndo = 0
    /\ state' = "idle" /\ report' = "rolled_back"
    /\ UNCHANGED <<done, compensated>>

GiveUp ==
    /\ state = "backward" /\ ToUndo > 0
    /\ state' = "idle" /\ report' = "partial"
    /\ UNCHANGED <<done, compensated>>

CNext == Refuse \/ Begin \/ Advance \/ Finish \/ Abandon \/ Fail
         \/ UndoLast \/ UndoNamesake \/ AllUndone \/ GiveUp

CSpec == CInit /\ [][CNext]_contractVars
=============================================================================
