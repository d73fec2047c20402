-------------------------- MODULE SagaCheckerProofs --------------------------
(***************************************************************************)
(* Proofs about module Saga, for every number of steps, every naming of    *)
(* them, every number of clauses and every number of invocations, and      *)
(* about module Checker, for every module it is given and every manifest.  *)
(***************************************************************************)
EXTENDS Saga, Checker, CommonProofs

(***************************************************************************)
(* FirstNamed.                                                             *)
(***************************************************************************)

\* Looking a declared name up yields a step of that name, none before it: the
\* step it was looked up for, unless that one has an earlier namesake.
LEMMA FirstNamedStep ==
    ASSUME NEW s \in 1..N
    PROVE  /\ FirstNamed(StepName[s]) \in 1..N
           /\ StepName[FirstNamed(StepName[s])] = StepName[s]
           /\ IF HasNamesakeBefore(s) THEN FirstNamed(StepName[s]) < s
                                      ELSE FirstNamed(StepName[s]) = s
<1> DEFINE M == {i \in 1..N : StepName[i] = StepName[s]}
           f == FirstNamed(StepName[s])
<1>1. PICK i \in M : \A j \in M : i <= j
  <2>1. N \in Nat /\ M \in SUBSET (1..N) /\ M # {}
    BY StepsAssumption
  <2> HIDE DEF M
  <2> QED BY <2>1, LeastPosition
<1>2. /\ i \in 1..N /\ StepName[i] = StepName[s]
      /\ \A j \in 1..N : StepName[j] = StepName[s] => i <= j
  BY <1>1
<1>3. /\ f \in 1..N /\ StepName[f] = StepName[s]
      /\ \A j \in 1..N : StepName[j] = StepName[s] => f <= j
  BY <1>2 DEF FirstNamed
<1> HIDE DEF f
<1>4. CASE HasNamesakeBefore(s)
  <2>1. PICK j \in 1..(s - 1) : StepName[j] = StepName[s]
    BY <1>4 DEF HasNamesakeBefore
  <2>2. j \in 1..N /\ j < s
    BY StepsAssumption
  <2>3. f < s
    BY <1>3, <2>1, <2>2
  <2> QED BY <1>3, <1>4, <2>3 DEF f
<1>5. CASE ~HasNamesakeBefore(s)
  <2>1. f <= s
    BY <1>3
  <2>2. f \notin 1..(s - 1)
    BY <1>3, <1>5 DEF HasNamesakeBefore
  <2>3. f = s
    BY <1>3, <2>1, <2>2
  <2> QED BY <1>3, <1>5, <2>3 DEF f
<1> QED BY <1>4, <1>5

\* The step the rollback undoes next completed in this invocation.
LEMMA UndoTargetStep ==
    ASSUME Inductive, left > 0
    PROVE  /\ left \in 1..Len(completed) /\ left \in 1..N
           /\ UndoTarget \in 1..N
           /\ StepName[UndoTarget] = completed[left]
           /\ FirstNamed(StepName[UndoTarget]) = UndoTarget
           /\ IF HasNamesakeBefore(left)
              THEN UndoTarget < left /\ StepName[UndoTarget] = StepName[left]
              ELSE UndoTarget = left
<1>1. left \in 1..N /\ left \in 1..Len(completed) /\ completed[left] = StepName[left]
  BY StepsAssumption DEF Inductive, TypeOK, CompletedIsPrefix, ReverseCompensation
<1>2. /\ UndoTarget \in 1..N
      /\ StepName[UndoTarget] = StepName[left]
      /\ IF HasNamesakeBefore(left) THEN UndoTarget < left ELSE UndoTarget = left
  BY <1>1, FirstNamedStep DEF UndoTarget
<1>3. FirstNamed(StepName[UndoTarget]) = FirstNamed(completed[left])
  BY <1>1, <1>2
<1> QED BY <1>1, <1>2, <1>3 DEF UndoTarget

(***************************************************************************)
(* The inductive invariant: initially, and one lemma per action.           *)
(***************************************************************************)
LEMMA InitInductive == Init => Inductive
<1> SUFFICES ASSUME Init PROVE Inductive
  OBVIOUS
<1>1. TypeOK
  <2>1. step \in 1..(N + 1) /\ left \in Nat /\ inv \in Nat /\ clause \in Nat \ {0}
    BY StepsAssumption DEF Init
  <2>2. stacks \in [intents : Seq(Nat), scopes : Seq({"saga"})] /\ leaked \in BOOLEAN
    <3>1. <<>> \in Seq(Nat) /\ <<>> \in Seq({"saga"})
      OBVIOUS
    <3>2. stacks = [intents |-> <<>>, scopes |-> <<>>] /\ leaked = FALSE
      BY DEF Init, EmptyStacks
    <3> QED BY <3>1, <3>2
  <2>3. /\ completed \in Seq(StepNames) /\ undone \in Seq(1..N)
        /\ skipped \subseteq 1..N /\ calls \subseteq WriteCalls
    BY DEF Init
  <2>4. /\ phase \in Phases /\ result \in Results /\ cause \in Failures \union {"none"}
        /\ attempt \in 0..(MaxAttempts - 1)
    BY DEF Init, Phases, Results, MaxAttempts
  <2> QED BY <2>1, <2>2, <2>3, <2>4 DEF TypeOK
<1>2. /\ CompletedIsPrefix /\ ReverseCompensation /\ HonestResult
      /\ IntentIsOwn /\ Position
  BY DEF Init, CompletedIsPrefix, ReverseCompensation, HonestResult, IntentIsOwn, Position
<1>3. OnlyCompletedUndone /\ KeyOrigin
  BY DEF Init, OnlyCompletedUndone, KeyOrigin
<1> QED BY <1>1, <1>2, <1>3 DEF Inductive

\* The writes of earlier invocations are no concern of the next one.
LEMMA LaterInvocation ==
    ASSUME Inductive, inv' = inv + 1, UNCHANGED calls
    PROVE  (OnlyCompletedUndone /\ KeyOrigin)'
<1>1. \A c \in calls : c.inv \in Nat /\ c.inv <= inv /\ inv \in Nat
  BY DEF Inductive, KeyOrigin, TypeOK, WriteCalls
<1>2. OnlyCompletedUndone'
  BY <1>1 DEF OnlyCompletedUndone
<1>3. KeyOrigin'
  BY <1>1 DEF Inductive, KeyOrigin
<1> QED BY <1>2, <1>3

LEMMA BadArityPreserves == Inductive /\ BadArity => Inductive'
<1> SUFFICES ASSUME Inductive, BadArity PROVE Inductive'
  OBVIOUS
<1> USE DEF Inductive, BadArity
<1>1. TypeOK'
  BY DEF TypeOK, Results
<1>2. (CompletedIsPrefix /\ ReverseCompensation)'
  BY DEF CompletedIsPrefix, ReverseCompensation
<1>3. (HonestResult /\ IntentIsOwn /\ Position)'
  BY DEF HonestResult, IntentIsOwn, Position
<1>4. (OnlyCompletedUndone /\ KeyOrigin)'
  BY LaterInvocation
<1> QED BY <1>1, <1>2, <1>3, <1>4

LEMMA InvokePreserves == Inductive /\ Invoke => Inductive'
<1> SUFFICES ASSUME Inductive, Invoke PROVE Inductive'
  OBVIOUS
<1> USE DEF Inductive, Invoke
<1>1. /\ stacks' \in [intents : Seq(Nat), scopes : Seq({"saga"})]
      /\ stacks'.intents # <<>> /\ stacks'.intents[Len(stacks'.intents)] = inv'
  <2>1. stacks \in StacksOf(Nat, {"saga"}) /\ inv + 1 \in Nat /\ "saga" # NoScope
    BY DEF TypeOK, StacksOf, NoScope
  <2>2. /\ stacks' \in StacksOf(Nat, {"saga"})
        /\ stacks'.intents # <<>> /\ ActiveIntent(stacks') = inv + 1
    <3> DEFINE new == IntentEnter(stacks, inv + 1, "saga")
    <3>1. stacks' = new
      OBVIOUS
    <3>2. /\ new \in StacksOf(Nat, {"saga"})
          /\ new.intents # <<>> /\ ActiveIntent(new) = inv + 1
      <4> DEFINE next == inv + 1
                 kinds == {"saga"}
      <4>1. /\ stacks \in StacksOf(Nat, kinds) /\ next \in Nat
            /\ "saga" \in kinds /\ "saga" # NoScope
        BY <2>1
      <4> HIDE DEF Inductive, Invoke, next, kinds
      <4>2. LET to == IntentEnter(stacks, next, "saga")
            IN  /\ to \in StacksOf(Nat, kinds)
                /\ to.intents # <<>> /\ ActiveIntent(to) = next
        BY <4>1, EnterScoped
      <4> QED BY <4>2 DEF next, kinds
    <3> HIDE DEF new, Inductive, Invoke
    <3> QED BY <3>1, <3>2
  <2>3. inv' = inv + 1
    OBVIOUS
  <2> HIDE DEF Inductive, Invoke
  <2> QED BY <2>2, <2>3 DEF StacksOf, ActiveIntent
<1>2. TypeOK'
  <2>1. /\ step' \in 1..(N + 1) /\ left' \in Nat /\ inv' \in Nat
        /\ clause' \in Nat \ {0} /\ attempt' \in 0..(MaxAttempts - 1)
    BY StepsAssumption DEF TypeOK, MaxAttempts
  <2>2. /\ completed' \in Seq(StepNames) /\ undone' \in Seq(1..N) /\ skipped' \subseteq 1..N
        /\ calls' \subseteq WriteCalls /\ leaked' \in BOOLEAN
    <3>1. completed' = <<>> /\ undone' = <<>> /\ skipped' = {} /\ leaked' = FALSE
      OBVIOUS
    <3>2. calls' \subseteq WriteCalls
      BY DEF TypeOK
    <3>3. <<>> \in Seq(StepNames) /\ <<>> \in Seq(1..N) /\ {} \subseteq 1..N
      OBVIOUS
    <3> HIDE DEF Inductive, Invoke
    <3> QED BY <3>1, <3>2, <3>3
  <2>3. phase' \in Phases /\ result' \in Results /\ cause' \in Failures \union {"none"}
    BY DEF Phases, Results
  <2> QED BY <1>1, <2>1, <2>2, <2>3 DEF TypeOK
<1>3. (CompletedIsPrefix /\ ReverseCompensation)'
  BY DEF CompletedIsPrefix, ReverseCompensation
<1>4. (HonestResult /\ IntentIsOwn /\ Position)'
  BY <1>1 DEF HonestResult, IntentIsOwn, Position
<1>5. (OnlyCompletedUndone /\ KeyOrigin)'
  BY LaterInvocation
<1> QED BY <1>2, <1>3, <1>4, <1>5

LEMMA RequirePreserves ==
    Inductive /\ (RequireTrue \/ RequireFalse \/ RequireRaises) => Inductive'
<1> SUFFICES ASSUME Inductive, RequireTrue \/ RequireFalse \/ RequireRaises
             PROVE  Inductive'
  OBVIOUS
<1> USE DEF Inductive, RequireTrue, RequireFalse, RequireRaises, EvaluatingClause
<1>1. TypeOK'
  <2>0. step \in 1..(N + 1) /\ step <= N /\ clause \in Nat \ {0} /\ N \in Nat
    BY StepsAssumption DEF TypeOK
  <2>1. step \in 1..N /\ clause' \in Nat \ {0}
    <3>1. clause' = clause + 1 \/ clause' = clause
      OBVIOUS
    <3> HIDE DEF Inductive, RequireTrue, RequireFalse, RequireRaises, EvaluatingClause
    <3> QED BY <2>0, <3>1
  <2>3. skipped' \subseteq 1..N
    BY <2>1 DEF TypeOK
  <2>2. phase' \in Phases /\ result' \in Results
    BY DEF TypeOK, Results, Phases
  <2> QED BY <2>1, <2>2, <2>3 DEF TypeOK
<1>2. (CompletedIsPrefix /\ ReverseCompensation)'
  BY DEF CompletedIsPrefix, ReverseCompensation
<1>3. HonestResult'
  <2>1. CASE RequireRaises
    <3>1. /\ result' = "raised" /\ undone' = undone /\ cause' = cause
          /\ completed' = completed
      BY <2>1
    <3>2. undone = <<>> /\ cause = "none"
      BY <2>1 DEF ReverseCompensation, Position
    <3>3. Len(completed) < N
      BY <2>1, StepsAssumption DEF CompletedIsPrefix, TypeOK
    <3> HIDE DEF Inductive, RequireTrue, RequireFalse, RequireRaises, EvaluatingClause
    <3> QED BY <3>1, <3>2, <3>3 DEF HonestResult
  <2>2. CASE RequireTrue \/ RequireFalse
    <3>1. result' = "none"
      BY <2>2 DEF Position
    <3> QED BY <3>1 DEF HonestResult
  <2> QED BY <2>1, <2>2
<1>5. (IntentIsOwn /\ Position)'
  BY DEF IntentIsOwn, Position
<1>4. (OnlyCompletedUndone /\ KeyOrigin)'
  BY DEF OnlyCompletedUndone, KeyOrigin
<1> QED BY <1>1, <1>2, <1>3, <1>4, <1>5

LEMMA StepEnterPreserves == Inductive /\ StepEnter => Inductive'
<1> SUFFICES ASSUME Inductive, StepEnter PROVE Inductive'
  OBVIOUS
<1> USE DEF Inductive, StepEnter
<1>1. TypeOK'
  BY StepsAssumption DEF TypeOK, Phases
<1>2. (CompletedIsPrefix /\ ReverseCompensation)'
  BY DEF CompletedIsPrefix, ReverseCompensation
<1>3. (HonestResult /\ IntentIsOwn /\ Position)'
  BY DEF HonestResult, IntentIsOwn, Position
<1>4. (OnlyCompletedUndone /\ KeyOrigin)'
  BY DEF OnlyCompletedUndone, KeyOrigin
<1> QED BY <1>1, <1>2, <1>3, <1>4

LEMMA WriteCallPreserves == Inductive /\ WriteCall => Inductive'
<1> SUFFICES ASSUME Inductive, WriteCall PROVE Inductive'
  OBVIOUS
<1> USE DEF Inductive
<1> DEFINE new == [key |-> EnvKey, block |-> RunningBlock, step |-> RunningStep,
                   inv |-> inv]
<1>1. /\ calls' = calls \union {new} /\ InUserCode
      /\ UNCHANGED <<phase, step, clause, completed, skipped, cause, left, undone,
                     attempt, stacks, leaked, inv, result>>
  BY DEF WriteCall
<1>2. CASE phase # "undo"
  <2>1. /\ RunningStep = step /\ step \in 1..N /\ EnvKey = DoKey(step)
        /\ RunningBlock = "do"
    BY <1>1, <1>2, StepsAssumption
    DEF InUserCode, EvaluatingClause, RunningStep, RunningBlock, EnvKey, Position, TypeOK
  <2>2. EnvKey \in Keys
    BY <2>1, StepsAssumption DEF DoKey, Key, Keys
  <2>3. new \in WriteCalls
    BY <2>1, <2>2 DEF WriteCalls, TypeOK
  <2>4. (OnlyCompletedUndone /\ KeyOrigin)'
    BY <1>1, <2>1, <2>3 DEF OnlyCompletedUndone, KeyOrigin, TypeOK, DoKey, UndoKey
  <2> QED
    BY <1>1, <2>3, <2>4 DEF TypeOK, CompletedIsPrefix, ReverseCompensation,
                            HonestResult, IntentIsOwn, Position, UndoTarget
<1>3. CASE phase = "undo"
  <2>1. /\ RunningStep = UndoTarget /\ UndoTarget \in 1..N /\ UndoTarget \in HasUndo
        /\ EnvKey = UndoKey(UndoTarget, attempt) /\ RunningBlock = "undo"
        /\ left \in 1..Len(completed) /\ StepName[UndoTarget] = completed[left]
        /\ FirstNamed(StepName[UndoTarget]) = UndoTarget
    BY <1>3, UndoTargetStep DEF RunningStep, RunningBlock, EnvKey, Position
  <2>2. EnvKey \in Keys
    BY <2>1, StepsAssumption DEF TypeOK, UndoKey, Key, Keys, MaxAttempts
  <2>3. new \in WriteCalls
    BY <2>1, <2>2 DEF WriteCalls, TypeOK
  <2>4. KeyOrigin'
    BY <1>1, <2>1, <2>3 DEF KeyOrigin, TypeOK, DoKey, UndoKey
  <2>5. OnlyCompletedUndone'
    BY <1>1, <2>1, <2>3 DEF OnlyCompletedUndone
  <2> QED
    BY <1>1, <2>3, <2>4, <2>5 DEF TypeOK, CompletedIsPrefix, ReverseCompensation,
                                  HonestResult, IntentIsOwn, Position, UndoTarget
<1> QED BY <1>2, <1>3

LEMMA BodyIntentBlockPreserves == Inductive /\ BodyIntentBlock => Inductive'
<1> SUFFICES ASSUME Inductive, BodyIntentBlock PROVE Inductive'
  OBVIOUS
<1> USE DEF Inductive, BodyIntentBlock
<1>1. /\ stacks'.intents = stacks.intents
      /\ stacks' \in [intents : Seq(Nat), scopes : Seq({"saga"})]
  <2>1. stacks \in StacksOf(Nat, {"saga"}) /\ 0 \in Nat
    BY DEF TypeOK, StacksOf
  <2> QED BY <2>1, BlockKeepsIntents DEF StacksOf
<1>3. TypeOK'
  BY <1>1 DEF TypeOK
<1>4. (CompletedIsPrefix /\ ReverseCompensation)'
  BY DEF CompletedIsPrefix, ReverseCompensation
<1>5. (HonestResult /\ IntentIsOwn /\ Position)'
  BY <1>1 DEF HonestResult, IntentIsOwn, Position, UndoTarget
<1>6. (OnlyCompletedUndone /\ KeyOrigin)'
  BY DEF OnlyCompletedUndone, KeyOrigin
<1> QED BY <1>3, <1>4, <1>5, <1>6

LEMMA NestedAbandonedPreserves == Inductive /\ NestedAbandoned => Inductive'
<1> SUFFICES ASSUME Inductive, NestedAbandoned PROVE Inductive'
  OBVIOUS
<1> USE DEF Inductive, NestedAbandoned
<1>1. stacks' \in [intents : Seq(Nat), scopes : Seq({"saga"})]
  <2>1. stacks \in StacksOf(Nat, {"saga"}) /\ 0 \in Nat /\ "saga" # NoScope
    BY DEF TypeOK, StacksOf, NoScope
  <2>2. stacks' = IntentEnter(stacks, 0, "saga")
    OBVIOUS
  <2> HIDE DEF Inductive, NestedAbandoned
  <2> QED BY <2>1, <2>2, EnterScoped DEF StacksOf
<1>2. TypeOK'
  BY <1>1 DEF TypeOK
<1>3. (CompletedIsPrefix /\ ReverseCompensation)'
  BY DEF CompletedIsPrefix, ReverseCompensation
<1>4. (HonestResult /\ IntentIsOwn /\ Position)'
  BY DEF HonestResult, IntentIsOwn, Position, UndoTarget
<1>5. (OnlyCompletedUndone /\ KeyOrigin)'
  BY DEF OnlyCompletedUndone, KeyOrigin
<1> QED BY <1>2, <1>3, <1>4, <1>5

LEMMA StepOkPreserves == Inductive /\ StepOk => Inductive'
<1> SUFFICES ASSUME Inductive, StepOk PROVE Inductive'
  OBVIOUS
<1> USE DEF Inductive, StepOk
<1>1. step \in 1..N /\ StepName[step] \in StepNames
  BY StepsAssumption DEF TypeOK, Position
<1>2. /\ completed' \in Seq(StepNames) /\ Len(completed') = Len(completed) + 1
      /\ \A i \in 1..Len(completed) : completed'[i] = completed[i]
      /\ completed'[Len(completed) + 1] = StepName[step]
  BY <1>1, AppendProperties DEF TypeOK
<1>3. TypeOK'
  <2>1. step' \in 1..(N + 1) /\ clause' \in Nat \ {0}
    BY <1>1, StepsAssumption
  <2>2. phase' \in Phases
    BY DEF Phases
  <2> QED BY <1>2, <2>1, <2>2 DEF TypeOK
<1>4. CompletedIsPrefix'
  BY <1>1, <1>2 DEF CompletedIsPrefix, TypeOK
<1>5. ReverseCompensation'
  BY <1>2 DEF ReverseCompensation, TypeOK
<1>6. (HonestResult /\ IntentIsOwn /\ Position)'
  BY DEF HonestResult, IntentIsOwn, Position
<1>7. (OnlyCompletedUndone /\ KeyOrigin)'
  BY <1>2 DEF OnlyCompletedUndone, KeyOrigin, TypeOK
<1> QED BY <1>3, <1>4, <1>5, <1>6, <1>7

LEMMA StepErrPreserves == Inductive /\ StepErr => Inductive'
<1> SUFFICES ASSUME Inductive, StepErr PROVE Inductive'
  OBVIOUS
<1> USE DEF Inductive, StepErr
<1>1. TypeOK'
  BY DEF TypeOK, Phases
<1>2. (CompletedIsPrefix /\ ReverseCompensation)'
  BY DEF CompletedIsPrefix, ReverseCompensation, TypeOK
<1>3. (HonestResult /\ IntentIsOwn /\ Position)'
  BY DEF HonestResult, IntentIsOwn, Position, Failures
<1>4. (OnlyCompletedUndone /\ KeyOrigin)'
  BY DEF OnlyCompletedUndone, KeyOrigin
<1> QED BY <1>1, <1>2, <1>3, <1>4

\* Returning leaves the stacks well formed.
LEMMA ReturnStacks ==
    ASSUME TypeOK, NEW r \in Results, Return(r)
    PROVE  stacks' \in [intents : Seq(Nat), scopes : Seq({"saga"})]
<1>1. stacks \in StacksOf(Nat, {"saga"})
  BY DEF TypeOK, StacksOf
<1> QED BY <1>1, ExitTyped DEF Return, StacksOf

\* A return preserves all that does not speak of the result.
LEMMA ReturnPreserves ==
    ASSUME Inductive, NEW r \in Results, Return(r), left' = left, HonestResult'
    PROVE  Inductive'
<1> USE DEF Inductive, Return
<1>1. TypeOK'
  BY ReturnStacks DEF TypeOK, Phases
<1>2. (CompletedIsPrefix /\ ReverseCompensation)'
  BY DEF CompletedIsPrefix, ReverseCompensation
<1>3. (IntentIsOwn /\ Position)'
  BY DEF IntentIsOwn, Position
<1>4. (OnlyCompletedUndone /\ KeyOrigin)'
  BY DEF OnlyCompletedUndone, KeyOrigin
<1> QED BY <1>1, <1>2, <1>3, <1>4

LEMMA CommitPreserves == Inductive /\ Commit => Inductive'
<1> SUFFICES ASSUME Inductive, Commit PROVE Inductive'
  OBVIOUS
<1>1. Return("ok") /\ left' = left /\ "ok" \in Results
  BY DEF Commit, Results
<1>2. HonestResult'
  BY StepsAssumption
  DEF Inductive, Commit, Return, HonestResult, CompletedIsPrefix, ReverseCompensation
<1> QED BY <1>1, <1>2, ReturnPreserves

LEMMA UndoEnterPreserves == Inductive /\ UndoEnter => Inductive'
<1> SUFFICES ASSUME Inductive, UndoEnter PROVE Inductive'
  OBVIOUS
<1> USE DEF Inductive, UndoEnter
<1>1. UndoTarget \in 1..N /\ UndoTarget' = UndoTarget
  BY UndoTargetStep DEF UndoTarget
<1>2. TypeOK'
  BY <1>1, StepsAssumption DEF TypeOK, Phases, MaxAttempts
<1>3. (CompletedIsPrefix /\ ReverseCompensation)'
  BY DEF CompletedIsPrefix, ReverseCompensation
<1>4. (HonestResult /\ IntentIsOwn /\ Position)'
  BY <1>1 DEF HonestResult, IntentIsOwn, Position
<1>5. (OnlyCompletedUndone /\ KeyOrigin)'
  BY DEF OnlyCompletedUndone, KeyOrigin
<1> QED BY <1>2, <1>3, <1>4, <1>5

LEMMA CompensatedPreserves == Inductive /\ (UndoNoop \/ UndoOk) => Inductive'
<1> SUFFICES ASSUME Inductive, UndoNoop \/ UndoOk PROVE Inductive'
  OBVIOUS
<1>1. /\ Compensated /\ left > 0
      /\ phase \in {"rollback", "undo"}
  BY DEF UndoNoop, UndoOk, Inductive, Position
<1>2. /\ left \in 1..Len(completed) /\ UndoTarget \in 1..N
      /\ UndoTarget = FirstNamed(completed[left])
  BY <1>1, UndoTargetStep DEF UndoTarget
<1> USE DEF Inductive, Compensated
<1>3. /\ undone' \in Seq(1..N) /\ Len(undone') = Len(undone) + 1
      /\ \A k \in 1..Len(undone) : undone'[k] = undone[k]
      /\ undone'[Len(undone) + 1] = UndoTarget
  BY <1>1, <1>2, AppendProperties DEF TypeOK
<1>4. TypeOK'
  BY <1>1, <1>2, <1>3 DEF TypeOK, Phases
<1>5. CompletedIsPrefix'
  BY <1>1 DEF CompletedIsPrefix
<1>6. ReverseCompensation'
  <2>1. /\ Len(undone) = Len(completed) - left /\ Len(completed) \in Nat
        /\ Len(undone) \in Nat /\ left' = left - 1 /\ completed' = completed
    BY <1>1 DEF ReverseCompensation, TypeOK
  <2> DEFINE mirror(u, k) ==
                LET i == Len(completed) + 1 - k
                IN  IF HasNamesakeBefore(i)
                    THEN u[k] < i /\ StepName[u[k]] = StepName[i]
                    ELSE u[k] = i
  <2>2. ASSUME NEW k \in 1..Len(undone')
        PROVE  mirror(undone', k)
    <3>1. CASE k \in 1..Len(undone)
      <4>1. mirror(undone, k)
        BY <3>1 DEF ReverseCompensation
      <4> QED BY <1>3, <3>1, <4>1
    <3>2. CASE k = Len(undone) + 1
      <4>1. Len(completed) + 1 - k = left
        BY <2>1, <3>2, <1>2
      <4>2. IF HasNamesakeBefore(left)
            THEN UndoTarget < left /\ StepName[UndoTarget] = StepName[left]
            ELSE UndoTarget = left
        BY <1>1, UndoTargetStep
      <4>3. undone'[k] = UndoTarget
        BY <1>3, <3>2
      <4> HIDE DEF Inductive, Compensated
      <4> QED BY <4>1, <4>2, <4>3
    <3> QED BY <1>3, <2>1, <3>1, <3>2
  <2>3. left' <= Len(completed')
    BY <1>2, <2>1
  <2>4. Len(undone') = Len(completed') - left'
    BY <1>2, <1>3, <2>1
  <2>5. phase' = "rollback"
    BY <1>1
  <2>6. \A k \in 1..Len(undone') : mirror(undone', k)
    BY <2>2
  <2>7. completed' = completed
    BY <2>1
  <2> HIDE DEF Inductive, Compensated
  <2> QED BY <2>3, <2>4, <2>5, <2>6, <2>7 DEF ReverseCompensation, HasNamesakeBefore
<1>7. (HonestResult /\ IntentIsOwn /\ Position)'
  BY <1>1 DEF HonestResult, IntentIsOwn, Position
<1>8. (OnlyCompletedUndone /\ KeyOrigin)'
  BY <1>1 DEF OnlyCompletedUndone, KeyOrigin
<1> QED BY <1>4, <1>5, <1>6, <1>7, <1>8

LEMMA UndoRetryPreserves == Inductive /\ UndoRetry => Inductive'
<1> SUFFICES ASSUME Inductive, UndoRetry PROVE Inductive'
  OBVIOUS
<1> USE DEF Inductive, UndoRetry
<1>1. left > 0 /\ UndoTarget \in 1..N /\ UndoTarget' = UndoTarget
  BY UndoTargetStep DEF UndoTarget, Position
<1>2. TypeOK'
  BY <1>1, StepsAssumption DEF TypeOK, MaxAttempts
<1>3. (CompletedIsPrefix /\ ReverseCompensation)'
  BY DEF CompletedIsPrefix, ReverseCompensation
<1>4. (HonestResult /\ IntentIsOwn /\ Position)'
  BY <1>1 DEF HonestResult, IntentIsOwn, Position
<1>5. (OnlyCompletedUndone /\ KeyOrigin)'
  BY DEF OnlyCompletedUndone, KeyOrigin
<1> QED BY <1>2, <1>3, <1>4, <1>5

\* The steps the rollback has passed were undone, each by its own undo, but for
\* those with an earlier namesake.
LEMMA PassedIsUndone ==
    ASSUME Inductive, phase \in {"rollback", "undo"},
           NEW i \in (left + 1)..Len(completed), ~HasNamesakeBefore(i)
    PROVE  \E k \in 1..Len(undone) : undone[k] = i
<1> DEFINE k == Len(completed) + 1 - i
<1>1. /\ Len(completed) \in Nat /\ left \in Nat
      /\ Len(undone) = Len(completed) - left
  BY DEF Inductive, TypeOK, ReverseCompensation
<1>2. k \in 1..Len(undone) /\ Len(completed) + 1 - k = i
  BY <1>1
<1>3. undone[k] = i
  BY <1>2 DEF Inductive, ReverseCompensation
<1> QED BY <1>2, <1>3

LEMMA RollbackReturns == Inductive /\ (UndoExhausted \/ RolledBack) => Inductive'
<1> SUFFICES ASSUME Inductive, UndoExhausted \/ RolledBack PROVE Inductive'
  OBVIOUS
<1>1. /\ Len(completed) < N /\ cause # "none"
      /\ Len(undone) = Len(completed) - left /\ Len(completed) \in Nat /\ left \in Nat
  BY StepsAssumption
  DEF Inductive, UndoExhausted, RolledBack, CompletedIsPrefix, ReverseCompensation,
      Position, TypeOK
<1>2. \A i \in (left + 1)..Len(completed) :
         ~HasNamesakeBefore(i) => \E k \in 1..Len(undone) : undone[k] = i
  BY PassedIsUndone DEF UndoExhausted, RolledBack
<1>3. CASE UndoExhausted
  <2>1. /\ Return("partial") /\ left' = left /\ "partial" \in Results /\ left > 0
        /\ UndoTarget \in HasUndo
    BY <1>3 DEF UndoExhausted, Results, Inductive, Position
  <2>2. attempt = MaxAttempts - 1
    BY <1>3 DEF UndoExhausted, Inductive, TypeOK, MaxAttempts
  <2>3. HonestResult'
    BY <1>1, <1>2, <2>1, <2>2
    DEF Return, HonestResult, HasNamesakeBefore, UndoTarget
  <2> QED BY <2>1, <2>3, ReturnPreserves
<1>4. CASE RolledBack
  <2>1. Return("rolled_back") /\ left' = left /\ "rolled_back" \in Results /\ left = 0
    BY <1>4 DEF RolledBack, Results
  <2>2. HonestResult'
    BY <1>1, <1>2, <2>1 DEF Return, HonestResult, HasNamesakeBefore
  <2> QED BY <2>1, <2>2, ReturnPreserves
<1> QED BY <1>3, <1>4

LEMMA StutterPreserves == Inductive /\ UNCHANGED vars => Inductive'
<1> SUFFICES ASSUME Inductive, UNCHANGED vars PROVE Inductive'
  OBVIOUS
<1> USE DEF Inductive, vars
<1>1. TypeOK'
  BY DEF TypeOK
<1>2. (CompletedIsPrefix /\ ReverseCompensation /\ HonestResult)'
  BY DEF CompletedIsPrefix, ReverseCompensation, HonestResult, UndoTarget
<1>3. (IntentIsOwn /\ Position)'
  BY DEF IntentIsOwn, Position, UndoTarget
<1>4. (OnlyCompletedUndone /\ KeyOrigin)'
  BY DEF OnlyCompletedUndone, KeyOrigin
<1> QED BY <1>1, <1>2, <1>3, <1>4

LEMMA NextPreserves == Inductive /\ [Next]_vars => Inductive'
BY BadArityPreserves, InvokePreserves, RequirePreserves, StepEnterPreserves,
   WriteCallPreserves, BodyIntentBlockPreserves, NestedAbandonedPreserves,
   StepOkPreserves, StepErrPreserves, CommitPreserves, UndoEnterPreserves, CompensatedPreserves, UndoRetryPreserves,
   RollbackReturns, StutterPreserves
DEF Next, Forward, Rollback, Body

\* Inductive holds throughout.
THEOREM InductiveInvariant == Spec => []Inductive
<1>1. Init => Inductive
  BY InitInductive
<1>2. Inductive /\ [Next]_vars => Inductive'
  BY NextPreserves
<1> QED BY <1>1, <1>2, PTL DEF Spec

(***************************************************************************)
(* What follows from the inductive invariant.                              *)
(***************************************************************************)

\* Every variable keeps its type.
THEOREM TypeCorrect == Spec => []TypeOK
BY InductiveInvariant, PTL DEF Inductive

\* The rollback is the mirror image of the forward run, step for step, whatever the
\* undo blocks do and however many attempts they take; a step with an earlier
\* namesake is the one exception, and in its place the namesake's undo runs.
THEOREM RollbackIsReverse == Spec => []ReverseCompensation
BY InductiveInvariant, PTL DEF Inductive

\* A saga never reports a commit, a rollback or a partial failure that did not
\* happen as reported: what it says was undone was, each step by its own undo, with
\* the one exception of steps that have an earlier namesake.
THEOREM ResultIsHonest == Spec => []HonestResult
BY InductiveInvariant, PTL DEF Inductive

\* Events of an invocation carry its own intent, unless a saga or a pipeline it
\* called was abandoned.
THEOREM IntentIsNeverStale == Spec => []IntentIsOwn
BY InductiveInvariant, PTL DEF Inductive

\* Nothing is compensated that did not complete.
THEOREM UndoneWasCompleted == Spec => []OnlyCompletedUndone
BY InductiveInvariant, PTL DEF Inductive

LEMMA KeysApart == Inductive => KeysTellStepsApart
<1> SUFFICES ASSUME Inductive, NEW c \in calls, NEW d \in calls, c.key = d.key
             PROVE  c.step = d.step /\ c.block = d.block
  BY DEF KeysTellStepsApart
<1>1. /\ c.block \in {"do", "undo"} /\ d.block \in {"do", "undo"}
      /\ c.step \in 1..N /\ d.step \in 1..N
  BY DEF Inductive, TypeOK, WriteCalls
<1>2. CASE c.block = "do" /\ d.block = "do"
  BY <1>1, <1>2, StepsAssumption DEF Inductive, KeyOrigin, DoKey, Key
<1>3. CASE c.block = "undo" /\ d.block = "undo"
  BY <1>3 DEF Inductive, KeyOrigin, UndoKey, Key
<1>4. CASE c.block # d.block
  BY <1>1, <1>4 DEF Inductive, KeyOrigin, DoKey, UndoKey, Key
<1> QED BY <1>1, <1>2, <1>3, <1>4

\* No two steps, and no do and undo, ever share an idempotency key.
THEOREM KeysNeverCollide == Spec => []KeysTellStepsApart
BY InductiveInvariant, KeysApart, PTL

(***************************************************************************)
(* The refinement of SagaContract.                                         *)
(***************************************************************************)

LEMMA ContractInit == Init => Implements!CInit
BY DEF Init, Implements!CInit, ContractState

LEMMA ContractStep ==
    Inductive /\ [Next]_vars => [Implements!CNext]_(Implements!contractVars)
<1> SUFFICES ASSUME Inductive, [Next]_vars
             PROVE  Implements!CNext \/ UNCHANGED Implements!contractVars
  OBVIOUS
<1>0. /\ Len(completed) = step - 1 /\ step \in 1..(N + 1) /\ N \in Nat
      /\ Len(completed) \in Nat
  BY StepsAssumption DEF Inductive, TypeOK, CompletedIsPrefix
<1> USE DEF ContractState
<1>1. CASE BadArity
  BY <1>1 DEF BadArity, Implements!CNext, Implements!Refuse
<1>2. CASE Invoke
  BY <1>2 DEF Invoke, Implements!CNext, Implements!Begin
<1>3. CASE RequireTrue \/ RequireFalse \/ StepEnter
  BY <1>3 DEF RequireTrue, RequireFalse, StepEnter, EvaluatingClause,
              Implements!contractVars
<1>4. CASE RequireRaises
  BY <1>0, <1>4 DEF RequireRaises, EvaluatingClause, Implements!CNext,
                    Implements!Abandon
<1>5. CASE Body
  BY <1>5 DEF Body, WriteCall, BodyIntentBlock, NestedAbandoned,
              Implements!contractVars
<1>6. CASE StepOk
  BY <1>0, <1>6 DEF StepOk, Inductive, Position, Implements!CNext, Implements!Advance
<1>7. CASE StepErr
  BY <1>0, <1>7 DEF StepErr, Inductive, Position, Implements!CNext, Implements!Fail
<1>8. CASE Commit
  BY <1>0, <1>8 DEF Commit, Return, Implements!CNext, Implements!Finish
<1>9. CASE UndoEnter \/ UndoRetry
  BY <1>9 DEF UndoEnter, UndoRetry, Implements!contractVars
<1>10. CASE UndoNoop \/ UndoOk
  <2>1. /\ Compensated /\ left > 0 /\ phase \in {"rollback", "undo"}
    BY <1>10 DEF UndoNoop, UndoOk, Inductive, Position
  <2>2. /\ left \in 1..N
        /\ IF HasNamesakeBefore(left)
           THEN UndoTarget < left /\ StepName[UndoTarget] = StepName[left]
           ELSE UndoTarget = left
    BY <2>1, UndoTargetStep
  <2>3. undone' = Append(undone, UndoTarget) /\ UndoTarget \in 1..N
    BY <2>1, UndoTargetStep DEF Compensated
  <2>4. Len(completed) - Len(undone) = left
    BY <1>0, <2>1 DEF Inductive, ReverseCompensation, TypeOK
  <2>5. UndoTarget = left \/ UndoTarget \in 1..(left - 1)
    BY <2>2, <2>3
  <2>6. ContractState = "backward" /\ ContractState' = "backward"
    BY <2>1 DEF Compensated
  <2>7. /\ Len(completed)' = Len(completed) /\ result' = result
    BY <2>1 DEF Compensated
  <2>8. CASE UndoTarget = left
    BY <2>1, <2>3, <2>4, <2>6, <2>7, <2>8
    DEF Implements!CNext, Implements!UndoLast, Implements!ToUndo
  <2>9. CASE UndoTarget \in 1..(left - 1)
    <3>1. StepName[UndoTarget] = StepName[left]
      BY <2>2, <2>3, <2>9
    <3> QED
      BY <2>1, <2>3, <2>4, <2>6, <2>7, <2>9, <3>1
      DEF Implements!CNext, Implements!UndoNamesake, Implements!ToUndo
  <2> QED BY <2>5, <2>8, <2>9
<1>11. CASE UndoExhausted \/ RolledBack
  <2>1. Len(completed) - Len(undone) = left
    BY <1>0, <1>11
    DEF UndoExhausted, RolledBack, Inductive, ReverseCompensation, TypeOK
  <2>2. phase = "undo" => left > 0
    BY DEF Inductive, Position
  <2> QED
    BY <1>11, <2>1, <2>2 DEF UndoExhausted, RolledBack, Return, Implements!CNext,
       Implements!GiveUp, Implements!AllUndone, Implements!ToUndo
<1>12. CASE UNCHANGED vars
  BY <1>12 DEF vars, Implements!contractVars
<1> QED
  BY <1>1, <1>2, <1>3, <1>4, <1>5, <1>6, <1>7, <1>8, <1>9, <1>10, <1>11, <1>12
  DEF Next, Forward, Rollback

\* The saga interpreter implements the saga contract, in which every completed step
\* is undone in its turn, and a namesake undone in its stead is a step set apart.
THEOREM SagaImplementsContract == Spec => ImplementsContract
<1>1. Init => Implements!CInit
  BY ContractInit
<1>2. Inductive /\ [Next]_vars => [Implements!CNext]_(Implements!contractVars)
  BY ContractStep
<1> QED
  BY <1>1, <1>2, InductiveInvariant, PTL DEF Spec, ImplementsContract, Implements!CSpec

(***************************************************************************)
(* Saga calls end.                                                         *)
(***************************************************************************)

\* What a saga call has still to do: which loop is under way, how many steps it has
\* left, and what is left of the one at hand.
LoopRank ==
    CASE phase = "idle" -> <<0, 0, 0>>
      [] phase = "requires" ->
            <<2, N + 1 - step, IF EvaluatingClause THEN Clauses[step] + 2 - clause ELSE 1>>
      [] phase = "do" -> <<2, N + 1 - step, 0>>
      [] phase = "rollback" -> <<1, left, MaxAttempts + 1>>
      [] phase = "undo" -> <<1, left, MaxAttempts - attempt>>

\* Neither loop of invoke_saga goes round without getting anywhere: each of their
\* steps lowers the rank, and what user code does leaves it as it is.
LoopsAdvance ==
    [][/\ LoopRank \in Ranks
       /\ Forward \/ Rollback => Lower(LoopRank', LoopRank)
       /\ Body => UNCHANGED LoopRank]_vars

\* The rank at each place of the interpreter.
RankAt ==
    /\ phase = "idle" => LoopRank = <<0, 0, 0>>
    /\ EvaluatingClause => LoopRank = <<2, N + 1 - step, Clauses[step] + 2 - clause>>
    /\ phase = "requires" /\ ~EvaluatingClause => LoopRank = <<2, N + 1 - step, 1>>
    /\ phase = "do" => LoopRank = <<2, N + 1 - step, 0>>
    /\ phase = "rollback" => LoopRank = <<1, left, MaxAttempts + 1>>
    /\ phase = "undo" => LoopRank = <<1, left, MaxAttempts - attempt>>
    /\ LoopRank \in Ranks

LEMMA LoopRankAt == Inductive => RankAt
<1> SUFFICES ASSUME Inductive PROVE RankAt
  OBVIOUS
<1>1. /\ phase = "idle" => LoopRank = <<0, 0, 0>>
      /\ phase = "requires" =>
            LoopRank = <<2, N + 1 - step,
                         IF EvaluatingClause THEN Clauses[step] + 2 - clause ELSE 1>>
      /\ phase = "do" => LoopRank = <<2, N + 1 - step, 0>>
      /\ phase = "rollback" => LoopRank = <<1, left, MaxAttempts + 1>>
      /\ phase = "undo" => LoopRank = <<1, left, MaxAttempts - attempt>>
  BY DEF LoopRank
<1>2. /\ EvaluatingClause => phase = "requires"
      /\ EvaluatingClause => Clauses[step] + 2 - clause \in Nat
  BY StepsAssumption DEF EvaluatingClause, Inductive, TypeOK
<1>3. N + 1 - step \in Nat /\ left \in Nat /\ MaxAttempts - attempt \in Nat
      /\ MaxAttempts + 1 \in Nat
  BY StepsAssumption DEF Inductive, TypeOK, MaxAttempts
<1>4. phase \in {"idle", "requires", "do", "rollback", "undo"}
  BY DEF Inductive, TypeOK, Phases
<1>5. LoopRank \in Ranks
  BY <1>1, <1>2, <1>3, <1>4 DEF Ranks
<1> QED BY <1>1, <1>2, <1>5 DEF RankAt

LEMMA ForwardLowers ==
    ASSUME Inductive, Inductive', Forward
    PROVE  Lower(LoopRank', LoopRank)
<1>r. RankAt /\ RankAt'
  BY LoopRankAt, PTL
<1>0. /\ N \in Nat /\ step \in 1..(N + 1) /\ left \in Nat /\ clause \in Nat
      /\ step <= N => Clauses[step] \in Nat
  BY StepsAssumption DEF Inductive, TypeOK
<1>1. CASE RequireTrue \/ RequireFalse
  <2>1. /\ EvaluatingClause /\ clause' = clause + 1
        /\ phase' = phase /\ step' = step
    BY <1>1 DEF RequireTrue, RequireFalse
  <2>2. phase = "requires" /\ step <= N /\ clause <= Clauses[step]
    BY <2>1 DEF EvaluatingClause
  <2>3. LoopRank = <<2, N + 1 - step, Clauses[step] + 2 - clause>>
    BY <2>1, <1>r DEF RankAt
  <2>4. CASE EvaluatingClause'
    <3>1. LoopRank' = <<2, N + 1 - step, Clauses[step] + 2 - (clause + 1)>>
      BY <2>1, <2>4, <1>r DEF RankAt
    <3>2. Clauses[step] + 2 - (clause + 1) < Clauses[step] + 2 - clause
      BY <1>0, <2>2
    <3> QED BY <2>3, <3>1, <3>2, LowerTriple
  <2>5. CASE ~EvaluatingClause'
    <3>1. LoopRank' = <<2, N + 1 - step, 1>>
      BY <2>1, <2>2, <2>5, <1>r DEF RankAt
    <3>2. 1 < Clauses[step] + 2 - clause
      BY <1>0, <2>2
    <3> QED BY <2>3, <3>1, <3>2, LowerTriple
  <2> QED BY <2>4, <2>5
<1>2. CASE StepEnter
  <2>1. phase = "requires" /\ ~EvaluatingClause /\ phase' = "do" /\ step' = step
    BY <1>0, <1>2 DEF StepEnter, EvaluatingClause
  <2>2. LoopRank = <<2, N + 1 - step, 1>> /\ LoopRank' = <<2, N + 1 - step, 0>>
    BY <2>1, <1>r DEF RankAt
  <2> QED BY <2>2, LowerTriple
<1>3. CASE StepOk
  <2>1. phase = "do" /\ phase' = "requires" /\ step' = step + 1
    BY <1>3 DEF StepOk
  <2>2. LoopRank = <<2, N + 1 - step, 0>>
    BY <2>1, <1>r DEF RankAt
  <2>3. PICK c : LoopRank' = <<2, N + 1 - (step + 1), c>>
    BY <2>1, <1>r DEF RankAt
  <2>4. N + 1 - (step + 1) < N + 1 - step
    BY <1>0
  <2> QED BY <2>2, <2>3, <2>4, LowerTriple
<1>4. CASE StepErr
  <2>1. phase = "do" /\ phase' = "rollback"
    BY <1>4 DEF StepErr
  <2>2. LoopRank = <<2, N + 1 - step, 0>> /\ LoopRank' = <<1, left', MaxAttempts + 1>>
    BY <2>1, <1>r DEF RankAt
  <2> QED BY <2>2, LowerTriple
<1>5. CASE RequireRaises \/ Commit
  <2>1. phase = "requires" /\ phase' = "idle"
    BY <1>5 DEF RequireRaises, Commit, Return, EvaluatingClause
  <2>2. PICK c : LoopRank = <<2, N + 1 - step, c>>
    BY <2>1, <1>r DEF RankAt
  <2>3. LoopRank' = <<0, 0, 0>>
    BY <2>1, <1>r DEF RankAt
  <2> QED BY <2>2, <2>3, LowerTriple
<1> QED BY <1>1, <1>2, <1>3, <1>4, <1>5 DEF Forward

LEMMA RollbackLowers ==
    ASSUME Inductive, Inductive', Rollback
    PROVE  Lower(LoopRank', LoopRank)
<1>r. RankAt /\ RankAt'
  BY LoopRankAt, PTL
<1>0. left \in Nat /\ attempt \in Nat /\ MaxAttempts \in Nat /\ attempt < MaxAttempts
  BY DEF Inductive, TypeOK, MaxAttempts
<1>1. CASE UndoEnter
  <2>1. phase = "rollback" /\ phase' = "undo" /\ left' = left /\ attempt' = 0
    BY <1>1 DEF UndoEnter
  <2>2. /\ LoopRank = <<1, left, MaxAttempts + 1>>
        /\ LoopRank' = <<1, left, MaxAttempts - 0>>
    BY <2>1, <1>r DEF RankAt
  <2>3. MaxAttempts - 0 < MaxAttempts + 1
    BY <1>0
  <2> QED BY <2>2, <2>3, LowerTriple
<1>2. CASE UndoNoop \/ UndoOk
  <2>1. /\ phase \in {"rollback", "undo"} /\ phase' = "rollback" /\ left' = left - 1
    BY <1>2 DEF UndoNoop, UndoOk, Compensated
  <2>2. PICK c : LoopRank = <<1, left, c>>
    BY <2>1, <1>r DEF RankAt
  <2>3. LoopRank' = <<1, left - 1, MaxAttempts + 1>> /\ left - 1 < left
    BY <1>0, <2>1, <1>r DEF RankAt
  <2> QED BY <2>2, <2>3, LowerTriple
<1>3. CASE UndoRetry
  <2>1. phase = "undo" /\ phase' = "undo" /\ left' = left /\ attempt' = attempt + 1
    BY <1>3 DEF UndoRetry
  <2>2. /\ LoopRank = <<1, left, MaxAttempts - attempt>>
        /\ LoopRank' = <<1, left, MaxAttempts - (attempt + 1)>>
    BY <2>1, <1>r DEF RankAt
  <2>3. MaxAttempts - (attempt + 1) < MaxAttempts - attempt
    BY <1>0
  <2> QED BY <2>2, <2>3, LowerTriple
<1>4. CASE UndoExhausted \/ RolledBack
  <2>1. phase \in {"rollback", "undo"} /\ phase' = "idle"
    BY <1>4 DEF UndoExhausted, RolledBack, Return
  <2>2. PICK c : LoopRank = <<1, left, c>>
    BY <2>1, <1>r DEF RankAt
  <2>3. LoopRank' = <<0, 0, 0>>
    BY <2>1, <1>r DEF RankAt
  <2> QED BY <2>2, <2>3, LowerTriple
<1> QED BY <1>1, <1>2, <1>3, <1>4 DEF Rollback

\* What user code does is no concern of the rank.
LEMMA BodyKeepsRank == Body => UNCHANGED LoopRank
BY DEF Body, WriteCall, BodyIntentBlock, NestedAbandoned, LoopRank, EvaluatingClause

\* Every step of the two loops of invoke_saga gets a saga call closer to its end,
\* however clauses and undo blocks end: the loops never spin.
THEOREM SagaLoopsAdvance == Spec => LoopsAdvance
<1>1. Inductive /\ Inductive' /\ [Next]_vars =>
         [/\ LoopRank \in Ranks
          /\ Forward \/ Rollback => Lower(LoopRank', LoopRank)
          /\ Body => UNCHANGED LoopRank]_vars
  BY LoopRankAt, ForwardLowers, RollbackLowers, BodyKeepsRank DEF RankAt
<1> QED BY <1>1, InductiveInvariant, PTL DEF Spec, LoopsAdvance

(***************************************************************************)
(* Lists, selections and finite sets.                                      *)
(***************************************************************************)

LEMMA ListFacts ==
    ASSUME NEW s, IsList(s)
    PROVE  /\ s \in Seq(Members(s)) /\ Len(s) \in Nat /\ DOMAIN s = 1..Len(s)
           /\ \A i \in 1..Len(s) : s[i] \in Members(s)
<1>1. s \in Seq(Members(s))
  BY DEF IsList
<1>2. Len(s) \in Nat /\ DOMAIN s = 1..Len(s)
  BY <1>1, LenProperties
<1> QED BY <1>1, <1>2 DEF Members

\* The values of a function on a finite set are finitely many, and no more than it.
LEMMA ImageIsFinite ==
    ASSUME NEW S, IsFiniteSet(S), NEW f, DOMAIN f = S
    PROVE  /\ IsFiniteSet({f[x] : x \in S})
           /\ Cardinality({f[x] : x \in S}) <= Cardinality(S)
<1> DEFINE T == {f[x] : x \in S}
           g == [x \in S |-> f[x]]
<1>1. g \in Surjection(S, T)
  BY DEF Surjection
<1> HIDE DEF g, T
<1>2. IsFiniteSet(T) /\ Cardinality(T) <= Cardinality(S)
  BY <1>1, FS_Surjection
<1> QED BY <1>2 DEF T

\* The elements of a list are finitely many.
LEMMA MembersFinite ==
    ASSUME NEW s, IsList(s)
    PROVE  IsFiniteSet(Members(s))
<1>1. DOMAIN s = 1..Len(s) /\ Len(s) \in Nat
  BY ListFacts
<1>2. IsFiniteSet(1..Len(s))
  BY <1>1, FS_Interval
<1> QED BY <1>1, <1>2, ImageIsFinite DEF Members

\* A list has one more element when one is appended.
LEMMA AppendMembers ==
    ASSUME NEW S, NEW s \in Seq(S), NEW e \in S
    PROVE  Members(Append(s, e)) = Members(s) \cup {e}
<1>1. /\ Len(s) \in Nat /\ DOMAIN s = 1..Len(s)
      /\ DOMAIN Append(s, e) = 1..(Len(s) + 1)
      /\ Append(s, e)[Len(s) + 1] = e
      /\ \A i \in 1..Len(s) : Append(s, e)[i] = s[i]
  BY AppendProperties, LenProperties
<1>2. 1..(Len(s) + 1) = (1..Len(s)) \cup {Len(s) + 1}
  BY <1>1
<1> DEFINE t == Append(s, e)
           n == Len(s)
<1>3. DOMAIN s = 1..n /\ DOMAIN t = (1..n) \cup {n + 1} /\ t[n + 1] = e /\ \A i \in 1..n : t[i] = s[i]
  BY <1>1, <1>2
<1> HIDE DEF t, n
<1>4. {t[i] : i \in (1..n) \cup {n + 1}} = {s[i] : i \in 1..n} \cup {e}
  BY <1>3
<1> QED BY <1>3, <1>4 DEF Members, t

\* What is selected is what stands at the positions meant.
LEMMA SelectedElements ==
    ASSUME NEW S, NEW s \in Seq(S), NEW P
    PROVE  Members(Selected(s, P)) = {s[i] : i \in (1..Len(s)) \cap P}
<1> DEFINE n == Len(s)
           At(k) == {s[i] : i \in (1..k) \cap P}
<1>1. n \in Nat /\ \A k \in 1..n : s[k] \in S
  BY ElementOfSeq, LenProperties
<1>2. PICK u : Selecting(s, P, u, n) /\ Selected(s, P) = u[n]
  <2>1. Len(s) \in Nat
    BY <1>1
  <2> QED BY <2>1, SelectedUpTo
<1> HIDE DEF n
<1> DEFINE Good == {j \in 0..n : u[j] \in Seq(S) /\ Members(u[j]) = At(j)}
<1>3. 0 \in Good
  <2>1. u[0] = <<>>
    BY <1>2 DEF Selecting
  <2>2. <<>> \in Seq(S) /\ Members(<<>>) = {}
    BY EmptySeq DEF Members
  <2>3. At(0) = {} /\ 0 \in 0..n
    BY <1>1
  <2> QED BY <2>1, <2>2, <2>3
<1>4. ASSUME NEW j \in 1..n, j - 1 \in Good PROVE j \in Good
  <2>1. u[j - 1] \in Seq(S) /\ Members(u[j - 1]) = At(j - 1) /\ s[j] \in S /\ j \in 0..n
    BY <1>1, <1>4
  <2>2. u[j] = IF j \in P THEN Append(u[j - 1], s[j]) ELSE u[j - 1]
    BY <1>2, <1>4 DEF Selecting
  <2>3. (1..j) \cap P = IF j \in P THEN ((1..(j - 1)) \cap P) \cup {j} ELSE (1..(j - 1)) \cap P
    BY <1>1, <1>4
  <2>4. CASE j \in P
    <3> DEFINE v == u[j - 1]
    <3>1. v \in Seq(S)
      BY <2>1
    <3>2. Members(Append(v, s[j])) = Members(v) \cup {s[j]}
      <4> HIDE DEF v
      <4> QED BY <2>1, <3>1, AppendMembers
    <3>3. At(j) = At(j - 1) \cup {s[j]}
      BY <2>3, <2>4
    <3>4. Append(v, s[j]) \in Seq(S)
      <4> HIDE DEF v
      <4> QED BY <2>1, <3>1, AppendProperties
    <3> HIDE DEF At
    <3> QED BY <2>1, <2>2, <2>4, <3>2, <3>3, <3>4
  <2>5. CASE j \notin P
    <3>1. At(j) = At(j - 1)
      BY <2>3, <2>5
    <3> HIDE DEF At
    <3> QED BY <2>1, <2>2, <2>5, <3>1
  <2> QED BY <2>4, <2>5
<1>5. n \in Good
  <2> HIDE DEF Good
  <2>1. n \in 0..n
    BY <1>1
  <2> QED BY <1>1, <1>3, <1>4, <2>1, CountUp
<1> QED BY <1>2, <1>5 DEF n

\* The joinings of the first, the first two, ..., the first n sequences.
FlattensUpTo(ss, u, n) == u = [i \in 1..n |-> IF i = 1 THEN ss[i] ELSE u[i - 1] \o ss[i]]

\* The joining of the first n sequences, as FlattenSeq builds it.
LEMMA FlatteningExists ==
    ASSUME NEW ss, NEW n \in Nat
    PROVE  \E u : FlattensUpTo(ss, u, n)
<1> DEFINE Fits(u, j) == FlattensUpTo(ss, u, j)
           Good == {j \in 0..n : \E u : Fits(u, j)}
<1>1. 0 \in Good
  <2>1. Fits([i \in 1..0 |-> ss[i]], 0)
    BY DEF FlattensUpTo
  <2> HIDE DEF Fits
  <2> QED BY <2>1
<1>2. ASSUME NEW j \in 1..n, j - 1 \in Good PROVE j \in Good
  <2>1. PICK g : Fits(g, j - 1)
    BY <1>2
  <2> DEFINE h == [i \in 1..j |-> IF i = j THEN IF j = 1 THEN ss[j] ELSE g[j - 1] \o ss[j]
                                  ELSE g[i]]
  <2>2. \A i \in 1..j : h[i] = IF i = 1 THEN ss[i] ELSE h[i - 1] \o ss[i]
    <3> TAKE i \in 1..j
    <3>1. CASE i = j
      <4>1. CASE j = 1
        BY <3>1, <4>1
      <4>2. CASE j # 1
        <5>1. i - 1 \in 1..j /\ i - 1 # j
          BY <3>1, <4>2
        <5> QED BY <3>1, <4>2, <5>1
      <4> QED BY <4>1, <4>2
    <3>2. CASE i # j
      <4>1. i \in 1..(j - 1)
        BY <3>2
      <4>2. g[i] = IF i = 1 THEN ss[i] ELSE g[i - 1] \o ss[i]
        BY <2>1, <4>1 DEF FlattensUpTo
      <4>3. i # 1 => i - 1 \in 1..j /\ i - 1 # j
        BY <4>1
      <4> QED BY <3>2, <4>2, <4>3
    <3> QED BY <3>1, <3>2
  <2>3. h = [i \in 1..j |-> h[i]]
    OBVIOUS
  <2> HIDE DEF h
  <2>4. Fits(h, j)
    BY <2>2, <2>3 DEF FlattensUpTo
  <2> HIDE DEF Fits
  <2> QED BY <2>4
<1>3. n \in Good
  <2> HIDE DEF Good
  <2>1. n \in 0..n
    OBVIOUS
  <2> QED BY <1>1, <1>2, <2>1, CountUp
<1> QED BY <1>3

\* Joining sequences over S gives a sequence over S.
LEMMA FlattenTyped ==
    ASSUME NEW S, NEW ss \in Seq(Seq(S))
    PROVE  FlattenSeq(ss) \in Seq(S)
<1> DEFINE n == Len(ss)
           f == CHOOSE u : FlattensUpTo(ss, u, n)
<1>1. n \in Nat /\ \A i \in 1..n : ss[i] \in Seq(S)
  BY ElementOfSeq, LenProperties
<1>2. CASE n = 0
  <2>1. ss = <<>>
    BY <1>2, EmptySeq
  <2>2. FlattenSeq(ss) = ss
    BY <1>2 DEF FlattenSeq
  <2> QED BY <2>1, <2>2, EmptySeq
<1>3. CASE n # 0
  <2>1. FlattenSeq(ss) = f[n]
    BY <1>3 DEF FlattenSeq, FlattensUpTo
  <2>2. FlattensUpTo(ss, f, n)
    <3> HIDE DEF n
    <3> QED BY <1>1, FlatteningExists, Zenon
  <2> HIDE DEF f, n
  <2> DEFINE Good == {j \in 0..n : j = 0 \/ f[j] \in Seq(S)}
  <2>3. 0 \in Good
    BY <1>1
  <2>4. ASSUME NEW j \in 1..n, j - 1 \in Good PROVE j \in Good
    <3>1. f[j] = IF j = 1 THEN ss[j] ELSE f[j - 1] \o ss[j]
      BY <2>2 DEF FlattensUpTo
    <3>2. CASE j = 1
      BY <1>1, <3>1, <3>2, <2>4
    <3>3. CASE j # 1
      <4>1. f[j - 1] \in Seq(S) /\ ss[j] \in Seq(S)
        BY <1>1, <2>4, <3>3
      <4>2. f[j - 1] \o ss[j] \in Seq(S)
        BY <4>1, ConcatProperties
      <4>3. j \in 0..n
        BY <1>1
      <4> QED BY <3>1, <3>3, <4>2, <4>3
    <3> QED BY <3>2, <3>3
  <2>5. n \in Good
    <3> HIDE DEF Good
    <3>1. n \in 0..n
      BY <1>1
    <3> QED BY <1>1, <2>3, <2>4, <3>1, CountUp
  <2> QED BY <1>3, <2>1, <2>5
<1> QED BY <1>2, <1>3

\* A finite set as a sequence has the elements of the set.
LEMMA SetToSeqFacts ==
    ASSUME NEW S, IsFiniteSet(S)
    PROVE  IsList(SetToSeq(S)) /\ Members(SetToSeq(S)) = S
<1> DEFINE n == Cardinality(S)
           f == SetToSeq(S)
<1>1. n \in Nat /\ ExistsBijection(1..n, S)
  BY FS_CardinalityType
<1>2. PICK g \in Bijection(1..n, S) : TRUE
  BY <1>1 DEF ExistsBijection
<1>3. g \in [1..n -> S] /\ IsInjective(g)
  BY <1>2 DEF Bijection, Injection
<1>4. f \in [1..n -> S] /\ IsInjective(f)
  BY <1>3 DEF SetToSeq
<1> HIDE DEF n, f
<1>5. IsFiniteSet(1..n) /\ Cardinality(1..n) = n
  BY <1>1, FS_Interval
<1>6. f \in Injection(1..n, S)
  BY <1>4 DEF Injection
<1>7. f \in Surjection(1..n, S)
  <2>1. Cardinality(1..n) = Cardinality(S)
    BY <1>5 DEF n
  <2> QED BY <1>6, <2>1, FS_Injection
<1>8. Members(f) = S
  BY <1>7 DEF Surjection, Members
<1>9. f \in Seq(S)
  BY <1>1, <1>4, SeqDef
<1> QED BY <1>8, <1>9 DEF IsList, f

(***************************************************************************)
(* The nodes of a body.                                                    *)
(***************************************************************************)

\* The outermost nodes of a body, the nodes inside given ones, the layers down to n.
Root(e) == [node |-> e, intent |-> FALSE, spawned |-> FALSE, reached |-> TRUE]
Roots(body) == {Root(e) : e \in Members(body)}
Below(L) == UNION {Inside(r) : r \in L}
LayersUpTo(body, u, n) == u = [k \in 0..n |-> IF k = 0 THEN Roots(body) ELSE Below(u[k - 1])]

\* The layers of a body: its expressions, those inside them, and so on.
LEMMA LayersExist ==
    ASSUME NEW body, NEW n \in Nat
    PROVE  \E u : LayersUpTo(body, u, n)
<1> DEFINE Fits(u, j) == LayersUpTo(body, u, j)
           Good == {j \in 0..n : \E u : Fits(u, j)}
<1>1. 0 \in Good
  <2>1. Fits([k \in 0..0 |-> Roots(body)], 0)
    BY DEF LayersUpTo
  <2> HIDE DEF Fits
  <2> QED BY <2>1
<1>2. ASSUME NEW j \in 1..n, j - 1 \in Good PROVE j \in Good
  <2>1. PICK g : Fits(g, j - 1)
    BY <1>2
  <2> DEFINE h == [k \in 0..j |-> IF k = j THEN Below(g[j - 1]) ELSE g[k]]
  <2>2. \A k \in 0..j : h[k] = IF k = 0 THEN Roots(body) ELSE Below(h[k - 1])
    <3> TAKE k \in 0..j
    <3>1. CASE k = j
      <4>1. k # 0 /\ k - 1 \in 0..j /\ k - 1 # j
        BY <3>1
      <4> QED BY <3>1, <4>1
    <3>2. CASE k # j /\ k = 0
      BY <2>1, <3>2 DEF LayersUpTo
    <3>3. CASE k # j /\ k # 0
      <4>1. k \in 0..(j - 1) /\ k - 1 \in 0..j /\ k - 1 # j
        BY <3>3
      <4>2. g[k] = Below(g[k - 1])
        BY <2>1, <3>3, <4>1 DEF LayersUpTo
      <4> QED BY <3>3, <4>1, <4>2
    <3> QED BY <3>1, <3>2, <3>3
  <2>3. h = [k \in 0..j |-> h[k]]
    OBVIOUS
  <2> HIDE DEF h
  <2>4. Fits(h, j)
    BY <2>2, <2>3 DEF LayersUpTo
  <2>5. j \in 0..n
    OBVIOUS
  <2> HIDE DEF Fits
  <2> QED BY <2>4, <2>5
<1>3. n \in Good
  <2> HIDE DEF Good
  <2>1. n \in 0..n
    OBVIOUS
  <2> QED BY <1>1, <1>2, <2>1, CountUp
<1> QED BY <1>3

\* The nodes of a body are its layers, down to MaxNesting.
LEMMA NodesInLayers ==
    ASSUME NEW body
    PROVE  \E u : LayersUpTo(body, u, MaxNesting) /\ NodesOf(body) = UNION {u[n] : n \in 0..MaxNesting}
<1> DEFINE f == CHOOSE u : LayersUpTo(body, u, MaxNesting)
<1>1. NodesOf(body) = UNION {f[n] : n \in 0..MaxNesting}
  BY DEF NodesOf, LayersUpTo, Roots, Root, Below
<1>2. LayersUpTo(body, f, MaxNesting)
  BY ModulesAssumption, LayersExist, Zenon
<1> QED BY <1>1, <1>2

\* A body's own expressions are among its nodes, with nothing around them.
LEMMA RootsAreNodes ==
    ASSUME NEW body, NEW e \in Members(body)
    PROVE  Root(e) \in NodesOf(body)
<1>1. PICK u : LayersUpTo(body, u, MaxNesting) /\ NodesOf(body) = UNION {u[n] : n \in 0..MaxNesting}
  BY NodesInLayers
<1>2. 0 \in 0..MaxNesting
  BY ModulesAssumption
<1>3. u[0] = Roots(body)
  BY <1>1, <1>2 DEF LayersUpTo
<1>4. Root(e) \in u[0]
  BY <1>3 DEF Roots
<1> QED BY <1>1, <1>2, <1>4

\* An expression holds finitely many others.
LEMMA InsideIsFinite ==
    ASSUME NEW r, IsList(r.node.kids)
    PROVE  IsFiniteSet(Inside(r))
<1> DEFINE S == Members(r.node.kids)
           f == [x \in S |-> [node |-> x,
                              intent |-> r.intent \/ r.node.k = "intent",
                              spawned |-> r.spawned \/ r.node.k = "spawn",
                              reached |-> r.reached /\ x \in Visited(r.node)]]
<1>1. IsFiniteSet(S)
  BY MembersFinite
<1>2. DOMAIN f = S
  OBVIOUS
<1>3. Inside(r) = {f[x] : x \in S}
  BY DEF Inside
<1> HIDE DEF f, S
<1> QED BY <1>1, <1>2, <1>3, ImageIsFinite

\* The nodes of a body are finitely many.
LEMMA NodesAreFinite ==
    ASSUME NEW body, IsBody(body)
    PROVE  IsFiniteSet(NodesOf(body))
<1>1. PICK u : LayersUpTo(body, u, MaxNesting) /\ NodesOf(body) = UNION {u[n] : n \in 0..MaxNesting}
  BY NodesInLayers
<1>2. MaxNesting \in Nat
  BY ModulesAssumption
<1> DEFINE m == MaxNesting
           Good == {j \in 0..m : IsFiniteSet(u[j])}
<1>3. 0 \in Good
  <2>1. u[0] = Roots(body)
    BY <1>1, <1>2 DEF LayersUpTo
  <2>2. IsFiniteSet(Roots(body))
    <3> DEFINE S == Members(body)
               f == [e \in S |-> Root(e)]
    <3>1. IsFiniteSet(S)
      BY MembersFinite DEF IsBody
    <3>2. DOMAIN f = S /\ Roots(body) = {f[e] : e \in S}
      BY DEF Roots
    <3> HIDE DEF f, S
    <3> QED BY <3>1, <3>2, ImageIsFinite
  <2> QED BY <1>2, <2>1, <2>2
<1>4. ASSUME NEW j \in 1..m, j - 1 \in Good PROVE j \in Good
  <2>1. u[j] = Below(u[j - 1])
    BY <1>1, <1>2, <1>4 DEF LayersUpTo
  <2>2. j \in 0..m /\ j - 1 \in 0..m
    BY <1>2, <1>4
  <2>3. u[j - 1] \subseteq NodesOf(body)
    BY <1>1, <2>2
  <2>4. \A r \in u[j - 1] : IsFiniteSet(Inside(r))
    BY <2>3, InsideIsFinite DEF IsBody
  <2>5. IsFiniteSet({Inside(r) : r \in u[j - 1]})
    <3> DEFINE S == u[j - 1]
               f == [r \in S |-> Inside(r)]
    <3>1. IsFiniteSet(S)
      BY <1>4
    <3>2. DOMAIN f = S /\ {Inside(r) : r \in S} = {f[r] : r \in S}
      OBVIOUS
    <3> HIDE DEF f, S
    <3>3. IsFiniteSet({Inside(r) : r \in S})
      BY <3>1, <3>2, ImageIsFinite
    <3> QED BY <3>3 DEF S
  <2>6. IsFiniteSet(Below(u[j - 1]))
    <3> DEFINE T == {Inside(r) : r \in u[j - 1]}
    <3>1. \A t \in T : IsFiniteSet(t)
      BY <2>4
    <3>2. IsFiniteSet(T)
      BY <2>5
    <3>3. IsFiniteSet(UNION T)
      <4> HIDE DEF T
      <4> QED BY <3>1, <3>2, FS_UNION
    <3> QED BY <3>3 DEF Below
  <2> QED BY <2>1, <2>2, <2>6
<1>5. \A n \in 0..m : IsFiniteSet(u[n])
  <2>1. m \in Nat
    BY <1>2
  <2> HIDE DEF m
  <2>2. 0..m \subseteq Good
    <3> HIDE DEF Good
    <3> QED BY <1>3, <1>4, <2>1, CountUp
  <2> QED BY <2>2
<1>6. IsFiniteSet({u[n] : n \in 0..m})
  <2> DEFINE S == 0..m
             f == [n \in S |-> u[n]]
  <2>1. IsFiniteSet(S)
    BY <1>2, FS_Interval
  <2>2. DOMAIN f = S /\ {u[n] : n \in S} = {f[n] : n \in S}
    OBVIOUS
  <2> HIDE DEF f, S
  <2>3. IsFiniteSet({u[n] : n \in S})
    BY <2>1, <2>2, ImageIsFinite
  <2> QED BY <2>3 DEF S
<1> DEFINE T == {u[n] : n \in 0..m}
<1>7. \A t \in T : IsFiniteSet(t)
  BY <1>5
<1>8. IsFiniteSet(UNION T)
  <2>1. IsFiniteSet(T)
    BY <1>6
  <2> HIDE DEF T
  <2> QED BY <1>7, <2>1, FS_UNION
<1> QED BY <1>1, <1>8

(***************************************************************************)
(* The errors of the bodies stay until the manifest's mode forgives them.  *)
(***************************************************************************)

\* What the walks over its bodies say of an item, whatever is declared elsewhere.
BodyErrors(i) ==
    CASE i.kind = "fn" -> {<<"MissingIntentForWriteCall", op>> : op \in WithoutIntent(i.body)}
                          \union Unresolved(i.body, FnCap(i))
      [] i.kind = "saga" -> SagaErrors(i)
      [] i.kind = "pipeline" -> Unresolved(i.body, PipelineCap(i))
      [] OTHER -> {}

\* Where the check or the run stands; the items the pass over the declarations is
\* through with; the time when the mode of the manifest has been applied.
Passes == {"collect", "decls", "net", "mode", "ceiling", "checked", "running", "done"}
Behind(j) == (pc \in {"decls", "net"} /\ j < at) \/ pc = "mode"
Judged == pc \in {"ceiling", "checked", "running", "done"}

\* What holds at all times; the errors of a walked body are kept while the pass
\* lasts, and afterwards unless the mode forgives their kind; what runs had none.
Placed ==
    /\ source \in DOMAIN Modules /\ caps \in Manifests
    /\ pc \in Passes /\ at \in Nat \ {0}
    /\ pc = "net" => at <= Len(Items) /\ Item.kind = "net"
BehindIsKept == \A j \in DOMAIN Items : Behind(j) => BodyErrors(Items[j]) \subseteq errs
JudgedIsKept ==
    Judged => \A j \in DOMAIN Items : \A e \in BodyErrors(Items[j]) : e[1] \in Forgiven \/ e \in errs
AcceptedIsClean == pc \in {"running", "done"} => errs = {}
ErrorsStay == Placed /\ BehindIsKept /\ JudgedIsKept /\ AcceptedIsClean

\* The items of the module under check are a list of items.
LEMMA ItemsFacts ==
    ASSUME source \in DOMAIN Modules
    PROVE  /\ Len(Items) \in Nat /\ DOMAIN Items = 1..Len(Items)
           /\ \A i \in 1..Len(Items) : IsItem(Items[i])
<1>1. IsList(Items) /\ \A i \in Members(Items) : IsItem(i)
  BY ModulesAssumption DEF Items
<1> QED BY <1>1, ListFacts

\* What the walks say of an item is among the errors of the item.
LEMMA BodyErrorsReported == ASSUME NEW i PROVE BodyErrors(i) \subseteq ItemErrors(i)
<1>1. CASE i.kind = "fn"
  <2>1. ItemErrors(i) = FnErrors(i)
    BY <1>1 DEF ItemErrors
  <2>2. BodyErrors(i) = {<<"MissingIntentForWriteCall", op>> : op \in WithoutIntent(i.body)}
                        \union Unresolved(i.body, FnCap(i))
    BY <1>1 DEF BodyErrors
  <2>3. {<<"MissingIntentForWriteCall", op>> : op \in WithoutIntent(i.body)} \subseteq FnErrors(i)
    BY Zenon DEF FnErrors
  <2>4. Unresolved(i.body, FnCap(i)) \subseteq FnErrors(i)
    BY Zenon DEF FnErrors
  <2> QED BY <2>1, <2>2, <2>3, <2>4
<1>2. CASE i.kind = "saga"
  BY <1>2 DEF BodyErrors, ItemErrors
<1>3. CASE i.kind = "pipeline"
  <2>1. ItemErrors(i) = PipelineErrors(i)
    BY <1>3 DEF ItemErrors
  <2>2. BodyErrors(i) = Unresolved(i.body, PipelineCap(i))
    BY <1>3 DEF BodyErrors
  <2>3. Unresolved(i.body, PipelineCap(i)) \subseteq PipelineErrors(i)
    BY Zenon DEF PipelineErrors
  <2> QED BY <2>1, <2>2, <2>3
<1>4. CASE i.kind \notin {"fn", "saga", "pipeline"}
  BY <1>4 DEF BodyErrors
<1> QED BY <1>1, <1>2, <1>3, <1>4

\* Nothing is behind the check when it begins.
LEMMA ErrorsInit == CheckInit => ErrorsStay
BY DEF CheckInit, ErrorsStay, Placed, BehindIsKept, JudgedIsKept, AcceptedIsClean, Passes, Behind,
       Judged

\* While the names are collected and after a step that moves no further.
LEMMA ErrorsGrow ==
    ASSUME ErrorsStay, source' = source, caps' = caps, pc' \in Passes, at' \in Nat \ {0},
           errs \subseteq errs',
           pc' = pc \/ (pc \in {"decls", "net"} /\ pc' \in {"decls", "net"})
                    \/ (pc = "decls" /\ pc' = "mode" /\ at > Len(Items))
                    \/ (pc = "collect" /\ pc' = "decls" /\ at' = 1)
                    \/ (pc = "ceiling" /\ pc' = "checked"),
           pc' = "net" => at' <= Len(Items) /\ Items[at'].kind = "net",
           at' = at \/ pc = "collect"
             \/ (at' = at + 1 /\ pc \in {"decls", "net"} /\ at <= Len(Items) /\ BodyErrors(Items[at]) \subseteq errs'),
           pc \notin {"running", "done"}
    PROVE  ErrorsStay'
<1> USE DEF ErrorsStay
<1>1. Items' = Items /\ Forgiven' = Forgiven
  BY DEF Items, Forgiven
<1>2. Placed'
  BY <1>1 DEF Placed, Item
<1>3. BehindIsKept'
  <2> SUFFICES ASSUME NEW j \in DOMAIN Items, Behind(j)' PROVE BodyErrors(Items[j]) \subseteq errs'
    BY <1>1 DEF BehindIsKept
  <2>1. j \in 1..Len(Items) /\ Len(Items) \in Nat /\ at \in Nat
    BY ItemsFacts DEF Placed
  <2>2. Behind(j) \/ (j = at /\ at' = at + 1 /\ pc \in {"decls", "net"})
    BY <2>1 DEF Behind, Placed, Passes
  <2> QED BY <2>2 DEF BehindIsKept
<1>4. JudgedIsKept'
  BY <1>1 DEF JudgedIsKept, Judged, Placed, Passes
<1>5. AcceptedIsClean'
  BY DEF AcceptedIsClean, Placed, Passes
<1> QED BY <1>2, <1>3, <1>4, <1>5

\* No step of the check, or of a run after it, loses what a walk found.
LEMMA ErrorsNext ==
    ASSUME ErrorsStay, [CheckNext]_checkVars
    PROVE  ErrorsStay'
<1> USE DEF ErrorsStay
<1>0. /\ pc \in Passes /\ at \in Nat \ {0} /\ at + 1 \in Nat \ {0}
      /\ Len(Items) \in Nat /\ DOMAIN Items = 1..Len(Items)
  BY ItemsFacts DEF Placed
<1>1. CASE RegisterType \/ RegisterModel \/ RegisterNothing
  <2>1. /\ source' = source /\ caps' = caps /\ pc = "collect" /\ pc' = pc /\ at' = at + 1
        /\ errs \subseteq errs'
    BY <1>1 DEF RegisterType, RegisterModel, RegisterNothing, Collecting
  <2> QED BY <1>0, <2>1, ErrorsGrow DEF Passes
<1>2. CASE Collected
  <2>1. /\ source' = source /\ caps' = caps /\ pc = "collect" /\ pc' = "decls" /\ at' = 1
        /\ errs \subseteq errs'
    BY <1>2 DEF Collected
  <2> QED BY <1>0, <2>1, ErrorsGrow DEF Passes
<1>3. CASE CheckItem
  <2>1. /\ source' = source /\ caps' = caps /\ pc = "decls" /\ pc' = "decls" /\ at' = at + 1
        /\ at <= Len(Items) /\ errs' = errs \union ItemErrors(Items[at])
    BY <1>3 DEF CheckItem, Item
  <2>2. BodyErrors(Items[at]) \subseteq errs'
    BY <2>1, BodyErrorsReported
  <2> QED BY <1>0, <2>1, <2>2, ErrorsGrow DEF Passes
<1>4. CASE StartNet
  <2>1. /\ source' = source /\ caps' = caps /\ pc = "decls" /\ pc' = "net" /\ at' = at
        /\ at <= Len(Items) /\ errs' = errs /\ Items[at].kind = "net"
    BY <1>4 DEF StartNet, Item
  <2> QED BY <1>0, <2>1, ErrorsGrow DEF Passes
<1>5. CASE EnterRoot \/ EnterSuccessor \/ PassSuccessor \/ LeaveNode
  <2>1. /\ source' = source /\ caps' = caps /\ pc = "net" /\ pc' = "net" /\ at' = at
        /\ errs' = errs
    BY <1>5 DEF EnterRoot, EnterSuccessor, PassSuccessor, LeaveNode, Searching
  <2>2. at <= Len(Items) /\ Items[at].kind = "net"
    BY <2>1 DEF Placed, Item
  <2> QED BY <1>0, <2>1, <2>2, ErrorsGrow DEF Passes
<1>6. CASE BackEdge \/ NetIsAcyclic
  <2>1. /\ source' = source /\ caps' = caps /\ pc = "net" /\ pc' = "decls" /\ at' = at + 1
        /\ errs \subseteq errs'
    BY <1>6 DEF BackEdge, NetIsAcyclic, Searching
  <2>2. at <= Len(Items) /\ Items[at].kind = "net"
    BY <2>1 DEF Placed, Item
  <2>3. BodyErrors(Items[at]) = {}
    BY <2>2 DEF BodyErrors
  <2> QED BY <1>0, <2>1, <2>2, <2>3, ErrorsGrow DEF Passes
<1>7. CASE CheckAliases
  <2>1. /\ source' = source /\ caps' = caps /\ pc = "decls" /\ pc' = "mode" /\ at' = at
        /\ at > Len(Items) /\ errs \subseteq errs'
    BY <1>7 DEF CheckAliases
  <2> QED BY <1>0, <2>1, ErrorsGrow DEF Passes
<1>8. CASE ApplyMode
  <2>1. /\ source' = source /\ caps' = caps /\ pc = "mode" /\ pc' \in {"checked", "ceiling"}
        /\ at' = at /\ errs' = {e \in errs : e[1] \notin Forgiven}
    BY <1>8 DEF ApplyMode
  <2>2. Items' = Items /\ Forgiven' = Forgiven
    BY <2>1 DEF Items, Forgiven
  <2>3. \A j \in DOMAIN Items : BodyErrors(Items[j]) \subseteq errs
    BY <2>1 DEF BehindIsKept, Behind
  <2>4. Placed'
    BY <2>1, <2>2 DEF Placed, Passes
  <2>5. BehindIsKept' /\ AcceptedIsClean'
    BY <2>1 DEF BehindIsKept, Behind, AcceptedIsClean
  <2>6. JudgedIsKept'
    BY <2>1, <2>2, <2>3 DEF JudgedIsKept
  <2> QED BY <2>4, <2>5, <2>6
<1>9. CASE CheckCeiling
  <2>1. /\ source' = source /\ caps' = caps /\ pc = "ceiling" /\ pc' = "checked" /\ at' = at
        /\ errs \subseteq errs'
    BY <1>9 DEF CheckCeiling
  <2> QED BY <1>0, <2>1, ErrorsGrow DEF Passes
<1>10. CASE \/ RunFn \/ RunPipeline \/ RunStep \/ Descend \/ Perform \/ Raise \/ Evaluate \/ Finish
           \/ UNCHANGED checkVars
  <2>1. /\ source' = source /\ caps' = caps /\ at' = at /\ errs' = errs
        /\ pc' = pc \/ (Judged /\ pc' \in {"running", "done"} /\ errs = {})
    BY <1>10 DEF RunFn, RunPipeline, RunStep, Descend, Perform, Raise, AtOp, Evaluate, Finish, Start, checkVars,
                 Judged, AcceptedIsClean
  <2>2. Items' = Items /\ Forgiven' = Forgiven
    BY <2>1 DEF Items, Forgiven
  <2>3. Placed'
    BY <2>1, <2>2 DEF Placed, Passes, Judged, Item
  <2>4. BehindIsKept' /\ AcceptedIsClean'
    BY <2>1, <2>2 DEF BehindIsKept, Behind, AcceptedIsClean, Judged
  <2>5. JudgedIsKept'
    BY <2>1, <2>2 DEF JudgedIsKept, Judged
  <2> QED BY <2>3, <2>4, <2>5
<1> QED BY <1>1, <1>2, <1>3, <1>4, <1>5, <1>6, <1>7, <1>8, <1>9, <1>10 DEF CheckNext

(***************************************************************************)
(* A run goes through the nodes of the body, with what stands around them. *)
(***************************************************************************)

\* A node that has been taken apart, and all the nodes of a body.
Emptied(node) == [node EXCEPT !.kids = <<>>]
NodeSet(body) == {r.node : r \in NodesOf(body)} \union {Emptied(r.node) : r \in NodesOf(body)}

\* What is run of an item.
BodyOf(i, s) == IF i.kind = "saga" THEN i.steps[s].do ELSE i.body

\* A frame stands for a node of a body, around which there is an intent from outside or not.
Stands(f, outer, r) ==
    /\ f.node \in {r.node, Emptied(r.node)}
    /\ f.intent <=> outer \/ r.intent
    /\ f.spawned <=> r.spawned
    /\ f.opaque \/ r.reached
\* The frames of a run that may be pending.
FramesOver(body) ==
    [node : NodeSet(body), intent : BOOLEAN, spawned : BOOLEAN, opaque : BOOLEAN]
Pending(body, outer) == {f \in FramesOver(body) : \E r \in NodesOf(body) : Stands(f, outer, r)}

\* The frames a run begins with stand for the expressions of the body.
LEMMA FirstFrames ==
    ASSUME NEW body, IsBody(body), NEW outer \in BOOLEAN
    PROVE  Frames(body, Outermost(outer)) \in Seq(Pending(body, outer))
<1> DEFINE fs == Frames(body, Outermost(outer))
           n == Len(body)
<1>1. n \in Nat /\ DOMAIN body = 1..n /\ \A i \in 1..n : body[i] \in Members(body)
  BY ListFacts DEF IsBody
<1>2. ASSUME NEW i \in 1..n PROVE fs[i] \in Pending(body, outer)
  <2>1. fs[i] = [node |-> body[i], intent |-> outer, spawned |-> FALSE, opaque |-> FALSE]
    BY <1>1, <1>2 DEF Frames, Outermost
  <2>2. Root(body[i]) \in NodesOf(body)
    BY <1>1, <1>2, RootsAreNodes
  <2>3. body[i] \in NodeSet(body)
    BY <2>2 DEF NodeSet, Root
  <2> DEFINE f == fs[i]
  <2>4. f \in FramesOver(body)
    BY <2>1, <2>3 DEF FramesOver
  <2>5. Stands(f, outer, Root(body[i]))
    BY <2>1 DEF Stands, Root
  <2> HIDE DEF f
  <2>6. f \in Pending(body, outer)
    BY <2>2, <2>4, <2>5 DEF Pending
  <2> QED BY <2>6 DEF f
<1>3. fs = [i \in 1..n |-> fs[i]]
  BY <1>1 DEF Frames
<1> HIDE DEF fs, n
<1>4. fs \in [1..n -> Pending(body, outer)]
  BY <1>2, <1>3
<1>5. fs \in Seq(Pending(body, outer))
  BY <1>1, <1>4, SeqDef
<1> QED BY <1>5 DEF fs

\* What is left after a frame has been taken apart.
Around(f) ==
    [intent |-> f.intent \/ f.node.k = "intent", spawned |-> f.spawned \/ f.node.k = "spawn",
     opaque |-> f.opaque \/ f.node.k = "opaque"]

\* What a frame stands for, and what is inside of it.
LEMMA PendingNode ==
    ASSUME NEW body, IsBody(body), NEW outer \in BOOLEAN, NEW f \in Pending(body, outer)
    PROVE  \E r \in NodesOf(body) :
              /\ Stands(f, outer, r)
              /\ IsList(r.node.kids) /\ Inside(r) \subseteq NodesOf(body)
              /\ f.node.k = r.node.k /\ f.node.m = r.node.m /\ f.node.o = r.node.o
              /\ f.node.args = r.node.args
              /\ f.node = r.node \/ f.node.kids = <<>>
              /\ Emptied(f.node) = Emptied(r.node)
<1>1. PICK r \in NodesOf(body) : Stands(f, outer, r)
  BY DEF Pending
<1>2. /\ DOMAIN r.node = {"k", "m", "o", "args", "arms", "kids"} /\ IsList(r.node.kids)
      /\ Inside(r) \subseteq NodesOf(body)
  BY DEF IsBody
<1> DEFINE d == r.node
<1>3. /\ Emptied(d).k = d.k /\ Emptied(d).m = d.m /\ Emptied(d).o = d.o
      /\ Emptied(d).args = d.args /\ Emptied(d).kids = <<>>
      /\ Emptied(Emptied(d)) = Emptied(d)
  <2>1. DOMAIN d = {"k", "m", "o", "args", "arms", "kids"}
    BY <1>2
  <2> HIDE DEF d
  <2>2. Emptied(d) = [x \in DOMAIN d |-> IF x = "kids" THEN <<>> ELSE d[x]]
    BY DEF Emptied
  <2> QED BY <2>1, <2>2 DEF Emptied
<1>4. f.node = d \/ f.node = Emptied(d)
  BY <1>1 DEF Stands
<1> DEFINE g == f.node
<1>5. /\ g.k = d.k /\ g.m = d.m /\ g.o = d.o /\ g.args = d.args
      /\ g = d \/ g.kids = <<>>
      /\ Emptied(g) = Emptied(d)
  <2> HIDE DEF g, d
  <2>1. g = d \/ g = Emptied(d)
    BY <1>4 DEF g, d
  <2> QED BY <1>3, <2>1
<1> QED BY <1>1, <1>2, <1>5

\* A frame taken apart leaves frames of the same body.
LEMMA NextFrames ==
    ASSUME NEW body, IsBody(body), NEW outer \in BOOLEAN, NEW f \in Pending(body, outer),
           f.node.kids # <<>>, NEW taken
    PROVE  /\ Frames(Selected(f.node.kids, taken), Around(f)) \in Seq(Pending(body, outer))
           /\ [f EXCEPT !.node.kids = <<>>] \in Pending(body, outer)
<1>1. PICK r \in NodesOf(body) :
              /\ Stands(f, outer, r)
              /\ IsList(r.node.kids) /\ Inside(r) \subseteq NodesOf(body)
              /\ f.node.k = r.node.k /\ f.node.m = r.node.m /\ f.node.o = r.node.o
              /\ f.node.args = r.node.args
              /\ f.node = r.node \/ f.node.kids = <<>>
              /\ Emptied(f.node) = Emptied(r.node)
  BY PendingNode
<1>2. f.node = r.node
  BY <1>1
<1>3. f \in FramesOver(body)
  BY DEF Pending
<1> DEFINE S == Members(r.node.kids)
           x == Selected(r.node.kids, taken)
           n == Len(x)
<1>4. x \in Seq(S)
  <2>1. r.node.kids \in Seq(S)
    BY <1>1 DEF IsList
  <2> HIDE DEF S
  <2> QED BY <2>1, SelectedTyped
<1>5. n \in Nat /\ DOMAIN x = 1..n /\ \A i \in 1..n : x[i] \in S
  <2> HIDE DEF x, S
  <2> QED BY <1>4, ElementOfSeq, LenProperties
<1> DEFINE fs == Frames(x, Around(f))
<1> HIDE DEF x
<1>6. ASSUME NEW i \in 1..n PROVE fs[i] \in Pending(body, outer)
  <2> DEFINE e == x[i]
             g == fs[i]
             q == [node |-> e, intent |-> r.intent \/ r.node.k = "intent",
                   spawned |-> r.spawned \/ r.node.k = "spawn",
                   reached |-> r.reached /\ e \in Visited(r.node)]
  <2>1. g = [node |-> e, intent |-> f.intent \/ r.node.k = "intent",
             spawned |-> f.spawned \/ r.node.k = "spawn",
             opaque |-> f.opaque \/ r.node.k = "opaque"]
    <3>1. g = [node |-> e, intent |-> f.intent \/ f.node.k = "intent",
               spawned |-> f.spawned \/ f.node.k = "spawn",
               opaque |-> f.opaque \/ f.node.k = "opaque"]
      BY <1>5, <1>6 DEF Frames, Around
    <3> HIDE DEF g, e
    <3> QED BY <1>2, <3>1
  <2>2. e \in S
    BY <1>5, <1>6
  <2> HIDE DEF e
  <2>3. q \in NodesOf(body)
    <3>1. q \in Inside(r)
      BY <2>2 DEF Inside
    <3> QED BY <1>1, <3>1
  <2>4. e \in NodeSet(body)
    <3>1. q.node = e
      OBVIOUS
    <3> HIDE DEF q
    <3> QED BY <2>3, <3>1 DEF NodeSet
  <2>5. g \in FramesOver(body)
    BY <1>3, <2>1, <2>4 DEF FramesOver
  <2>6. Stands(g, outer, q)
    <3>1. g.node = e /\ q.node = e
      BY <2>1
    <3>2. g.intent <=> outer \/ q.intent
      <4>1. g.intent <=> f.intent \/ r.node.k = "intent"
        <5> HIDE DEF g, q
        <5> QED BY <2>1
      <4>2. q.intent <=> r.intent \/ r.node.k = "intent"
        OBVIOUS
      <4>3. f.intent <=> outer \/ r.intent
        BY <1>1 DEF Stands
      <4> HIDE DEF g, q
      <4> QED BY <4>1, <4>2, <4>3
    <3>3. g.spawned <=> q.spawned
      <4>1. g.spawned <=> f.spawned \/ r.node.k = "spawn"
        <5> HIDE DEF g, q
        <5> QED BY <2>1
      <4>2. q.spawned <=> r.spawned \/ r.node.k = "spawn"
        OBVIOUS
      <4>3. f.spawned <=> r.spawned
        BY <1>1 DEF Stands
      <4> HIDE DEF g, q
      <4> QED BY <4>1, <4>2, <4>3
    <3>4. g.opaque \/ q.reached
      <4>1. g.opaque <=> f.opaque \/ r.node.k = "opaque"
        <5> HIDE DEF g, q
        <5> QED BY <2>1
      <4>2. q.reached <=> r.reached /\ e \in Visited(r.node)
        OBVIOUS
      <4>3. f.opaque \/ r.reached
        BY <1>1 DEF Stands
      <4>4. r.node.k = "opaque" \/ e \in Visited(r.node)
        BY <2>2 DEF Visited
      <4> HIDE DEF g, q
      <4> QED BY <4>1, <4>2, <4>3, <4>4
    <3> HIDE DEF g, q
    <3> QED BY <3>1, <3>2, <3>3, <3>4 DEF Stands
  <2> HIDE DEF g, q
  <2>7. g \in Pending(body, outer)
    BY <2>3, <2>5, <2>6 DEF Pending
  <2> QED BY <2>7 DEF g
<1>7. fs = [i \in 1..n |-> fs[i]]
  BY <1>5 DEF Frames
<1>8. fs \in Seq(Pending(body, outer))
  <2> HIDE DEF fs, n
  <2>1. fs \in [1..n -> Pending(body, outer)]
    BY <1>6, <1>7
  <2> QED BY <1>5, <2>1, SeqDef
<1>9. [f EXCEPT !.node.kids = <<>>] \in Pending(body, outer)
  <2> DEFINE h == [f EXCEPT !.node = Emptied(f.node)]
  <2>1. h = [f EXCEPT !.node.kids = <<>>]
    BY <1>3 DEF Emptied, FramesOver
  <2>2. /\ h.node = Emptied(r.node) /\ h.intent = f.intent /\ h.spawned = f.spawned
        /\ h.opaque = f.opaque
    BY <1>1, <1>3 DEF FramesOver
  <2>3. h \in FramesOver(body)
    <3>1. Emptied(r.node) \in NodeSet(body)
      BY DEF NodeSet
    <3> QED BY <1>1, <1>3, <3>1 DEF FramesOver
  <2>4. Stands(h, outer, r)
    <3> HIDE DEF h
    <3> QED BY <1>1, <2>2 DEF Stands
  <2> HIDE DEF h
  <2>5. h \in Pending(body, outer)
    BY <2>3, <2>4 DEF Pending
  <2> QED BY <2>1, <2>5
<1> QED BY <1>2, <1>8, <1>9 DEF x

\* Whether the item has a cap parameter, the cap it declares, what it is narrowed to.
Given(i) == CapParam(i) # <<>> /\ CapParam(i)[1].type.k = "cap"
Declares(i) == IF Given(i) THEN CapValue(CapParam(i)[1].type) ELSE CapStar
Narrows(i, cap) == IF i.kind = "fn" /\ ~cap.star THEN NarrowedCap(cap, i.body) ELSE cap

\* The body of the run, and whether it is inside an intent from the start.
RunBody == BodyOf(Runner, running.step)
RunOuter == Runner.kind # "fn"

\* The run is one of an item, under the cap the item declares.
Chosen ==
    /\ running.item \in DOMAIN Items /\ Runner.kind \in {"fn", "saga", "pipeline"}
    /\ Runner.kind = "saga" => running.step \in DOMAIN Runner.steps
    /\ running.given = Given(Runner)
    /\ running.declared = Declares(Runner)
    /\ running.narrowed = Narrows(Runner, running.declared)
\* The effect is the one of the call in a frame.
Meant(f) ==
    /\ f.node.k = "op" /\ made.m = f.node.m /\ made.o = f.node.o
    /\ made.intent = f.intent /\ made.spawned = f.spawned /\ made.opaque = f.opaque
    /\ made.args = f.node.args /\ made.target \in Reached(f.node)

\* The invariant of a run: what is pending comes from the body, and so did the effect.
RunsWell ==
    /\ pc # "running" => made = NoEffect
    /\ pc = "running" => /\ Chosen
                         /\ todo \in Seq(Pending(RunBody, RunOuter))
                         /\ Effect => \E f \in Pending(RunBody, RunOuter) : Meant(f)

\* What is run of an item is a body.
LEMMA BodiesAreBodies ==
    ASSUME source \in DOMAIN Modules, NEW j \in DOMAIN Items, NEW s,
           Items[j].kind \in {"fn", "saga", "pipeline"},
           Items[j].kind = "saga" => s \in DOMAIN Items[j].steps
    PROVE  IsBody(BodyOf(Items[j], s))
<1> DEFINE i == Items[j]
<1>1. IsItem(i)
  BY ItemsFacts
<1>2. CASE i.kind = "saga"
  <2>1. i.steps[s] \in Members(i.steps)
    BY <1>2 DEF Members
  <2>2. \A x \in Members(i.steps) : IsBody(x.do)
    BY <1>1, <1>2 DEF IsItem
  <2>3. IsBody(i.steps[s].do)
    BY <2>1, <2>2
  <2> QED BY <1>2, <2>3 DEF BodyOf
<1>3. CASE i.kind # "saga"
  BY <1>1, <1>3 DEF IsItem, BodyOf
<1> QED BY <1>2, <1>3

\* Nothing runs before the check.
LEMMA RunsInit == CheckInit => RunsWell
BY DEF CheckInit, RunsWell

\* A run begins with the cap and the body of the item that is called.
LEMMA RunsStart ==
    ASSUME source \in DOMAIN Modules, source' = source, NEW j \in DOMAIN Items, NEW s,
           Items[j].kind \in {"fn", "saga", "pipeline"},
           Items[j].kind = "saga" => s \in DOMAIN Items[j].steps,
           Start(j, s, BodyOf(Items[j], s), Items[j].kind # "fn"), made' = NoEffect
    PROVE  RunsWell'
<1> DEFINE i == Items[j]
           body == BodyOf(i, s)
           outer == i.kind # "fn"
<1>1. Items' = Items
  BY DEF Items
<1>2. /\ pc' = "running" /\ todo' = Frames(body, Outermost(outer))
      /\ running' = [item |-> j, step |-> s, given |-> Given(i), declared |-> Declares(i),
                     narrowed |-> IF i.kind = "fn" /\ ~Declares(i).star
                                  THEN NarrowedCap(Declares(i), body) ELSE Declares(i)]
  BY DEF Start, Given, Declares
<1>3. /\ running'.item = j /\ running'.step = s /\ running'.given = Given(i)
      /\ running'.declared = Declares(i)
      /\ running'.narrowed = IF i.kind = "fn" /\ ~Declares(i).star
                             THEN NarrowedCap(Declares(i), body) ELSE Declares(i)
  BY <1>2
<1>4. Runner' = i /\ RunBody' = body /\ RunOuter' = outer
  BY <1>1, <1>3 DEF Runner, RunBody, RunOuter
<1>5. Narrows(i, Declares(i)) = running'.narrowed
  BY <1>3 DEF Narrows, BodyOf
<1>6. Chosen'
  <2>1. i.kind \in {"fn", "saga", "pipeline"} /\ (i.kind = "saga" => s \in DOMAIN i.steps)
    OBVIOUS
  <2> HIDE DEF i
  <2> QED BY <1>1, <1>3, <1>4, <1>5, <2>1 DEF Chosen
<1>7. IsBody(body)
  BY BodiesAreBodies
<1>8. outer \in BOOLEAN
  OBVIOUS
<1>9. Frames(body, Outermost(outer)) \in Seq(Pending(body, outer))
  <2> HIDE DEF body, outer
  <2> QED BY <1>7, <1>8, FirstFrames
<1>10. todo' \in Seq(Pending(RunBody, RunOuter))'
  <2> HIDE DEF body, outer
  <2> QED BY <1>2, <1>4, <1>9
<1>11. ~Effect'
  BY DEF Effect, NoEffect
<1> QED BY <1>2, <1>6, <1>10, <1>11 DEF RunsWell

\* A step of a run that stays with its body.
LEMMA RunsOn ==
    ASSUME RunsWell, pc = "running", UNCHANGED <<source, pc, running>>,
           todo' \in Seq(Pending(RunBody, RunOuter)),
           Effect' => \E f \in Pending(RunBody, RunOuter) : Meant(f)'
    PROVE  RunsWell'
<1>1. Items' = Items /\ Runner' = Runner /\ RunBody' = RunBody /\ RunOuter' = RunOuter
  BY DEF Items, Runner, RunBody, RunOuter
<1>2. Chosen'
  BY <1>1 DEF RunsWell, Chosen
<1> QED BY <1>1, <1>2 DEF RunsWell

\* Every step of a run stays with the body and its cap.
LEMMA RunsNext ==
    ASSUME ErrorsStay, RunsWell, [CheckNext]_checkVars
    PROVE  RunsWell'
<1>0. source \in DOMAIN Modules
  BY DEF ErrorsStay, Placed
<1> DEFINE P == Pending(RunBody, RunOuter)
<1>1. CASE \/ RegisterType \/ RegisterModel \/ RegisterNothing \/ Collected
           \/ CheckItem \/ StartNet \/ EnterRoot \/ EnterSuccessor \/ PassSuccessor \/ BackEdge
           \/ LeaveNode \/ NetIsAcyclic \/ CheckAliases \/ ApplyMode \/ CheckCeiling
  <2>1. pc # "running" /\ pc' # "running" /\ made' = made
    BY <1>1 DEF RegisterType, RegisterModel, RegisterNothing, Collecting, Collected, CheckItem,
                StartNet, EnterRoot, EnterSuccessor, PassSuccessor, Searching, BackEdge, LeaveNode,
                NetIsAcyclic, CheckAliases, ApplyMode, CheckCeiling, run
  <2> QED BY <2>1 DEF RunsWell, NoEffect
<1>2. CASE RunFn
  <2>1. PICK j \in DOMAIN Items : Items[j].kind = "fn" /\ Start(j, 0, Items[j].body, FALSE)
    BY <1>2 DEF RunFn
  <2>2. source' = source /\ made' = NoEffect
    BY <1>2 DEF RunFn, RunsWell
  <2>3. BodyOf(Items[j], 0) = Items[j].body
    BY <2>1 DEF BodyOf
  <2>4. Start(j, 0, BodyOf(Items[j], 0), Items[j].kind # "fn")
    <3>1. (Items[j].kind # "fn") = FALSE
      BY <2>1
    <3> QED BY <2>1, <2>3, <3>1
  <2> QED BY <1>0, <2>1, <2>2, <2>4, RunsStart
<1>3. CASE RunPipeline
  <2>1. PICK j \in DOMAIN Items : Items[j].kind = "pipeline" /\ Start(j, 0, Items[j].body, TRUE)
    BY <1>3 DEF RunPipeline
  <2>2. source' = source /\ made' = NoEffect
    BY <1>3 DEF RunPipeline, RunsWell
  <2>3. BodyOf(Items[j], 0) = Items[j].body
    BY <2>1 DEF BodyOf
  <2>4. Start(j, 0, BodyOf(Items[j], 0), Items[j].kind # "fn")
    <3>1. (Items[j].kind # "fn") = TRUE
      BY <2>1
    <3> QED BY <2>1, <2>3, <3>1
  <2> QED BY <1>0, <2>1, <2>2, <2>4, RunsStart
<1>4. CASE RunStep
  <2>1. PICK j \in DOMAIN Items : /\ Items[j].kind = "saga"
                                  /\ \E s \in DOMAIN Items[j].steps :
                                        Start(j, s, Items[j].steps[s].do, TRUE)
    BY <1>4 DEF RunStep
  <2>2. PICK s \in DOMAIN Items[j].steps : Start(j, s, Items[j].steps[s].do, TRUE)
    BY <2>1
  <2>3. source' = source /\ made' = NoEffect
    BY <1>4 DEF RunStep, RunsWell
  <2>4. BodyOf(Items[j], s) = Items[j].steps[s].do
    BY <2>1 DEF BodyOf
  <2>5. Start(j, s, BodyOf(Items[j], s), Items[j].kind # "fn")
    <3>1. (Items[j].kind # "fn") = TRUE
      BY <2>1
    <3> QED BY <2>2, <2>4, <3>1
  <2> QED BY <1>0, <2>1, <2>2, <2>3, <2>5, RunsStart
<1>5. ASSUME pc = "running", todo # <<>>
      PROVE  /\ todo \in Seq(P) /\ Head(todo) \in P /\ Tail(todo) \in Seq(P)
             /\ IsBody(RunBody) /\ RunOuter \in BOOLEAN
  <2>1. todo \in Seq(P) /\ Chosen
    BY <1>5 DEF RunsWell
  <2>2. Head(todo) \in P /\ Tail(todo) \in Seq(P)
    <3> HIDE DEF P
    <3> QED BY <1>5, <2>1, HeadTailProperties
  <2>3. IsBody(RunBody)
    BY <1>0, <2>1, BodiesAreBodies DEF Chosen, RunBody, Runner
  <2> QED BY <2>1, <2>2, <2>3 DEF RunOuter
<1>6. CASE Descend
  <2> DEFINE f == Head(todo)
  <2>1. /\ pc = "running" /\ todo # <<>> /\ f.node.kids # <<>>
        /\ made' = NoEffect /\ UNCHANGED <<source, pc, running>>
    BY <1>6 DEF Descend
  <2>2. PICK taken : todo' = Frames(Selected(f.node.kids, taken), Around(f))
                             \o <<[f EXCEPT !.node.kids = <<>>]>> \o Tail(todo)
    BY <1>6 DEF Descend, Around
  <2>3. f \in P /\ Tail(todo) \in Seq(P) /\ IsBody(RunBody) /\ RunOuter \in BOOLEAN
    BY <1>5, <2>1
  <2>4. /\ Frames(Selected(f.node.kids, taken), Around(f)) \in Seq(P)
        /\ [f EXCEPT !.node.kids = <<>>] \in P
    <3> HIDE DEF f
    <3> QED BY <2>1, <2>3, NextFrames
  <2>5. todo' \in Seq(P)
    <3> DEFINE a == Frames(Selected(f.node.kids, taken), Around(f))
               b == [f EXCEPT !.node.kids = <<>>]
               c == Tail(todo)
    <3>1. todo' = (a \o <<b>>) \o c
      BY <2>2
    <3>2. a \in Seq(P) /\ b \in P /\ c \in Seq(P)
      BY <2>3, <2>4
    <3> HIDE DEF a, b, c, P
    <3>3. <<b>> \in Seq(P)
      BY <3>2
    <3>4. a \o <<b>> \in Seq(P)
      BY <3>2, <3>3, ConcatProperties
    <3>5. (a \o <<b>>) \o c \in Seq(P)
      BY <3>2, <3>4, ConcatProperties
    <3> QED BY <3>1, <3>5
  <2>6. ~Effect'
    BY <2>1 DEF Effect, NoEffect
  <2> HIDE DEF f
  <2> QED BY <2>1, <2>5, <2>6, RunsOn
<1>7. CASE Perform
  <2>1. pc = "running" /\ todo # <<>> /\ todo' = Tail(todo) /\ UNCHANGED <<source, pc, running>>
    BY <1>7 DEF Perform, AtOp
  <2>2. PICK f \in P : f = Head(todo)
    BY <1>5, <2>1
  <2>3. PICK target \in Reached(f.node) :
              made' = [m |-> f.node.m, o |-> f.node.o, args |-> f.node.args, target |-> target,
                       intent |-> f.intent, spawned |-> f.spawned, opaque |-> f.opaque]
    BY <1>7, <2>2 DEF Perform
  <2>4. f.node.k = "op"
    BY <1>7, <2>2 DEF Perform, AtOp
  <2>5. Meant(f)'
    BY <2>3, <2>4 DEF Meant
  <2>6. Tail(todo) \in Seq(P)
    BY <1>5, <2>1
  <2> QED BY <2>1, <2>2, <2>5, <2>6, RunsOn
<1>8. CASE Evaluate
  <2>1. /\ pc = "running" /\ todo # <<>> /\ todo' = Tail(todo) /\ made' = NoEffect
        /\ UNCHANGED <<source, pc, running>>
    BY <1>8 DEF Evaluate
  <2>2. todo' \in Seq(P)
    BY <1>5, <2>1
  <2>3. ~Effect'
    BY <2>1 DEF Effect, NoEffect
  <2> QED BY <2>1, <2>2, <2>3, RunsOn
<1>11. CASE Raise
  <2>1. /\ pc = "running" /\ todo # <<>> /\ made' = NoEffect
        /\ UNCHANGED <<source, pc, running>>
    BY <1>11 DEF Raise, AtOp
  <2>2. PICK rest \in 2..(Len(todo) + 1) : todo' = SubSeq(todo, rest, Len(todo))
    BY <1>11 DEF Raise
  <2>3. todo \in Seq(P)
    BY <1>5, <2>1
  <2>4. todo' \in Seq(P)
    <3> HIDE DEF P
    <3>1. rest \in 1..(Len(todo) + 1) /\ Len(todo) \in Nat
      BY <2>3
    <3>2. SubSeq(todo, rest, Len(todo)) \in Seq(P)
      BY <2>3, <3>1
    <3> QED BY <2>2, <3>2
  <2>5. ~Effect'
    BY <2>1 DEF Effect, NoEffect
  <2> QED BY <2>1, <2>4, <2>5, RunsOn
<1>9. CASE Finish
  BY <1>9 DEF Finish, RunsWell
<1>10. CASE UNCHANGED checkVars
  <2>1. UNCHANGED <<source, pc, running, todo, made>>
    BY <1>10 DEF checkVars, run
  <2>2. /\ Items' = Items /\ Runner' = Runner /\ RunBody' = RunBody /\ RunOuter' = RunOuter
        /\ (Effect' <=> Effect)
    BY <2>1 DEF Items, Runner, RunBody, RunOuter, Effect
  <2>3. Chosen' <=> Chosen
    BY <2>1, <2>2 DEF Chosen
  <2>4. ASSUME NEW f PROVE Meant(f)' <=> Meant(f)
    BY <2>1 DEF Meant
  <2> QED BY <2>1, <2>2, <2>3, <2>4 DEF RunsWell
<1> QED BY <1>1, <1>2, <1>3, <1>4, <1>6, <1>7, <1>8, <1>9, <1>10, <1>11 DEF CheckNext

\* A declared cap parameter is one of the parameters.
LEMMA CapParamFacts ==
    ASSUME NEW i, IsItem(i), i.kind \in {"fn", "saga", "pipeline"}, CapParam(i) # <<>>
    PROVE  /\ CapParam(i)[1] \in Members(i.params)
           /\ CapParam(i)[1].type.k = "cap" =>
                 /\ IsList(CapParam(i)[1].type.entries)
                 /\ \A e \in Members(CapParam(i)[1].type.entries) :
                       /\ Len(e.path) \in {1, 2} /\ IsList(e.path) /\ "*" \notin Members(e.path)
                       /\ IsList(e.allow.items)
<1>1. IsSignature(i.params)
  BY DEF IsItem
<1> DEFINE ps == i.params
           x == CapParam(i)
           S == Members(ps)
<1>2. x \in Seq(S)
  <2>1. ps \in Seq(S)
    BY <1>1 DEF IsSignature, IsList
  <2>2. x = Selected(ps, {n \in DOMAIN ps : ps[n].name = "cap"})
    BY DEF CapParam
  <2> HIDE DEF ps, x, S
  <2> QED BY <2>1, <2>2, SelectedTyped
<1>3. x # <<>>
  OBVIOUS
<1>4. x[1] \in S
  <2> HIDE DEF x, S
  <2>1. Len(x) \in Nat /\ Len(x) # 0 /\ DOMAIN x = 1..Len(x)
    BY <1>2, <1>3, EmptySeq, LenProperties
  <2>2. 1 \in 1..Len(x)
    BY <2>1
  <2> QED BY <1>2, <2>2, ElementOfSeq
<1>5. \A p \in S : p.type.k = "cap" =>
          /\ IsList(p.type.entries)
          /\ \A e \in Members(p.type.entries) :
                /\ Len(e.path) \in {1, 2} /\ IsList(e.path) /\ "*" \notin Members(e.path)
                /\ IsList(e.allow.items)
  BY <1>1 DEF IsSignature
<1> HIDE DEF S, x
<1>6. x[1].type.k = "cap" =>
          /\ IsList(x[1].type.entries)
          /\ \A e \in Members(x[1].type.entries) :
                /\ Len(e.path) \in {1, 2} /\ IsList(e.path) /\ "*" \notin Members(e.path)
                /\ IsList(e.allow.items)
  BY <1>4, <1>5
<1> QED BY <1>4, <1>6 DEF S, x

\* A path of one or two segments, as a sequence.
LEMMA ShortPaths ==
    ASSUME NEW p, IsList(p), NEW m, NEW o
    PROVE  /\ Len(p) = 1 => p = <<p[1]>> /\ p[1] \in Members(p)
           /\ Len(p) = 2 => /\ p = <<p[1], p[2]>>
                            /\ p[1] \in Members(p) /\ p[2] \in Members(p)
<1>1. p \in Seq(Members(p)) /\ DOMAIN p = 1..Len(p) /\ \A i \in 1..Len(p) : p[i] \in Members(p)
  BY ListFacts
<1>2. p = [i \in 1..Len(p) |-> p[i]]
  BY <1>1, LenProperties
<1>3. CASE Len(p) = 1
  <2>1. p = [i \in 1..1 |-> p[i]] /\ 1 \in 1..1
    BY <1>2, <1>3
  <2> QED BY <1>1, <1>3, <2>1
<1>4. CASE Len(p) = 2
  <2>1. p = [i \in 1..2 |-> p[i]] /\ 1 \in 1..2 /\ 2 \in 1..2
    BY <1>2, <1>4
  <2> QED BY <1>1, <1>4, <2>1
<1> QED BY <1>3, <1>4

\* An operation that the paths of a signature cover passes the check by name.
LEMMA NamedByPaths ==
    ASSUME NEW t, NEW m, NEW o, SetCovers(PathsOf(t.entries), m, o),
           \A e \in Members(t.entries) :
              Len(e.path) \in {1, 2} /\ IsList(e.path) /\ "*" \notin Members(e.path)
    PROVE  SimplePermits(CapValue(t), m, o)
<1>1. PICK q \in PathsOf(t.entries) : q \in {<<"*", "*">>, <<m, o>>, <<m, "*">>}
  BY DEF SetCovers
<1>2. PICK e \in Members(t.entries) : q = IF Len(e.path) = 1 THEN <<e.path[1], "*">> ELSE e.path
  BY <1>1 DEF PathsOf
<1> DEFINE p == e.path
<1>3. Len(p) \in {1, 2} /\ IsList(p) /\ "*" \notin Members(p)
  BY <1>2
<1>4. p \in {<<m>>, <<m, o>>}
  <2>1. q = IF Len(p) = 1 THEN <<p[1], "*">> ELSE p
    BY <1>2
  <2> HIDE DEF p
  <2>2. CASE Len(p) = 1
    <3>1. p = <<p[1]>> /\ p[1] \in Members(p)
      BY <1>3, <2>2, ShortPaths
    <3>2. q = <<p[1], "*">>
      BY <2>1, <2>2
    <3>3. p[1] # "*"
      BY <1>3, <3>1
    <3>4. p[1] = m
      BY <1>1, <3>2, <3>3
    <3> QED BY <3>1, <3>4
  <2>3. CASE Len(p) = 2
    <3>1. p = <<p[1], p[2]>> /\ p[1] \in Members(p) /\ p[2] \in Members(p)
      BY <1>3, <2>3, ShortPaths
    <3>2. q = p
      BY <2>1, <2>3
    <3>3. p[1] # "*" /\ p[2] # "*"
      BY <1>3, <3>1
    <3>4. p # <<"*", "*">> /\ p # <<m, "*">>
      BY <3>1, <3>3
    <3> QED BY <1>1, <3>2, <3>4
  <2> QED BY <1>3, <2>2, <2>3
<1>5. Names(e, m, o)
  BY <1>4 DEF Names
<1> QED BY <1>2, <1>5 DEF SimplePermits, CapValue

\* The effect just made is one of the calls of the body under way.
LEMMA MadeFromCall ==
    ASSUME ErrorsStay, RunsWell, Effect
    PROVE  /\ pc = "running" /\ Chosen /\ IsItem(Runner) /\ IsBody(RunBody) /\ errs = {}
           /\ \E r \in NodesOf(RunBody) :
                 /\ r.node.k = "op" /\ r.node.m = made.m /\ r.node.o = made.o
                 /\ made.intent <=> RunOuter \/ r.intent
                 /\ made.spawned <=> r.spawned
                 /\ made.opaque \/ r.reached
                 /\ made.args = r.node.args /\ made.target \in Reached(r.node)
<1>1. pc = "running"
  BY DEF RunsWell, Effect, NoEffect
<1>2. Chosen /\ source \in DOMAIN Modules
  BY <1>1 DEF RunsWell, ErrorsStay, Placed
<1>3. IsItem(Runner) /\ IsBody(RunBody)
  BY <1>2, ItemsFacts, BodiesAreBodies DEF Chosen, Runner, RunBody
<1>4. errs = {}
  BY <1>1 DEF ErrorsStay, AcceptedIsClean
<1>5. PICK f \in Pending(RunBody, RunOuter) : Meant(f)
  BY <1>1 DEF RunsWell
<1>6. PICK r \in NodesOf(RunBody) :
              /\ Stands(f, RunOuter, r)
              /\ f.node.k = r.node.k /\ f.node.m = r.node.m /\ f.node.o = r.node.o
              /\ f.node.args = r.node.args
  <2>1. RunOuter \in BOOLEAN
    BY DEF RunOuter
  <2> QED BY <1>3, <1>5, <2>1, PendingNode
<1>7. /\ made.intent = f.intent /\ made.spawned = f.spawned /\ made.opaque = f.opaque
      /\ f.node.k = "op" /\ made.m = f.node.m /\ made.o = f.node.o
      /\ made.args = f.node.args /\ made.target \in Reached(f.node)
  BY <1>5 DEF Meant
<1>8. /\ f.intent <=> RunOuter \/ r.intent
      /\ f.spawned <=> r.spawned
      /\ f.opaque \/ r.reached
  BY <1>6 DEF Stands
<1>9. /\ made.intent <=> RunOuter \/ r.intent
      /\ made.spawned <=> r.spawned
      /\ made.opaque \/ r.reached
  BY <1>7, <1>8
<1>10. made.args = r.node.args /\ made.target \in Reached(r.node)
  <2>1. Reached(f.node) = Reached(r.node)
    BY <1>6 DEF Reached, Received
  <2> QED BY <1>6, <1>7, <2>1
<1> QED BY <1>1, <1>2, <1>3, <1>4, <1>6, <1>7, <1>9, <1>10

\* A run of an accepted program does what the walks saw and found in order.
LEMMA AcceptedFollows == ErrorsStay /\ RunsWell => AcceptedRunsHold
<1> SUFFICES ASSUME ErrorsStay, RunsWell, Effect, ~made.opaque, caps.enforce # "off"
             PROVE  /\ (Runner.kind = "fn" /\ IsWriteOp(made.m, made.o)) => made.intent
                    /\ (Runner.kind = "saga" /\ Runner.steps[running.step].noop)
                          => ~IsWriteOp(made.m, made.o)
                    /\ (Runner.kind # "saga" /\ IsCapOp(made.m, made.o)) =>
                          \/ running.given /\ ByName(running.declared)
                          \/ caps.enforce = "loose" /\ (made.spawned \/ ~running.given)
  BY DEF AcceptedRunsHold
<1> DEFINE m == made.m
           o == made.o
           body == RunBody
           i == Runner
<1>1. pc = "running" /\ Chosen /\ IsItem(i) /\ IsBody(body) /\ errs = {}
  BY MadeFromCall
<1>2. PICK r \in NodesOf(body) :
         /\ r.node.k = "op" /\ r.node.m = m /\ r.node.o = o
         /\ made.intent <=> RunOuter \/ r.intent
         /\ made.spawned <=> r.spawned
         /\ made.opaque \/ r.reached
  BY MadeFromCall, Zenon
<1>3. caps.enforce \in {"strict", "loose"}
  BY ManifestsAssumption DEF ErrorsStay, Placed
<1>4. Forgiven = IF caps.enforce = "strict" THEN {} ELSE {"NoCapInScope"}
  BY <1>3 DEF Forgiven
<1>5. ASSUME NEW e \in BodyErrors(i)
      PROVE  e[1] = "NoCapInScope" /\ caps.enforce = "loose"
  <2>1. e[1] \in Forgiven
    BY <1>1, <1>5 DEF ErrorsStay, JudgedIsKept, Judged, Chosen, Runner
  <2> QED BY <1>3, <1>4, <2>1
<1>6. r \in Calls(body)
  BY <1>2 DEF Calls, ReachedIn
<1> HIDE DEF m, o, body, i
<1>7. ASSUME i.kind = "fn", IsWriteOp(m, o), ~made.intent PROVE FALSE
  <2>1. body = i.body
    BY <1>7 DEF body, i, RunBody, BodyOf
  <2>2. ~r.intent
    BY <1>2, <1>7
  <2>3. IsWriteOp(r.node.m, r.node.o) /\ r.node.m = m /\ r.node.o = o
    BY <1>2, <1>7
  <2>4. <<r.node.m, r.node.o>> \in WithoutIntent(i.body)
    BY <1>6, <2>1, <2>2, <2>3 DEF WithoutIntent
  <2> DEFINE e == <<"MissingIntentForWriteCall", <<r.node.m, r.node.o>> >>
  <2>5. e \in BodyErrors(i)
    BY <1>7, <2>4 DEF BodyErrors
  <2>6. e[1] # "NoCapInScope"
    OBVIOUS
  <2> HIDE DEF e
  <2> QED BY <1>5, <2>5, <2>6
<1>8. ASSUME i.kind = "saga", i.steps[running.step].noop, IsWriteOp(m, o) PROVE FALSE
  <2> DEFINE s == i.steps[running.step]
  <2>1. body = s.do
    BY <1>8 DEF body, i, RunBody, BodyOf
  <2>2. s \in Members(i.steps)
    BY <1>1, <1>8 DEF Chosen, Members, i
  <2>3. HasWrite(s.do)
    BY <1>2, <1>6, <1>8, <2>1 DEF HasWrite
  <2>4. s.noop
    BY <1>8
  <2> HIDE DEF s
  <2> DEFINE e == <<"SagaStepUndoNoopWithWriteDo", <<s.name>> >>
  <2>5. e \in BodyErrors(i)
    <3>1. e \in SagaErrors(i)
      BY <2>2, <2>3, <2>4 DEF SagaErrors
    <3> QED BY <1>8, <3>1 DEF BodyErrors
  <2>6. e[1] # "NoCapInScope"
    OBVIOUS
  <2> HIDE DEF e
  <2> QED BY <1>5, <2>5, <2>6
<1>9. ASSUME i.kind # "saga", IsCapOp(m, o)
      PROVE  \/ running.given /\ ByName(running.declared)
             \/ caps.enforce = "loose" /\ (made.spawned \/ ~running.given)
  <2> DEFINE cap == IF i.kind = "fn" THEN FnCap(i) ELSE PipelineCap(i)
  <2>1. i.kind \in {"fn", "pipeline"} /\ body = i.body
    BY <1>1, <1>9 DEF Chosen, i, body, RunBody, BodyOf
  <2>2. Unresolved(body, cap) \subseteq BodyErrors(i)
    BY <2>1 DEF BodyErrors
  <2>3. r \in CapCalls(body)
    BY <1>2, <1>6, <1>9 DEF CapCalls
  <2>4. running.given = Given(i) /\ running.declared = Declares(i)
    BY <1>1 DEF Chosen, i
  <2> DEFINE p == CapParam(i)[1]
  <2>5. cap = IF CapParam(i) = <<>> THEN IF i.kind = "fn" THEN NoCap ELSE CapOf({})
              ELSE IF p.type.k # "cap" THEN CapOf({})
              ELSE IF i.kind = "fn" /\ IsMainCap(i, p) THEN CapOf(EveryOp)
              ELSE CapOf(PathsOf(p.type.entries))
    BY DEF FnCap, PipelineCap
  <2> HIDE DEF cap
  <2>6. CASE r.spawned \/ ~cap.given
    <3> DEFINE e == <<"NoCapInScope", <<r.node.m, r.node.o>> >>
    <3>1. e \in Unresolved(body, cap)
      BY <2>3, <2>6 DEF Unresolved
    <3>2. caps.enforce = "loose"
      <4> HIDE DEF e
      <4> QED BY <1>5, <2>2, <3>1
    <3>3. CASE r.spawned
      BY <1>2, <3>2, <3>3
    <3>4. CASE ~cap.given
      <4>1. CapParam(i) = <<>>
        BY <2>5, <3>4 DEF CapOf
      <4>2. ~running.given
        BY <2>4, <4>1 DEF Given
      <4> QED BY <3>2, <4>2
    <3> QED BY <2>6, <3>3, <3>4
  <2>7. CASE ~r.spawned /\ cap.given
    <3>1. SetCovers(cap.ops, m, o)
      <4> SUFFICES ASSUME ~SetCovers(cap.ops, m, o) PROVE FALSE
        OBVIOUS
      <4> DEFINE e == <<"OpNotInCapSignature", <<r.node.m, r.node.o>> >>
      <4>1. ~SetCovers(cap.ops, r.node.m, r.node.o)
        BY <1>2
      <4>2. e \in Unresolved(body, cap)
        BY <2>3, <2>7, <4>1 DEF Unresolved
      <4>3. e[1] # "NoCapInScope"
        OBVIOUS
      <4> HIDE DEF e
      <4> QED BY <1>5, <2>2, <4>2, <4>3
    <3>2. cap.ops # {}
      BY <3>1 DEF SetCovers
    <3>3. Given(i) /\ CapParam(i) # <<>> /\ p.type.k = "cap"
      BY <2>5, <3>2 DEF CapOf, NoCap, Given
    <3>4. Declares(i) = CapValue(p.type)
      BY <3>3 DEF Declares
    <3>5. CASE IsMainCap(i, p)
      <4>1. p.type.star
        BY <3>5 DEF IsMainCap
      <4>2. SimplePermits(CapValue(p.type), m, o)
        BY <4>1 DEF SimplePermits, CapValue
      <4> QED BY <2>4, <3>3, <3>4, <4>2 DEF ByName, m, o
    <3>6. CASE ~(i.kind = "fn" /\ IsMainCap(i, p))
      <4>1. SetCovers(PathsOf(p.type.entries), m, o)
        BY <2>5, <3>1, <3>3, <3>6 DEF CapOf
      <4>2. \A e \in Members(p.type.entries) :
               Len(e.path) \in {1, 2} /\ IsList(e.path) /\ "*" \notin Members(e.path)
        BY <1>1, <2>1, <3>3, CapParamFacts
      <4> DEFINE t == p.type
      <4>3. SimplePermits(CapValue(t), m, o)
        <5> HIDE DEF t
        <5>1. SetCovers(PathsOf(t.entries), m, o)
          BY <4>1 DEF t
        <5>2. \A e \in Members(t.entries) :
                 Len(e.path) \in {1, 2} /\ IsList(e.path) /\ "*" \notin Members(e.path)
          BY <4>2 DEF t
        <5> QED BY <5>1, <5>2, NamedByPaths
      <4> QED BY <2>4, <3>3, <3>4, <4>3 DEF ByName, m, o
    <3> QED BY <3>5, <3>6
  <2> QED BY <2>6, <2>7
<1> QED BY <1>7, <1>8, <1>9 DEF m, o, i

\* What the checker accepts, a run bears out (check/mod.rs, check/caps.rs and
\* check/write_intent.rs against the checks eval.rs makes at run time): every write
\* of a function is inside an intent, a step with no undo writes nothing, every
\* operation is named by the cap, whatever the module and the manifest, outside the
\* constructs the walks pass over.
THEOREM AcceptedRunsHoldTheorem == CheckSpec => []AcceptedRunsHold
<1>1. CheckInit => ErrorsStay /\ RunsWell
  BY ErrorsInit, RunsInit
<1>2. ErrorsStay /\ RunsWell /\ [CheckNext]_checkVars => (ErrorsStay /\ RunsWell)'
  BY ErrorsNext, RunsNext
<1> QED BY <1>1, <1>2, AcceptedFollows, PTL DEF CheckSpec

\* A part of a finite set is finite.
LEMMA SubsetFinite == ASSUME NEW S, IsFiniteSet(S), NEW T \in SUBSET S PROVE IsFiniteSet(T)
BY FS_Subset

\* What a body uses is finite.
LEMMA UsesAreFinite ==
    ASSUME NEW body, IsBody(body)
    PROVE  IsFiniteSet(UsedOps(body)) /\ IsFiniteSet(UsedHosts(body))
<1>1. IsFiniteSet(NodesOf(body))
  BY NodesAreFinite
<1>2. IsFiniteSet(CapCalls(body))
  <2>1. CapCalls(body) \in SUBSET NodesOf(body)
    BY DEF CapCalls, Calls, ReachedIn
  <2> QED BY <1>1, <2>1, SubsetFinite
<1>3. IsFiniteSet(UsedOps(body))
  <2> DEFINE S == CapCalls(body)
             f == [r \in S |-> <<r.node.m, r.node.o>>]
  <2>1. DOMAIN f = S /\ UsedOps(body) = {f[r] : r \in S}
    BY DEF UsedOps
  <2> HIDE DEF f, S
  <2> QED BY <1>2, <2>1, ImageIsFinite DEF S
<1>4. IsFiniteSet(UsedHosts(body))
  <2> DEFINE S == {c \in CapCalls(body) : c.node.m = "http"}
             f == [r \in S |-> HostSeen(r.node)]
  <2>1. IsFiniteSet(S)
    <3>1. S \in SUBSET CapCalls(body)
      OBVIOUS
    <3> HIDE DEF S
    <3> QED BY <1>2, <3>1, SubsetFinite
  <2> DEFINE T == {f[r] : r \in S}
  <2>2. DOMAIN f = S /\ UsedHosts(body) \in SUBSET T
    BY DEF UsedHosts
  <2> HIDE DEF f, S
  <2>3. IsFiniteSet(T)
    BY <2>1, <2>2, ImageIsFinite
  <2> HIDE DEF T
  <2> QED BY <2>2, <2>3, SubsetFinite
<1> QED BY <1>3, <1>4

\* The narrowed entries, as a sequence.
LEMMA NarrowedFacts ==
    ASSUME NEW body, IsBody(body), NEW cap, IsList(cap.entries)
    PROVE  /\ NarrowedCap(cap, body).star = FALSE
           /\ IsList(NarrowedCap(cap, body).entries)
           /\ Members(NarrowedCap(cap, body).entries) = NarrowedEntries(cap, body)
<1> DEFINE E(e) == NarrowEntry(e, body)
           all == Members(cap.entries)
           T == {E(e) : e \in all}
<1>1. ASSUME NEW e PROVE IsFiniteSet(E(e))
  <2> DEFINE S == {u \in UsedOps(body) : e.path \in {<<u[1]>>, u}}
             f == [op \in S |-> Entry(op, NarrowAllow(op[1], op[2], e.allow, UsedHosts(body)))]
  <2>1. IsFiniteSet(S)
    <3>1. S \in SUBSET UsedOps(body)
      OBVIOUS
    <3> HIDE DEF S
    <3> QED BY <3>1, SubsetFinite, UsesAreFinite
  <2>2. DOMAIN f = S /\ E(e) = {f[op] : op \in S}
    BY DEF NarrowEntry
  <2> HIDE DEF f, S, E
  <2> QED BY <2>1, <2>2, ImageIsFinite
<1>2. IsFiniteSet(T)
  <2> DEFINE f == [e \in all |-> E(e)]
  <2>1. IsFiniteSet(all)
    BY MembersFinite
  <2>2. DOMAIN f = all /\ T = {f[e] : e \in all}
    OBVIOUS
  <2> HIDE DEF f, all, T, E
  <2> QED BY <2>1, <2>2, ImageIsFinite
<1>3. IsFiniteSet(UNION T)
  <2>1. \A t \in T : IsFiniteSet(t)
    BY <1>1
  <2> HIDE DEF T
  <2> QED BY <1>2, <2>1, FS_UNION
<1>4. NarrowedEntries(cap, body) = UNION T
  BY DEF NarrowedEntries
<1> DEFINE cut == NarrowedEntries(cap, body)
<1>5. IsList(SetToSeq(cut)) /\ Members(SetToSeq(cut)) = cut
  <2>1. IsFiniteSet(cut)
    BY <1>3, <1>4
  <2> HIDE DEF cut
  <2> QED BY <2>1, SetToSeqFacts
<1>6. NarrowedCap(cap, body).star = FALSE /\ NarrowedCap(cap, body).entries = SetToSeq(cut)
  BY DEF NarrowedCap
<1> HIDE DEF cut
<1> QED BY <1>5, <1>6 DEF cut

\* A narrowed list allows no more, ...
LEMMA NarrowAllowCovered ==
    ASSUME NEW m, NEW o, NEW allow, IsList(allow.items), NEW hosts
    PROVE  AllowCovers(allow, NarrowAllow(m, o, allow, hosts))
<1>1. CASE m # "http" \/ o \notin Members(HttpOps) \/ hosts = {}
  <2>1. NarrowAllow(m, o, allow, hosts) = allow
    BY <1>1 DEF NarrowAllow
  <2> QED BY <2>1 DEF AllowCovers
<1>2. CASE allow.open
  BY <1>2 DEF AllowCovers
<1>3. CASE ~(m # "http" \/ o \notin Members(HttpOps) \/ hosts = {}) /\ ~allow.open
  <2> DEFINE s == allow.items
             P == {i \in DOMAIN s : s[i] \in hosts}
             x == Selected(s, P)
  <2>1. NarrowAllow(m, o, allow, hosts) = Listed(x)
    BY <1>3 DEF NarrowAllow
  <2>2. Members(x) \subseteq Members(s)
    <3>1. s \in Seq(Members(s)) /\ DOMAIN s = 1..Len(s)
      BY ListFacts
    <3> HIDE DEF s, P
    <3>2. Members(x) = {s[i] : i \in (1..Len(s)) \cap P}
      BY <3>1, SelectedElements
    <3> QED BY <3>1, <3>2 DEF Members
  <2> HIDE DEF x
  <2>3. ~Listed(x).open /\ Listed(x).items = x
    BY DEF Listed
  <2> QED BY <1>3, <2>1, <2>2, <2>3 DEF AllowCovers
<1> QED BY <1>1, <1>2, <1>3

\* ... and still allows the hosts that are used.
LEMMA NarrowAllowKeeps ==
    ASSUME NEW m, NEW o, NEW allow, IsList(allow.items), NEW hosts, IsFiniteSet(hosts),
           NEW target, m = "http" => target \in hosts,
           allow.open \/ target \in Members(allow.items)
    PROVE  \/ NarrowAllow(m, o, allow, hosts).open
           \/ target \in Members(NarrowAllow(m, o, allow, hosts).items)
<1>1. CASE m # "http" \/ o \notin Members(HttpOps) \/ hosts = {}
  <2>1. NarrowAllow(m, o, allow, hosts) = allow
    BY <1>1 DEF NarrowAllow
  <2> QED BY <2>1
<1>2. CASE ~(m # "http" \/ o \notin Members(HttpOps) \/ hosts = {}) /\ allow.open
  <2> DEFINE x == SetToSeq(hosts)
  <2>1. NarrowAllow(m, o, allow, hosts) = Listed(x)
    BY <1>2 DEF NarrowAllow
  <2>2. Members(x) = hosts
    BY SetToSeqFacts
  <2> HIDE DEF x
  <2>3. Listed(x).items = x
    BY DEF Listed
  <2> QED BY <1>2, <2>1, <2>2, <2>3
<1>3. CASE ~(m # "http" \/ o \notin Members(HttpOps) \/ hosts = {}) /\ ~allow.open
  <2> DEFINE s == allow.items
             P == {i \in DOMAIN s : s[i] \in hosts}
             x == Selected(s, P)
  <2>1. NarrowAllow(m, o, allow, hosts) = Listed(x)
    BY <1>3 DEF NarrowAllow
  <2>2. target \in Members(x)
    <3>1. s \in Seq(Members(s)) /\ DOMAIN s = 1..Len(s)
      BY ListFacts
    <3>2. PICK i \in 1..Len(s) : s[i] = target
      BY <1>3, <3>1 DEF Members
    <3>3. i \in P
      BY <1>3, <3>1, <3>2
    <3> HIDE DEF s, P
    <3>4. Members(x) = {s[j] : j \in (1..Len(s)) \cap P}
      BY <3>1, SelectedElements
    <3> QED BY <3>2, <3>3, <3>4
  <2> HIDE DEF x
  <2>3. Listed(x).items = x
    BY DEF Listed
  <2> QED BY <2>1, <2>2, <2>3
<1> QED BY <1>1, <1>2, <1>3

\* The entry of an operation the body uses.
LEMMA UsedIsKept ==
    ASSUME NEW body, NEW cap, NEW d \in Members(cap.entries), NEW m, NEW o,
           <<m, o>> \in UsedOps(body), Names(d, m, o)
    PROVE  Entry(<<m, o>>, NarrowAllow(m, o, d.allow, UsedHosts(body)))
              \in NarrowedEntries(cap, body)
<1> DEFINE u == <<m, o>>
<1>1. u[1] = m /\ u[2] = o
  OBVIOUS
<1>2. d.path \in {<<m>>, u}
  BY DEF Names
<1> HIDE DEF u
<1>3. Entry(u, NarrowAllow(u[1], u[2], d.allow, UsedHosts(body))) \in NarrowEntry(d, body)
  BY <1>1, <1>2 DEF NarrowEntry, u
<1>4. NarrowEntry(d, body) \subseteq NarrowedEntries(cap, body)
  BY DEF NarrowedEntries
<1> QED BY <1>1, <1>3, <1>4 DEF u

\* Where the entries of a narrowed cap come from.
LEMMA KeptIsUsed ==
    ASSUME NEW body, NEW cap, NEW e \in NarrowedEntries(cap, body)
    PROVE  \E d \in Members(cap.entries), r \in CapCalls(body) :
              /\ Names(d, r.node.m, r.node.o)
              /\ e.path = <<r.node.m, r.node.o>>
              /\ e.allow = NarrowAllow(r.node.m, r.node.o, d.allow, UsedHosts(body))
<1>1. PICK d \in Members(cap.entries) : e \in NarrowEntry(d, body)
  BY DEF NarrowedEntries
<1>2. PICK u \in UsedOps(body) :
         /\ d.path \in {<<u[1]>>, u}
         /\ e = Entry(u, NarrowAllow(u[1], u[2], d.allow, UsedHosts(body)))
  BY <1>1 DEF NarrowEntry
<1>3. PICK r \in CapCalls(body) : u = <<r.node.m, r.node.o>>
  BY DEF UsedOps
<1>4. u[1] = r.node.m /\ u[2] = r.node.o
  BY <1>3
<1>5. Names(d, r.node.m, r.node.o)
  BY <1>2, <1>3, <1>4 DEF Names
<1>6. /\ e.path = u
      /\ e.allow = NarrowAllow(u[1], u[2], d.allow, UsedHosts(body))
  BY <1>2 DEF Entry
<1> QED BY <1>3, <1>4, <1>5, <1>6

\* The entries the minio check looks for.
Leaf(e, m, o) == e.path \in {<<m, o>>, <<m, "*">>}

\* The first entry that names an operation or its module, where there is one.
LEMMA FirstLeafFacts ==
    ASSUME NEW cap, IsList(cap.entries), NEW m, NEW o
    PROVE  /\ (\E e \in Members(cap.entries) : Leaf(e, m, o)) => FirstLeaf(cap, m, o) # 0
           /\ FirstLeaf(cap, m, o) # 0 => /\ cap.entries[FirstLeaf(cap, m, o)] \in Members(cap.entries)
                                          /\ Leaf(cap.entries[FirstLeaf(cap, m, o)], m, o)
<1> DEFINE s == cap.entries
           n == Len(s)
           L == {i \in 1..n : Leaf(s[i], m, o)}
           First(i) == i \in L /\ \A j \in 1..(i - 1) : ~Leaf(s[j], m, o)
<1>1. n \in Nat /\ DOMAIN s = 1..n
  BY ListFacts
<1>2. CASE L # {}
  <2>1. L \in SUBSET (1..n)
    OBVIOUS
  <2>2. PICK i \in L : \A j \in L : i <= j
    <3> HIDE DEF L, n
    <3> QED BY <1>1, <1>2, <2>1, LeastPosition
  <2>3. First(i)
    <3> SUFFICES ASSUME NEW j \in 1..(i - 1) PROVE ~Leaf(s[j], m, o)
      BY <2>2
    <3>1. j \in 1..n /\ ~(i <= j)
      BY <1>1, <2>2
    <3> QED BY <2>2, <3>1
  <2> DEFINE x == FirstLeaf(cap, m, o)
  <2>4. x = CHOOSE k \in DOMAIN s : Leaf(s[k], m, o) /\ \A j \in 1..(k - 1) : ~Leaf(s[j], m, o)
    BY <1>1, <1>2 DEF FirstLeaf, Leaf
  <2>5. x \in DOMAIN s /\ Leaf(s[x], m, o)
    BY <1>1, <2>3, <2>4
  <2>6. x # 0 /\ s[x] \in Members(s)
    BY <1>1, <2>5 DEF Members
  <2> QED BY <2>5, <2>6
<1>3. CASE L = {}
  <2>1. \A k \in DOMAIN s : ~Leaf(s[k], m, o)
    BY <1>1, <1>3
  <2>2. FirstLeaf(cap, m, o) = 0
    BY <2>1 DEF FirstLeaf, Leaf
  <2> QED BY <2>1, <2>2 DEF Members
<1> QED BY <1>2, <1>3

\* The signature a body is narrowed to is covered by the declared one.
LEMMA NarrowedIsCovered ==
    ASSUME NEW body, IsBody(body), NEW cap, IsList(cap.entries),
           \A e \in Members(cap.entries) : IsList(e.allow.items)
    PROVE  Covers(cap, NarrowedCap(cap, body))
<1> DEFINE cut == NarrowedCap(cap, body)
<1>1. ~cut.star /\ Members(cut.entries) = NarrowedEntries(cap, body)
  BY NarrowedFacts
<1>2. ASSUME NEW e \in NarrowedEntries(cap, body) PROVE EntryCovers(cap, e)
  <2>1. PICK d \in Members(cap.entries), r \in CapCalls(body) :
              /\ Names(d, r.node.m, r.node.o)
              /\ e.path = <<r.node.m, r.node.o>>
              /\ e.allow = NarrowAllow(r.node.m, r.node.o, d.allow, UsedHosts(body))
    BY <1>2, KeptIsUsed
  <2>2. AllowCovers(d.allow, e.allow)
    BY <2>1, NarrowAllowCovered
  <2>3. PathCovers(d.path, e.path)
    <3> DEFINE m == r.node.m
               o == r.node.o
    <3>1. d.path = <<m>> \/ d.path = <<m, o>>
      BY <2>1 DEF Names
    <3>2. e.path = <<m, o>>
      BY <2>1
    <3> HIDE DEF m, o
    <3>3. PathCovers(<<m>>, <<m, o>>)
      <4>1. Len(<<m>>) = 1 /\ Len(<<m, o>>) > 0 /\ <<m, o>>[1] = <<m>>[1]
        OBVIOUS
      <4> QED BY <4>1 DEF PathCovers
    <3>4. PathCovers(<<m, o>>, <<m, o>>)
      <4>1. Len(<<m, o>>) # 1
        OBVIOUS
      <4> QED BY <4>1 DEF PathCovers
    <3> QED BY <3>1, <3>2, <3>3, <3>4
  <2> QED BY <2>1, <2>2, <2>3 DEF EntryCovers
<1> HIDE DEF cut
<1>3. Covers(cap, cut)
  BY <1>1, <1>2 DEF Covers
<1> QED BY <1>3 DEF cut

\* Of a plain call the linter collects the host the call reaches: the text is read
\* alike by the two, whatever its port.
LEMMA PlainIsSeen ==
    ASSUME NEW node, node.m = "http", Plain(node), NEW target \in Reached(node)
    PROVE  HostSeen(node) # <<>> /\ target = HostSeen(node)
<1> DEFINE u == Texts[node.args[1].value]
<1>1. /\ node.args # <<>> /\ node.args[1].value \in DOMAIN Texts
      /\ u.user = <<>> /\ u.host # <<>> /\ u.tail \in {"", "/"}
  BY DEF Plain
<1>2. Received(node)[1] = node.args[1].value
  BY DEF Plain
<1>3. target \in ParseUrl(u) /\ u.host \in Seq(Members(u.host))
  BY <1>1, <1>2, TextsAssumption DEF Reached, IsList
<1>4. HostSeen(node) = HostFromUrl(u)
  BY <1>1 DEF HostSeen
<1> HIDE DEF u
<1>5. /\ u.port \in {"none", "u16"}
      /\ target = <<>> \o u.host \o <<>>
  BY <1>1, <1>3 DEF ParseUrl
<1>6. HostFromUrl(u) = u.host \o <<>>
  BY <1>5 DEF HostFromUrl
<1>7. <<>> \o u.host \o <<>> = u.host /\ u.host \o <<>> = u.host
  BY <1>3
<1> QED BY <1>1, <1>4, <1>5, <1>6, <1>7

\* A run under it is granted what it was granted.
LEMMA NarrowedPermits ==
    ASSUME NEW body, IsBody(body), NEW cap, IsList(cap.entries),
           \A e \in Members(cap.entries) :
              /\ Len(e.path) \in {1, 2} /\ IsList(e.path) /\ "*" \notin Members(e.path)
              /\ IsList(e.allow.items),
           ~cap.star,
           NEW r \in CapCalls(body), NEW m, NEW o, r.node.m = m, r.node.o = o, NEW target,
           m = "http" => HostSeen(r.node) # <<>> /\ target = HostSeen(r.node),
           Guard(m) = "bucket" => Agree(cap, m, o),
           Permits(cap, m, o, target)
    PROVE  Permits(NarrowedCap(cap, body), m, o, target)
<1> DEFINE cut == NarrowedCap(cap, body)
           hosts == UsedHosts(body)
<1>1. /\ IsList(cut.entries) /\ Members(cut.entries) = NarrowedEntries(cap, body)
  BY NarrowedFacts
<1>2. <<m, o>> \in UsedOps(body)
  BY DEF UsedOps
<1>3. m = "http" => target \in hosts
  BY DEF UsedHosts
<1>4. IsFiniteSet(hosts)
  BY UsesAreFinite
<1> HIDE DEF cut, hosts
<1>5. ASSUME NEW d \in Members(cap.entries), Names(d, m, o)
      PROVE  \E e \in Members(cut.entries) :
                /\ e.path = <<m, o>> /\ e.allow = NarrowAllow(m, o, d.allow, hosts)
                /\ (d.allow.open \/ target \in Members(d.allow.items))
                      => e.allow.open \/ target \in Members(e.allow.items)
  <2> DEFINE a == NarrowAllow(m, o, d.allow, hosts)
             e == Entry(<<m, o>>, a)
  <2>1. e \in Members(cut.entries)
    BY <1>1, <1>2, <1>5, UsedIsKept DEF hosts
  <2>2. e.path = <<m, o>> /\ e.allow = a
    BY DEF Entry
  <2>3. (d.allow.open \/ target \in Members(d.allow.items))
                      => a.open \/ target \in Members(a.items)
    BY <1>3, <1>4, NarrowAllowKeeps
  <2> HIDE DEF e, a
  <2> QED BY <2>1, <2>2, <2>3 DEF a
<1>6. ASSUME NEW d \in Members(cap.entries), Names(d, m, o), m # "http"
      PROVE  \E e \in Members(cut.entries) : e.path = <<m, o>> /\ e.allow = d.allow
  <2>1. NarrowAllow(m, o, d.allow, hosts) = d.allow
    BY <1>6 DEF NarrowAllow
  <2> QED BY <1>5, <1>6, <2>1
<1>7. ASSUME NEW d \in Members(cap.entries), d.path = <<m, "*">> PROVE FALSE
  <2> DEFINE p == d.path
  <2>1. Len(p) \in {1, 2} /\ IsList(p) /\ "*" \notin Members(p)
    OBVIOUS
  <2>2. p = <<m, "*">>
    BY <1>7
  <2>3. Len(p) = 2 /\ p[2] = "*"
    BY <2>2
  <2> HIDE DEF p
  <2> QED BY <2>1, <2>3, ShortPaths
<1> DEFINE G == Guard(m)
<1>8. /\ G \in {"path", "host", "argv", "bucket", "model", "simple", "none"}
      /\ G = "path" => m = "fs"
      /\ G = "host" => m = "http"
      /\ G = "argv" => m = "shell"
      /\ G = "bucket" => m = "minio"
      /\ G = "model" => m = "ai"
  BY DEF Guard
<1>9. CASE G = "path"
  <2>1. PathPermits(cap, m, o, target)
    BY <1>9 DEF Permits
  <2>2. PICK d \in Members(cap.entries) :
           /\ Names(d, m, o)
           /\ d.allow.open \/ \E g \in Members(d.allow.items) : GlobMatches(g, target)
    BY <2>1 DEF PathPermits
  <2>3. PICK e \in Members(cut.entries) : e.path = <<m, o>> /\ e.allow = d.allow
    BY <1>6, <1>8, <1>9, <2>2
  <2>4. Names(e, m, o)
    BY <2>3 DEF Names
  <2>5. PathPermits(cut, m, o, target)
    BY <2>2, <2>3, <2>4 DEF PathPermits
  <2> QED BY <1>9, <2>5 DEF Permits, cut
<1>10. CASE G \in {"host", "argv"}
  <2>1. HostPermits(cap, m, o, target)
    BY <1>10 DEF Permits, HostPermits, ArgvPermits
  <2>2. PICK d \in Members(cap.entries) :
           Names(d, m, o) /\ (d.allow.open \/ target \in Members(d.allow.items))
    BY <2>1 DEF HostPermits
  <2>3. PICK e \in Members(cut.entries) :
           e.path = <<m, o>> /\ (e.allow.open \/ target \in Members(e.allow.items))
    BY <1>5, <2>2
  <2>4. Names(e, m, o)
    BY <2>3 DEF Names
  <2>5. HostPermits(cut, m, o, target) /\ ArgvPermits(cut, m, o, target)
    BY <2>3, <2>4 DEF HostPermits, ArgvPermits
  <2> QED BY <1>10, <2>5 DEF Permits, cut
<1>11. CASE G = "bucket"
  <2> DEFINE i == FirstLeaf(cap, m, o)
             j == FirstLeaf(cut, m, o)
  <2>1. BucketPermits(cap, m, o, target)
    BY <1>11 DEF Permits
  <2>2. i # 0 /\ (cap.entries[i].allow.open \/ target \in Members(cap.entries[i].allow.items))
    BY <2>1 DEF BucketPermits
  <2> DEFINE d == cap.entries[i]
  <2>3. d \in Members(cap.entries) /\ Leaf(d, m, o)
    BY <2>2, FirstLeafFacts
  <2>4. Names(d, m, o)
    BY <1>7, <2>3 DEF Leaf, Names
  <2>5. \E e \in Members(cut.entries) : Leaf(e, m, o)
    <3> HIDE DEF d
    <3> QED BY <1>5, <2>3, <2>4 DEF Leaf
  <2>6. j # 0
    BY <1>1, <2>5, FirstLeafFacts
  <2> DEFINE e == cut.entries[j]
  <2>7. e \in Members(cut.entries) /\ Leaf(e, m, o)
    BY <1>1, <2>6, FirstLeafFacts
  <2>8. e.allow = d.allow
    <3> HIDE DEF d, e
    <3>1. PICK x \in Members(cap.entries), q \in CapCalls(body) :
              /\ Names(x, q.node.m, q.node.o)
              /\ e.path = <<q.node.m, q.node.o>>
              /\ e.allow = NarrowAllow(q.node.m, q.node.o, x.allow, UsedHosts(body))
      BY <1>1, <2>7, KeptIsUsed
    <3> DEFINE qm == q.node.m
               qo == q.node.o
    <3>2. IsCapOp(qm, qo)
      BY DEF CapCalls
    <3>3. e.path = <<qm, qo>> /\ Names(x, qm, qo)
          /\ e.allow = NarrowAllow(qm, qo, x.allow, UsedHosts(body))
      BY <3>1
    <3> HIDE DEF qm, qo
    <3>4. qm = m /\ qo \in {o, "*"}
      BY <2>7, <3>3 DEF Leaf
    <3>5. qm = "minio"
      BY <1>8, <1>11, <3>4
    <3>6. qo = o
      BY <3>2, <3>4, <3>5 DEF IsCapOp
    <3>7. Names(x, m, o) /\ e.allow = x.allow
      BY <3>3, <3>4, <3>5, <3>6 DEF NarrowAllow
    <3>8. x.allow = d.allow
      BY <1>11, <2>3, <2>4, <3>7 DEF Agree
    <3> QED BY <3>7, <3>8
  <2>9. BucketPermits(cut, m, o, target)
    BY <2>2, <2>6, <2>8 DEF BucketPermits
  <2> QED BY <1>11, <2>9 DEF Permits, cut
<1>12. CASE G = "model"
  <2>1. m = "ai"
    BY <1>8, <1>12
  <2>2. FirstLeaf(cap, "ai", o) # 0
    BY <1>12 DEF Permits, AiPermits
  <2> DEFINE d == cap.entries[FirstLeaf(cap, "ai", o)]
  <2>3. d \in Members(cap.entries) /\ Leaf(d, m, o)
    BY <2>1, <2>2, FirstLeafFacts
  <2>4. Names(d, m, o)
    BY <1>7, <2>3 DEF Leaf, Names
  <2>5. \E e \in Members(cut.entries) : Leaf(e, m, o)
    <3> HIDE DEF d
    <3> QED BY <1>5, <2>3, <2>4 DEF Leaf
  <2>6. AiPermits(cut, o)
    BY <1>1, <2>1, <2>5, FirstLeafFacts DEF AiPermits
  <2> QED BY <1>12, <2>6 DEF Permits, cut
<1>13. CASE G = "simple"
  <2>1. SimplePermits(cap, m, o)
    BY <1>13 DEF Permits
  <2>2. PICK d \in Members(cap.entries) : Names(d, m, o) \/ Wildcard(d, m)
    BY <2>1 DEF SimplePermits
  <2>3. Names(d, m, o)
    BY <1>7, <2>2 DEF Wildcard
  <2>4. PICK e \in Members(cut.entries) : e.path = <<m, o>>
    BY <1>5, <2>3
  <2>5. SimplePermits(cut, m, o)
    BY <2>4 DEF SimplePermits, Names
  <2> QED BY <1>13, <2>5 DEF Permits, cut
<1>14. CASE G = "none"
  BY <1>14 DEF Permits
<1> QED BY <1>8, <1>9, <1>10, <1>11, <1>12, <1>13, <1>14

\* A run under the narrowed cap is one of a body the cap was narrowed for.
LEMMA NarrowingFollows == ErrorsStay /\ RunsWell => NarrowingKeeps
<1> SUFFICES ASSUME ErrorsStay, RunsWell, Effect, ~made.opaque, running.given,
                    Runner.kind = "fn"
             PROVE  /\ running.declared.star \/ Covers(running.declared, running.narrowed)
                    /\ (/\ IsCapOp(made.m, made.o)
                        /\ made.m = "http" => Plain(made)
                        /\ Guard(made.m) = "bucket" => Agree(running.declared, made.m, made.o)
                        /\ Permits(running.declared, made.m, made.o, made.target))
                         => Permits(running.narrowed, made.m, made.o, made.target)
  BY DEF NarrowingKeeps, Narrowed, StillPermitted
<1> DEFINE cap == running.declared
           body == RunBody
           i == Runner
           t == CapParam(i)[1].type
<1>1. Chosen /\ IsItem(i) /\ IsBody(body)
  BY MadeFromCall
<1>2. PICK r \in NodesOf(body) :
         /\ r.node.k = "op" /\ r.node.m = made.m /\ r.node.o = made.o
         /\ made.opaque \/ r.reached
         /\ made.args = r.node.args /\ made.target \in Reached(r.node)
  BY MadeFromCall, Zenon
<1>3. Given(i) /\ cap = CapValue(t)
  BY <1>1 DEF Chosen, Declares
<1>4. cap.star = t.star /\ cap.entries = t.entries
  BY <1>3 DEF CapValue
<1>5. /\ IsList(cap.entries)
      /\ \A e \in Members(cap.entries) :
            /\ Len(e.path) \in {1, 2} /\ IsList(e.path) /\ "*" \notin Members(e.path)
            /\ IsList(e.allow.items)
  <2>1. /\ IsList(t.entries)
        /\ \A e \in Members(t.entries) :
              /\ Len(e.path) \in {1, 2} /\ IsList(e.path) /\ "*" \notin Members(e.path)
              /\ IsList(e.allow.items)
    BY <1>1, <1>3, CapParamFacts DEF Given
  <2> HIDE DEF cap, t
  <2> QED BY <1>4, <2>1
<1>6. CASE cap.star
  <2>1. running.narrowed = cap
    BY <1>1, <1>6 DEF Chosen, Narrows
  <2> QED BY <1>6, <2>1
<1>7. CASE ~cap.star
  <2>1. running.narrowed = NarrowedCap(cap, body)
    BY <1>1, <1>7 DEF Chosen, Narrows, RunBody, BodyOf
  <2>2. Covers(cap, NarrowedCap(cap, body))
    <3> HIDE DEF cap, body
    <3> QED BY <1>1, <1>5, NarrowedIsCovered
  <2>3. ASSUME /\ IsCapOp(made.m, made.o)
               /\ made.m = "http" => Plain(made)
               /\ Guard(made.m) = "bucket" => Agree(cap, made.m, made.o)
               /\ Permits(cap, made.m, made.o, made.target)
        PROVE  Permits(NarrowedCap(cap, body), made.m, made.o, made.target)
    <3>1. r \in CapCalls(body)
      BY <1>2, <2>3 DEF CapCalls, Calls, ReachedIn
    <3>2. made.m = "http" => HostSeen(r.node) # <<>> /\ made.target = HostSeen(r.node)
      <4>1. made.m = "http" => Plain(r.node)
        BY <1>2, <2>3 DEF Plain, Received
      <4> QED BY <1>2, <4>1, PlainIsSeen
    <3> HIDE DEF cap, body
    <3> QED BY <1>1, <1>2, <1>5, <1>7, <2>3, <3>1, <3>2, NarrowedPermits
  <2> QED BY <2>1, <2>2, <2>3
<1> QED BY <1>6, <1>7

\* The signature check/narrow_caps.rs suggests is no broader than the declared one,
\* and refuses the body nothing the declared one grants, whatever the two are.
THEOREM NarrowingKeepsTheorem == CheckSpec => []NarrowingKeeps
<1>1. CheckInit => ErrorsStay /\ RunsWell
  BY ErrorsInit, RunsInit
<1>2. ErrorsStay /\ RunsWell /\ [CheckNext]_checkVars => (ErrorsStay /\ RunsWell)'
  BY ErrorsNext, RunsNext
<1> QED BY <1>1, <1>2, NarrowingFollows, PTL DEF CheckSpec

(***************************************************************************)
(* The edges of a net.                                                     *)
(***************************************************************************)

\* A net is made of flows, each of stages of nodes; an edge flows from node to node.
IsNet(net) == net.flows \in Seq(Seq(Seq(Nat)))
Edge == Nat \X Nat
Flow(net, n, m) == <<n, m>> \in Members(Edges(net))

\* A function on 1..n with values in S is a sequence over S.
LEMMA TabledSeq ==
    ASSUME NEW S, NEW n \in Nat, NEW f, DOMAIN f = 1..n, f = [i \in 1..n |-> f[i]],
           \A i \in 1..n : f[i] \in S
    PROVE  f \in Seq(S)
<1>1. f \in [1..n -> S]
  OBVIOUS
<1> QED BY <1>1, SeqDef

\* Every node of a stage flows into every node of the next.
LEMMA CrossTyped ==
    ASSUME NEW a \in Seq(Nat), NEW b \in Seq(Nat)
    PROVE  Cross(a, b) \in Seq(Edge)
<1> DEFINE row(f) == [t \in DOMAIN b |-> <<a[f], b[t]>>]
           rows == [f \in DOMAIN a |-> row(f)]
<1>1. /\ Len(a) \in Nat /\ DOMAIN a = 1..Len(a) /\ \A i \in 1..Len(a) : a[i] \in Nat
      /\ Len(b) \in Nat /\ DOMAIN b = 1..Len(b) /\ \A i \in 1..Len(b) : b[i] \in Nat
  BY ElementOfSeq, LenProperties
<1>2. ASSUME NEW f \in 1..Len(a) PROVE row(f) \in Seq(Edge)
  <2> DEFINE r == row(f)
             n == Len(b)
  <2>1. DOMAIN r = 1..n /\ r = [t \in 1..n |-> r[t]]
    BY <1>1
  <2>2. \A t \in 1..n : r[t] \in Edge
    BY <1>1, <1>2 DEF Edge
  <2>3. n \in Nat
    BY <1>1
  <2> HIDE DEF r, n
  <2>4. r \in Seq(Edge)
    BY <2>1, <2>2, <2>3, TabledSeq
  <2> QED BY <2>4 DEF r
<1>3. rows \in Seq(Seq(Edge))
  <2> DEFINE n == Len(a)
  <2>1. DOMAIN rows = 1..n /\ rows = [f \in 1..n |-> rows[f]]
    BY <1>1
  <2>2. \A f \in 1..n : rows[f] \in Seq(Edge)
    BY <1>1, <1>2
  <2>3. n \in Nat
    BY <1>1
  <2> HIDE DEF rows, n
  <2> QED BY <2>1, <2>2, <2>3, TabledSeq
<1>4. Cross(a, b) = FlattenSeq(rows)
  BY DEF Cross
<1> HIDE DEF rows
<1> QED BY <1>3, <1>4, FlattenTyped

\* The edges of one flow.
LEMMA EdgesOfTyped ==
    ASSUME NEW flow \in Seq(Seq(Nat))
    PROVE  EdgesOf(flow) \in Seq(Edge)
<1> DEFINE n == IF Len(flow) = 0 THEN 0 ELSE Len(flow) - 1
           rows == [w \in 1..(Len(flow) - 1) |-> Cross(flow[w], flow[w + 1])]
<1>1. Len(flow) \in Nat /\ \A i \in 1..Len(flow) : flow[i] \in Seq(Nat)
  BY ElementOfSeq, LenProperties
<1>2. n \in Nat /\ 1..(Len(flow) - 1) = 1..n
  BY <1>1
<1>3. \A w \in 1..n : rows[w] \in Seq(Edge)
  <2> SUFFICES ASSUME NEW w \in 1..n PROVE rows[w] \in Seq(Edge)
    OBVIOUS
  <2>1. w \in 1..Len(flow) /\ w + 1 \in 1..Len(flow) /\ w \in 1..(Len(flow) - 1)
    BY <1>1
  <2>2. flow[w] \in Seq(Nat) /\ flow[w + 1] \in Seq(Nat)
    BY <1>1, <2>1
  <2>3. Cross(flow[w], flow[w + 1]) \in Seq(Edge)
    BY <2>2, CrossTyped
  <2> QED BY <2>1, <2>3
<1>4. DOMAIN rows = 1..n /\ rows = [w \in 1..n |-> rows[w]]
  BY <1>2
<1>5. rows \in Seq(Seq(Edge))
  <2> HIDE DEF rows, n
  <2> QED BY <1>2, <1>3, <1>4, TabledSeq
<1>6. EdgesOf(flow) = FlattenSeq(rows)
  BY DEF EdgesOf
<1> HIDE DEF rows
<1> QED BY <1>5, <1>6, FlattenTyped

\* The edges of a net join natural numbers.
LEMMA EdgesTyped ==
    ASSUME NEW net, IsNet(net)
    PROVE  /\ Edges(net) \in Seq(Edge)
           /\ \A e \in Members(Edges(net)) : e \in Edge
<1> DEFINE fs == net.flows
           n == Len(fs)
           rows == [i \in DOMAIN fs |-> EdgesOf(fs[i])]
<1>1. fs \in Seq(Seq(Seq(Nat)))
  BY DEF IsNet
<1>2. n \in Nat /\ DOMAIN fs = 1..n /\ \A i \in 1..n : fs[i] \in Seq(Seq(Nat))
  <2> HIDE DEF fs
  <2> QED BY <1>1, ElementOfSeq, LenProperties
<1>3. DOMAIN rows = 1..n /\ rows = [i \in 1..n |-> rows[i]]
  BY <1>2
<1>4. \A i \in 1..n : rows[i] \in Seq(Edge)
  BY <1>2, EdgesOfTyped
<1>5. Edges(net) = FlattenSeq(rows)
  BY DEF Edges
<1>6. rows \in Seq(Seq(Edge))
  <2> HIDE DEF rows, n
  <2> QED BY <1>2, <1>3, <1>4, TabledSeq
<1>7. Edges(net) \in Seq(Edge)
  <2> HIDE DEF rows
  <2> QED BY <1>5, <1>6, FlattenTyped
<1> DEFINE s == Edges(net)
<1> HIDE DEF s
<1>8. \A e \in Members(s) : e \in Edge
  <2>1. s \in Seq(Edge)
    BY <1>7 DEF s
  <2>2. DOMAIN s = 1..Len(s) /\ \A i \in 1..Len(s) : s[i] \in Edge
    BY <2>1, ElementOfSeq, LenProperties
  <2> QED BY <2>2 DEF Members
<1> QED BY <1>7, <1>8 DEF s

\* The nodes of a net are the ends of its edges.
LEMMA NodesFacts ==
    ASSUME NEW net, IsNet(net)
    PROVE  /\ Nodes(net) \subseteq Nat
           /\ \A n, m : Flow(net, n, m) => n \in Nodes(net) /\ m \in Nodes(net)
<1>1. \A e \in Members(Edges(net)) : e[1] \in Nat /\ e[2] \in Nat
  BY EdgesTyped DEF Edge
<1>2. Nodes(net) \subseteq Nat
  BY <1>1 DEF Nodes
<1>3. ASSUME NEW n, NEW m, Flow(net, n, m) PROVE n \in Nodes(net) /\ m \in Nodes(net)
  <2> DEFINE e == <<n, m>>
  <2>1. e \in Members(Edges(net)) /\ e[1] = n /\ e[2] = m
    BY <1>3 DEF Flow
  <2> HIDE DEF e
  <2> QED BY <2>1 DEF Nodes
<1> QED BY <1>2, <1>3

\* The successors of a node, in the order of the edges.
LEMMA SuccessorsFacts ==
    ASSUME NEW net, IsNet(net), NEW n
    PROVE  /\ Len(Successors(net, n)) \in Nat
           /\ \A j \in 1..Len(Successors(net, n)) : Flow(net, n, Successors(net, n)[j])
           /\ \A m : Flow(net, n, m)
                 => \E j \in 1..Len(Successors(net, n)) : Successors(net, n)[j] = m
<1> DEFINE s == Edges(net)
           P == {i \in DOMAIN s : s[i][1] = n}
           out == Selected(s, P)
           r == [i \in DOMAIN out |-> out[i][2]]
<1>1. s \in Seq(Edge) /\ DOMAIN s = 1..Len(s)
  BY EdgesTyped, LenProperties
<1>2. Successors(net, n) = r
  BY DEF Successors
<1>3. Members(out) = {s[i] : i \in (1..Len(s)) \cap P}
  <2> HIDE DEF s, P
  <2> QED BY <1>1, SelectedElements
<1>4. /\ out \in Seq(Edge) /\ Len(out) \in Nat /\ DOMAIN out = 1..Len(out)
      /\ \A j \in 1..Len(out) : out[j] \in Edge
  <2>1. out \in Seq(Edge)
    <3> HIDE DEF s, P
    <3> QED BY <1>1, SelectedTyped
  <2> HIDE DEF out
  <2> QED BY <2>1, ElementOfSeq, LenProperties
<1> DEFINE l == Len(out)
<1>5. ASSUME NEW e \in Edge PROVE e = <<e[1], e[2]>>
  BY DEF Edge
<1>6. Len(r) = l /\ \A j \in 1..l : r[j] = out[j][2]
  <2>1. DOMAIN r = 1..l /\ l \in Nat /\ \A j \in 1..l : r[j] = out[j][2]
    BY <1>4
  <2>2. r = [i \in 1..l |-> r[i]]
    BY <1>4
  <2>3. r \in Seq(Nat)
    <3>1. \A i \in 1..l : r[i] \in Nat
      BY <1>4, <2>1 DEF Edge
    <3> HIDE DEF r, l
    <3> QED BY <2>1, <2>2, <3>1, TabledSeq
  <2> HIDE DEF r, l
  <2> QED BY <2>1, <2>3, LenProperties
<1>7. ASSUME NEW j \in 1..l PROVE Flow(net, n, r[j])
  <2> DEFINE e == out[j]
  <2>1. e \in Members(out) /\ e \in Edge
    BY <1>4, <1>7 DEF Members
  <2> HIDE DEF e, out
  <2>2. PICK i \in (1..Len(s)) \cap P : e = s[i]
    BY <1>3, <2>1
  <2>3. e[1] = n /\ e \in Members(s)
    BY <1>1, <2>2 DEF Members
  <2>4. e = <<n, e[2]>>
    BY <1>5, <2>1, <2>3
  <2>5. r[j] = e[2]
    BY <1>6, <1>7 DEF e
  <2> QED BY <2>3, <2>4, <2>5 DEF Flow
<1>8. ASSUME NEW m, Flow(net, n, m) PROVE \E j \in 1..l : r[j] = m
  <2> DEFINE e == <<n, m>>
  <2>1. e \in Members(s) /\ e[1] = n /\ e[2] = m
    BY <1>8 DEF Flow
  <2> HIDE DEF e
  <2>2. PICK i \in DOMAIN s : s[i] = e
    BY <2>1 DEF Members
  <2>3. i \in (1..Len(s)) \cap P
    BY <1>1, <2>1, <2>2
  <2> HIDE DEF P, s, out
  <2>4. e \in Members(out)
    BY <1>3, <2>2, <2>3
  <2>5. PICK j \in 1..l : out[j] = e
    BY <1>4, <2>4 DEF Members
  <2> QED BY <1>6, <2>1, <2>5
<1> HIDE DEF r, l
<1>9. Len(r) \in Nat
  BY <1>4, <1>6 DEF l
<1>10. /\ \A j \in 1..Len(r) : Flow(net, n, r[j])
       /\ \A m : Flow(net, n, m) => \E j \in 1..Len(r) : r[j] = m
  BY <1>6, <1>7, <1>8
<1> QED BY <1>2, <1>9, <1>10

\* A set of numbers that is not empty has a least one.
LEMMA LeastFacts ==
    ASSUME NEW S \in SUBSET Nat, S # {}
    PROVE  Least(S) \in S /\ \A y \in S : Least(S) <= y
<1>1. PICK x \in S : TRUE
  OBVIOUS
<1> DEFINE n == x + 1
           M == {i \in 1..n : i - 1 \in S}
<1>2. n \in Nat /\ n \in M
  BY <1>1
<1>3. PICK i \in M : \A j \in M : i <= j
  <2>1. M \in SUBSET (1..n)
    OBVIOUS
  <2> HIDE DEF M, n
  <2> QED BY <1>2, <2>1, LeastPosition
<1> DEFINE z == i - 1
<1>4. z \in S /\ z <= x /\ z \in Nat
  BY <1>1, <1>2, <1>3
<1>5. \A y \in S : z <= y
  <2> SUFFICES ASSUME NEW y \in S PROVE z <= y
    OBVIOUS
  <2>1. CASE y > x
    BY <1>4, <2>1
  <2>2. CASE ~(y > x)
    <3>1. y + 1 \in 1..n /\ (y + 1) - 1 = y
      BY <1>1, <2>2
    <3>2. y + 1 \in M
      BY <3>1
    <3>3. i <= y + 1
      BY <1>3, <3>2
    <3> QED BY <1>1, <1>3, <3>3
  <2> QED BY <2>1, <2>2
<1> HIDE DEF z
<1> QED BY <1>4, <1>5 DEF Least

(***************************************************************************)
(* The search for a cycle in a net.                                        *)
(***************************************************************************)

\* The marks of the nodes and the frames of the path.
Marks == {"white", "gray", "black"}
FrameOf(net) == [node : Nodes(net), next : Nat \ {0}]
OnPath(s, n) == \E k \in DOMAIN s : s[k].node = n
IsBlack(net, c, n) == n \in Nodes(net) /\ c[n] = "black"

SearchTyped(net, c, s) == c \in [Nodes(net) -> Marks] /\ s \in Seq(FrameOf(net))
\* The gray nodes are those of the path, ...
GrayIsPath(net, c, s) == \A n \in Nodes(net) : c[n] = "gray" <=> OnPath(s, n)
\* ... on which none stands twice and each flows into the next.
IsPath(net, s) ==
    /\ \A k, l \in DOMAIN s : s[k].node = s[l].node => k = l
    /\ \A k \in 1..(Len(s) - 1) : Flow(net, s[k].node, s[k + 1].node)
\* A successor that was passed is black, or the node that was entered from there.
PassedAreBlack(net, c, s) ==
    \A k \in DOMAIN s : \A j \in 1..Len(Successors(net, s[k].node)) :
        j < s[k].next =>
            \/ IsBlack(net, c, Successors(net, s[k].node)[j])
            \/ k < Len(s) /\ Successors(net, s[k].node)[j] = s[k + 1].node
\* A black node flows into black ones only, and no black nodes go round.
BlackIsClosed(net, c) ==
    \A n, m : IsBlack(net, c, n) /\ Flow(net, n, m) => IsBlack(net, c, m)
BlackIsAcyclic(net, c) ==
    \A S \in SUBSET {n \in Nodes(net) : c[n] = "black"} :
        S # {} => \E n \in S : \A m \in S : ~Flow(net, n, m)
Searched(net, c, s) ==
    /\ SearchTyped(net, c, s) /\ GrayIsPath(net, c, s) /\ IsPath(net, s)
    /\ PassedAreBlack(net, c, s) /\ BlackIsClosed(net, c) /\ BlackIsAcyclic(net, c)

\* The search begins with every node white and nothing on the path.
LEMMA SearchStarts ==
    ASSUME NEW net
    PROVE  Searched(net, [n \in Nodes(net) |-> "white"], <<>>)
<1> DEFINE c == [n \in Nodes(net) |-> "white"]
           s == <<>>
<1>1. \A n \in Nodes(net) : c[n] = "white"
  OBVIOUS
<1>2. c \in [Nodes(net) -> Marks]
  BY DEF Marks
<1>3. s \in Seq(FrameOf(net)) /\ DOMAIN s = {} /\ Len(s) = 0
  BY EmptySeq
<1> HIDE DEF c, s
<1>4. \A n \in Nodes(net) : c[n] # "gray" /\ c[n] # "black"
  BY <1>1
<1>5. SearchTyped(net, c, s)
  BY <1>2, <1>3 DEF SearchTyped
<1>6. GrayIsPath(net, c, s)
  BY <1>3, <1>4 DEF GrayIsPath, OnPath
<1>7. IsPath(net, s)
  <2>1. 1..(Len(s) - 1) = {}
    BY <1>3
  <2> QED BY <1>3, <2>1 DEF IsPath
<1>8. PassedAreBlack(net, c, s)
  BY <1>3 DEF PassedAreBlack
<1>9. BlackIsClosed(net, c) /\ BlackIsAcyclic(net, c)
  BY <1>4 DEF BlackIsClosed, BlackIsAcyclic, IsBlack
<1> QED BY <1>5, <1>6, <1>7, <1>8, <1>9 DEF Searched, c, s

\* The path after its top has moved to the next successor.
StackAdvanced(s) == [s EXCEPT ![Len(s)].next = @ + 1]

\* The top of the path, moved to its next successor.
LEMMA AdvancedFacts ==
    ASSUME NEW net, NEW s \in Seq(FrameOf(net)), s # <<>>
    PROVE  /\ StackAdvanced(s) \in Seq(FrameOf(net)) /\ Len(StackAdvanced(s)) = Len(s)
           /\ Len(s) \in Nat \ {0} /\ DOMAIN s = 1..Len(s)
           /\ \A k \in 1..Len(s) : /\ s[k].node \in Nodes(net) /\ s[k].next \in Nat \ {0}
                                   /\ StackAdvanced(s)[k].node = s[k].node
                                   /\ k # Len(s) => StackAdvanced(s)[k].next = s[k].next
           /\ StackAdvanced(s)[Len(s)].next = s[Len(s)].next + 1
<1> DEFINE n == Len(s)
           a == StackAdvanced(s)
           F == FrameOf(net)
<1>1. n \in Nat \ {0} /\ DOMAIN s = 1..n /\ \A k \in 1..n : s[k] \in F
  <2> HIDE DEF F
  <2> QED BY ElementOfSeq, LenProperties, EmptySeq DEF F
<1>2. \A k \in 1..n : s[k].node \in Nodes(net) /\ s[k].next \in Nat \ {0}
  BY <1>1 DEF FrameOf
<1>3. n \in 1..n
  BY <1>1
<1>4. a = [k \in 1..n |-> IF k = n THEN [s[n] EXCEPT !.next = s[n].next + 1] ELSE s[k]]
  BY <1>1 DEF StackAdvanced
<1>5. a[n] = [s[n] EXCEPT !.next = s[n].next + 1] /\ \A k \in 1..n : k # n => a[k] = s[k]
  BY <1>3, <1>4
<1>6. [s[n] EXCEPT !.next = s[n].next + 1] \in F
  BY <1>1, <1>2, <1>3 DEF FrameOf
<1>7. a[n].node = s[n].node /\ a[n].next = s[n].next + 1
  BY <1>1, <1>3, <1>5 DEF FrameOf
<1>8. a \in Seq(F) /\ Len(a) = n
  <2>1. a \in [1..n -> F]
    BY <1>1, <1>4, <1>6
  <2> HIDE DEF a, n, F
  <2>2. a \in Seq(F)
    BY <1>1, <2>1, SeqDef
  <2>3. DOMAIN a = 1..n
    BY <2>1
  <2> QED BY <1>1, <2>2, <2>3, LenProperties
<1> HIDE DEF a, n
<1>9. \A k \in 1..n : a[k].node = s[k].node /\ (k # n => a[k].next = s[k].next)
  BY <1>5, <1>7
<1> QED BY <1>1, <1>2, <1>7, <1>8, <1>9 DEF a, n, F

\* A node on top of a path.
LEMMA PushedFacts ==
    ASSUME NEW net, NEW s \in Seq(FrameOf(net)), NEW m \in Nodes(net)
    PROVE  /\ Push(s, m) \in Seq(FrameOf(net)) /\ Len(s) \in Nat /\ Len(Push(s, m)) = Len(s) + 1
           /\ DOMAIN Push(s, m) = 1..(Len(s) + 1)
           /\ \A k \in 1..Len(s) : Push(s, m)[k] = s[k]
           /\ Push(s, m)[Len(s) + 1] = [node |-> m, next |-> 1]
<1> DEFINE f == [node |-> m, next |-> 1]
           F == FrameOf(net)
<1>1. f \in F
  BY DEF FrameOf
<1>2. Push(s, m) = Append(s, f)
  BY DEF Push
<1> HIDE DEF f, F
<1>3. s \in Seq(F)
  BY DEF F
<1> QED BY <1>1, <1>2, <1>3, AppendProperties, LenProperties DEF f, F

\* The search enters the first white node.
LEMMA SearchEntersRoot ==
    ASSUME NEW net, NEW c, Searched(net, c, <<>>), NEW m \in Nodes(net), c[m] = "white"
    PROVE  Searched(net, [c EXCEPT ![m] = "gray"], Push(<<>>, m))
<1> DEFINE d == [c EXCEPT ![m] = "gray"]
           t == Push(<<>>, m)
           e == <<>>
<1>1. e \in Seq(FrameOf(net)) /\ Len(e) = 0 /\ DOMAIN e = {}
  BY EmptySeq
<1>2. /\ t \in Seq(FrameOf(net)) /\ Len(t) = 1 /\ DOMAIN t = {1}
      /\ t[1] = [node |-> m, next |-> 1]
  <2>1. e \in Seq(FrameOf(net)) /\ Len(e) = 0 /\ t = Push(e, m)
    BY <1>1
  <2> DEFINE l == Len(e) + 1
  <2> HIDE DEF d, e, t
  <2>4. /\ Push(e, m) \in Seq(FrameOf(net)) /\ Len(Push(e, m)) = Len(e) + 1
        /\ DOMAIN Push(e, m) = 1..(Len(e) + 1)
        /\ Push(e, m)[Len(e) + 1] = [node |-> m, next |-> 1]
    <3>1. e \in Seq(FrameOf(net)) /\ m \in Nodes(net)
      BY <2>1
    <3> QED BY <3>1, PushedFacts
  <2>2. /\ t \in Seq(FrameOf(net)) /\ Len(t) = l /\ DOMAIN t = 1..l
        /\ t[l] = [node |-> m, next |-> 1]
    BY <2>1, <2>4 DEF l
  <2>3. l = 1 /\ 1..1 = {1}
    BY <2>1
  <2> HIDE DEF l
  <2> QED BY <2>2, <2>3
<1>3. t[1].node = m /\ t[1].next = 1
  BY <1>2
<1>4. c \in [Nodes(net) -> Marks] /\ \A n \in Nodes(net) : c[n] # "gray"
  BY <1>1 DEF Searched, SearchTyped, GrayIsPath, OnPath
<1>5. d \in [Nodes(net) -> Marks] /\ d[m] = "gray" /\ \A n \in Nodes(net) : n # m => d[n] = c[n]
  BY <1>4 DEF Marks
<1>6. \A n : IsBlack(net, d, n) <=> IsBlack(net, c, n)
  BY <1>5 DEF IsBlack
<1> HIDE DEF d, t
<1>7. SearchTyped(net, d, t) /\ IsPath(net, t) /\ GrayIsPath(net, d, t)
  <2>1. 1..(Len(t) - 1) = {}
    BY <1>2
  <2> QED BY <1>2, <1>3, <1>4, <1>5, <2>1 DEF SearchTyped, IsPath, GrayIsPath, OnPath
<1>8. PassedAreBlack(net, d, t)
  BY <1>2, <1>3 DEF PassedAreBlack
<1>9. BlackIsClosed(net, d)
  BY <1>6 DEF BlackIsClosed, Searched
<1>10. BlackIsAcyclic(net, d)
  <2>1. {n \in Nodes(net) : d[n] = "black"} = {n \in Nodes(net) : c[n] = "black"}
    BY <1>6 DEF IsBlack
  <2> QED BY <2>1 DEF BlackIsAcyclic, Searched
<1> QED BY <1>7, <1>8, <1>9, <1>10 DEF Searched, d, t

\* The search enters a white successor.
LEMMA SearchEnters ==
    ASSUME NEW net, IsNet(net), NEW c, NEW s, s # <<>>, Searched(net, c, s),
           s[Len(s)].next <= Len(Successors(net, s[Len(s)].node)),
           NEW m, m = Successors(net, s[Len(s)].node)[s[Len(s)].next], c[m] = "white"
    PROVE  Searched(net, [c EXCEPT ![m] = "gray"], Push(StackAdvanced(s), m))
<1> DEFINE a == StackAdvanced(s)
           d == [c EXCEPT ![m] = "gray"]
           t == Push(a, m)
           n == Len(s)
           F == FrameOf(net)
<1>1. s \in Seq(F) /\ c \in [Nodes(net) -> Marks]
  BY DEF Searched, SearchTyped
<1>2. /\ a \in Seq(F) /\ Len(a) = n /\ n \in Nat \ {0} /\ DOMAIN s = 1..n
      /\ \A k \in 1..n : /\ s[k].node \in Nodes(net) /\ s[k].next \in Nat \ {0}
                         /\ a[k].node = s[k].node
                         /\ k # n => a[k].next = s[k].next
      /\ a[n].next = s[n].next + 1
  BY <1>1, AdvancedFacts
<1> DEFINE top == s[n].node
<1>3. Flow(net, top, m) /\ m \in Nodes(net)
  <2>1. s[n].next \in 1..Len(Successors(net, top))
    BY <1>2, SuccessorsFacts
  <2>2. Flow(net, top, m)
    BY <2>1, SuccessorsFacts
  <2> QED BY <2>2, NodesFacts
<1> HIDE DEF a
<1>4. /\ t \in Seq(F) /\ Len(t) = n + 1 /\ DOMAIN t = 1..(n + 1)
      /\ \A k \in 1..n : t[k] = a[k]
      /\ t[n + 1] = [node |-> m, next |-> 1]
  BY <1>2, <1>3, PushedFacts
<1>5. t[n + 1].node = m /\ t[n + 1].next = 1
  BY <1>4
<1>6. d \in [Nodes(net) -> Marks] /\ d[m] = "gray" /\ \A x \in Nodes(net) : x # m => d[x] = c[x]
  BY <1>1, <1>3 DEF Marks
<1>7. \A x : IsBlack(net, d, x) <=> IsBlack(net, c, x)
  BY <1>6 DEF IsBlack
<1>8. ~OnPath(s, m)
  BY <1>3 DEF Searched, GrayIsPath
<1> HIDE DEF d, t, n, F
<1>9. \A k \in 1..(n + 1) : k \in 1..n \/ k = n + 1
  BY <1>2
<1>10. \A k \in 1..n : k \in 1..(n + 1) /\ t[k].node = s[k].node
  BY <1>2, <1>4
<1>11. SearchTyped(net, d, t)
  BY <1>4, <1>6 DEF SearchTyped, F
<1>12. GrayIsPath(net, d, t)
  <2> SUFFICES ASSUME NEW x \in Nodes(net) PROVE d[x] = "gray" <=> OnPath(t, x)
    BY DEF GrayIsPath
  <2>1. c[x] = "gray" <=> OnPath(s, x)
    BY DEF Searched, GrayIsPath
  <2>2. OnPath(t, x) <=> OnPath(s, x) \/ x = m
    <3>1. n + 1 \in 1..(n + 1)
      BY <1>2
    <3> QED BY <1>2, <1>4, <1>5, <1>9, <1>10, <3>1 DEF OnPath
  <2> QED BY <1>6, <2>1, <2>2
<1>13. IsPath(net, t)
  <2>1. \A k, l \in DOMAIN s : s[k].node = s[l].node => k = l
    BY DEF Searched, IsPath
  <2>2. \A k \in 1..n : s[k].node # m
    BY <1>2, <1>8 DEF OnPath
  <2>3. \A k, l \in DOMAIN t : t[k].node = t[l].node => k = l
    BY <1>2, <1>4, <1>5, <1>9, <1>10, <2>1, <2>2
  <2>4. ASSUME NEW k \in 1..((n + 1) - 1) PROVE Flow(net, t[k].node, t[k + 1].node)
    <3>1. CASE k = n
      BY <1>2, <1>3, <1>5, <1>10, <3>1
    <3>2. CASE k # n
      <4>1. k \in 1..(n - 1) /\ k \in 1..n /\ k + 1 \in 1..n
        BY <1>2, <3>2
      <4>2. Flow(net, s[k].node, s[k + 1].node)
        BY <4>1 DEF Searched, IsPath, n
      <4> QED BY <1>10, <4>1, <4>2
    <3> QED BY <3>1, <3>2
  <2> QED BY <1>4, <2>3, <2>4 DEF IsPath
<1>14. PassedAreBlack(net, d, t)
  <2> SUFFICES ASSUME NEW k \in 1..(n + 1), NEW j \in 1..Len(Successors(net, t[k].node)),
                      j < t[k].next
               PROVE  \/ IsBlack(net, d, Successors(net, t[k].node)[j])
                      \/ k < n + 1 /\ Successors(net, t[k].node)[j] = t[k + 1].node
    BY <1>4 DEF PassedAreBlack
  <2>1. CASE k = n + 1
    BY <1>5, <2>1
  <2>2. CASE k # n + 1
    <3>1. k \in 1..n /\ k < n + 1
      BY <1>2, <2>2
    <3> DEFINE w == s[k].node
               y == Successors(net, w)[j]
    <3>2. t[k].node = w /\ t[k].next = a[k].next
      BY <1>4, <1>10, <3>1
    <3>3. j \in 1..Len(Successors(net, w))
      BY <3>2
    <3>4. j < s[k].next => IsBlack(net, c, y) \/ (k < n /\ y = s[k + 1].node)
      BY <1>2, <3>1, <3>3 DEF Searched, PassedAreBlack, n
    <3>5. k < n => k + 1 \in 1..n /\ t[k + 1].node = s[k + 1].node
      BY <1>2, <1>10, <3>1
    <3>6. CASE k # n
      <4>1. j < s[k].next
        BY <1>2, <3>1, <3>2, <3>6
      <4> QED BY <1>7, <3>1, <3>2, <3>4, <3>5, <4>1
    <3>7. CASE k = n
      <4>1. j < s[n].next + 1 /\ s[n].next \in Nat
        BY <1>2, <3>1, <3>2, <3>7
      <4>2. j < s[n].next \/ j = s[n].next
        BY <4>1
      <4>3. CASE j < s[n].next
        <5>1. ~(k < n)
          BY <1>2, <3>7
        <5> QED BY <1>7, <3>2, <3>4, <3>7, <4>3, <5>1
      <4>4. CASE j = s[n].next
        <5>1. y = m
          BY <3>7, <4>4 DEF n
        <5> QED BY <1>5, <3>1, <3>2, <3>7, <5>1
      <4> QED BY <4>2, <4>3, <4>4
    <3> QED BY <3>6, <3>7
  <2> QED BY <2>1, <2>2
<1>15. BlackIsClosed(net, d)
  BY <1>7 DEF BlackIsClosed, Searched
<1>16. BlackIsAcyclic(net, d)
  <2>1. {x \in Nodes(net) : d[x] = "black"} = {x \in Nodes(net) : c[x] = "black"}
    BY <1>7 DEF IsBlack
  <2> QED BY <2>1 DEF BlackIsAcyclic, Searched
<1> QED BY <1>11, <1>12, <1>13, <1>14, <1>15, <1>16 DEF Searched, d, t, a

\* The search passes a black successor.
LEMMA SearchPasses ==
    ASSUME NEW net, IsNet(net), NEW c, NEW s, s # <<>>, Searched(net, c, s),
           s[Len(s)].next <= Len(Successors(net, s[Len(s)].node)),
           c[Successors(net, s[Len(s)].node)[s[Len(s)].next]] = "black"
    PROVE  Searched(net, c, StackAdvanced(s))
<1> DEFINE a == StackAdvanced(s)
           n == Len(s)
           F == FrameOf(net)
           top == s[n].node
           m == Successors(net, top)[s[n].next]
<1>1. s \in Seq(F) /\ c \in [Nodes(net) -> Marks]
  BY DEF Searched, SearchTyped
<1>2. /\ a \in Seq(F) /\ Len(a) = n /\ n \in Nat \ {0} /\ DOMAIN s = 1..n
      /\ \A k \in 1..n : /\ s[k].node \in Nodes(net) /\ s[k].next \in Nat \ {0}
                         /\ a[k].node = s[k].node
                         /\ k # n => a[k].next = s[k].next
      /\ a[n].next = s[n].next + 1
  BY <1>1, AdvancedFacts
<1>3. DOMAIN a = 1..n
  <2> HIDE DEF a, F
  <2> QED BY <1>2, LenProperties
<1>4. IsBlack(net, c, m)
  <2>1. s[n].next \in 1..Len(Successors(net, top))
    BY <1>2, SuccessorsFacts
  <2>2. Flow(net, top, m)
    BY <2>1, SuccessorsFacts
  <2>3. m \in Nodes(net)
    BY <2>2, NodesFacts
  <2> QED BY <2>3 DEF IsBlack
<1> HIDE DEF a, m
<1>5. SearchTyped(net, c, a)
  BY <1>1, <1>2 DEF SearchTyped, F
<1>6. GrayIsPath(net, c, a)
  <2>1. \A x : OnPath(a, x) <=> OnPath(s, x)
    BY <1>2, <1>3 DEF OnPath
  <2> QED BY <2>1 DEF GrayIsPath, Searched
<1>7. IsPath(net, a)
  <2>1. \A k \in 1..(n - 1) : k \in 1..n /\ k + 1 \in 1..n
    BY <1>2
  <2> QED BY <1>2, <1>3, <2>1 DEF IsPath, Searched
<1>8. PassedAreBlack(net, c, a)
  <2> SUFFICES ASSUME NEW k \in 1..n, NEW j \in 1..Len(Successors(net, a[k].node)),
                      j < a[k].next
               PROVE  \/ IsBlack(net, c, Successors(net, a[k].node)[j])
                      \/ k < n /\ Successors(net, a[k].node)[j] = a[k + 1].node
    BY <1>2, <1>3 DEF PassedAreBlack
  <2> DEFINE w == s[k].node
             y == Successors(net, w)[j]
  <2>1. a[k].node = w
    BY <1>2
  <2>2. j \in 1..Len(Successors(net, w))
    BY <2>1
  <2>3. j < s[k].next => IsBlack(net, c, y) \/ (k < n /\ y = s[k + 1].node)
    BY <1>2, <2>2 DEF Searched, PassedAreBlack
  <2>4. k < n => k + 1 \in 1..n /\ a[k + 1].node = s[k + 1].node
    BY <1>2
  <2>5. j < s[k].next \/ (k = n /\ j = s[n].next)
    BY <1>2
  <2>6. CASE k = n /\ j = s[n].next
    BY <1>4, <2>1, <2>6 DEF m
  <2> QED BY <2>1, <2>3, <2>4, <2>5, <2>6
<1> QED BY <1>5, <1>6, <1>7, <1>8 DEF Searched, a

\* The search leaves a node whose successors are all passed.
LEMMA SearchLeaves ==
    ASSUME NEW net, IsNet(net), NEW c, NEW s, s # <<>>, Searched(net, c, s),
           s[Len(s)].next > Len(Successors(net, s[Len(s)].node))
    PROVE  Searched(net, [c EXCEPT ![s[Len(s)].node] = "black"], SubSeq(s, 1, Len(s) - 1))
<1> DEFINE n == Len(s)
           F == FrameOf(net)
           top == s[n].node
           d == [c EXCEPT ![top] = "black"]
           t == SubSeq(s, 1, n - 1)
<1>1. s \in Seq(F) /\ c \in [Nodes(net) -> Marks]
  BY DEF Searched, SearchTyped
<1>2. /\ n \in Nat \ {0} /\ DOMAIN s = 1..n
      /\ \A k \in 1..n : s[k].node \in Nodes(net) /\ s[k].next \in Nat \ {0}
  BY <1>1, AdvancedFacts
<1>3. /\ t \in Seq(F) /\ Len(t) = n - 1 /\ DOMAIN t = 1..(n - 1)
      /\ \A k \in 1..(n - 1) : t[k] = s[k]
  <2>1. 1 \in 1..(n + 1) /\ n - 1 \in (1 - 1)..n
    BY <1>2
  <2> HIDE DEF F
  <2>2. t \in Seq(F) /\ Len(t) = n - 1 /\ \A k \in 1..(n - 1) : t[k] = s[k]
    <3>1. t = Popped(s)
      BY DEF Popped
    <3>2. Popped(s) \in Seq(F)
      BY <1>1, PoppedType
    <3>3. Len(t) = n - 1 /\ \A k \in 1..(n - 1) : t[k] = s[k]
      BY <1>1, <1>2, SubSeqProperties
    <3> QED BY <3>1, <3>2, <3>3
  <2> HIDE DEF t
  <2> QED BY <2>2, LenProperties
<1>4. n \in 1..n /\ top \in Nodes(net)
  BY <1>2
<1>5. d \in [Nodes(net) -> Marks] /\ d[top] = "black" /\ \A x \in Nodes(net) : x # top => d[x] = c[x]
  BY <1>1, <1>4 DEF Marks
<1>6. c[top] = "gray"
  BY <1>2, <1>4 DEF Searched, GrayIsPath, OnPath
<1>18. n \in Nat /\ n # 0
  BY <1>2
<1> HIDE DEF d, t
<1>7. \A x : IsBlack(net, d, x) <=> IsBlack(net, c, x) \/ x = top
  BY <1>4, <1>5 DEF IsBlack
<1>8. \A x : Flow(net, top, x) => IsBlack(net, c, x)
  <2> SUFFICES ASSUME NEW x, Flow(net, top, x) PROVE IsBlack(net, c, x)
    OBVIOUS
  <2>1. PICK j \in 1..Len(Successors(net, top)) : Successors(net, top)[j] = x
    BY SuccessorsFacts
  <2>2. j < s[n].next /\ ~(n < n)
    BY <1>2, <2>1, SuccessorsFacts
  <2> QED BY <1>2, <1>4, <2>1, <2>2 DEF Searched, PassedAreBlack
<1>9. ~IsBlack(net, c, top)
  BY <1>6 DEF IsBlack
<1>10. \A k \in 1..(n - 1) : k \in 1..n /\ t[k].node = s[k].node /\ t[k].next = s[k].next /\ s[k].node # top
  <2>1. \A k, l \in DOMAIN s : s[k].node = s[l].node => k = l
    BY DEF Searched, IsPath
  <2>2. \A k \in 1..(n - 1) : k \in 1..n /\ k # n
    <3> HIDE DEF n
    <3> QED BY <1>18
  <2> QED BY <1>2, <1>3, <1>4, <2>1, <2>2
<1>11. \A k \in 1..n : k \in 1..(n - 1) \/ k = n
  <2> HIDE DEF n
  <2> QED BY <1>18
<1>12. SearchTyped(net, d, t)
  BY <1>3, <1>5 DEF SearchTyped
<1>13. GrayIsPath(net, d, t)
  <2> SUFFICES ASSUME NEW x \in Nodes(net) PROVE d[x] = "gray" <=> OnPath(t, x)
    BY DEF GrayIsPath
  <2>1. c[x] = "gray" <=> OnPath(s, x)
    BY DEF Searched, GrayIsPath
  <2>2. OnPath(s, x) <=> OnPath(t, x) \/ x = top
    BY <1>2, <1>3, <1>4, <1>10, <1>11 DEF OnPath
  <2>3. ~OnPath(t, top)
    BY <1>3, <1>10 DEF OnPath
  <2> QED BY <1>5, <2>1, <2>2, <2>3
<1>14. IsPath(net, t)
  <2>1. \A k \in 1..((n - 1) - 1) : k \in 1..(n - 1) /\ k + 1 \in 1..(n - 1)
    BY <1>2
  <2>2. \A k, l \in DOMAIN t : t[k].node = t[l].node => k = l
    BY <1>2, <1>3, <1>10 DEF Searched, IsPath
  <2>3. \A k \in 1..((n - 1) - 1) : Flow(net, t[k].node, t[k + 1].node)
    BY <1>10, <2>1 DEF Searched, IsPath
  <2> QED BY <1>3, <2>2, <2>3 DEF IsPath
<1>15. PassedAreBlack(net, d, t)
  <2> SUFFICES ASSUME NEW k \in 1..(n - 1), NEW j \in 1..Len(Successors(net, t[k].node)),
                      j < t[k].next
               PROVE  \/ IsBlack(net, d, Successors(net, t[k].node)[j])
                      \/ k < n - 1 /\ Successors(net, t[k].node)[j] = t[k + 1].node
    BY <1>3 DEF PassedAreBlack
  <2> DEFINE w == s[k].node
             y == Successors(net, w)[j]
  <2>1. t[k].node = w /\ j < s[k].next /\ k \in 1..n
    BY <1>10
  <2>2. j \in 1..Len(Successors(net, w))
    BY <2>1
  <2>3. IsBlack(net, c, y) \/ (k < n /\ y = s[k + 1].node)
    BY <1>2, <2>1, <2>2 DEF Searched, PassedAreBlack
  <2>4. k + 1 = n \/ (k < n - 1 /\ k + 1 \in 1..(n - 1))
    <3> HIDE DEF n
    <3> QED BY <1>18
  <2> QED BY <1>7, <1>10, <2>1, <2>3, <2>4
<1>16. BlackIsClosed(net, d)
  <2> SUFFICES ASSUME NEW x, NEW y, IsBlack(net, d, x), Flow(net, x, y) PROVE IsBlack(net, d, y)
    BY DEF BlackIsClosed
  <2> QED BY <1>7, <1>8 DEF Searched, BlackIsClosed
<1>17. BlackIsAcyclic(net, d)
  <2> DEFINE B == {x \in Nodes(net) : c[x] = "black"}
  <2> SUFFICES ASSUME NEW S \in SUBSET {x \in Nodes(net) : d[x] = "black"}, S # {}
               PROVE  \E x \in S : \A y \in S : ~Flow(net, x, y)
    BY DEF BlackIsAcyclic
  <2> DEFINE T == S \ {top}
  <2>1. T \in SUBSET B
    BY <1>5
  <2>2. CASE T = {}
    <3>1. S = {top}
      BY <2>2
    <3>2. ~Flow(net, top, top)
      BY <1>8, <1>9
    <3> QED BY <3>1, <3>2
  <2>3. CASE T # {}
    <3>1. PICK x \in T : \A y \in T : ~Flow(net, x, y)
      <4> HIDE DEF T
      <4> QED BY <2>1, <2>3 DEF Searched, BlackIsAcyclic
    <3>2. IsBlack(net, c, x)
      BY <2>1 DEF IsBlack
    <3>3. ~Flow(net, x, top)
      BY <1>9, <3>2 DEF Searched, BlackIsClosed
    <3>4. \A y \in S : ~Flow(net, x, y)
      BY <3>1, <3>3
    <3> QED BY <3>1, <3>4
  <2> QED BY <2>2, <2>3
<1> QED BY <1>12, <1>13, <1>14, <1>15, <1>16, <1>17 DEF Searched, d, t

\* A search that has come to an end without an edge back has met no cycle.
LEMMA NoneLeftNoCycle ==
    ASSUME NEW net, NEW c, Searched(net, c, <<>>), {n \in Nodes(net) : c[n] = "white"} = {}
    PROVE  ~Cyclic(net)
<1>1. c \in [Nodes(net) -> Marks] /\ \A n \in Nodes(net) : c[n] # "gray"
  <2> DEFINE e == <<>>
  <2>1. DOMAIN e = {}
    BY EmptySeq
  <2>2. Searched(net, c, e)
    OBVIOUS
  <2> HIDE DEF e
  <2> QED BY <2>1, <2>2 DEF Searched, SearchTyped, GrayIsPath, OnPath
<1>2. {n \in Nodes(net) : c[n] = "black"} = Nodes(net)
  BY <1>1 DEF Marks
<1>3. \A S \in SUBSET Nodes(net) : S # {} => \E n \in S : \A m \in S : ~Flow(net, n, m)
  BY <1>2 DEF Searched, BlackIsAcyclic
<1> QED BY <1>3 DEF Cyclic, Flow

\* A sequence with one more element.
LEMMA ConcatOne ==
    ASSUME NEW S, NEW h \in Seq(S), NEW e \in Seq(S), Len(e) = 1
    PROVE  /\ h \o e \in Seq(S) /\ Len(h \o e) = Len(h) + 1
           /\ \A i \in 1..Len(h) : (h \o e)[i] = h[i]
           /\ (h \o e)[Len(h) + 1] = e[1]
<1>1. h \o e \in Seq(S) /\ Len(h \o e) = Len(h) + Len(e)
  BY ConcatProperties
<1>2. \A i \in 1..(Len(h) + Len(e)) : (h \o e)[i] = IF i <= Len(h) THEN h[i] ELSE e[i - Len(h)]
  BY ConcatProperties
<1>3. Len(h) \in Nat
  BY LenProperties
<1> QED BY <1>1, <1>2, <1>3

\* A way round in a net.
IsRound(net, ch) ==
    /\ Len(ch) > 1 /\ ch[1] = ch[Len(ch)]
    /\ \A k \in 1..(Len(ch) - 1) : <<ch[k], ch[k + 1]>> \in Members(Edges(net))

\* An edge back into the path closes a cycle, the one that is reported.
LEMMA BackEdgeCloses ==
    ASSUME NEW net, IsNet(net), NEW c, NEW s, s # <<>>, Searched(net, c, s),
           s[Len(s)].next <= Len(Successors(net, s[Len(s)].node)),
           NEW m, m = Successors(net, s[Len(s)].node)[s[Len(s)].next], c[m] = "gray"
    PROVE  Cyclic(net) /\ IsRound(net, ChainFrom(s, m)) /\ ChainFrom(s, m) # <<>>
<1> DEFINE n == Len(s)
           F == FrameOf(net)
           top == s[n].node
           P == {i \in DOMAIN s : s[i].node = m}
           cut == Least(P)
<1>1. s \in Seq(F) /\ c \in [Nodes(net) -> Marks]
  BY DEF Searched, SearchTyped
<1>2. /\ n \in Nat \ {0} /\ DOMAIN s = 1..n
      /\ \A k \in 1..n : s[k].node \in Nodes(net) /\ s[k].next \in Nat \ {0}
  BY <1>1, AdvancedFacts
<1>3. Flow(net, top, m) /\ m \in Nodes(net)
  <2>1. s[n].next \in 1..Len(Successors(net, top))
    BY <1>2, SuccessorsFacts
  <2>2. Flow(net, top, m)
    BY <2>1, SuccessorsFacts
  <2> QED BY <2>2, NodesFacts
<1>4. cut \in 1..n /\ s[cut].node = m
  <2>1. P # {}
    BY <1>3 DEF Searched, GrayIsPath, OnPath
  <2>2. P \in SUBSET Nat
    BY <1>2
  <2>3. cut \in P
    <3> HIDE DEF P
    <3> QED BY <2>1, <2>2, LeastFacts
  <2> HIDE DEF cut
  <2> QED BY <1>2, <2>3
<1> DEFINE l == n - cut + 1
           h == [i \in 1..l |-> s[cut + i - 1].node]
           ch == ChainFrom(s, m)
<1>5. ch = h \o <<m>>
  BY DEF ChainFrom
<1> HIDE DEF P, cut, n
<1>6. l \in Nat \ {0} /\ cut + l - 1 = n /\ cut \in Nat /\ cut >= 1 /\ n \in Nat
  BY <1>2, <1>4
<1> HIDE DEF l
<1>7. \A i \in 1..l : cut + i - 1 \in 1..n
  BY <1>6
<1>8. \A k \in 1..(n - 1) : Flow(net, s[k].node, s[k + 1].node)
  BY DEF Searched, IsPath, n
<1>9. \A i \in 1..l : h[i] = s[cut + i - 1].node /\ h[i] \in Nodes(net)
  BY <1>2, <1>7
<1>10. h[1] = m /\ h[l] = top
  <2>1. cut + 1 - 1 = cut /\ 1 \in 1..l /\ l \in 1..l
    BY <1>6
  <2>2. h[1] = s[cut + 1 - 1].node /\ h[l] = s[cut + l - 1].node
    BY <1>9, <2>1
  <2> QED BY <1>4, <1>6, <2>1, <2>2
<1>11. h = [i \in 1..l |-> h[i]] /\ DOMAIN h = 1..l
  OBVIOUS
<1>12. ASSUME NEW i \in 1..l, i # l PROVE i + 1 \in 1..l /\ Flow(net, h[i], h[i + 1])
  <2>1. i + 1 \in 1..l /\ cut + i - 1 \in 1..(n - 1) /\ cut + (i + 1) - 1 = (cut + i - 1) + 1
    BY <1>6, <1>12
  <2> HIDE DEF h
  <2>2. h[i] = s[cut + i - 1].node /\ h[i + 1] = s[cut + (i + 1) - 1].node
    BY <1>9, <2>1
  <2> QED BY <1>8, <2>1, <2>2
<1> HIDE DEF h, top
<1>13. /\ ch # <<>> /\ Len(ch) = l + 1
       /\ \A i \in 1..l : ch[i] = h[i]
       /\ ch[l + 1] = m
  <2> DEFINE S == Nodes(net)
             e == <<m>>
  <2>1. h \in Seq(S) /\ e \in Seq(S) /\ Len(e) = 1 /\ e[1] = m
    <3> HIDE DEF S
    <3>1. h \in Seq(S)
      BY <1>6, <1>9, <1>11, TabledSeq DEF S
    <3>2. m \in S
      BY <1>3 DEF S
    <3> QED BY <3>1, <3>2
  <2>2. Len(h) = l
    <3> HIDE DEF S
    <3> QED BY <1>6, <1>11, <2>1, LenProperties
  <2>3. ch = h \o e
    BY <1>5
  <2> HIDE DEF S, e, ch
  <2>4. /\ ch \in Seq(S) /\ Len(ch) = l + 1
        /\ \A i \in 1..l : ch[i] = h[i]
        /\ ch[l + 1] = m
    BY <2>1, <2>2, <2>3, ConcatOne
  <2>5. ch # <<>>
    <3>1. Len(ch) # 0
      BY <1>6, <2>4
    <3> QED BY <2>4, <3>1, EmptySeq
  <2> QED BY <2>4, <2>5
<1> HIDE DEF ch
<1>14. IsRound(net, ch)
  <2>1. Len(ch) > 1 /\ ch[1] = ch[Len(ch)]
    <3>1. 1 \in 1..l /\ l + 1 > 1
      BY <1>6
    <3>2. ch[1] = m
      BY <1>10, <1>13, <3>1
    <3> QED BY <1>13, <3>1, <3>2
  <2>2. ASSUME NEW k \in 1..l PROVE Flow(net, ch[k], ch[k + 1])
    <3>1. CASE k = l
      BY <1>3, <1>10, <1>13, <3>1
    <3>2. CASE k # l
      BY <1>12, <1>13, <3>2
    <3> QED BY <3>1, <3>2
  <2>3. Len(ch) - 1 = l
    BY <1>6, <1>13
  <2> QED BY <2>1, <2>2, <2>3 DEF IsRound, Flow
<1>15. Cyclic(net)
  <2> DEFINE S == {h[i] : i \in 1..l}
  <2>1. S \in SUBSET Nodes(net)
    BY <1>9
  <2>2. S # {}
    <3>1. 1 \in 1..l
      BY <1>6
    <3>2. h[1] \in S
      BY <3>1
    <3> QED BY <3>2
  <2>3. \A x \in S : \E y \in S : Flow(net, x, y)
    <3> SUFFICES ASSUME NEW i \in 1..l PROVE \E y \in S : Flow(net, h[i], y)
      OBVIOUS
    <3>1. CASE i = l
      <4>1. h[1] \in S
        BY <1>6
      <4> QED BY <1>3, <1>10, <3>1, <4>1
    <3>2. CASE i # l
      BY <1>12, <3>2
    <3> QED BY <3>1, <3>2
  <2> HIDE DEF S
  <2> QED BY <2>1, <2>2, <2>3 DEF Cyclic, Flow
<1> QED BY <1>13, <1>14, <1>15 DEF ch

(***************************************************************************)
(* The chains of aliases.                                                  *)
(***************************************************************************)

\* The names of the types declared, and the names met from a start on.
NameSet == {Items[i].name : i \in types}
NamesUpTo(start, u, n) == u = [k \in 0..n |-> IF k = 0 THEN start ELSE Chased(u[k - 1])]

\* The names met from a start on, alias by alias.
LEMMA NamesExist ==
    ASSUME NEW start, NEW n \in Nat
    PROVE  \E u : NamesUpTo(start, u, n)
<1> DEFINE Fits(u, j) == NamesUpTo(start, u, j)
           Good == {j \in 0..n : \E u : Fits(u, j)}
<1>1. 0 \in Good
  <2>1. Fits([k \in 0..0 |-> start], 0)
    BY DEF NamesUpTo
  <2> HIDE DEF Fits
  <2> QED BY <2>1
<1>2. ASSUME NEW j \in 1..n, j - 1 \in Good PROVE j \in Good
  <2>1. PICK g : Fits(g, j - 1)
    BY <1>2
  <2> DEFINE h == [k \in 0..j |-> IF k = j THEN Chased(g[j - 1]) ELSE g[k]]
  <2>2. \A k \in 0..j : h[k] = IF k = 0 THEN start ELSE Chased(h[k - 1])
    <3> TAKE k \in 0..j
    <3>1. CASE k = j
      <4>1. k # 0 /\ k - 1 \in 0..j /\ k - 1 # j
        BY <3>1
      <4> QED BY <3>1, <4>1
    <3>2. CASE k # j /\ k = 0
      BY <2>1, <3>2 DEF NamesUpTo
    <3>3. CASE k # j /\ k # 0
      <4>1. k \in 0..(j - 1) /\ k - 1 \in 0..j /\ k - 1 # j
        BY <3>3
      <4>2. g[k] = Chased(g[k - 1])
        BY <2>1, <3>3, <4>1 DEF NamesUpTo
      <4> QED BY <3>3, <4>1, <4>2
    <3> QED BY <3>1, <3>2, <3>3
  <2>3. h = [k \in 0..j |-> h[k]]
    OBVIOUS
  <2> HIDE DEF h
  <2>4. Fits(h, j)
    BY <2>2, <2>3 DEF NamesUpTo
  <2>5. j \in 0..n
    OBVIOUS
  <2> HIDE DEF Fits
  <2> QED BY <2>4, <2>5
<1>3. n \in Good
  <2> HIDE DEF Good
  <2>1. n \in 0..n
    OBVIOUS
  <2> QED BY <1>1, <1>2, <2>1, CountUp
<1> QED BY <1>3

\* A name comes up again before the chain ends, after the start has.
SeenBefore(u, k) == {u[j] : j \in 0..(k - 1)}
Repeats(u, start, n) ==
    \E k \in 1..n :
        NoName \notin SeenBefore(u, k) /\ u[k] \in SeenBefore(u, k) /\ start \in SeenBefore(u, k)

\* Visiting a name again, said of the names met.
LEMMA VisitsSelfUnfolded ==
    ASSUME NEW start, Cardinality(types) \in Nat
    PROVE  \E u : /\ NamesUpTo(start, u, Cardinality(types) + 1)
                  /\ VisitsSelf(start) <=> Repeats(u, start, Cardinality(types) + 1)
<1> DEFINE n == Cardinality(types) + 1
           f == CHOOSE u : NamesUpTo(start, u, n)
<1>1. VisitsSelf(start) <=> Repeats(f, start, n)
  BY DEF VisitsSelf, NamesUpTo, Repeats, SeenBefore
<1>2. n \in Nat
  OBVIOUS
<1>3. NamesUpTo(start, f, n)
  <2> HIDE DEF n
  <2> QED BY <1>2, NamesExist, Zenon
<1> HIDE DEF f
<1> QED BY <1>1, <1>3

\* The names declared: finitely many, none of them the end of a chain.
LEMMA NameSetFacts ==
    ASSUME source \in DOMAIN Modules, types \subseteq DOMAIN Items
    PROVE  /\ Cardinality(types) \in Nat /\ IsFiniteSet(NameSet)
           /\ Cardinality(NameSet) \in Nat /\ Cardinality(NameSet) <= Cardinality(types)
           /\ NoName \notin NameSet
<1>1. Len(Items) \in Nat /\ DOMAIN Items = 1..Len(Items) /\ \A i \in 1..Len(Items) : IsItem(Items[i])
  BY ItemsFacts
<1>2. IsFiniteSet(types)
  <2>1. IsFiniteSet(1..Len(Items))
    BY <1>1, FS_Interval
  <2> QED BY <1>1, <2>1, SubsetFinite
<1>3. IsFiniteSet(NameSet) /\ Cardinality(NameSet) <= Cardinality(types)
  <2> DEFINE f == [i \in types |-> Items[i].name]
  <2>1. DOMAIN f = types /\ NameSet = {f[i] : i \in types}
    BY DEF NameSet
  <2> HIDE DEF f
  <2> QED BY <1>2, <2>1, ImageIsFinite
<1>4. Cardinality(types) \in Nat /\ Cardinality(NameSet) \in Nat
  BY <1>2, <1>3, FS_CardinalityType
<1>5. NoName \notin NameSet
  BY <1>1 DEF NameSet, IsItem
<1> QED BY <1>2, <1>3, <1>4, <1>5

\* A name that leads on is declared.
LEMMA ChasedDeclared ==
    ASSUME NEW n, Chased(n) # NoName
    PROVE  n \in NameSet
BY DEF Chased, Aliases, NameSet

\* A walk along as many aliases as there are types, and one more, tells whether the
\* chain ever ends: among so many names one is met twice.
LEMMA ChainsEnd ==
    ASSUME source \in DOMAIN Modules, types \subseteq DOMAIN Items, NEW start \in NameSet
    PROVE  VisitsSelf(start) <=> NeverEnds(start)
<1> DEFINE c == Cardinality(types)
           n == c + 1
<1>1. /\ c \in Nat /\ IsFiniteSet(NameSet) /\ Cardinality(NameSet) \in Nat
      /\ Cardinality(NameSet) <= c /\ NoName \notin NameSet
  BY NameSetFacts
<1>2. PICK u : NamesUpTo(start, u, n) /\ (VisitsSelf(start) <=> Repeats(u, start, n))
  BY <1>1, VisitsSelfUnfolded
<1>3. n \in Nat /\ 0 \in 0..n
  BY <1>1
<1>4. u[0] = start /\ \A k \in 1..n : u[k] = Chased(u[k - 1])
  <2>1. \A k \in 1..n : k \in 0..n /\ k # 0
    BY <1>3
  <2> HIDE DEF n
  <2> QED BY <1>2, <1>3, <2>1 DEF NamesUpTo
<1>5. ASSUME Repeats(u, start, n) PROVE NeverEnds(start)
  <2>1. PICK k \in 1..n : /\ NoName \notin SeenBefore(u, k) /\ u[k] \in SeenBefore(u, k)
                          /\ start \in SeenBefore(u, k)
    BY <1>5 DEF Repeats
  <2> DEFINE S == SeenBefore(u, k)
  <2>2. \A x \in S : Chased(x) \in S
    <3> SUFFICES ASSUME NEW j \in 0..(k - 1) PROVE Chased(u[j]) \in S
      BY DEF SeenBefore
    <3>1. j + 1 \in 1..n /\ (j + 1) - 1 = j /\ (j + 1 \in 0..(k - 1) \/ j + 1 = k)
      BY <1>3, <2>1
    <3>2. Chased(u[j]) = u[j + 1]
      BY <1>4, <3>1
    <3>3. CASE j + 1 \in 0..(k - 1)
      BY <3>2, <3>3 DEF SeenBefore
    <3>4. CASE j + 1 = k
      BY <2>1, <3>2, <3>4
    <3> QED BY <3>1, <3>3, <3>4
  <2>3. S \in SUBSET NameSet
    <3> SUFFICES ASSUME NEW x \in S PROVE x \in NameSet
      OBVIOUS
    <3>1. Chased(x) # NoName
      BY <2>1, <2>2
    <3> QED BY <3>1, ChasedDeclared
  <2> HIDE DEF S
  <2> QED BY <2>1, <2>2, <2>3 DEF NeverEnds, NameSet, S
<1>6. ASSUME NeverEnds(start) PROVE Repeats(u, start, n)
  <2>1. PICK S \in SUBSET NameSet : start \in S /\ \A x \in S : Chased(x) \in S
    BY <1>6 DEF NeverEnds, NameSet
  <2>2. 0..n \subseteq {k \in 0..n : u[k] \in S}
    <3> DEFINE Good == {k \in 0..n : u[k] \in S}
    <3>1. 0 \in Good
      BY <1>3, <1>4, <2>1
    <3>2. ASSUME NEW j \in 1..n, j - 1 \in Good PROVE j \in Good
      <4>1. j \in 0..n
        BY <1>3
      <4> QED BY <1>4, <2>1, <3>2, <4>1
    <3> HIDE DEF Good, n
    <3>3. 0..n \subseteq Good
      BY <1>3, <3>1, <3>2, CountUp
    <3> QED BY <3>3 DEF Good
  <2>3. \A k \in 0..n : u[k] \in S
    BY <2>2
  <2>4. \E a, b \in 0..c : a # b /\ u[a] = u[b]
    <3> DEFINE D == 0..c
               f == [k \in D |-> u[k]]
    <3>1. f \in [D -> NameSet]
      <4>1. \A k \in D : k \in 0..n
        BY <1>1
      <4> QED BY <2>1, <2>3, <4>1
    <3>2. IsFiniteSet(D) /\ Cardinality(D) = c + 1
      BY <1>1, FS_Interval
    <3>3. Cardinality(NameSet) < Cardinality(D)
      BY <1>1, <3>2
    <3> HIDE DEF D, f
    <3>4. PICK a \in D, b \in D : a # b /\ f[a] = f[b]
      BY <1>1, <3>1, <3>2, <3>3, FS_PigeonHole
    <3>5. u[a] = u[b]
      BY <3>4 DEF f
    <3> QED BY <3>4, <3>5 DEF D
  <2>5. PICK a \in 0..c, b \in 0..c : a < b /\ u[a] = u[b]
    <3>1. PICK a \in 0..c, b \in 0..c : a # b /\ u[a] = u[b]
      BY <2>4
    <3>2. a < b \/ b < a
      BY <1>1, <3>1
    <3> QED BY <3>1, <3>2
  <2>6. b \in 1..n /\ a \in 0..(b - 1) /\ 0 \in 0..(b - 1) /\ \A k \in 0..(b - 1) : k \in 0..n
    BY <1>1, <2>5
  <2>7. u[b] \in SeenBefore(u, b) /\ start \in SeenBefore(u, b)
    BY <1>4, <2>5, <2>6 DEF SeenBefore
  <2>8. NoName \notin SeenBefore(u, b)
    BY <1>1, <2>1, <2>3, <2>6 DEF SeenBefore
  <2> QED BY <2>6, <2>7, <2>8 DEF Repeats
<1> QED BY <1>2, <1>5, <1>6

(***************************************************************************)
(* The kinds of error that a declaration can be given.                     *)
(***************************************************************************)

\* The two kinds of error that name a cycle.
CycleKinds == {"AgentNetCycle", "CyclicTypeAlias"}
NoCycleAmong(S) == \A e \in S : e[1] \notin CycleKinds

\* The resolution of a type reports no cycle.
LEMMA TypeErrorKinds == ASSUME NEW t, NEW g PROVE NoCycleAmong(TypeErrors(t, g))
<1>1. ASSUME NEW a PROVE NoCycleAmong(PartErrors(a, g))
  <2>1. CASE a.k = "named"
    <3>1. PartErrors(a, g) = NamedErrors(a.name, g)
      BY <2>1 DEF PartErrors
    <3>2. NoCycleAmong(NamedErrors(a.name, g))
      BY DEF NoCycleAmong, CycleKinds, NamedErrors
    <3> QED BY <3>1, <3>2
  <2>2. CASE a.k = "generic"
    <3> DEFINE E == IF a.name = "channel" /\ a.args # <<>> /\ ContainsCap(a.args[1])
                    THEN Escape("channel") ELSE {}
    <3>1. PartErrors(a, g) = ArityErrors(a.name, Len(a.args)) \union E
      BY <2>2 DEF PartErrors
    <3>2. NoCycleAmong(ArityErrors(a.name, Len(a.args)))
      <4> DEFINE l == Len(a.args)
      <4> HIDE DEF l
      <4>1. NoCycleAmong(ArityErrors(a.name, l))
        BY DEF NoCycleAmong, CycleKinds, ArityErrors
      <4> QED BY <4>1 DEF l
    <3>3. NoCycleAmong(E)
      BY DEF NoCycleAmong, CycleKinds, Escape
    <3> HIDE DEF E
    <3> QED BY <3>1, <3>2, <3>3 DEF NoCycleAmong
  <2>3. CASE a.k = "model"
    BY <2>3 DEF PartErrors, NoCycleAmong, CycleKinds
  <2>4. CASE a.k = "cap"
    BY <2>4 DEF PartErrors, NoCycleAmong, CycleKinds
  <2>5. CASE a.k \notin {"named", "generic", "model", "cap"}
    BY <2>5 DEF PartErrors, NoCycleAmong
  <2> QED BY <2>1, <2>2, <2>3, <2>4, <2>5
<1> QED BY <1>1 DEF TypeErrors, NoCycleAmong

\* Neither a name that is repeated nor a cap type in the wrong place is a cycle.
LEMMA SmallErrorKinds ==
    ASSUME NEW s, NEW ts, NEW place, NEW kind, kind \notin CycleKinds
    PROVE  NoCycleAmong(Repeated(s, kind)) /\ NoCycleAmong(EscapesIn(ts, place))
BY DEF NoCycleAmong, CycleKinds, Repeated, EscapesIn, Escape

\* Errors of two sources.
LEMMA KindsJoined ==
    ASSUME NEW S, NEW T, NoCycleAmong(S), NoCycleAmong(T)
    PROVE  NoCycleAmong(S \union T)
BY DEF NoCycleAmong

\* Errors of many sources.
LEMMA KindsOfAll ==
    ASSUME NEW U, \A S \in U : NoCycleAmong(S)
    PROVE  NoCycleAmong(UNION U)
BY DEF NoCycleAmong

\* A name that is repeated is no cycle.
LEMMA RepeatedKinds ==
    ASSUME NEW s
    PROVE  /\ NoCycleAmong(Repeated(s, "DuplicateGeneric"))
           /\ NoCycleAmong(Repeated(s, "DuplicateField"))
           /\ NoCycleAmong(Repeated(s, "DuplicateVariant"))
<1>1. "DuplicateGeneric" \notin CycleKinds /\ "DuplicateField" \notin CycleKinds
      /\ "DuplicateVariant" \notin CycleKinds
  BY DEF CycleKinds
<1> QED BY <1>1, SmallErrorKinds

\* A cap type in the wrong place is no cycle.
LEMMA EscapeKinds ==
    ASSUME NEW ts, NEW place
    PROVE  NoCycleAmong(EscapesIn(ts, place))
BY DEF NoCycleAmong, CycleKinds, EscapesIn, Escape

\* The fields of a record are no cycle.
LEMMA FieldErrorKinds ==
    ASSUME NEW fs, NEW g
    PROVE  NoCycleAmong(FieldErrors(fs, g))
<1> DEFINE U == {TypeErrors(t, g) : t \in TypesOf(fs)}
<1>1. NoCycleAmong(UNION U)
  <2>1. \A S \in U : NoCycleAmong(S)
    BY TypeErrorKinds
  <2> HIDE DEF U
  <2> QED BY <2>1, KindsOfAll
<1>2. FieldErrors(fs, g) = Repeated(NamesOf(fs), "DuplicateField") \union (UNION U)
  BY DEF FieldErrors
<1> HIDE DEF U
<1> QED BY <1>1, <1>2, RepeatedKinds, KindsJoined

\* The variants of an enum are no cycle.
LEMMA VariantErrorKinds ==
    ASSUME NEW v, NEW g
    PROVE  NoCycleAmong(VariantErrors(v, g))
<1> DEFINE U == {TypeErrors(t, g) : t \in TypesOf(v.fields)}
           R == IF v.shape = "record" THEN Repeated(NamesOf(v.fields), "DuplicateField") ELSE {}
           X == EscapesIn(TypesOf(v.fields), "enum variant")
<1>1. NoCycleAmong(UNION U)
  <2>1. \A S \in U : NoCycleAmong(S)
    BY TypeErrorKinds
  <2> HIDE DEF U
  <2> QED BY <2>1, KindsOfAll
<1>2. NoCycleAmong(R)
  <2>1. NoCycleAmong({})
    BY DEF NoCycleAmong
  <2> QED BY <2>1, RepeatedKinds
<1>3. NoCycleAmong(X)
  BY EscapeKinds
<1>4. VariantErrors(v, g) = ((UNION U) \union R) \union X
  BY DEF VariantErrors
<1> HIDE DEF U, R, X
<1> QED BY <1>1, <1>2, <1>3, <1>4, KindsJoined

\* An operation outside a cap is no cycle.
LEMMA UnresolvedKinds ==
    ASSUME NEW body, NEW cap
    PROVE  NoCycleAmong(Unresolved(body, cap))
BY DEF NoCycleAmong, CycleKinds, Unresolved

\* The errors of a function report no cycle.
LEMMA FnErrorKinds == ASSUME NEW f PROVE NoCycleAmong(FnErrors(f))
<1> DEFINE U == {TypeErrors(p.type, f.generics) : p \in {q \in Members(f.params) : ~IsMainCap(f, q)}}
           V == {TypeErrors(t, f.generics) : t \in Members(f.ret)}
           A == Repeated(f.generics, "DuplicateGeneric")
           B == EscapesIn({t \in Members(f.ret) : t.k # "cap"}, "return")
           C == {<<"MissingIntentForWriteCall", op>> : op \in WithoutIntent(f.body)}
           D == Unresolved(f.body, FnCap(f))
           E == IF BadMatches(f.body) # {} THEN {<<"NonExhaustiveMatch", <<f.name>> >>} ELSE {}
<1>1. NoCycleAmong(UNION U) /\ NoCycleAmong(UNION V)
  <2>1. \A S \in U : NoCycleAmong(S)
    BY TypeErrorKinds
  <2>2. \A S \in V : NoCycleAmong(S)
    BY TypeErrorKinds
  <2> HIDE DEF U, V
  <2> QED BY <2>1, <2>2, KindsOfAll
<1>2. NoCycleAmong(A) /\ NoCycleAmong(B) /\ NoCycleAmong(D)
  BY RepeatedKinds, EscapeKinds, UnresolvedKinds
<1>3. NoCycleAmong(C) /\ NoCycleAmong(E)
  BY DEF NoCycleAmong, CycleKinds
<1>4. FnErrors(f) = (((((A \union (UNION U)) \union (UNION V)) \union B) \union C) \union D) \union E
  BY DEF FnErrors
<1> HIDE DEF U, V, A, B, C, D, E
<1> QED BY <1>1, <1>2, <1>3, <1>4 DEF NoCycleAmong

\* The errors of an item report no cycle: only the two searches do.
LEMMA ItemErrorKinds == ASSUME NEW i PROVE NoCycleAmong(ItemErrors(i))
<1>1. CASE i.kind = "record"
  <2>1. ItemErrors(i) = RecordErrors(i)
    BY <1>1 DEF ItemErrors
  <2> DEFINE A == Repeated(i.generics, "DuplicateGeneric")
             B == FieldErrors(i.fields, i.generics)
             C == EscapesIn(TypesOf(i.fields), "record field")
  <2>2. RecordErrors(i) = (A \union B) \union C
    BY DEF RecordErrors
  <2>3. NoCycleAmong(A) /\ NoCycleAmong(B) /\ NoCycleAmong(C)
    BY RepeatedKinds, FieldErrorKinds, EscapeKinds
  <2> HIDE DEF A, B, C
  <2> QED BY <2>1, <2>2, <2>3, KindsJoined
<1>2. CASE i.kind = "enum"
  <2>1. ItemErrors(i) = EnumErrors(i)
    BY <1>2 DEF ItemErrors
  <2> DEFINE A == Repeated(i.generics, "DuplicateGeneric")
             B == Repeated(NamesOf(i.variants), "DuplicateVariant")
             U == {VariantErrors(v, i.generics) : v \in Members(i.variants)}
  <2>2. EnumErrors(i) = (A \union B) \union (UNION U)
    BY DEF EnumErrors
  <2>3. NoCycleAmong(A) /\ NoCycleAmong(B)
    BY RepeatedKinds
  <2>4. NoCycleAmong(UNION U)
    <3>1. \A S \in U : NoCycleAmong(S)
      BY VariantErrorKinds
    <3> HIDE DEF U
    <3> QED BY <3>1, KindsOfAll
  <2> HIDE DEF A, B, U
  <2> QED BY <2>1, <2>2, <2>3, <2>4, KindsJoined
<1>3. CASE i.kind = "model"
  <2>1. ItemErrors(i) = ModelErrors(i)
    BY <1>3 DEF ItemErrors
  <2> QED BY <2>1, FieldErrorKinds DEF ModelErrors
<1>4. CASE i.kind = "alias"
  <2>1. ItemErrors(i) = AliasErrors(i)
    BY <1>4 DEF ItemErrors
  <2> QED BY <2>1, RepeatedKinds, TypeErrorKinds, KindsJoined DEF AliasErrors
<1>5. CASE i.kind = "const"
  <2>1. ItemErrors(i) = ConstErrors(i)
    BY <1>5 DEF ItemErrors
  <2> DEFINE U == {TypeErrors(t, <<>>) \union EscapesIn({t}, "const") : t \in Members(i.types)}
  <2>2. \A S \in U : NoCycleAmong(S)
    BY TypeErrorKinds, EscapeKinds, KindsJoined
  <2>3. ConstErrors(i) = UNION U
    BY DEF ConstErrors
  <2> HIDE DEF U
  <2> QED BY <2>1, <2>2, <2>3, KindsOfAll
<1>6. CASE i.kind = "fn"
  <2>1. ItemErrors(i) = FnErrors(i)
    BY <1>6 DEF ItemErrors
  <2> QED BY <2>1, FnErrorKinds
<1>7. CASE i.kind = "saga"
  <2>1. ItemErrors(i) = SagaErrors(i)
    BY <1>7 DEF ItemErrors
  <2> QED BY <2>1 DEF SagaErrors, NoCycleAmong, CycleKinds
<1>8. CASE i.kind = "pipeline"
  <2>1. ItemErrors(i) = PipelineErrors(i)
    BY <1>8 DEF ItemErrors
  <2> DEFINE U == {TypeErrors(q.type, <<>>) : q \in Members(i.params)}
  <2>2. \A S \in U : NoCycleAmong(S)
    BY TypeErrorKinds
  <2>3. PipelineErrors(i) = (UNION U) \union Unresolved(i.body, PipelineCap(i))
    BY DEF PipelineErrors
  <2> HIDE DEF U
  <2> QED BY <2>1, <2>2, <2>3, KindsOfAll, KindsJoined, UnresolvedKinds
<1>9. CASE i.kind = "agent"
  <2>1. ItemErrors(i) = AgentErrors(i)
    BY <1>9 DEF ItemErrors
  <2> QED BY <2>1 DEF AgentErrors, NoCycleAmong, CycleKinds
<1>10. CASE i.kind \notin {"record", "enum", "model", "alias", "const", "fn", "saga", "pipeline",
                           "agent"}
  <2>1. ItemErrors(i) = {}
    BY <1>10 DEF ItemErrors
  <2> QED BY <2>1 DEF NoCycleAmong
<1> QED BY <1>1, <1>2, <1>3, <1>4, <1>5, <1>6, <1>7, <1>8, <1>9, <1>10

(***************************************************************************)
(* What the two searches of the resolver report.                           *)
(***************************************************************************)

\* The invariant of the search: it is empty unless a net is at hand.
Searches ==
    /\ pc # "net" => stack = <<>>
    /\ pc = "net" => IsNet(Item) /\ Searched(Item, color, stack)

\* The errors a search reports.
NetError(name) == <<"AgentNetCycle", <<name>> >>
AliasError(name) == <<"CyclicTypeAlias", <<name>> >>
CyclicNet(j, name) == Items[j].kind = "net" /\ Items[j].name = name /\ Cyclic(Items[j])

\* The invariant of what has been found: the errors name the cyclic nets the pass is
\* through with, and once they are followed the aliases that come back to themselves.
NetsFound ==
    pc \in {"collect", "decls", "net", "mode"} =>
        \A name : NetError(name) \in errs
                     <=> \E j \in DOMAIN Items : Behind(j) /\ CyclicNet(j, name)
AliasesFound ==
    /\ pc \in {"collect", "decls", "net"} => \A name : AliasError(name) \notin errs
    /\ pc = "mode" => \A i \in Aliases :
          AliasError(Items[i].name) \in errs <=> VisitsSelf(Items[i].name)
RoundReported ==
    chain # <<>> => \E i \in DOMAIN Items : Items[i].kind = "net" /\ IsRound(Items[i], chain)
Found ==
    /\ types \subseteq DOMAIN Items
    /\ NetsFound /\ AliasesFound /\ RoundReported

\* Nothing is searched when the check begins.
LEMMA FoundInit == CheckInit => Searches /\ Found
<1> SUFFICES ASSUME CheckInit PROVE Searches /\ Found
  OBVIOUS
<1>1. pc = "collect" /\ stack = <<>> /\ errs = {} /\ types = {} /\ chain = <<>>
  BY DEF CheckInit
<1>2. Searches
  BY <1>1 DEF Searches
<1>3. NetsFound /\ AliasesFound /\ RoundReported
  BY <1>1 DEF NetsFound, AliasesFound, RoundReported, Behind
<1> QED BY <1>1, <1>2, <1>3 DEF Found

\* Every step keeps the search of the net at hand sound.
LEMMA SearchesNext ==
    ASSUME ErrorsStay, Searches, [CheckNext]_checkVars
    PROVE  Searches'
<1>0. /\ source \in DOMAIN Modules /\ Len(Items) \in Nat /\ DOMAIN Items = 1..Len(Items)
      /\ \A i \in 1..Len(Items) : IsItem(Items[i])
      /\ at \in Nat \ {0}
  BY ItemsFacts DEF ErrorsStay, Placed
<1>1. CASE \/ RegisterType \/ RegisterModel \/ RegisterNothing \/ Collected
           \/ CheckItem \/ CheckAliases \/ ApplyMode \/ CheckCeiling
  <2>1. pc # "net" /\ pc' # "net" /\ stack' = stack
    BY <1>1 DEF RegisterType, RegisterModel, RegisterNothing, Collecting, Collected, CheckItem,
                CheckAliases, ApplyMode, CheckCeiling, search
  <2> QED BY <2>1 DEF Searches
<1>2. CASE RunFn \/ RunPipeline \/ RunStep \/ Descend \/ Perform \/ Raise \/ Evaluate \/ Finish
  <2>1. pc # "net" /\ pc' # "net" /\ stack' = stack
    BY <1>2 DEF RunFn, RunPipeline, RunStep, Start, Descend, Perform, Raise, AtOp, Evaluate, Finish, search
  <2> QED BY <2>1 DEF Searches
<1>3. CASE StartNet
  <2>1. /\ pc = "decls" /\ pc' = "net" /\ at <= Len(Items) /\ Item.kind = "net"
        /\ color' = [n \in Nodes(Item) |-> "white"] /\ stack' = stack
        /\ source' = source /\ at' = at
    BY <1>3 DEF StartNet
  <2>2. stack' = <<>>
    BY <2>1 DEF Searches
  <2>3. Item' = Item
    BY <2>1 DEF Item, Items
  <2>4. IsNet(Item)
    BY <1>0, <2>1 DEF Item, IsItem, IsNet
  <2>5. Searched(Item, color', stack')
    BY <2>1, <2>2, SearchStarts
  <2> QED BY <2>1, <2>3, <2>4, <2>5 DEF Searches
<1>4. ASSUME pc = "net", pc' = "net", source' = source, at' = at,
             Searched(Item, color', stack')
      PROVE  Searches'
  <2>1. Item' = Item
    BY <1>4 DEF Item, Items
  <2> QED BY <1>4, <2>1 DEF Searches
<1>5. ASSUME pc = "net"
      PROVE  /\ IsNet(Item) /\ Searched(Item, color, stack)
             /\ color \in [Nodes(Item) -> Marks] /\ Nodes(Item) \subseteq Nat
  BY <1>5, NodesFacts DEF Searches, Searched, SearchTyped
<1>6. CASE EnterRoot
  <2> DEFINE m == Least(White)
  <2>1. /\ pc = "net" /\ pc' = "net" /\ stack = <<>> /\ White # {}
        /\ color' = [color EXCEPT ![m] = "gray"] /\ stack' = Push(<<>>, m)
        /\ source' = source /\ at' = at
    BY <1>6 DEF EnterRoot
  <2>2. m \in White
    <3>1. White \in SUBSET Nat
      BY <1>5, <2>1 DEF White
    <3> QED BY <2>1, <3>1, LeastFacts
  <2>3. m \in Nodes(Item) /\ color[m] = "white"
    BY <1>5, <2>1, <2>2 DEF White
  <2>4. Searched(Item, color, <<>>)
    BY <1>5, <2>1
  <2> HIDE DEF m
  <2>5. Searched(Item, [color EXCEPT ![m] = "gray"], Push(<<>>, m))
    BY <2>3, <2>4, SearchEntersRoot
  <2> QED BY <1>4, <2>1, <2>5
<1>7. CASE EnterSuccessor
  <2>1. /\ pc = "net" /\ pc' = "net" /\ stack # <<>> /\ Top.next <= Len(Reach)
        /\ color[Ahead] = "white"
        /\ color' = [color EXCEPT ![Ahead] = "gray"] /\ stack' = Push(Advanced, Ahead)
        /\ source' = source /\ at' = at
    BY <1>7 DEF EnterSuccessor, Searching
  <2>2. IsNet(Item) /\ Searched(Item, color, stack)
    BY <1>5, <2>1
  <2>3. Advanced = StackAdvanced(stack)
    BY DEF Advanced, StackAdvanced
  <2>4. stack[Len(stack)].next <= Len(Successors(Item, stack[Len(stack)].node))
    BY <2>1 DEF Top, Reach
  <2>5. Ahead = Successors(Item, stack[Len(stack)].node)[stack[Len(stack)].next]
    BY DEF Ahead, Top, Reach
  <2>6. Searched(Item, [color EXCEPT ![Ahead] = "gray"], Push(StackAdvanced(stack), Ahead))
    BY <2>1, <2>2, <2>4, <2>5, SearchEnters
  <2> QED BY <1>4, <2>1, <2>3, <2>6
<1>8. CASE PassSuccessor
  <2>1. /\ pc = "net" /\ pc' = "net" /\ stack # <<>> /\ Top.next <= Len(Reach)
        /\ color[Ahead] = "black" /\ color' = color /\ stack' = Advanced
        /\ source' = source /\ at' = at
    BY <1>8 DEF PassSuccessor, Searching
  <2>2. IsNet(Item) /\ Searched(Item, color, stack)
    BY <1>5, <2>1
  <2>3. Advanced = StackAdvanced(stack)
    BY DEF Advanced, StackAdvanced
  <2>4. stack[Len(stack)].next <= Len(Successors(Item, stack[Len(stack)].node))
    BY <2>1 DEF Top, Reach
  <2>5. color[Successors(Item, stack[Len(stack)].node)[stack[Len(stack)].next]] = "black"
    BY <2>1 DEF Ahead, Top, Reach
  <2>6. Searched(Item, color, StackAdvanced(stack))
    BY <2>1, <2>2, <2>4, <2>5, SearchPasses
  <2> QED BY <1>4, <2>1, <2>3, <2>6
<1>9. CASE LeaveNode
  <2>1. /\ pc = "net" /\ pc' = "net" /\ stack # <<>> /\ Top.next > Len(Reach)
        /\ color' = [color EXCEPT ![Top.node] = "black"]
        /\ stack' = SubSeq(stack, 1, Len(stack) - 1)
        /\ source' = source /\ at' = at
    BY <1>9 DEF LeaveNode, Searching
  <2>2. IsNet(Item) /\ Searched(Item, color, stack)
    BY <1>5, <2>1
  <2>3. stack[Len(stack)].next > Len(Successors(Item, stack[Len(stack)].node))
    BY <2>1 DEF Top, Reach
  <2>4. color' = [color EXCEPT ![stack[Len(stack)].node] = "black"]
    BY <2>1 DEF Top
  <2>5. Searched(Item, [color EXCEPT ![stack[Len(stack)].node] = "black"],
                 SubSeq(stack, 1, Len(stack) - 1))
    BY <2>1, <2>2, <2>3, SearchLeaves
  <2> QED BY <1>4, <2>1, <2>4, <2>5
<1>10. CASE BackEdge \/ NetIsAcyclic
  <2>1. pc' = "decls" /\ stack' = <<>>
    BY <1>10 DEF BackEdge, NetIsAcyclic, search
  <2> QED BY <2>1 DEF Searches
<1>11. CASE UNCHANGED checkVars
  <2>1. UNCHANGED <<source, pc, at, color, stack>>
    BY <1>11 DEF checkVars, search
  <2>2. Item' = Item
    BY <2>1 DEF Item, Items
  <2> QED BY <2>1, <2>2 DEF Searches
<1> QED BY <1>1, <1>2, <1>3, <1>6, <1>7, <1>8, <1>9, <1>10, <1>11 DEF CheckNext

\* The errors that name a net, once the item at hand is behind.
LEMMA NetsGoOn ==
    ASSUME NetsFound, pc \in {"collect", "decls", "net", "mode"}, source' = source,
           NEW S \in SUBSET DOMAIN Items,
           \A name : NetError(name) \in errs'
                <=> NetError(name) \in errs \/ \E j \in S : CyclicNet(j, name),
           \A j \in DOMAIN Items : CyclicNet(j, Items[j].name) => (Behind(j)' <=> Behind(j) \/ j \in S)
    PROVE  NetsFound'
<1>1. Items' = Items
  BY DEF Items
<1>2. \A j, name : CyclicNet(j, name)' <=> CyclicNet(j, name)
  BY <1>1 DEF CyclicNet, Cyclic, Nodes, Edges
<1>3. ASSUME NEW name
      PROVE  NetError(name) \in errs' <=> \E j \in DOMAIN Items : Behind(j)' /\ CyclicNet(j, name)
  <2>1. NetError(name) \in errs <=> \E j \in DOMAIN Items : Behind(j) /\ CyclicNet(j, name)
    BY DEF NetsFound
  <2>2. \A j \in DOMAIN Items : CyclicNet(j, name) => (Behind(j)' <=> Behind(j) \/ j \in S)
    BY DEF CyclicNet
  <2> QED BY <2>1, <2>2
<1>4. \A name : NetError(name)' = NetError(name)
  BY DEF NetError
<1>5. ASSUME NEW name PROVE (\E j \in DOMAIN Items : Behind(j) /\ CyclicNet(j, name))'
                             <=> \E j \in DOMAIN Items : Behind(j)' /\ CyclicNet(j, name)
  BY <1>1, <1>2
<1> QED BY <1>3, <1>4, <1>5 DEF NetsFound

\* Errors of other kinds leave what is said of cycles as it is.
LEMMA OtherErrors ==
    ASSUME NEW E, NoCycleAmong(E), NEW S, NEW name
    PROVE  /\ NetError(name) \in S \union E <=> NetError(name) \in S
           /\ AliasError(name) \in S \union E <=> AliasError(name) \in S
<1>1. NetError(name)[1] \in CycleKinds /\ AliasError(name)[1] \in CycleKinds
  BY DEF NetError, AliasError, CycleKinds
<1> QED BY <1>1 DEF NoCycleAmong

\* A chain that is reported is not touched again.
LEMMA RoundKept ==
    ASSUME RoundReported, source' = source, chain' = chain
    PROVE  RoundReported'
<1>1. Items' = Items
  BY DEF Items
<1> QED BY <1>1 DEF RoundReported, IsRound, Edges

\* While items are collected and resolved, other errors may be added.
LEMMA FoundGrows ==
    ASSUME Found, source' = source, chain' = chain, types' \subseteq DOMAIN Items,
           pc \in {"collect", "decls", "net"}, pc' \in {"collect", "decls", "net"},
           NEW E, NoCycleAmong(E), errs' = errs \union E,
           \A j \in DOMAIN Items : CyclicNet(j, Items[j].name) => (Behind(j)' <=> Behind(j))
    PROVE  Found'
<1>1. Items' = Items
  BY DEF Items
<1>2. RoundReported'
  BY RoundKept DEF Found
<1>3. \A name : AliasError(name)' = AliasError(name)
  BY DEF AliasError
<1>4. AliasesFound'
  <2>1. \A name : AliasError(name) \notin errs
    BY DEF Found, AliasesFound
  <2>2. \A name : AliasError(name) \notin errs'
    BY <2>1, OtherErrors
  <2>3. pc' # "mode"
    OBVIOUS
  <2> QED BY <1>3, <2>2, <2>3 DEF AliasesFound
<1>5. NetsFound'
  <2>1. \A name : NetError(name) \in errs' <=> NetError(name) \in errs
    BY OtherErrors
  <2> DEFINE S == {}
  <2>2. /\ S \in SUBSET DOMAIN Items
        /\ \A name : NetError(name) \in errs'
                <=> NetError(name) \in errs \/ \E j \in S : CyclicNet(j, name)
        /\ \A j \in DOMAIN Items :
              CyclicNet(j, Items[j].name) => (Behind(j)' <=> Behind(j) \/ j \in S)
    BY <2>1
  <2> HIDE DEF S
  <2> QED BY <2>2, NetsGoOn DEF Found
<1> QED BY <1>1, <1>2, <1>4, <1>5 DEF Found

\* No errors report no cycle.
LEMMA NothingNew == NoCycleAmong({})
BY DEF NoCycleAmong

\* Steps that report no cycle.
LEMMA FoundMoves ==
    ASSUME ErrorsStay, Searches, Found,
           \/ RegisterType \/ RegisterModel \/ RegisterNothing \/ Collected
           \/ CheckItem \/ StartNet \/ EnterRoot \/ EnterSuccessor \/ PassSuccessor
           \/ LeaveNode \/ NetIsAcyclic
    PROVE  Found'
<1>0. /\ source \in DOMAIN Modules /\ Len(Items) \in Nat /\ DOMAIN Items = 1..Len(Items)
      /\ at \in Nat \ {0} /\ types \subseteq DOMAIN Items
  BY ItemsFacts DEF ErrorsStay, Placed, Found
<1>1. CASE RegisterType
  <2>1. /\ source' = source /\ chain' = chain /\ pc = "collect" /\ pc' = "collect"
        /\ at <= Len(Items)
    BY <1>1 DEF RegisterType, Collecting, search
  <2>2. types' = types \/ types' = types \union {at}
    BY <1>1 DEF RegisterType
  <2>3. errs' = errs \union {} \/ errs' = errs \union {<<"DuplicateDecl", <<Item.name>> >>}
    BY <1>1 DEF RegisterType
  <2>4. types' \subseteq DOMAIN Items
    BY <1>0, <2>1, <2>2
  <2>5. NoCycleAmong({<<"DuplicateDecl", <<Item.name>> >>})
    BY DEF NoCycleAmong, CycleKinds
  <2>6. \A j \in DOMAIN Items : Behind(j)' <=> Behind(j)
    BY <2>1 DEF Behind
  <2> QED BY <2>1, <2>3, <2>4, <2>5, <2>6, NothingNew, FoundGrows
<1>2. CASE RegisterModel
  <2>1. /\ source' = source /\ chain' = chain /\ pc = "collect" /\ pc' = "collect"
        /\ types' = types
    BY <1>2 DEF RegisterModel, Collecting, search
  <2>2. errs' = errs \union {} \/ errs' = errs \union {<<"ModelVersionConflict", <<Item.name>> >>}
    BY <1>2 DEF RegisterModel
  <2>3. NoCycleAmong({<<"ModelVersionConflict", <<Item.name>> >>})
    BY DEF NoCycleAmong, CycleKinds
  <2>4. \A j \in DOMAIN Items : Behind(j)' <=> Behind(j)
    BY <2>1 DEF Behind
  <2> QED BY <1>0, <2>1, <2>2, <2>3, <2>4, NothingNew, FoundGrows
<1>3. CASE RegisterNothing \/ Collected
  <2>1. /\ source' = source /\ chain' = chain /\ pc = "collect"
        /\ pc' = "collect" \/ (pc' = "decls" /\ at' = 1)
        /\ types' = types /\ errs' = errs \union {}
    BY <1>3 DEF RegisterNothing, Collected, Collecting, search
  <2>2. \A j \in DOMAIN Items : Behind(j)' <=> Behind(j)
    BY <1>0, <2>1 DEF Behind
  <2> QED BY <1>0, <2>1, <2>2, NothingNew, FoundGrows
<1>4. CASE CheckItem
  <2>1. /\ source' = source /\ chain' = chain /\ pc = "decls" /\ pc' = "decls" /\ at' = at + 1
        /\ types' = types /\ errs' = errs \union ItemErrors(Item) /\ Items[at].kind # "net"
    BY <1>4 DEF CheckItem, Item, search
  <2>2. \A j \in DOMAIN Items : CyclicNet(j, Items[j].name) => (Behind(j)' <=> Behind(j))
    <3> SUFFICES ASSUME NEW j \in 1..Len(Items), Items[j].kind = "net" PROVE Behind(j)' <=> Behind(j)
      BY <1>0 DEF CyclicNet
    <3>1. j # at
      BY <2>1
    <3>2. j < at + 1 <=> j < at
      BY <1>0, <3>1
    <3> QED BY <2>1, <3>2 DEF Behind
  <2> QED BY <1>0, <2>1, <2>2, ItemErrorKinds, FoundGrows
<1>5. CASE StartNet \/ EnterRoot \/ EnterSuccessor \/ PassSuccessor \/ LeaveNode
  <2>1. /\ source' = source /\ chain' = chain /\ pc \in {"decls", "net"} /\ pc' = "net" /\ at' = at
        /\ types' = types /\ errs' = errs \union {}
    BY <1>5 DEF StartNet, EnterRoot, EnterSuccessor, PassSuccessor, LeaveNode, Searching, search
  <2>2. \A j \in DOMAIN Items : Behind(j)' <=> Behind(j)
    BY <2>1 DEF Behind
  <2> QED BY <1>0, <2>1, <2>2, NothingNew, FoundGrows
<1>6. CASE NetIsAcyclic
  <2>1. /\ source' = source /\ chain' = chain /\ pc = "net" /\ pc' = "decls" /\ at' = at + 1
        /\ types' = types /\ errs' = errs \union {} /\ stack = <<>> /\ White = {}
    BY <1>6 DEF NetIsAcyclic, search
  <2>2. ~Cyclic(Items[at])
    <3>1. Searched(Item, color, <<>>) /\ DOMAIN color = Nodes(Item)
      BY <2>1 DEF Searches, Searched, SearchTyped
    <3>2. {n \in Nodes(Item) : color[n] = "white"} = {}
      BY <2>1, <3>1 DEF White
    <3>3. ~Cyclic(Item)
      BY <3>1, <3>2, NoneLeftNoCycle
    <3> QED BY <3>3 DEF Item
  <2>3. \A j \in DOMAIN Items : CyclicNet(j, Items[j].name) => (Behind(j)' <=> Behind(j))
    <3> SUFFICES ASSUME NEW j \in 1..Len(Items), Cyclic(Items[j]) PROVE Behind(j)' <=> Behind(j)
      BY <1>0 DEF CyclicNet
    <3>1. j # at
      BY <2>2
    <3>2. j < at + 1 <=> j < at
      BY <1>0, <3>1
    <3> QED BY <2>1, <3>2 DEF Behind
  <2> QED BY <1>0, <2>1, <2>3, NothingNew, FoundGrows
<1> QED BY <1>1, <1>2, <1>3, <1>4, <1>5, <1>6

\* The step that meets an edge back reports the net at hand, which has a cycle.
LEMMA FoundCycle ==
    ASSUME ErrorsStay, Searches, Found, BackEdge
    PROVE  Found'
<1>0. /\ source \in DOMAIN Modules /\ Len(Items) \in Nat /\ DOMAIN Items = 1..Len(Items)
      /\ at \in Nat \ {0} /\ types \subseteq DOMAIN Items
  BY ItemsFacts DEF ErrorsStay, Placed, Found
<1>1. /\ pc = "net" /\ pc' = "decls" /\ stack # <<>> /\ Top.next <= Len(Reach)
      /\ color[Ahead] = "gray" /\ chain' = ChainFrom(stack, Ahead)
      /\ errs' = errs \union {NetError(Item.name)} /\ at' = at + 1
      /\ source' = source /\ types' = types
  BY DEF BackEdge, Searching, NetError
<1>2. IsNet(Item) /\ Searched(Item, color, stack)
  BY <1>1 DEF Searches
<1>3. Cyclic(Item) /\ IsRound(Item, chain') /\ chain' # <<>>
  <2>1. stack[Len(stack)].next <= Len(Successors(Item, stack[Len(stack)].node))
    BY <1>1 DEF Top, Reach
  <2>2. Ahead = Successors(Item, stack[Len(stack)].node)[stack[Len(stack)].next]
    BY DEF Ahead, Top, Reach
  <2>3. Cyclic(Item) /\ IsRound(Item, ChainFrom(stack, Ahead)) /\ ChainFrom(stack, Ahead) # <<>>
    BY <1>1, <1>2, <2>1, <2>2, BackEdgeCloses
  <2> QED BY <1>1, <2>3
<1>4. at \in DOMAIN Items /\ Items[at].kind = "net" /\ Items' = Items
  BY <1>0, <1>1 DEF ErrorsStay, Placed, Item, Items
<1>5. RoundReported'
  <2>1. PICK i \in DOMAIN Items : i = at
    BY <1>4
  <2>2. Items[i].kind = "net" /\ IsRound(Items[i], chain')
    BY <1>3, <1>4, <2>1 DEF Item
  <2>3. IsRound(Items[i], chain)'
    BY <1>4, <2>2 DEF IsRound, Edges
  <2> QED BY <1>4, <2>2, <2>3 DEF RoundReported
<1>6. \A name : /\ NetError(name) = NetError(Item.name) <=> name = Item.name
                /\ AliasError(name) # NetError(Item.name)
  BY DEF NetError, AliasError
<1>7. AliasesFound'
  <2>1. \A name : AliasError(name) \notin errs
    BY <1>1 DEF Found, AliasesFound
  <2>2. \A name : AliasError(name) \notin errs'
    BY <1>1, <1>6, <2>1
  <2>3. \A name : AliasError(name)' = AliasError(name)
    BY DEF AliasError
  <2> QED BY <1>1, <2>2, <2>3 DEF AliasesFound
<1>8. NetsFound'
  <2> DEFINE S == {at}
  <2>1. S \in SUBSET DOMAIN Items
    BY <1>4
  <2>2. \A name : NetError(name) \in errs'
                <=> NetError(name) \in errs \/ \E j \in S : CyclicNet(j, name)
    <3>1. \A name : CyclicNet(at, name) <=> name = Item.name
      BY <1>3, <1>4 DEF CyclicNet, Item
    <3> QED BY <1>1, <1>6, <3>1
  <2>3. \A j \in DOMAIN Items :
              CyclicNet(j, Items[j].name) => (Behind(j)' <=> Behind(j) \/ j \in S)
    <3> SUFFICES ASSUME NEW j \in 1..Len(Items) PROVE Behind(j)' <=> Behind(j) \/ j = at
      BY <1>0
    <3>1. j < at + 1 <=> j < at \/ j = at
      BY <1>0
    <3> QED BY <1>1, <3>1 DEF Behind
  <2> HIDE DEF S
  <2> QED BY <1>1, <2>1, <2>2, <2>3, NetsGoOn DEF Found
<1> QED BY <1>0, <1>1, <1>4, <1>5, <1>7, <1>8 DEF Found

\* What is declared decides where the chains of aliases lead.
LEMMA AliasesKept ==
    ASSUME source' = source, types' = types
    PROVE  /\ Items' = Items /\ Aliases' = Aliases
           /\ \A name : VisitsSelf(name)' <=> VisitsSelf(name)
<1>1. Items' = Items
  BY DEF Items
<1>2. Aliases' = Aliases
  BY <1>1 DEF Aliases
<1>3. \A name : Chased(name)' = Chased(name)
  BY <1>1, <1>2 DEF Chased
<1>4. ASSUME NEW name PROVE VisitsSelf(name)' <=> VisitsSelf(name)
  BY <1>1, <1>2 DEF VisitsSelf, Chased
<1> QED BY <1>1, <1>2, <1>4

\* The aliases are followed in one step.
LEMMA FoundAliases ==
    ASSUME ErrorsStay, Searches, Found, CheckAliases
    PROVE  Found'
<1>0. /\ source \in DOMAIN Modules /\ Len(Items) \in Nat /\ DOMAIN Items = 1..Len(Items)
      /\ at \in Nat \ {0} /\ types \subseteq DOMAIN Items
  BY ItemsFacts DEF ErrorsStay, Placed, Found
<1> DEFINE E == {AliasError(Items[i].name) : i \in {j \in Aliases : VisitsSelf(Items[j].name)}}
<1>1. /\ pc = "decls" /\ pc' = "mode" /\ at > Len(Items) /\ at' = at /\ chain' = chain
      /\ source' = source /\ types' = types
      /\ errs' = errs \union E
  BY DEF CheckAliases, AliasError, search
<1>2. RoundReported'
  BY <1>1, RoundKept DEF Found
<1>3. \A m, n : AliasError(m) # NetError(n) /\ (AliasError(m) = AliasError(n) <=> m = n)
  BY DEF AliasError, NetError
<1>4. NetsFound'
  <2> DEFINE S == {}
  <2>1. \A name : NetError(name) \in errs'
                <=> NetError(name) \in errs \/ \E j \in S : CyclicNet(j, name)
    BY <1>1, <1>3
  <2>2. \A j \in DOMAIN Items :
              CyclicNet(j, Items[j].name) => (Behind(j)' <=> Behind(j) \/ j \in S)
    <3> SUFFICES ASSUME NEW j \in 1..Len(Items) PROVE Behind(j)' <=> Behind(j)
      BY <1>0
    <3>1. j < at
      BY <1>0, <1>1
    <3> QED BY <1>1, <3>1 DEF Behind
  <2>3. S \in SUBSET DOMAIN Items
    OBVIOUS
  <2> HIDE DEF S
  <2> QED BY <1>1, <2>1, <2>2, <2>3, NetsGoOn DEF Found
<1>5. AliasesFound'
  <2>1. \A name : AliasError(name) \notin errs
    BY <1>1 DEF Found, AliasesFound
  <2>2. ASSUME NEW i \in Aliases
        PROVE  AliasError(Items[i].name) \in errs' <=> VisitsSelf(Items[i].name)
    <3>1. AliasError(Items[i].name) \in errs' <=> AliasError(Items[i].name) \in E
      BY <1>1, <2>1
    <3>2. AliasError(Items[i].name) \in E
             <=> \E j \in Aliases : VisitsSelf(Items[j].name) /\ Items[j].name = Items[i].name
      BY <1>3
    <3>3. (\E j \in Aliases : VisitsSelf(Items[j].name) /\ Items[j].name = Items[i].name)
             <=> VisitsSelf(Items[i].name)
      BY <2>2
    <3> QED BY <3>1, <3>2, <3>3
  <2>3. /\ Items' = Items /\ Aliases' = Aliases
        /\ \A name : VisitsSelf(name)' <=> VisitsSelf(name)
    BY <1>1, AliasesKept
  <2>4. \A name : AliasError(name)' = AliasError(name)
    BY DEF AliasError
  <2>5. \A i \in Aliases' : AliasError(Items[i].name)' \in errs' <=> VisitsSelf(Items[i].name)'
    BY <2>2, <2>3, <2>4
  <2> QED BY <1>1, <2>5 DEF AliasesFound
<1> QED BY <1>0, <1>1, <1>2, <1>4, <1>5 DEF Found, Items

\* Every step keeps what has been found.
LEMMA FoundNext ==
    ASSUME ErrorsStay, Searches, Found, [CheckNext]_checkVars
    PROVE  Found'
<1>1. CASE \/ RegisterType \/ RegisterModel \/ RegisterNothing \/ Collected
           \/ CheckItem \/ StartNet \/ EnterRoot \/ EnterSuccessor \/ PassSuccessor
           \/ LeaveNode \/ NetIsAcyclic
  BY <1>1, FoundMoves
<1>2. CASE BackEdge
  BY <1>2, FoundCycle
<1>3. CASE CheckAliases
  BY <1>3, FoundAliases
<1>4. CASE \/ ApplyMode \/ CheckCeiling \/ RunFn \/ RunPipeline \/ RunStep
           \/ Descend \/ Perform \/ Raise \/ Evaluate \/ Finish
  <2>1. /\ source' = source /\ types' = types /\ chain' = chain
        /\ pc' \notin {"collect", "decls", "net", "mode"}
    BY <1>4 DEF ApplyMode, CheckCeiling, RunFn, RunPipeline, RunStep, Start, Descend, Perform, Raise, AtOp,
                Evaluate, Finish, search
  <2>2. RoundReported'
    BY <2>1, RoundKept DEF Found
  <2> QED BY <2>1, <2>2 DEF Found, NetsFound, AliasesFound, Items
<1>5. CASE UNCHANGED checkVars
  <2>1. UNCHANGED <<source, pc, at, types, errs, chain>>
    BY <1>5 DEF checkVars, search
  <2>2. RoundReported' /\ Items' = Items /\ types' \subseteq DOMAIN Items
    BY <2>1, RoundKept DEF Found, Items
  <2>3. NetsFound'
    <3> DEFINE S == {}
    <3>1. \A name : NetError(name) \in errs'
                <=> NetError(name) \in errs \/ \E j \in S : CyclicNet(j, name)
      BY <2>1
    <3>2. \A j \in DOMAIN Items :
              CyclicNet(j, Items[j].name) => (Behind(j)' <=> Behind(j) \/ j \in S)
      BY <2>1 DEF Behind
    <3>3. S \in SUBSET DOMAIN Items
      OBVIOUS
    <3> HIDE DEF S
    <3>4. CASE pc \in {"collect", "decls", "net", "mode"}
      BY <2>1, <3>1, <3>2, <3>3, <3>4, NetsGoOn DEF Found
    <3>5. CASE pc \notin {"collect", "decls", "net", "mode"}
      BY <2>1, <3>5 DEF NetsFound
    <3> QED BY <3>4, <3>5
  <2>4. AliasesFound'
    <3>1. /\ Aliases' = Aliases /\ \A name : VisitsSelf(name)' <=> VisitsSelf(name)
      BY <2>1, AliasesKept
    <3>2. \A name : AliasError(name)' = AliasError(name)
      BY DEF AliasError
    <3>3. pc = "mode" => \A i \in Aliases' :
             AliasError(Items[i].name)' \in errs' <=> VisitsSelf(Items[i].name)'
      BY <2>1, <2>2, <3>1, <3>2 DEF Found, AliasesFound
    <3>4. pc \in {"collect", "decls", "net"} => \A name : AliasError(name)' \notin errs'
      BY <2>1, <3>2 DEF Found, AliasesFound
    <3> QED BY <2>1, <3>3, <3>4 DEF AliasesFound
  <2> QED BY <2>2, <2>3, <2>4 DEF Found
<1> QED BY <1>1, <1>2, <1>3, <1>4, <1>5 DEF CheckNext

\* What is found when the mode is read is what CyclesAreFound speaks of.
LEMMA CyclesFollow == ErrorsStay /\ Found => CyclesAreFound
<1> SUFFICES ASSUME ErrorsStay, Found, pc = "mode"
             PROVE  /\ \A i \in DOMAIN Items : Items[i].kind = "net" =>
                          (NetError(Items[i].name) \in errs
                           <=> \E j \in DOMAIN Items : /\ Items[j].kind = "net"
                                                       /\ Items[j].name = Items[i].name
                                                       /\ Cyclic(Items[j]))
                    /\ chain # <<>> =>
                          /\ Len(chain) > 1 /\ chain[1] = chain[Len(chain)]
                          /\ \E i \in DOMAIN Items : Items[i].kind = "net" /\
                                \A k \in 1..(Len(chain) - 1) :
                                    <<chain[k], chain[k + 1]>> \in Members(Edges(Items[i]))
                    /\ \A i \in Aliases :
                          AliasError(Items[i].name) \in errs <=> NeverEnds(Items[i].name)
  BY DEF CyclesAreFound, NetError, AliasError
<1>1. \A name : NetError(name) \in errs <=> \E j \in DOMAIN Items : CyclicNet(j, name)
  BY DEF Found, NetsFound, Behind
<1>2. chain # <<>> =>
          /\ Len(chain) > 1 /\ chain[1] = chain[Len(chain)]
          /\ \E i \in DOMAIN Items : Items[i].kind = "net" /\
                \A k \in 1..(Len(chain) - 1) :
                    <<chain[k], chain[k + 1]>> \in Members(Edges(Items[i]))
  BY DEF Found, RoundReported, IsRound
<1>3. \A i \in Aliases : AliasError(Items[i].name) \in errs <=> NeverEnds(Items[i].name)
  <2> SUFFICES ASSUME NEW i \in Aliases
               PROVE  AliasError(Items[i].name) \in errs <=> NeverEnds(Items[i].name)
    OBVIOUS
  <2>1. AliasError(Items[i].name) \in errs <=> VisitsSelf(Items[i].name)
    BY DEF Found, AliasesFound
  <2>2. Items[i].name \in NameSet
    BY DEF NameSet, Aliases
  <2>3. VisitsSelf(Items[i].name) <=> NeverEnds(Items[i].name)
    BY <2>2, ChainsEnd DEF ErrorsStay, Placed, Found
  <2> QED BY <2>1, <2>3
<1> QED BY <1>1, <1>2, <1>3 DEF CyclicNet

\* The two searches for cycles of check/resolver.rs are right for every net and all
\* aliases: an error names a net exactly when one of that name is cyclic, the
\* chain reported is a way round, and an alias is refused exactly when its chain
\* of names never comes to an end.
THEOREM CyclesAreFoundTheorem == CheckSpec => []CyclesAreFound
<1>1. CheckInit => ErrorsStay /\ Searches /\ Found
  BY ErrorsInit, FoundInit
<1>2. ErrorsStay /\ Searches /\ Found /\ [CheckNext]_checkVars => (ErrorsStay /\ Searches /\ Found)'
  BY ErrorsNext, SearchesNext, FoundNext
<1> QED BY <1>1, <1>2, CyclesFollow, PTL DEF CheckSpec
(***************************************************************************)
(* The check ends.                                                         *)
(***************************************************************************)

\* What the passes over the declarations have still to do: the pass under way, the
\* items left to it, and whether the search of a net at hand has not begun.
ItemsLeft == IF at <= Len(Items) THEN Len(Items) + 1 - at ELSE 0
PassRank ==
    CASE pc = "collect" -> <<2, ItemsLeft, 0>>
      [] pc = "decls" -> <<1, ItemsLeft, 1>>
      [] pc = "net" -> <<1, ItemsLeft, 0>>
      [] OTHER -> <<0, 0, 0>>

\* What the search of a net has still to do: the nodes not entered, the nodes not
\* left, and the successors not passed of the one on top of the stack.
NotBlack == {n \in DOMAIN color : color[n] # "black"}
SuccessorsLeft ==
    IF stack # <<>> /\ Top.next <= Len(Reach) THEN Len(Reach) + 1 - Top.next ELSE 0
SearchRank == <<Cardinality(White), Cardinality(NotBlack), SuccessorsLeft>>

InPasses == pc \in {"collect", "decls", "net"}

\* check/resolver.rs comes to an end of its passes, whatever nets it is given: each
\* step lowers the rank of the passes, or it leaves that and lowers the rank of
\* the search that is under way.
CheckAdvances ==
    [][InPasses =>
          /\ PassRank \in Ranks
          /\ \/ Lower(PassRank', PassRank)
             \/ /\ PassRank' = PassRank
                /\ SearchRank \in Ranks /\ Lower(SearchRank', SearchRank)]_checkVars

LEMMA NetIsFinite ==
    ASSUME NEW net, IsNet(net)
    PROVE  IsFiniteSet(Nodes(net))
<1> DEFINE s == Edges(net)
           n == Len(s)
           from == [i \in 1..n |-> s[i][1]]
           to == [i \in 1..n |-> s[i][2]]
           A == {s[i][1] : i \in 1..n}
           B == {s[i][2] : i \in 1..n}
<1>1. n \in Nat /\ DOMAIN s = 1..n
  BY EdgesTyped, LenProperties
<1>2. Nodes(net) = A \union B
  <2>1. Members(s) = {s[i] : i \in 1..n}
    BY <1>1 DEF Members
  <2>2. Nodes(net) = UNION {{e[1], e[2]} : e \in Members(s)}
    BY DEF Nodes
  <2> HIDE DEF s, n
  <2> QED BY <2>1, <2>2
<1> HIDE DEF s, n
<1>3. from \in Surjection(1..n, A) /\ to \in Surjection(1..n, B)
  BY DEF Surjection
<1> HIDE DEF from, to, A, B
<1>4. IsFiniteSet(A) /\ IsFiniteSet(B)
  BY <1>1, <1>3, FS_Interval, FS_Surjection
<1> QED BY <1>2, <1>4, FS_Union

LEMMA RanksAreRanks ==
    ASSUME ErrorsStay, Searches
    PROVE  /\ PassRank \in Ranks /\ ItemsLeft \in Nat
           /\ pc = "net" => SearchRank \in Ranks
<1>1. Len(Items) \in Nat /\ at \in Nat
  BY ItemsFacts DEF ErrorsStay, Placed
<1>2. ItemsLeft \in Nat
  BY <1>1 DEF ItemsLeft
<1>3. \/ PassRank = <<2, ItemsLeft, 0>> \/ PassRank = <<1, ItemsLeft, 1>>
      \/ PassRank = <<1, ItemsLeft, 0>> \/ PassRank = <<0, 0, 0>>
  BY DEF PassRank
<1>4. PassRank \in Ranks
  BY <1>2, <1>3 DEF Ranks
<1>5. ASSUME pc = "net" PROVE SearchRank \in Ranks
  <2>1. /\ IsNet(Item) /\ color \in [Nodes(Item) -> Marks]
        /\ stack \in Seq(FrameOf(Item))
    BY <1>5 DEF Searches, Searched, SearchTyped
  <2>2. White \in SUBSET Nodes(Item) /\ NotBlack \in SUBSET Nodes(Item)
    BY <2>1 DEF White, NotBlack
  <2>3. Cardinality(White) \in Nat /\ Cardinality(NotBlack) \in Nat
    BY <2>1, <2>2, NetIsFinite, FS_Subset, FS_CardinalityType
  <2>4. SuccessorsLeft \in Nat
    <3>1. CASE stack # <<>>
      <4>1. stack[Len(stack)] \in FrameOf(Item)
        <5>1. Len(stack) \in 1..Len(stack)
          BY <2>1, <3>1, AdvancedFacts
        <5> QED BY <2>1, <5>1, ElementOfSeq
      <4>2. Len(Reach) \in Nat
        BY <2>1, SuccessorsFacts DEF Reach
      <4>3. Top.next \in Nat
        BY <4>1 DEF Top, FrameOf
      <4> QED BY <4>2, <4>3 DEF SuccessorsLeft
    <3>2. CASE stack = <<>>
      BY <3>2 DEF SuccessorsLeft
    <3> QED BY <3>1, <3>2
  <2> QED BY <2>3, <2>4 DEF SearchRank, Ranks
<1> QED BY <1>2, <1>4, <1>5

\* A step of the passes.
LEMMA PassesAdvance ==
    ASSUME ErrorsStay,
           \/ RegisterType \/ RegisterModel \/ RegisterNothing \/ Collected \/ CheckItem
           \/ StartNet \/ BackEdge \/ NetIsAcyclic \/ CheckAliases
    PROVE  Lower(PassRank', PassRank)
<1>1. Len(Items) \in Nat /\ at \in Nat \ {0} /\ (pc = "net" => at <= Len(Items))
  BY ItemsFacts DEF ErrorsStay, Placed
<1>2. Items' = Items
  <2>1. source' = source
    BY DEF RegisterType, RegisterModel, RegisterNothing, Collected, CheckItem, StartNet, BackEdge,
           NetIsAcyclic, CheckAliases
  <2> QED BY <2>1 DEF Items
<1>3. ASSUME at <= Len(Items), at' = at + 1
      PROVE  ItemsLeft' < ItemsLeft
  BY <1>1, <1>2, <1>3 DEF ItemsLeft
<1>4. CASE RegisterType \/ RegisterModel \/ RegisterNothing
  <2>1. pc = "collect" /\ pc' = pc /\ at <= Len(Items) /\ at' = at + 1
    BY <1>4 DEF RegisterType, RegisterModel, RegisterNothing, Collecting
  <2>2. PassRank = <<2, ItemsLeft, 0>> /\ PassRank' = <<2, ItemsLeft', 0>>
    BY <2>1 DEF PassRank
  <2> QED BY <1>3, <2>1, <2>2, LowerTriple
<1>5. CASE Collected
  <2>1. pc = "collect" /\ pc' = "decls"
    BY <1>5 DEF Collected
  <2>2. PassRank = <<2, ItemsLeft, 0>> /\ PassRank' = <<1, ItemsLeft', 1>>
    BY <2>1 DEF PassRank
  <2> QED BY <2>2, LowerTriple
<1>6. CASE CheckItem
  <2>1. pc = "decls" /\ pc' = pc /\ at <= Len(Items) /\ at' = at + 1
    BY <1>6 DEF CheckItem
  <2>2. PassRank = <<1, ItemsLeft, 1>> /\ PassRank' = <<1, ItemsLeft', 1>>
    BY <2>1 DEF PassRank
  <2> QED BY <1>3, <2>1, <2>2, LowerTriple
<1>7. CASE StartNet
  <2>1. pc = "decls" /\ pc' = "net" /\ at' = at
    BY <1>7 DEF StartNet
  <2>2. PassRank = <<1, ItemsLeft, 1>> /\ PassRank' = <<1, ItemsLeft', 0>>
    BY <2>1 DEF PassRank
  <2>3. ItemsLeft' = ItemsLeft
    BY <1>2, <2>1 DEF ItemsLeft
  <2> QED BY <2>2, <2>3, LowerTriple
<1>8. CASE BackEdge \/ NetIsAcyclic
  <2>1. pc = "net" /\ pc' = "decls" /\ at <= Len(Items) /\ at' = at + 1
    BY <1>1, <1>8 DEF BackEdge, NetIsAcyclic, Searching
  <2>2. PassRank = <<1, ItemsLeft, 0>> /\ PassRank' = <<1, ItemsLeft', 1>>
    BY <2>1 DEF PassRank
  <2> QED BY <1>3, <2>1, <2>2, LowerTriple
<1>9. CASE CheckAliases
  <2>1. pc = "decls" /\ pc' = "mode"
    BY <1>9 DEF CheckAliases
  <2>2. PassRank = <<1, ItemsLeft, 1>> /\ PassRank' = <<0, 0, 0>>
    BY <2>1 DEF PassRank
  <2> QED BY <2>2, LowerTriple
<1> QED BY <1>4, <1>5, <1>6, <1>7, <1>8, <1>9

\* A node that changes its mark leaves the set of its old one.
LEMMA FewerMarked ==
    ASSUME NEW S, IsFiniteSet(S), NEW x \in S
    PROVE  Cardinality(S \ {x}) < Cardinality(S)
<1>1. Cardinality(S \ {x}) = Cardinality(S) - 1 /\ Cardinality(S) \in Nat
  BY FS_RemoveElement, FS_CardinalityType
<1> QED BY <1>1

\* A step of the search of a net.
LEMMA SearchAdvances ==
    ASSUME ErrorsStay, Searches,
           EnterRoot \/ EnterSuccessor \/ PassSuccessor \/ LeaveNode
    PROVE  pc = "net" /\ PassRank' = PassRank /\ Lower(SearchRank', SearchRank)
<1>1. pc = "net" /\ pc' = pc /\ source' = source /\ at' = at
  BY DEF EnterRoot, EnterSuccessor, PassSuccessor, LeaveNode, Searching
<1>2. Items' = Items /\ Item' = Item
  BY <1>1 DEF Items, Item
<1>3. PassRank' = PassRank
  BY <1>1, <1>2 DEF PassRank, ItemsLeft
<1>4. /\ IsNet(Item) /\ color \in [Nodes(Item) -> Marks]
      /\ stack \in Seq(FrameOf(Item)) /\ Nodes(Item) \subseteq Nat
  BY <1>1, NodesFacts DEF Searches, Searched, SearchTyped
<1>5. /\ White = {n \in Nodes(Item) : color[n] = "white"}
      /\ NotBlack = {n \in Nodes(Item) : color[n] # "black"}
  BY <1>4 DEF White, NotBlack
<1>6. IsFiniteSet(White) /\ IsFiniteSet(NotBlack)
  <2>1. White \in SUBSET Nodes(Item) /\ NotBlack \in SUBSET Nodes(Item)
    BY <1>5
  <2> QED BY <1>4, <2>1, NetIsFinite, FS_Subset
<1>7. ASSUME NEW m \in White, color' = [color EXCEPT ![m] = "gray"]
      PROVE  Lower(SearchRank', SearchRank)
  <2>1. White' = White \ {m}
    BY <1>4, <1>7 DEF White
  <2>2. Cardinality(White') < Cardinality(White)
    BY <1>6, <2>1, FewerMarked
  <2> QED BY <2>2, LowerTriple DEF SearchRank
<1>8. CASE EnterRoot
  <2>1. White # {} /\ color' = [color EXCEPT ![Least(White)] = "gray"]
    BY <1>8 DEF EnterRoot
  <2>2. White \in SUBSET Nat
    BY <1>4, <1>5
  <2> DEFINE m == Least(White)
  <2>3. m \in White /\ color' = [color EXCEPT ![m] = "gray"]
    BY <2>1, <2>2, LeastFacts
  <2> HIDE DEF m
  <2> QED BY <1>1, <1>3, <1>7, <2>3
<1>9. ASSUME stack # <<>>
      PROVE  /\ Len(stack) \in Nat \ {0} /\ Top.node \in Nodes(Item) /\ Top.next \in Nat \ {0}
             /\ Len(Reach) \in Nat
             /\ Top.next <= Len(Reach) => Ahead \in Nodes(Item)
             /\ Len(Advanced) = Len(stack)
             /\ Advanced # <<>>
             /\ Advanced[Len(stack)].node = Top.node
             /\ Advanced[Len(stack)].next = Top.next + 1
  <2>1. Advanced = StackAdvanced(stack)
    BY DEF Advanced, StackAdvanced
  <2>2. /\ Len(stack) \in Nat \ {0} /\ Top.node \in Nodes(Item) /\ Top.next \in Nat \ {0}
        /\ Len(Advanced) = Len(stack)
        /\ Advanced[Len(stack)].node = Top.node
        /\ Advanced[Len(stack)].next = Top.next + 1
    BY <1>4, <1>9, <2>1, AdvancedFacts DEF Top
  <2>3. Len(Reach) \in Nat
    BY <1>4, SuccessorsFacts DEF Reach
  <2>4. Top.next <= Len(Reach) => Ahead \in Nodes(Item)
    <3> HAVE Top.next <= Len(Reach)
    <3>1. Top.next \in 1..Len(Reach)
      BY <2>2, <2>3
    <3>2. Flow(Item, Top.node, Ahead)
      BY <1>4, <3>1, SuccessorsFacts DEF Ahead, Reach
    <3> QED BY <1>4, <3>2, NodesFacts
  <2>5. Advanced # <<>>
    <3>1. Len(<<>>) = 0
      OBVIOUS
    <3> QED BY <2>2, <3>1
  <2> QED BY <2>2, <2>3, <2>4, <2>5
<1>10. CASE EnterSuccessor
  <2>1. /\ stack # <<>> /\ Top.next <= Len(Reach) /\ color[Ahead] = "white"
        /\ color' = [color EXCEPT ![Ahead] = "gray"]
    BY <1>10 DEF EnterSuccessor, Searching
  <2> DEFINE m == Ahead
  <2>2. m \in White /\ color' = [color EXCEPT ![m] = "gray"]
    BY <1>5, <1>9, <2>1
  <2> HIDE DEF m
  <2> QED BY <1>1, <1>3, <1>7, <2>2
<1>11. CASE PassSuccessor
  <2>1. /\ stack # <<>> /\ Top.next <= Len(Reach) /\ color' = color /\ stack' = Advanced
    BY <1>11 DEF PassSuccessor, Searching
  <2>2. White' = White /\ NotBlack' = NotBlack
    BY <2>1 DEF White, NotBlack
  <2>3. Top'.node = Top.node /\ Top'.next = Top.next + 1 /\ stack' # <<>>
    BY <1>9, <2>1 DEF Top
  <2>4. Reach' = Reach
    BY <1>2, <2>3 DEF Reach
  <2>5. SuccessorsLeft' < SuccessorsLeft
    <3>1. SuccessorsLeft = Len(Reach) + 1 - Top.next
      BY <2>1 DEF SuccessorsLeft
    <3>2. SuccessorsLeft' = IF Top.next + 1 <= Len(Reach)
                            THEN Len(Reach) + 1 - (Top.next + 1) ELSE 0
      BY <2>3, <2>4 DEF SuccessorsLeft
    <3> QED BY <1>9, <2>1, <3>1, <3>2
  <2>6. /\ SearchRank = <<Cardinality(White), Cardinality(NotBlack), SuccessorsLeft>>
        /\ SearchRank' = <<Cardinality(White), Cardinality(NotBlack), SuccessorsLeft'>>
    BY <2>2 DEF SearchRank
  <2> QED BY <1>1, <1>3, <2>5, <2>6, LowerTriple
<1>12. CASE LeaveNode
  <2>1. stack # <<>> /\ color' = [color EXCEPT ![Top.node] = "black"]
    BY <1>12 DEF LeaveNode, Searching
  <2>2. Top.node \in Nodes(Item) /\ color[Top.node] = "gray"
    <3>1. OnPath(stack, Top.node)
      <4>1. Len(stack) \in DOMAIN stack
        BY <1>4, <1>9, <2>1, LenProperties
      <4> QED BY <4>1 DEF OnPath, Top
    <3>2. Top.node \in Nodes(Item)
      BY <1>9, <2>1
    <3> QED BY <1>1, <3>1, <3>2 DEF Searches, Searched, GrayIsPath
  <2>3. White' = White /\ NotBlack' = NotBlack \ {Top.node}
    <3> DEFINE x == Top.node
    <3>1. color' = [color EXCEPT ![x] = "black"] /\ color[x] = "gray" /\ x \in Nodes(Item)
      BY <2>1, <2>2
    <3> HIDE DEF x
    <3>2. White' = White /\ NotBlack' = NotBlack \ {x}
      BY <1>4, <3>1 DEF White, NotBlack
    <3> QED BY <3>2 DEF x
  <2>4. Top.node \in NotBlack
    BY <1>5, <2>2
  <2>5. Cardinality(NotBlack') < Cardinality(NotBlack)
    BY <1>6, <2>3, <2>4, FewerMarked
  <2>6. /\ SearchRank = <<Cardinality(White), Cardinality(NotBlack), SuccessorsLeft>>
        /\ SearchRank' = <<Cardinality(White), Cardinality(NotBlack'), SuccessorsLeft'>>
    BY <2>3 DEF SearchRank
  <2> QED BY <1>1, <1>3, <2>5, <2>6, LowerTriple
<1> QED BY <1>1, <1>3, <1>8, <1>10, <1>11, <1>12

\* No step of the checker's passes is spent in vain, so none of them, and no search
\* for a cycle in a net, goes on for ever.
THEOREM CheckEnds == CheckSpec => CheckAdvances
<1>1. CheckInit => ErrorsStay /\ Searches
  BY ErrorsInit, FoundInit
<1>2. ErrorsStay /\ Searches /\ [CheckNext]_checkVars => (ErrorsStay /\ Searches)'
  BY ErrorsNext, SearchesNext
<1>3. ErrorsStay /\ Searches /\ [CheckNext]_checkVars =>
         [InPasses =>
            /\ PassRank \in Ranks
            /\ \/ Lower(PassRank', PassRank)
               \/ /\ PassRank' = PassRank
                  /\ SearchRank \in Ranks /\ Lower(SearchRank', SearchRank)]_checkVars
  <2> SUFFICES ASSUME ErrorsStay, Searches, CheckNext, InPasses
               PROVE  /\ PassRank \in Ranks
                      /\ \/ Lower(PassRank', PassRank)
                         \/ /\ PassRank' = PassRank
                            /\ SearchRank \in Ranks /\ Lower(SearchRank', SearchRank)
    OBVIOUS
  <2>1. ~(ApplyMode \/ CheckCeiling \/ RunFn \/ RunPipeline \/ RunStep \/ Descend \/ Perform
          \/ Raise \/ Evaluate \/ Finish)
    BY DEF InPasses, ApplyMode, CheckCeiling, RunFn, RunPipeline, RunStep, Start, Descend, Perform, Raise, AtOp,
           Evaluate, Finish
  <2>2. CASE \/ RegisterType \/ RegisterModel \/ RegisterNothing \/ Collected \/ CheckItem
             \/ StartNet \/ BackEdge \/ NetIsAcyclic \/ CheckAliases
    BY <2>2, RanksAreRanks, PassesAdvance
  <2>3. CASE EnterRoot \/ EnterSuccessor \/ PassSuccessor \/ LeaveNode
    BY <2>3, RanksAreRanks, SearchAdvances
  <2> QED BY <2>1, <2>2, <2>3 DEF CheckNext
<1> QED BY <1>1, <1>2, <1>3, PTL DEF CheckSpec, CheckAdvances
=============================================================================
