--------------------------- MODULE PipelineProofs ---------------------------
(***************************************************************************)
(* Proofs about module Pipeline, for every number of steps, every labelling *)
(* of them, every parameter list and every number of runs.                 *)
(***************************************************************************)
EXTENDS Pipeline, CommonProofs

\* The stacks of TypeOK.
LEMMA PipelineStacks ==
    TypeOK => stacks \in StacksOf(Nat, {"pipeline"})
BY DEF TypeOK, StacksOf

\* What the implicit variables may be.
LEMMA EnvTyped ==
    ASSUME NEW a \in Labels \union {NoLabel}, NEW b \in 0..N, NEW c \in 0..N,
           NEW d \in SUBSET Bound
    PROVE  [last_step |-> a, last_output |-> b, last_error |-> c, outputs |-> d] \in Envs
BY Zenon DEF Envs

LEMMA EnvFields ==
    ASSUME TypeOK
    PROVE  /\ env = [last_step |-> env.last_step, last_output |-> env.last_output,
                     last_error |-> env.last_error, outputs |-> env.outputs]
           /\ env.last_step \in Labels \union {NoLabel} /\ env.last_output \in 0..N
           /\ env.last_error \in 0..N /\ env.outputs \in SUBSET Bound
BY DEF TypeOK, Envs

LEMMA FreshEnvTyped == FreshEnv \in Envs
<1>1. NoLabel \in Labels \union {NoLabel} /\ NoStep \in 0..N /\ {} \in SUBSET Bound
  BY PipelineAssumption DEF NoStep
<1> QED BY <1>1, EnvTyped DEF FreshEnv

\* A step later than all of S is the last of S with it.
LEMMA LastOfUnion ==
    ASSUME NEW k \in 1..N, NEW S \in SUBSET (1..(k - 1))
    PROVE  Last(S \union {k}) = k
<1> DEFINE T == S \union {k}
<1>1. k \in T /\ \A r \in T : r <= k
  BY PipelineAssumption
<1>2. \A s \in T : (\A r \in T : r <= s) => s = k
  BY <1>1, PipelineAssumption
<1>3. Last(T) = CHOOSE s \in T : \A r \in T : r <= s
  BY DEF Last
<1> QED BY <1>1, <1>2, <1>3

\* Skipping a step adds it to the skipped ones.
LEMMA SkippedGrows ==
    ASSUME skipped \in Seq(1..N), NEW k \in 1..N, skipped' = Append(skipped, k)
    PROVE  /\ skipped' \in Seq(1..N) /\ skipped' # <<>>
           /\ SkippedSteps' = SkippedSteps \union {k}
<1>1. /\ skipped' \in Seq(1..N)
      /\ Len(skipped') = Len(skipped) + 1 /\ Len(skipped) \in Nat
      /\ \A j \in 1..Len(skipped) : skipped'[j] = skipped[j]
      /\ skipped'[Len(skipped) + 1] = k
  BY AppendProperties
<1>2. 1..(Len(skipped) + 1) = 1..Len(skipped) \union {Len(skipped) + 1}
  BY <1>1
<1>3. skipped' # <<>>
  BY <1>1
<1> QED BY <1>1, <1>2, <1>3 DEF SkippedSteps

LEMMA NothingSkipped ==
    ASSUME skipped = <<>>
    PROVE  SkippedSteps = {}
BY DEF SkippedSteps

(***************************************************************************)
(* The inductive invariant: initially, and one lemma per action.           *)
(***************************************************************************)
LEMMA InitInductive == Init => Inductive
<1> SUFFICES ASSUME Init PROVE Inductive
  OBVIOUS
<1>1. TypeOK
  <2>1. env \in Envs
    BY FreshEnvTyped DEF Init
  <2>2. stacks \in [intents : Seq(Nat), scopes : Seq({"pipeline"})]
    BY DEF Init, EmptyStacks
  <2>3. i \in 1..(N + 1) /\ runs \in Nat /\ skipped \in Seq(1..N) /\ succeeded \subseteq 1..N
    BY PipelineAssumption DEF Init
  <2>4. hooks \subseteq Hooks
    BY DEF Init
  <2> QED BY <2>1, <2>2, <2>3, <2>4 DEF Init, TypeOK, Phases, Results
<1>2. HonestOutcome /\ EnvTellsTruth /\ IntentIsOwn /\ Position /\ KeyOrigin
  BY DEF Init, HonestOutcome, EnvTellsTruth, IntentIsOwn, Position, KeyOrigin,
         SkippedSteps, FreshEnv, Last, NoStep
<1> QED BY <1>1, <1>2 DEF Inductive

LEMMA RefusePreserves == Inductive /\ Refuse => Inductive'
<1> SUFFICES ASSUME Inductive, Refuse PROVE Inductive'
  OBVIOUS
<1> USE DEF Inductive, Refuse
<1>1. TypeOK'
  BY DEF TypeOK, Results
<1>2. (HonestOutcome /\ EnvTellsTruth /\ IntentIsOwn)'
  BY DEF HonestOutcome, EnvTellsTruth, IntentIsOwn, SkippedSteps, Behind
<1>3. (Position /\ KeyOrigin)'
  BY DEF Position, KeyOrigin, SkippedSteps, Behind
<1> QED BY <1>1, <1>2, <1>3

LEMMA StartPreserves ==
    ASSUME Inductive, NEW mode \in {"stop", "continue"}, Start(mode)
    PROVE  Inductive'
<1> USE DEF Inductive, Start
<1>1. /\ stacks' \in StacksOf(Nat, {"pipeline"})
      /\ stacks'.intents # <<>> /\ ActiveIntent(stacks') = runs + 1
  <2>1. /\ stacks \in StacksOf(Nat, {"pipeline"}) /\ runs + 1 \in Nat
        /\ "pipeline" # NoScope
    BY PipelineStacks DEF TypeOK, NoScope
  <2>2. stacks' = IntentEnter(stacks, runs + 1, "pipeline")
    OBVIOUS
  <2> HIDE DEF Inductive, Start
  <2> QED BY <2>1, <2>2, EnterScoped
<1>2. TypeOK'
  <2>1. env' \in Envs
    BY FreshEnvTyped
  <2>2. stacks' \in [intents : Seq(Nat), scopes : Seq({"pipeline"})]
    BY <1>1 DEF StacksOf
  <2>3. i' \in 1..(N + 1) /\ runs' \in Nat /\ skipped' \in Seq(1..N)
        /\ succeeded' \subseteq 1..N
    BY PipelineAssumption DEF TypeOK
  <2> QED BY <2>1, <2>2, <2>3 DEF TypeOK, Results, Phases
<1>3. SkippedSteps' = {}
  BY DEF SkippedSteps
<1>4. (HonestOutcome /\ EnvTellsTruth)'
  BY <1>3 DEF HonestOutcome, EnvTellsTruth, FreshEnv, Behind, Last, NoStep
<1>5. (IntentIsOwn /\ Position /\ KeyOrigin)'
  BY <1>1 DEF IntentIsOwn, Position, KeyOrigin, ActiveIntent
<1> QED BY <1>2, <1>4, <1>5

LEMMA StepEnterPreserves == Inductive /\ StepEnter => Inductive'
<1> SUFFICES ASSUME Inductive, StepEnter PROVE Inductive'
  OBVIOUS
<1> USE DEF Inductive, StepEnter
<1>1. i \in 1..N
  BY PipelineAssumption DEF TypeOK
<1>2. /\ env' \in Envs
      /\ env'.last_step = Label[i] /\ env'.last_output = env.last_output
      /\ env'.last_error = env.last_error /\ env'.outputs = env.outputs
  <2>1. env' = [last_step |-> Label[i], last_output |-> env.last_output,
                last_error |-> env.last_error, outputs |-> env.outputs]
    BY EnvFields
  <2>2. Label[i] \in Labels \union {NoLabel}
    BY <1>1, PipelineAssumption
  <2> QED BY <2>1, <2>2, EnvFields, EnvTyped
<1>3. TypeOK'
  BY <1>1, <1>2 DEF TypeOK, Phases
<1>4. SkippedSteps' = SkippedSteps /\ Behind' = Behind
  BY DEF SkippedSteps, Behind
<1>5. (HonestOutcome /\ EnvTellsTruth)'
  BY <1>2, <1>4 DEF HonestOutcome, EnvTellsTruth, Position
<1>6. (IntentIsOwn /\ Position /\ KeyOrigin)'
  BY <1>1, <1>4 DEF IntentIsOwn, Position, KeyOrigin, StepKey
<1> QED BY <1>3, <1>5, <1>6

LEMMA WriteCallPreserves == Inductive /\ WriteCall => Inductive'
<1> SUFFICES ASSUME Inductive, WriteCall PROVE Inductive'
  OBVIOUS
<1> USE DEF Inductive, WriteCall
<1> DEFINE new == [key |-> StepKey(i), step |-> i, run |-> runs]
<1>1. i \in 1..N /\ StepKey(i) \in Labels \X Nat
  BY PipelineAssumption DEF TypeOK, Position, StepKey
<1>2. new \in [key : Labels \X Nat, step : 1..N, run : Nat]
  BY <1>1 DEF TypeOK
<1>3. TypeOK' /\ KeyOrigin'
  BY <1>1, <1>2 DEF TypeOK, KeyOrigin, StepKey
<1>4. SkippedSteps' = SkippedSteps /\ Behind' = Behind
  BY DEF SkippedSteps, Behind
<1>5. (HonestOutcome /\ EnvTellsTruth /\ IntentIsOwn /\ Position)'
  BY <1>4 DEF HonestOutcome, EnvTellsTruth, IntentIsOwn, Position, StepKey
<1> QED BY <1>3, <1>5

LEMMA BodyIntentBlockPreserves == Inductive /\ BodyIntentBlock => Inductive'
<1> SUFFICES ASSUME Inductive, BodyIntentBlock PROVE Inductive'
  OBVIOUS
<1> USE DEF Inductive, BodyIntentBlock
<1>1. stacks' \in StacksOf(Nat, {"pipeline"}) /\ stacks'.intents = stacks.intents
  <2>1. stacks \in StacksOf(Nat, {"pipeline"}) /\ 0 \in Nat
    BY PipelineStacks
  <2> QED BY <2>1, BlockKeepsIntents
<1>2. TypeOK' /\ IntentIsOwn'
  BY <1>1 DEF TypeOK, StacksOf, IntentIsOwn
<1>3. SkippedSteps' = SkippedSteps /\ Behind' = Behind
  BY DEF SkippedSteps, Behind
<1>4. (HonestOutcome /\ EnvTellsTruth /\ Position /\ KeyOrigin)'
  BY <1>3 DEF HonestOutcome, EnvTellsTruth, Position, KeyOrigin, StepKey
<1> QED BY <1>2, <1>4

LEMMA NestedAbandonedPreserves == Inductive /\ NestedAbandoned => Inductive'
<1> SUFFICES ASSUME Inductive, NestedAbandoned PROVE Inductive'
  OBVIOUS
<1> USE DEF Inductive, NestedAbandoned
<1>1. stacks' \in StacksOf(Nat, {"pipeline"})
  <2>1. stacks \in StacksOf(Nat, {"pipeline"}) /\ 0 \in Nat /\ "pipeline" # NoScope
    BY PipelineStacks DEF NoScope
  <2>2. stacks' = IntentEnter(stacks, 0, "pipeline")
    OBVIOUS
  <2> HIDE DEF Inductive, NestedAbandoned
  <2> QED BY <2>1, <2>2, EnterScoped
<1>2. TypeOK' /\ IntentIsOwn'
  BY <1>1 DEF TypeOK, StacksOf, IntentIsOwn
<1>3. SkippedSteps' = SkippedSteps /\ Behind' = Behind
  BY DEF SkippedSteps, Behind
<1>4. (HonestOutcome /\ EnvTellsTruth /\ Position /\ KeyOrigin)'
  BY <1>3 DEF HonestOutcome, EnvTellsTruth, Position, KeyOrigin
<1> QED BY <1>2, <1>4

LEMMA StepOkPreserves == Inductive /\ StepOk => Inductive'
<1> SUFFICES ASSUME Inductive, StepOk PROVE Inductive'
  OBVIOUS
<1> USE DEF Inductive, StepOk
<1>1. /\ i \in 1..N /\ i' \in 1..(N + 1) /\ i' \in {i, i + 1} /\ i \notin 1..(i - 1)
      /\ 1..i = 1..(i - 1) \union {i} /\ result = "none" /\ result' = "none"
  BY PipelineAssumption DEF TypeOK, Position
<1>2. succeeded \union SkippedSteps = 1..(i - 1) /\ SkippedSteps' = SkippedSteps
  BY DEF HonestOutcome, Behind, SkippedSteps
<1>3. /\ env' \in Envs
      /\ env'.last_step = env.last_step /\ env'.last_output = i
      /\ env'.last_error = env.last_error
      /\ env'.outputs = env.outputs \union ({i} \intersect Bound)
  <2> DEFINE out == env.outputs \union ({i} \intersect Bound)
  <2>1. env' = [last_step |-> env.last_step, last_output |-> i,
                last_error |-> env.last_error, outputs |-> out]
    BY EnvFields
  <2>2. i \in 0..N /\ out \in SUBSET Bound
    BY <1>1, EnvFields, PipelineAssumption
  <2> HIDE DEF out
  <2>3. env.last_step \in Labels \union {NoLabel} /\ env.last_error \in 0..N
    BY EnvFields
  <2>4. [last_step |-> env.last_step, last_output |-> i,
         last_error |-> env.last_error, outputs |-> out] \in Envs
    BY <2>2, <2>3, EnvTyped
  <2>5. env' \in Envs
    BY <2>1, <2>4
  <2> QED BY <2>1, <2>5 DEF out
<1>4. /\ succeeded' = succeeded \union {i} /\ succeeded' \subseteq 1..N
      /\ Last(succeeded') = i
  BY <1>1, <1>2, LastOfUnion DEF TypeOK
<1>5. TypeOK'
  BY <1>1, <1>3, <1>4 DEF TypeOK, Phases
<1>6. /\ phase' = "on_step" => i' = i
      /\ phase' # "on_step" => phase' = "loop" /\ i' = i + 1
  OBVIOUS
<1>7. HonestOutcome'
  <2>1. (succeeded \union SkippedSteps)' = 1..i
    BY <1>1, <1>2, <1>4
  <2>2. (succeeded \intersect SkippedSteps)' = {}
    BY <1>1, <1>2, <1>4 DEF HonestOutcome
  <2>3. phase' = "loop" => Behind' = 1..i
    BY <1>1, <1>6 DEF Behind
  <2> QED BY <1>1, <1>6, <2>1, <2>2, <2>3 DEF HonestOutcome
<1>8. EnvTellsTruth'
  BY <1>1, <1>2, <1>3, <1>4, <1>6 DEF EnvTellsTruth
<1>9. (IntentIsOwn /\ Position /\ KeyOrigin)'
  BY <1>1, <1>2, <1>4, <1>6 DEF IntentIsOwn, Position, KeyOrigin, StepKey
<1> QED BY <1>5, <1>7, <1>8, <1>9

LEMMA StepFailsPreserves == Inductive /\ (StepSkipped \/ StepStops) => Inductive'
<1> SUFFICES ASSUME Inductive, StepSkipped \/ StepStops PROVE Inductive'
  OBVIOUS
<1> USE DEF Inductive
<1>1. /\ StepFails /\ i \in 1..N /\ 1..i = 1..(i - 1) \union {i} /\ i \notin 1..(i - 1)
      /\ result = "none" /\ result' = "none"
  BY PipelineAssumption DEF StepSkipped, StepStops, StepFails, TypeOK, Position
<1>2. succeeded \union SkippedSteps = 1..(i - 1) /\ succeeded' = succeeded
  BY <1>1 DEF StepFails, HonestOutcome, Behind
<1>3. /\ env' \in Envs
      /\ env'.last_step = env.last_step /\ env'.last_output = env.last_output
      /\ env'.last_error = i /\ env'.outputs = env.outputs
  <2>1. env' = [last_step |-> env.last_step, last_output |-> env.last_output,
                last_error |-> i, outputs |-> env.outputs]
    BY <1>1, EnvFields DEF StepFails
  <2>2. i \in 0..N
    BY <1>1, PipelineAssumption
  <2> QED BY <2>1, <2>2, EnvFields, EnvTyped
<1>4. CASE StepSkipped
  <2>1. /\ skipped' \in Seq(1..N) /\ skipped' # <<>>
        /\ SkippedSteps' = SkippedSteps \union {i}
        /\ onError = "continue" /\ onError' = onError /\ i' = i + 1 /\ phase' = "loop"
    BY <1>1, <1>4, SkippedGrows DEF StepSkipped, StepFails, TypeOK
  <2>2. SkippedSteps' \subseteq 1..i /\ Last(SkippedSteps') = i
    BY <1>1, <1>2, <2>1, LastOfUnion
  <2>3. TypeOK'
    <3>1. i' \in 1..(N + 1)
      BY <1>1, <2>1, PipelineAssumption
    <3> QED BY <1>1, <1>3, <1>4, <2>1, <3>1 DEF StepSkipped, StepFails, TypeOK, Phases
  <2>4. HonestOutcome'
    <3>1. Behind' = 1..i
      BY <1>1, <2>1 DEF Behind
    <3>2. (succeeded \intersect SkippedSteps)' = {}
      BY <1>1, <1>2, <2>1 DEF HonestOutcome
    <3>3. (succeeded \union SkippedSteps)' = 1..i
      BY <1>1, <1>2, <2>1
    <3> QED BY <1>1, <2>1, <3>1, <3>2, <3>3 DEF HonestOutcome
  <2>5. EnvTellsTruth'
    BY <1>1, <1>2, <1>3, <1>4, <2>1, <2>2 DEF StepSkipped, StepFails, EnvTellsTruth
  <2>6. (IntentIsOwn /\ Position /\ KeyOrigin)'
    BY <1>1, <1>4, <2>1 DEF StepSkipped, StepFails, IntentIsOwn, Position, KeyOrigin, StepKey
  <2> QED BY <2>3, <2>4, <2>5, <2>6
<1>5. CASE StepStops
  <2>1. /\ onError = "stop" /\ onError' = onError /\ i' = i /\ skipped' = skipped
        /\ phase' \in {"on_failure", "stopped"} /\ skipped = <<>>
    BY <1>1, <1>5 DEF StepStops, StepFails, HonestOutcome
  <2>2. SkippedSteps = {} /\ SkippedSteps' = {} /\ Behind' = Behind
    BY <2>1, NothingSkipped DEF SkippedSteps, Behind
  <2>3. succeeded = Behind
    BY <1>2, <2>2 DEF Behind
  <2>4. TypeOK'
    BY <1>1, <1>3, <1>5, <2>1 DEF StepStops, StepFails, TypeOK, Phases
  <2>5. HonestOutcome'
    BY <1>1, <1>2, <2>1, <2>2, <2>3 DEF HonestOutcome
  <2>6. EnvTellsTruth'
    BY <1>1, <1>2, <1>3, <1>5, <2>1 DEF StepStops, StepFails, EnvTellsTruth
  <2>7. (IntentIsOwn /\ Position /\ KeyOrigin)'
    BY <1>1, <1>2, <1>5, <2>1, <2>2, <2>3
    DEF StepStops, StepFails, IntentIsOwn, Position, KeyOrigin, StepKey
  <2> QED BY <2>4, <2>5, <2>6, <2>7
<1> QED BY <1>4, <1>5

LEMMA HookDonePreserves == Inductive /\ (StepHookDone \/ FailureHookDone) => Inductive'
<1> SUFFICES ASSUME Inductive, StepHookDone \/ FailureHookDone PROVE Inductive'
  OBVIOUS
<1> USE DEF Inductive
<1>1. CASE StepHookDone
  <2>1. /\ phase = "on_step" /\ phase' = "loop" /\ i \in 1..N /\ i' = i + 1
        /\ i' \in 1..(N + 1) /\ 1..(i' - 1) = 1..i
    BY <1>1, PipelineAssumption DEF StepHookDone, TypeOK, Position
  <2>2. SkippedSteps' = SkippedSteps /\ Behind' = 1..i
    BY <1>1, <2>1 DEF StepHookDone, SkippedSteps, Behind
  <2>3. TypeOK'
    BY <1>1, <2>1 DEF StepHookDone, TypeOK, Phases
  <2>4. (HonestOutcome /\ EnvTellsTruth)'
    BY <1>1, <2>1, <2>2 DEF StepHookDone, HonestOutcome, EnvTellsTruth, Position
  <2>5. (IntentIsOwn /\ Position /\ KeyOrigin)'
    BY <1>1, <2>1 DEF StepHookDone, IntentIsOwn, Position, KeyOrigin, StepKey
  <2> QED BY <2>3, <2>4, <2>5
<1>2. CASE FailureHookDone
  <2>1. SkippedSteps' = SkippedSteps /\ Behind' = Behind
    BY <1>2 DEF FailureHookDone, SkippedSteps, Behind
  <2>2. TypeOK'
    BY <1>2 DEF FailureHookDone, TypeOK, Phases
  <2>3. (HonestOutcome /\ EnvTellsTruth)'
    BY <1>2, <2>1 DEF FailureHookDone, HonestOutcome, EnvTellsTruth, Position
  <2>4. (IntentIsOwn /\ Position /\ KeyOrigin)'
    BY <1>2, <2>1 DEF FailureHookDone, IntentIsOwn, Position, KeyOrigin, StepKey
  <2> QED BY <2>2, <2>3, <2>4
<1> QED BY <1>1, <1>2

LEMMA HookRaisesPreserves == Inductive /\ HookRaises => Inductive'
<1> SUFFICES ASSUME Inductive, HookRaises PROVE Inductive'
  OBVIOUS
<1> USE DEF Inductive, HookRaises
<1>1. SkippedSteps' = SkippedSteps /\ Behind' = Behind
  BY DEF SkippedSteps, Behind
<1>2. TypeOK'
  BY DEF TypeOK, Phases, Results
<1>3. (HonestOutcome /\ EnvTellsTruth)'
  BY <1>1 DEF HonestOutcome, EnvTellsTruth
<1>4. (IntentIsOwn /\ Position /\ KeyOrigin)'
  BY DEF IntentIsOwn, Position, KeyOrigin, StepKey
<1> QED BY <1>2, <1>3, <1>4

\* A return preserves all that does not speak of the result.
LEMMA ReturnPreserves ==
    ASSUME Inductive, NEW r \in Results, Return(r), HonestOutcome',
           message' \in (Labels \X (1..N)) \union {NoMessage}
    PROVE  Inductive'
<1> USE DEF Inductive, Return
<1>1. stacks' \in StacksOf(Nat, {"pipeline"})
  <2>1. stacks \in StacksOf(Nat, {"pipeline"})
    BY PipelineStacks
  <2> QED BY <2>1, ExitTyped
<1>2. TypeOK'
  BY <1>1 DEF TypeOK, StacksOf, Phases
<1>3. (EnvTellsTruth /\ IntentIsOwn /\ Position /\ KeyOrigin)'
  BY DEF EnvTellsTruth, IntentIsOwn, Position, KeyOrigin, StepKey
<1> QED BY <1>2, <1>3

LEMMA ReturnsPreserve == Inductive /\ (Stop \/ Finish) => Inductive'
<1> SUFFICES ASSUME Inductive, Stop \/ Finish PROVE Inductive'
  OBVIOUS
<1> USE DEF Inductive
<1>1. CASE Stop
  <2>1. /\ i \in 1..N /\ env.last_step = Label[i] /\ onError = "stop"
        /\ succeeded = Behind /\ SkippedSteps = {} /\ Return("stopped")
        /\ message' = <<Label[i], i>>
    BY <1>1, PipelineAssumption DEF Stop, TypeOK, Position, EnvTellsTruth
  <2>2. SkippedSteps' = SkippedSteps /\ Behind' = Behind
    BY <2>1 DEF Return, SkippedSteps, Behind
  <2>3. HonestOutcome'
    BY <2>1, <2>2 DEF Return, HonestOutcome
  <2>4. message' \in (Labels \X (1..N)) \union {NoMessage} /\ "stopped" \in Results
    BY <2>1, PipelineAssumption DEF Results
  <2> QED BY <2>1, <2>3, <2>4, ReturnPreserves
<1>2. CASE Finish
  <2> DEFINE r == IF skipped = <<>> THEN "ok" ELSE "completed_with_skips"
  <2>1. /\ Return(r) /\ message' = message /\ i = N + 1 /\ phase = "loop"
        /\ 1..(i - 1) = 1..N /\ r \in Results
    BY <1>2, PipelineAssumption DEF Finish, Results
  <2>2. SkippedSteps' = SkippedSteps /\ Behind' = Behind
    BY <2>1 DEF Return, SkippedSteps, Behind
  <2>3. succeeded \union SkippedSteps = 1..N
    BY <2>1 DEF HonestOutcome, Behind
  <2>4. skipped = <<>> => succeeded = 1..N
    BY <2>3, NothingSkipped
  <2>5. onError = "stop" => skipped = <<>>
    BY DEF HonestOutcome
  <2>6. HonestOutcome'
    BY <2>1, <2>2, <2>3, <2>4, <2>5 DEF Return, HonestOutcome, TypeOK
  <2>7. message' \in (Labels \X (1..N)) \union {NoMessage}
    BY <2>1 DEF TypeOK
  <2> HIDE DEF r
  <2> QED BY <2>1, <2>6, <2>7, ReturnPreserves
<1> QED BY <1>1, <1>2

LEMMA StutterPreserves == Inductive /\ UNCHANGED vars => Inductive'
<1> SUFFICES ASSUME Inductive, UNCHANGED vars PROVE Inductive'
  OBVIOUS
<1> USE DEF Inductive, vars
<1>1. SkippedSteps' = SkippedSteps /\ Behind' = Behind
  BY DEF SkippedSteps, Behind
<1>2. (TypeOK /\ IntentIsOwn /\ KeyOrigin)'
  BY DEF TypeOK, IntentIsOwn, KeyOrigin
<1>3. (HonestOutcome /\ EnvTellsTruth /\ Position)'
  BY <1>1 DEF HonestOutcome, EnvTellsTruth, Position
<1> QED BY <1>2, <1>3

LEMMA NextPreserves == Inductive /\ [Next]_vars => Inductive'
BY RefusePreserves, StartPreserves, StepEnterPreserves, WriteCallPreserves,
   BodyIntentBlockPreserves, NestedAbandonedPreserves, StepOkPreserves,
   StepFailsPreserves, HookDonePreserves, HookRaisesPreserves, ReturnsPreserve, StutterPreserves
DEF Next, Call, Loop, HookEnds, Body

\* Inductive holds throughout.
THEOREM InductiveInvariant == Spec => []Inductive
<1>1. Init => Inductive
  BY InitInductive
<1>2. Inductive /\ [Next]_vars => Inductive'
  BY NextPreserves
<1> QED BY <1>1, <1>2, PTL DEF Spec

(***************************************************************************)
(* What follows from the inductive invariant.                              *)
(***************************************************************************)

\* Every variable keeps its type.
THEOREM TypeCorrect == Spec => []TypeOK
BY InductiveInvariant, PTL DEF Inductive

\* A run reports exactly what became of its steps, in both modes and whatever
\* the steps and the hooks do.
THEOREM OutcomeIsHonest == Spec => []HonestOutcome
BY InductiveInvariant, PTL DEF Inductive

\* Hooks and steps never read a stale implicit variable.
THEOREM EnvIsTruthful == Spec => []EnvTellsTruth
BY InductiveInvariant, PTL DEF Inductive

\* Events of a run carry its own intent, unless a pipeline or a saga it called
\* was abandoned.
THEOREM IntentIsNeverStale == Spec => []IntentIsOwn
BY InductiveInvariant, PTL DEF Inductive

LEMMA KeysApart == Inductive => KeysTellStepsApart
<1> SUFFICES ASSUME Inductive, NEW c \in calls, NEW d \in calls, c.key = d.key
             PROVE  c.step = d.step
  BY DEF KeysTellStepsApart
<1>1. c.step \in 1..N /\ d.step \in 1..N
  BY DEF Inductive, TypeOK
<1> QED BY <1>1, PipelineAssumption DEF Inductive, KeyOrigin, StepKey

\* No two steps share an idempotency key, whatever their labels.
THEOREM KeysNeverCollide == Spec => []KeysTellStepsApart
BY InductiveInvariant, KeysApart, PTL

-----------------------------------------------------------------------------
(* Runs end.                                                               *)

\* What a run has still to do: whether it is under way, the steps left, and what
\* is left of the one at hand.
RunRank ==
    CASE phase = "idle" -> <<0, 0, 0>>
      [] phase = "loop" -> <<1, N + 2 - i, 3>>
      [] phase = "step" -> <<1, N + 2 - i, 2>>
      [] phase \in {"on_step", "on_failure"} -> <<1, N + 2 - i, 1>>
      [] phase = "stopped" -> <<1, N + 2 - i, 0>>

\* No run of a pipeline goes on for ever: what invoke_pipeline does, whichever
\* mode it is in and however steps and hooks end, lowers the rank, and what user
\* code does leaves it.
RunsAdvance ==
    [][/\ RunRank \in Ranks
       /\ Loop \/ HookEnds => Lower(RunRank', RunRank)
       /\ Body => UNCHANGED RunRank]_vars

\* The rank at each place of the interpreter.
RankAt ==
    /\ phase = "idle" => RunRank = <<0, 0, 0>>
    /\ phase = "loop" => RunRank = <<1, N + 2 - i, 3>>
    /\ phase = "step" => RunRank = <<1, N + 2 - i, 2>>
    /\ phase \in {"on_step", "on_failure"} => RunRank = <<1, N + 2 - i, 1>>
    /\ phase = "stopped" => RunRank = <<1, N + 2 - i, 0>>
    /\ RunRank \in Ranks

LEMMA RunRankAt == Inductive => RankAt
<1> SUFFICES ASSUME Inductive PROVE RankAt
  OBVIOUS
<1>1. /\ phase = "idle" => RunRank = <<0, 0, 0>>
      /\ phase = "loop" => RunRank = <<1, N + 2 - i, 3>>
      /\ phase = "step" => RunRank = <<1, N + 2 - i, 2>>
      /\ phase \in {"on_step", "on_failure"} => RunRank = <<1, N + 2 - i, 1>>
      /\ phase = "stopped" => RunRank = <<1, N + 2 - i, 0>>
  BY DEF RunRank
<1>2. N + 2 - i \in Nat
  BY PipelineAssumption DEF Inductive, TypeOK
<1>3. phase \in {"idle", "loop", "step", "on_step", "on_failure", "stopped"}
  BY DEF Inductive, TypeOK, Phases
<1>4. RunRank \in Ranks
  BY <1>1, <1>2, <1>3 DEF Ranks
<1> QED BY <1>1, <1>4 DEF RankAt

LEMMA LoopLowers ==
    ASSUME Inductive, Inductive', Loop \/ HookEnds
    PROVE  Lower(RunRank', RunRank)
<1>r. RankAt /\ RankAt'
  BY RunRankAt, PTL
<1>0. N + 2 - (i + 1) < N + 2 - i
  BY PipelineAssumption DEF Inductive, TypeOK
<1>1. CASE StepEnter
  <2>1. phase = "loop" /\ phase' = "step" /\ i' = i
    BY <1>1 DEF StepEnter
  <2>2. RunRank = <<1, N + 2 - i, 3>> /\ RunRank' = <<1, N + 2 - i, 2>>
    BY <1>r, <2>1 DEF RankAt
  <2> QED BY <2>2, LowerTriple
<1>2. CASE StepOk /\ "on_step" \in hooks
  <2>1. phase = "step" /\ phase' = "on_step" /\ i' = i
    BY <1>2 DEF StepOk
  <2>2. RunRank = <<1, N + 2 - i, 2>> /\ RunRank' = <<1, N + 2 - i, 1>>
    BY <1>r, <2>1 DEF RankAt
  <2> QED BY <2>2, LowerTriple
<1>3. CASE (StepOk /\ "on_step" \notin hooks) \/ StepSkipped \/ StepHookDone
  <2>1. phase \in {"step", "on_step"} /\ phase' = "loop" /\ i' = i + 1
    BY <1>3 DEF StepOk, StepSkipped, StepFails, StepHookDone
  <2>2. PICK c : RunRank = <<1, N + 2 - i, c>>
    BY <1>r, <2>1 DEF RankAt
  <2>3. RunRank' = <<1, N + 2 - (i + 1), 3>>
    BY <1>r, <2>1 DEF RankAt
  <2> QED BY <1>0, <2>2, <2>3, LowerTriple
<1>4. CASE StepStops
  <2>1. phase = "step" /\ phase' \in {"on_failure", "stopped"} /\ i' = i
    BY <1>4 DEF StepStops, StepFails
  <2>2. RunRank = <<1, N + 2 - i, 2>>
    BY <1>r, <2>1 DEF RankAt
  <2>3. PICK c \in {0, 1} : RunRank' = <<1, N + 2 - i, c>>
    BY <1>r, <2>1 DEF RankAt
  <2> QED BY <2>2, <2>3, LowerTriple
<1>5. CASE FailureHookDone
  <2>1. phase = "on_failure" /\ phase' = "stopped" /\ i' = i
    BY <1>5 DEF FailureHookDone
  <2>2. RunRank = <<1, N + 2 - i, 1>> /\ RunRank' = <<1, N + 2 - i, 0>>
    BY <1>r, <2>1 DEF RankAt
  <2> QED BY <2>2, LowerTriple
<1>6. CASE HookRaises \/ Stop \/ Finish
  <2>1. phase \in {"on_step", "on_failure", "stopped", "loop"} /\ phase' = "idle"
    BY <1>6 DEF HookRaises, Stop, Finish, Return
  <2>2. PICK c : RunRank = <<1, N + 2 - i, c>>
    BY <1>r, <2>1 DEF RankAt
  <2>3. RunRank' = <<0, 0, 0>>
    BY <1>r, <2>1 DEF RankAt
  <2> QED BY <2>2, <2>3, LowerTriple
<1> QED BY <1>1, <1>2, <1>3, <1>4, <1>5, <1>6 DEF Loop, HookEnds

LEMMA BodyKeepsRank == Body => UNCHANGED RunRank
BY DEF Body, WriteCall, BodyIntentBlock, NestedAbandoned, RunRank

\* Every step of invoke_pipeline gets a run closer to its end, in both modes, with
\* hooks or without.
THEOREM PipelineRunsAdvance == Spec => RunsAdvance
<1>1. Inductive /\ Inductive' /\ [Next]_vars =>
         [/\ RunRank \in Ranks
          /\ Loop \/ HookEnds => Lower(RunRank', RunRank)
          /\ Body => UNCHANGED RunRank]_vars
  BY RunRankAt, LoopLowers, BodyKeepsRank DEF RankAt
<1> QED BY <1>1, InductiveInvariant, PTL DEF Spec, RunsAdvance

-----------------------------------------------------------------------------
(* Argument binding.                                                       *)

\* A record of n turns of the loop over the arguments.
Turns(as, place, n) ==
    place = [k \in 0..n |-> IF k = 0 THEN Unplaced(Params)
                            ELSE Place(Params, as, k, place[k - 1])]

\* However many turns there are to be, there is such a record.
LEMMA TurnsExist ==
    ASSUME NEW as, NEW n \in Nat
    PROVE  \E place : Turns(as, place, n)
<1> DEFINE Lacks(t) == ~ \E place : Turns(as, place, t - 1)
           M == {t \in 1..(n + 1) : Lacks(t)}
<1>1. SUFFICES ASSUME M # {} PROVE FALSE
  <2>1. n + 1 \in 1..(n + 1) /\ (n + 1) - 1 = n
    OBVIOUS
  <2> QED BY <2>1
<1>2. n + 1 \in Nat /\ M \in SUBSET (1..(n + 1))
  <2> HIDE DEF Lacks
  <2> QED OBVIOUS
<1>3. PICK t \in M : \A j \in M : t <= j
  <2> HIDE DEF M
  <2> QED BY <1>1, <1>2, LeastPosition
<1> HIDE DEF M
<1>6. t \in 1..(n + 1) /\ Lacks(t) /\ \A j \in 1..(n + 1) : Lacks(j) => t <= j
  BY <1>3 DEF M
<1> HIDE DEF Lacks
<1>4. CASE t = 1
  <2> DEFINE g == [k \in 0..0 |-> Unplaced(Params)]
  <2>1. Turns(as, g, 0)
    BY DEF Turns
  <2>2. t - 1 = 0
    BY <1>4
  <2> HIDE DEF g
  <2> QED BY <1>6, <2>1, <2>2 DEF Lacks
<1>5. CASE t > 1
  <2>1. t - 1 \in 1..(n + 1) /\ ~ Lacks(t - 1)
    BY <1>6, <1>5
  <2>2. PICK g : Turns(as, g, (t - 1) - 1)
    BY <2>1 DEF Lacks
  <2> DEFINE h == [k \in 0..(t - 1) |-> IF k = t - 1 THEN Place(Params, as, k, g[k - 1]) ELSE g[k]]
  <2>3. \A k \in 0..(t - 1) : h[k] = IF k = 0 THEN Unplaced(Params) ELSE Place(Params, as, k, h[k - 1])
    <3> TAKE k \in 0..(t - 1)
    <3>1. CASE k = t - 1
      <4>1. k - 1 \in 0..(t - 1) /\ k - 1 # t - 1 /\ k # 0
        BY <3>1, <1>5, <1>6
      <4> QED BY <3>1, <4>1
    <3>2. CASE k # t - 1 /\ k = 0
      BY <3>2, <2>2, <1>5, <1>6 DEF Turns
    <3>3. CASE k # t - 1 /\ k # 0
      <4>1. k \in 0..((t - 1) - 1) /\ k - 1 \in 0..(t - 1) /\ k - 1 # t - 1
        BY <3>3, <1>6
      <4>2. g[k] = Place(Params, as, k, g[k - 1])
        BY <2>2, <3>3, <4>1 DEF Turns
      <4> QED BY <3>3, <4>1, <4>2
    <3> QED BY <3>1, <3>2, <3>3
  <2>4. Turns(as, h, t - 1)
    <3>1. h = [k \in 0..(t - 1) |-> h[k]]
      OBVIOUS
    <3> HIDE DEF h
    <3> QED BY <2>3, <3>1 DEF Turns
  <2> HIDE DEF h
  <2> QED BY <1>6, <2>4 DEF Lacks
<1> QED BY <1>6, <1>4, <1>5

\* The loop makes its turns one after the other.
LEMMA PlacedByTurns ==
    ASSUME NEW as \in ArgLists
    PROVE  /\ Len(as) \in Nat
           /\ \E place : Turns(as, place, Len(as)) /\ Placed(Params, as) = place[Len(as)]
<1>1. Len(as) \in Nat
  BY ArgsAssumption, LenProperties
<1>2. \E place : Turns(as, place, Len(as))
  BY <1>1, TurnsExist
<1> DEFINE place == CHOOSE place : Turns(as, place, Len(as))
<1>3. Turns(as, place, Len(as))
  BY <1>2
<1>4. Placed(Params, as) = place[Len(as)]
  BY DEF Placed, Turns
<1> QED BY <1>1, <1>3, <1>4

\* The positions of the parameters.
Slots == 1..Len(Params)

LEMMA SlotsMeans == DOMAIN Params = Slots /\ Len(Params) \in Nat
BY ArgsAssumption, LenProperties DEF Slots

\* The p-th slot is the one that the k-th argument should go to: it is empty, and the
\* first empty one or the first of the name of the argument.
Fits(as, k, p, slots) ==
    /\ slots[p] = Empty
    /\ IF as[k] = Positional THEN \A q \in Slots : q < p => slots[q] # Empty
       ELSE Params[p] = as[k] /\ \A q \in Slots : Params[q] = as[k] => p <= q

\* What is known of the slots after k arguments: which argument is where, and that
\* each was put where it belongs.
SlotsFilled(as, s, k) ==
    /\ s = [slots |-> s.slots, pos |-> s.pos, ok |-> s.ok] /\ s.ok \in BOOLEAN
    /\ s.slots \in [Slots -> {Empty} \union (1..k)] /\ s.pos \in Nat \ {0}
    /\ \A p \in Slots : p < s.pos => s.slots[p] # Empty
    /\ \A p, q \in Slots : s.slots[p] = s.slots[q] /\ s.slots[p] # Empty => p = q
    /\ s.ok => \A j \in 1..k : \E p \in Slots :
          /\ s.slots[p] = j
          /\ IF as[j] = Positional THEN \A q \in Slots : q < p => s.slots[q] \in 1..(j - 1)
             ELSE Params[p] = as[j] /\ \A q \in Slots : Params[q] = as[j] => p <= q

LEMMA LeastSlot ==
    ASSUME NEW M \in SUBSET Slots, M # {}
    PROVE  LET p == CHOOSE q \in M : \A r \in M : q <= r
           IN  p \in M /\ \A q \in M : p <= q
<1>1. \E p \in M : \A q \in M : p <= q
  BY LeastPosition, SlotsMeans DEF Slots
<1> QED BY <1>1

\* SlotOf finds the slot where the next argument belongs, if there is one.
LEMMA SlotFits ==
    ASSUME NEW as \in ArgLists, NEW k \in 1..Len(as), NEW s, SlotsFilled(as, s, k - 1)
    PROVE  LET p == SlotOf(Params, as, k, s.slots, s.pos)
           IN  /\ p \in {0} \union Slots
               /\ p # 0 => Fits(as, k, p, s.slots)
               /\ as[k] = Positional /\ p # 0 => s.pos <= p
               /\ \A q \in Slots : Fits(as, k, q, s.slots) => p = q
<1> DEFINE p == SlotOf(Params, as, k, s.slots, s.pos)
<1>1. /\ DOMAIN s.slots = Slots /\ DOMAIN Params = Slots /\ s.pos \in Nat \ {0}
      /\ \A q \in Slots : q < s.pos => s.slots[q] # Empty
      /\ Slots \subseteq Nat \ {0}
  BY SlotsMeans DEF SlotsFilled, Slots
<1>2. CASE as[k] = Positional
  <2> DEFINE free == {q \in Slots : q >= s.pos /\ s.slots[q] = Empty}
  <2>1. p = IF free = {} THEN 0 ELSE CHOOSE q \in free : \A r \in free : q <= r
    BY <1>1, <1>2 DEF SlotOf, FirstFree
  <2>2. \A q \in Slots : Fits(as, k, q, s.slots) <=>
                             q \in free /\ \A r \in free : q <= r
    BY <1>1, <1>2 DEF Fits
  <2>3. free \in SUBSET Slots
    OBVIOUS
  <2>4. CASE free = {}
    BY <2>1, <2>2, <2>4
  <2>5. CASE free # {}
    <3>1. p \in free /\ \A q \in free : p <= q
      <4> HIDE DEF free, p
      <4> QED BY <2>1, <2>3, <2>5, LeastSlot
    <3>2. Fits(as, k, p, s.slots) /\ s.pos <= p /\ p \in Slots
      <4> HIDE DEF p
      <4> QED BY <3>1, <2>2, <1>1
    <3>3. \A q \in Slots : Fits(as, k, q, s.slots) => p = q
      <4> HIDE DEF p
      <4> SUFFICES ASSUME NEW q \in Slots, Fits(as, k, q, s.slots) PROVE p = q
        OBVIOUS
      <4>1. q \in free /\ q <= p
        BY <3>1, <2>2
      <4>2. p <= q /\ p \in Slots
        BY <3>1, <4>1
      <4> QED BY <4>1, <4>2, <1>1
    <3> HIDE DEF p
    <3> QED BY <3>2, <3>3 DEF p
  <2> QED BY <2>4, <2>5
<1>3. CASE as[k] # Positional
  <2> DEFINE named == {q \in Slots : Params[q] = as[k]}
             first == CHOOSE q \in named : \A r \in named : q <= r
  <2>1. p = IF named = {} THEN 0 ELSE IF s.slots[first] = Empty THEN first ELSE 0
    BY <1>1, <1>3 DEF SlotOf
  <2>2. CASE named = {}
    BY <2>1, <2>2, <1>3 DEF Fits
  <2>3. CASE named # {}
    <3>1. named \in SUBSET Slots
      OBVIOUS
    <3>2. first \in named /\ \A q \in named : first <= q
      <4> HIDE DEF named
      <4> QED BY <3>1, <2>3, LeastSlot
    <3>3. \A q \in Slots : Fits(as, k, q, s.slots) => q = first /\ s.slots[first] = Empty
      <4> HIDE DEF first
      <4> SUFFICES ASSUME NEW q \in Slots, Fits(as, k, q, s.slots)
                   PROVE  q = first /\ s.slots[first] = Empty
        OBVIOUS
      <4>1. q <= first /\ first <= q /\ s.slots[q] = Empty
        BY <3>2, <1>3 DEF Fits
      <4> QED BY <4>1, <3>2, <1>1
    <3>4. s.slots[first] = Empty => Fits(as, k, first, s.slots)
      <4> HIDE DEF first
      <4> QED BY <3>2, <1>3 DEF Fits
    <3>5. first \in Slots /\ first # 0
      <4> HIDE DEF first
      <4> QED BY <3>2, <1>1
    <3> HIDE DEF first, p
    <3> QED BY <2>1, <2>3, <3>3, <3>4, <3>5, <1>3 DEF p
  <2> QED BY <2>2, <2>3
<1> QED BY <1>2, <1>3

\* A turn keeps what is known of the slots.
LEMMA PlaceFills ==
    ASSUME NEW as \in ArgLists, NEW k \in 1..Len(as), NEW s, SlotsFilled(as, s, k - 1)
    PROVE  SlotsFilled(as, Place(Params, as, k, s), k)
<1> DEFINE p == SlotOf(Params, as, k, s.slots, s.pos)
           new == Place(Params, as, k, s)
<1>1. Len(as) \in Nat /\ k \in Nat /\ Slots \subseteq Nat \ {0} /\ Empty = -1
  <2>1. Len(as) \in Nat
    BY PlacedByTurns
  <2>2. k \in Nat
    BY <2>1
  <2>3. Slots \subseteq Nat \ {0}
    BY SlotsMeans DEF Slots
  <2>4. Empty = -1
    BY DEF Empty
  <2> QED BY <2>1, <2>2, <2>3, <2>4
<1>2. /\ p \in {0} \union Slots /\ (p # 0 => Fits(as, k, p, s.slots))
      /\ as[k] = Positional /\ p # 0 => s.pos <= p
  BY SlotFits
<1>3. /\ s = [slots |-> s.slots, pos |-> s.pos, ok |-> s.ok] /\ s.ok \in BOOLEAN
      /\ s.slots \in [Slots -> {Empty} \union (1..(k - 1))] /\ s.pos \in Nat \ {0}
      /\ \A q \in Slots : q < s.pos => s.slots[q] # Empty
      /\ \A q, r \in Slots : s.slots[q] = s.slots[r] /\ s.slots[q] # Empty => q = r
      /\ s.ok => \A j \in 1..(k - 1) : \E q \in Slots :
            /\ s.slots[q] = j
            /\ IF as[j] = Positional THEN \A r \in Slots : r < q => s.slots[r] \in 1..(j - 1)
               ELSE Params[q] = as[j] /\ \A r \in Slots : Params[r] = as[j] => q <= r
  BY DEF SlotsFilled
<1> HIDE DEF p
<1>4. CASE ~s.ok \/ p = 0
  <2>1. new = [slots |-> s.slots, pos |-> s.pos, ok |-> FALSE]
    BY <1>3, <1>4 DEF Place, p
  <2>2. s.slots \in [Slots -> {Empty} \union (1..k)]
    BY <1>1, <1>3
  <2> HIDE DEF new
  <2> QED BY <1>3, <2>1, <2>2 DEF SlotsFilled, new
<1>5. CASE s.ok /\ p # 0
  <2> DEFINE slots == [s.slots EXCEPT ![p] = k]
             pos == IF as[k] = Positional THEN p + 1 ELSE s.pos
  <2>1. new = [slots |-> slots, pos |-> pos, ok |-> TRUE]
    BY <1>5 DEF Place, p
  <2>2. p \in Slots /\ s.slots[p] = Empty
    BY <1>2, <1>5 DEF Fits
  <2>3. /\ slots \in [Slots -> {Empty} \union (1..k)]
        /\ slots[p] = k /\ \A q \in Slots : q # p => slots[q] = s.slots[q]
    BY <1>1, <1>3, <2>2
  <2>4. pos \in Nat \ {0}
    <3>1. p \in Nat \ {0} /\ p + 1 \in Nat \ {0} /\ s.pos \in Nat \ {0}
      BY <1>1, <1>3, <2>2
    <3> QED BY <3>1
  <2>5. \A q \in Slots : q < pos => slots[q] # Empty
    <3> SUFFICES ASSUME NEW q \in Slots, q < pos PROVE slots[q] # Empty
      OBVIOUS
    <3>1. CASE q = p
      BY <3>1, <2>3, <1>1
    <3>2. CASE q # p /\ as[k] = Positional
      <4>1. q < p
        BY <3>2, <1>1, <2>2
      <4> QED BY <3>2, <4>1, <1>2, <1>5, <2>3 DEF Fits
    <3>3. CASE q # p /\ as[k] # Positional
      BY <3>3, <1>3, <2>3
    <3> QED BY <3>1, <3>2, <3>3
  <2> HIDE DEF slots, pos
  <2>6. \A q, r \in Slots : slots[q] = slots[r] /\ slots[q] # Empty => q = r
    <3> SUFFICES ASSUME NEW q \in Slots, NEW r \in Slots, slots[q] = slots[r],
                        slots[q] # Empty
                 PROVE  q = r
      OBVIOUS
    <3>1. \A x \in Slots : s.slots[x] # k
      BY <1>1, <1>3
    <3> QED BY <3>1, <1>3, <2>3
  <2>7. \A j \in 1..k : \E q \in Slots :
            /\ slots[q] = j
            /\ IF as[j] = Positional THEN \A r \in Slots : r < q => slots[r] \in 1..(j - 1)
               ELSE Params[q] = as[j] /\ \A r \in Slots : Params[r] = as[j] => q <= r
    <3> TAKE j \in 1..k
    <3>1. CASE j = k
      <4>1. as[k] = Positional => \A r \in Slots : r < p => slots[r] \in 1..(k - 1)
        <5> SUFFICES ASSUME as[k] = Positional, NEW r \in Slots, r < p
                     PROVE  slots[r] \in 1..(k - 1)
          OBVIOUS
        <5>1. s.slots[r] # Empty /\ r # p
          BY <1>1, <1>2, <1>5, <2>2 DEF Fits
        <5> QED BY <5>1, <1>3, <2>3
      <4>2. as[k] # Positional => Params[p] = as[k] /\ \A r \in Slots : Params[r] = as[k] => p <= r
        BY <1>2, <1>5 DEF Fits
      <4> QED BY <3>1, <4>1, <4>2, <2>2, <2>3
    <3>2. CASE j # k
      <4>1. j \in 1..(k - 1)
        BY <3>2, <1>1
      <4>2. PICK q \in Slots :
            /\ s.slots[q] = j
            /\ IF as[j] = Positional THEN \A r \in Slots : r < q => s.slots[r] \in 1..(j - 1)
               ELSE Params[q] = as[j] /\ \A r \in Slots : Params[r] = as[j] => q <= r
        BY <4>1, <1>3, <1>5
      <4>3. q # p /\ slots[q] = j
        BY <4>1, <4>2, <2>2, <2>3, <1>1
      <4>4. as[j] = Positional => \A r \in Slots : r < q => slots[r] \in 1..(j - 1)
        <5> SUFFICES ASSUME as[j] = Positional, NEW r \in Slots, r < q
                     PROVE  slots[r] \in 1..(j - 1)
          OBVIOUS
        <5>1. s.slots[r] \in 1..(j - 1)
          BY <4>2
        <5>2. r # p
          BY <5>1, <2>2, <1>1
        <5> QED BY <5>1, <5>2, <2>3
      <4> QED BY <4>2, <4>3, <4>4
    <3> QED BY <3>1, <3>2
  <2> HIDE DEF new
  <2>8. new.slots = slots /\ new.pos = pos /\ new.ok = TRUE
    BY <2>1
  <2>9. SlotsFilled(as, new, k)
    BY <2>1, <2>3, <2>4, <2>5, <2>6, <2>7, <2>8 DEF SlotsFilled
  <2> QED BY <2>9 DEF new
<1> QED BY <1>3, <1>4, <1>5

\* Before the first argument.
LEMMA NothingPlaced ==
    ASSUME NEW as \in ArgLists
    PROVE  SlotsFilled(as, Unplaced(Params), 0)
BY SlotsMeans DEF SlotsFilled, Unplaced, Empty, Slots

LEMMA TurnByTurn ==
    ASSUME NEW as, NEW place, NEW n \in Nat, Turns(as, place, n)
    PROVE  /\ place[0] = Unplaced(Params)
           /\ \A k \in 1..n : place[k] = Place(Params, as, k, place[k - 1])
<1>1. 0 \in 0..n /\ \A k \in 1..n : k \in 0..n /\ k # 0
  OBVIOUS
<1> QED BY <1>1 DEF Turns

LEMMA TurnsFill ==
    ASSUME NEW as \in ArgLists, NEW n \in Nat, 1..n \subseteq 1..Len(as),
           NEW place, Turns(as, place, n), NEW k \in 0..n
    PROVE  SlotsFilled(as, place[k], k)
<1>1. 0 \in 0..n /\ \A j \in 1..n : j \in 0..n
  OBVIOUS
<1> DEFINE Good == {j \in 0..n : SlotsFilled(as, place[j], j)}
<1>2. place[0] = Unplaced(Params) /\ \A j \in 1..n : place[j] = Place(Params, as, j, place[j - 1])
  BY TurnByTurn
<1>3. 0 \in Good
  BY <1>1, <1>2, NothingPlaced, Zenon
<1>4. \A j \in 1..n : j - 1 \in Good => j \in Good
  <2> SUFFICES ASSUME NEW j \in 1..n, j - 1 \in Good PROVE j \in Good
    OBVIOUS
  <2>1. SlotsFilled(as, place[j - 1], j - 1) /\ j \in 1..Len(as)
    BY Zenon
  <2>2. SlotsFilled(as, Place(Params, as, j, place[j - 1]), j)
    BY <2>1, PlaceFills, Zenon
  <2> QED BY <1>1, <1>2, <2>2, Zenon
<1> HIDE DEF Good
<1>5. k \in Good
  BY <1>3, <1>4, CountUp
<1> QED BY <1>5, Zenon DEF Good

\* The slots after k arguments are those of the assignment f.
Agrees(f, s, k) ==
    s.ok /\ \A p \in Slots, j \in 1..k : s.slots[p] = j <=> f[j] = p

\* An assignment of the first n arguments.
AssignsUpTo(as, f, n) ==
    /\ f \in [1..n -> Slots]
    /\ \A j, k \in 1..n : f[j] = f[k] => j = k
    /\ \A k \in 1..n :
          IF as[k] = Positional
          THEN \A p \in Slots : p < f[k] => \E j \in 1..(k - 1) : f[j] = p
          ELSE Params[f[k]] = as[k] /\ \A p \in Slots : Params[p] = as[k] => f[k] <= p

LEMMA FirstLeft ==
    ASSUME NEW n \in Nat, NEW f \in [1..n -> Slots], NEW k \in 1..n,
           \A i1, i2 \in 1..n : f[i1] = f[i2] => i1 = i2
    PROVE  LET left == Slots \ {f[j] : j \in 1..(k - 1)}
           IN  (f[k] \in left /\ \A p \in left : f[k] <= p) <=>
                   \A p \in Slots : p < f[k] => \E j \in 1..(k - 1) : f[j] = p
<1>1. Slots \subseteq Nat
  BY SlotsMeans DEF Slots
<1>2. \A j \in 1..(k - 1) : j \in 1..n /\ j # k
  OBVIOUS
<1>3. f[k] \in Slots /\ \A j \in 1..(k - 1) : f[j] # f[k]
  BY <1>2
<1>4. \A p \in Slots : p < f[k] <=> ~(f[k] <= p)
  <2> DEFINE first == f[k]
  <2>1. first \in Nat
    BY <1>1, <1>3
  <2> HIDE DEF first
  <2>2. \A p \in Slots : p < first <=> ~(first <= p)
    BY <1>1, <2>1
  <2> QED BY <2>2 DEF first
<1> QED BY <1>3, <1>4

LEMMA AssignsMeans ==
    ASSUME NEW as \in ArgLists, NEW f \in [1..Len(as) -> Slots]
    PROVE  Assigns(as, f) <=> AssignsUpTo(as, f, Len(as))
<1>1. DOMAIN Params = Slots
  BY SlotsMeans
<1>2. ASSUME \A j, k \in 1..Len(as) : f[j] = f[k] => j = k, NEW k \in 1..Len(as)
      PROVE  (LET left == Slots \ {f[j] : j \in 1..(k - 1)}
              IN  f[k] \in left /\ \A p \in left : f[k] <= p)
             <=> \A p \in Slots : p < f[k] => \E j \in 1..(k - 1) : f[j] = p
  <2>1. Len(as) \in Nat
    BY PlacedByTurns
  <2> QED BY <1>2, <2>1, FirstLeft, Zenon
<1> QED BY <1>1, <1>2, Zenon DEF Assigns, AssignsUpTo

\* A turn follows an assignment, where there is one.
LEMMA NextAgrees ==
    ASSUME NEW as \in ArgLists, NEW n \in Nat, 1..n \subseteq 1..Len(as), NEW f,
           AssignsUpTo(as, f, n),
           NEW k \in 1..n, NEW s, SlotsFilled(as, s, k - 1), Agrees(f, s, k - 1)
    PROVE  Agrees(f, Place(Params, as, k, s), k)
<1> DEFINE p == f[k]
           new == Place(Params, as, k, s)
<1>1. p \in Slots /\ Slots \subseteq Nat \ {0} /\ k \in Nat /\ Empty = -1
  BY SlotsMeans DEF AssignsUpTo, Slots, Empty
<1>2. /\ s.slots \in [Slots -> {Empty} \union (1..(k - 1))] /\ s.ok
      /\ \A q \in Slots, j \in 1..(k - 1) : s.slots[q] = j <=> f[j] = q
  BY DEF Agrees, SlotsFilled
<1>3. \A j \in 1..(k - 1) : j \in 1..n /\ f[j] # p
  BY DEF AssignsUpTo
<1> HIDE DEF p
<1>4. s.slots[p] = Empty
  BY <1>1, <1>2, <1>3
<1>5. Fits(as, k, p, s.slots)
  <2>1. as[k] = Positional => \A q \in Slots : q < p => s.slots[q] # Empty
    <3> SUFFICES ASSUME as[k] = Positional, NEW q \in Slots, q < p PROVE s.slots[q] # Empty
      OBVIOUS
    <3>1. PICK j \in 1..(k - 1) : f[j] = q
      BY DEF AssignsUpTo, p
    <3>2. s.slots[q] = j
      BY <3>1, <1>2
    <3> QED BY <3>2, <1>1
  <2>2. as[k] # Positional => Params[p] = as[k] /\ \A q \in Slots : Params[q] = as[k] => p <= q
    BY DEF AssignsUpTo, p
  <2> QED BY <1>4, <2>1, <2>2 DEF Fits
<1>6. SlotOf(Params, as, k, s.slots, s.pos) = p /\ p # 0
  BY <1>1, <1>5, SlotFits
<1>7. new.ok /\ new.slots = [s.slots EXCEPT ![p] = k]
  BY <1>2, <1>6 DEF Place
<1> HIDE DEF new
<1>8. \A q \in Slots, j \in 1..k : new.slots[q] = j <=> f[j] = q
  <2> TAKE q \in Slots, j \in 1..k
  <2>1. CASE j = k
    <3>1. q # p => s.slots[q] # k
      BY <1>1, <1>2
    <3> QED BY <2>1, <3>1, <1>2, <1>7 DEF p
  <2>2. CASE j # k
    <3>1. j \in 1..(k - 1)
      BY <2>2, <1>1
    <3> QED BY <2>2, <3>1, <1>1, <1>2, <1>3, <1>4, <1>7
  <2> QED BY <2>1, <2>2
<1> QED BY <1>7, <1>8 DEF Agrees, new

LEMMA AssignmentAgrees ==
    ASSUME NEW as \in ArgLists, NEW n \in Nat, 1..n \subseteq 1..Len(as), NEW f,
           AssignsUpTo(as, f, n), NEW place, Turns(as, place, n)
    PROVE  Agrees(f, place[n], n)
<1>1. 0 \in 0..n /\ n \in 0..n /\ \A j \in 1..n : j \in 0..n
  OBVIOUS
<1> DEFINE Good == {j \in 0..n : Agrees(f, place[j], j)}
<1>2. place[0] = Unplaced(Params) /\ \A j \in 1..n : place[j] = Place(Params, as, j, place[j - 1])
  BY TurnByTurn
<1>3. Agrees(f, place[0], 0)
  <2>1. Agrees(f, Unplaced(Params), 0)
    BY DEF Agrees, Unplaced
  <2> QED BY <1>2, <2>1, Zenon
<1>4. \A j \in 1..n : j - 1 \in Good => j \in Good
  <2> SUFFICES ASSUME NEW j \in 1..n, j - 1 \in Good PROVE j \in Good
    OBVIOUS
  <2>1. Agrees(f, place[j - 1], j - 1) /\ j - 1 \in 0..n
    BY Zenon
  <2>2. SlotsFilled(as, place[j - 1], j - 1)
    BY <2>1, TurnsFill, Zenon
  <2>3. Agrees(f, Place(Params, as, j, place[j - 1]), j)
    BY <2>1, <2>2, NextAgrees, Zenon
  <2> QED BY <1>1, <1>2, <2>3, Zenon
<1>5. 0 \in Good
  BY <1>1, <1>3, Zenon
<1> HIDE DEF Good
<1>6. n \in Good
  BY <1>1, <1>4, <1>5, CountUp
<1> QED BY <1>6, Zenon DEF Good

\* What filled the slots is an assignment.
LEMMA SlotsAssign ==
    ASSUME NEW as \in ArgLists, NEW n \in Nat, NEW s, SlotsFilled(as, s, n), s.ok
    PROVE  \E f : AssignsUpTo(as, f, n)
<1> DEFINE f == [j \in 1..n |-> CHOOSE p \in Slots : s.slots[p] = j]
<1>0. Slots \subseteq Nat \ {0} /\ Empty = -1
  BY SlotsMeans DEF Slots, Empty
<1>1. /\ \A p, q \in Slots : s.slots[p] = s.slots[q] /\ s.slots[p] # Empty => p = q
      /\ \A j \in 1..n : \E p \in Slots :
            /\ s.slots[p] = j
            /\ IF as[j] = Positional THEN \A q \in Slots : q < p => s.slots[q] \in 1..(j - 1)
               ELSE Params[p] = as[j] /\ \A q \in Slots : Params[q] = as[j] => p <= q
  BY DEF SlotsFilled
<1>2. \A j \in 1..n : f[j] \in Slots /\ s.slots[f[j]] = j
  BY <1>1
<1>3. f \in [1..n -> Slots]
  BY <1>2
<1> HIDE DEF f
<1>4. \A p \in Slots, j \in 1..n : s.slots[p] = j => f[j] = p
  <2> TAKE p \in Slots, j \in 1..n
  <2>1. j # Empty
    BY <1>0
  <2> QED BY <1>1, <1>2, <2>1
<1>5. \A j, k \in 1..n : f[j] = f[k] => j = k
  BY <1>2
<1>6. \A k \in 1..n :
          IF as[k] = Positional
          THEN \A p \in Slots : p < f[k] => \E j \in 1..(k - 1) : f[j] = p
          ELSE Params[f[k]] = as[k] /\ \A p \in Slots : Params[p] = as[k] => f[k] <= p
  <2> TAKE k \in 1..n
  <2>1. PICK p \in Slots :
            /\ s.slots[p] = k
            /\ IF as[k] = Positional THEN \A q \in Slots : q < p => s.slots[q] \in 1..(k - 1)
               ELSE Params[p] = as[k] /\ \A q \in Slots : Params[q] = as[k] => p <= q
    BY <1>1
  <2>2. f[k] = p
    BY <1>4, <2>1
  <2>3. CASE as[k] = Positional
    <3> SUFFICES ASSUME NEW q \in Slots, q < p PROVE \E j \in 1..(k - 1) : f[j] = q
      BY <2>2, <2>3
    <3>1. s.slots[q] \in 1..(k - 1) /\ 1..(k - 1) \subseteq 1..n
      BY <2>1, <2>3
    <3> QED BY <3>1, <1>4
  <2> QED BY <2>1, <2>2, <2>3
<1> QED BY <1>3, <1>5, <1>6 DEF AssignsUpTo

\* bind_pipeline_args accepts a call exactly when its arguments can be assigned to the
\* parameters, and then binds by that assignment, for any parameters (also two of one
\* name) and any arguments.
THEOREM ArgumentsBound == Spec => []ArgsBoundOnce
<1>1. ASSUME NEW as \in ArgLists, NEW capInScope \in BOOLEAN
      PROVE  /\ Binds(Params, as, capInScope) <=> Assignments(as, capInScope) # {}
             /\ \A f \in Assignments(as, capInScope), p \in DOMAIN Params :
                   LET k == Binding(Params, as)[p]
                   IN IF k = Ambient THEN \A j \in 1..Len(as) : f[j] # p ELSE f[k] = p
  <2> DEFINE s == Placed(Params, as)
             n == Len(as)
  <2>1. n \in Nat /\ DOMAIN Params = Slots /\ Empty = -1 /\ Ambient = 0
    BY PlacedByTurns, SlotsMeans DEF Empty, Ambient
  <2>2. PICK place : Turns(as, place, n) /\ s = place[n]
    BY PlacedByTurns
  <2> HIDE DEF s, n
  <2>3. SlotsFilled(as, s, n)
    <3>1. n \in 0..n
      BY <2>1
    <3>2. 1..n \subseteq 1..Len(as)
      BY Zenon DEF n
    <3> QED BY <2>1, <2>2, <3>1, <3>2, TurnsFill, Zenon
  <2>4. s.slots \in [Slots -> {Empty} \union (1..n)]
    BY <2>3 DEF SlotsFilled
  <2>5. ASSUME NEW f, AssignsUpTo(as, f, n)
        PROVE  /\ s.ok
               /\ \A p \in Slots, j \in 1..n : s.slots[p] = j <=> f[j] = p
               /\ \A p \in Slots : s.slots[p] = Empty <=> \A j \in 1..n : f[j] # p
    <3>1. Agrees(f, s, n)
      BY <2>1, <2>2, <2>5, AssignmentAgrees, Zenon DEF n
    <3>2. s.ok /\ \A p \in Slots, j \in 1..n : s.slots[p] = j <=> f[j] = p
      BY <3>1 DEF Agrees
    <3>3. \A p \in Slots : s.slots[p] = Empty <=> \A j \in 1..n : f[j] # p
      <4> TAKE p \in Slots
      <4>1. \A j \in 1..n : j # Empty
        BY <2>1
      <4> QED BY <2>4, <3>2, <4>1
    <3> QED BY <3>2, <3>3
  <2>6. ASSUME NEW f, AssignsUpTo(as, f, n)
        PROVE  Covers(as, f, capInScope) <=>
                   DOMAIN Params \ Filled(s.slots) \subseteq Fillable(Params, capInScope)
    <3>1. \A p \in Slots : p \in Filled(s.slots) <=> ~ \A j \in 1..n : f[j] # p
      <4>1. DOMAIN s.slots = Slots
        BY <2>4
      <4>2. \A p \in Slots : s.slots[p] = Empty <=> \A j \in 1..n : f[j] # p
        BY <2>5, <2>6, Zenon
      <4> QED BY <4>1, <4>2, Zenon DEF Filled
    <3>2. \A p \in Slots : p \in Fillable(Params, capInScope) <=> capInScope /\ Params[p] = "cap"
      BY <2>1 DEF Fillable
    <3> QED BY <2>1, <3>1, <3>2 DEF Covers, n
  <2>7. \A f : f \in Assignments(as, capInScope) <=>
                   AssignsUpTo(as, f, n) /\ Covers(as, f, capInScope)
    <3>1. \A f : AssignsUpTo(as, f, n) => f \in [1..n -> Slots]
      BY Zenon DEF AssignsUpTo
    <3>2. \A f \in [1..n -> Slots] : Assigns(as, f) <=> AssignsUpTo(as, f, n)
      BY AssignsMeans DEF n
    <3> QED BY <2>1, <3>1, <3>2, Zenon DEF Assignments, n
  <2>8. Binds(Params, as, capInScope) <=> Assignments(as, capInScope) # {}
    <3>1. Binds(Params, as, capInScope) <=>
            s.ok /\ DOMAIN Params \ Filled(s.slots) \subseteq Fillable(Params, capInScope)
      BY DEF Binds, s
    <3>2. ASSUME Binds(Params, as, capInScope) PROVE Assignments(as, capInScope) # {}
      <4>1. PICK f : AssignsUpTo(as, f, n)
        BY <2>1, <2>3, <3>1, <3>2, SlotsAssign
      <4> QED BY <2>6, <2>7, <3>1, <3>2, <4>1
    <3>3. ASSUME NEW f \in Assignments(as, capInScope) PROVE Binds(Params, as, capInScope)
      BY <2>5, <2>6, <2>7, <3>1, <3>3
    <3> QED BY <3>2, <3>3
  <2>9. ASSUME NEW f \in Assignments(as, capInScope), NEW p \in Slots
        PROVE  LET k == Binding(Params, as)[p]
               IN  IF k = Ambient THEN \A j \in 1..Len(as) : f[j] # p ELSE f[k] = p
    <3>1. Binding(Params, as)[p] = IF s.slots[p] = Empty THEN Ambient ELSE s.slots[p]
      BY <2>1 DEF Binding, s
    <3>2. /\ \A j \in 1..n : s.slots[p] = j <=> f[j] = p
          /\ s.slots[p] = Empty <=> \A j \in 1..n : f[j] # p
      <4>1. AssignsUpTo(as, f, n)
        BY <2>7, <2>9
      <4>2. s.ok /\ \A q \in Slots, j \in 1..n : s.slots[q] = j <=> f[j] = q
        BY <2>5, <4>1, Zenon
      <4>3. \A q \in Slots : s.slots[q] = Empty <=> \A j \in 1..n : f[j] # q
        BY <2>5, <4>1, Zenon
      <4> QED BY <4>2, <4>3
    <3>3. s.slots[p] = Empty \/ s.slots[p] \in 1..n
      BY <2>4
    <3>4. \A j \in 1..n : j # Ambient
      BY <2>1
    <3> QED BY <3>1, <3>2, <3>3, <3>4 DEF n
  <2> QED BY <2>1, <2>8, <2>9
<1>2. ArgsBoundOnce
  BY <1>1 DEF ArgsBoundOnce
<1> QED BY <1>2, PTL
=============================================================================
