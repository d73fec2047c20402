-------------------------------- MODULE Saga --------------------------------
(***************************************************************************)
(* The saga interpreter: invoke_saga and run_undo_with_retries.  One saga  *)
(* declaration is invoked up to MaxInvocations times, one invocation after *)
(* another, under the one tracer of a run.  The interpreter is sequential; *)
(* what is open is everything user code decides: the value of a requires   *)
(* clause, the writes a do or an undo block issues and how it ends.        *)
(***************************************************************************)
EXTENDS TraceStack, FiniteSets

CONSTANTS
    N,              \* number of steps; step i is the i-th in source order
    StepNames,      \* step names
    StepName,       \* name of each step; two steps may share a name
    Clauses,        \* number of requires clauses of each step
    HasUndo,        \* the steps whose undo is a block, not `noop`
    MaxInvocations, \* bound: invocations of the saga in one run
    MaxCalls        \* bound: keyed writes remembered

ASSUME StepsAssumption ==
    /\ N \in Nat
    /\ StepName \in [1..N -> StepNames]
    /\ Clauses \in [1..N -> Nat]
    /\ HasUndo \subseteq 1..N

ASSUME BoundAssumption == MaxInvocations \in Nat /\ MaxCalls \in Nat

VARIABLES
    phase,      \* where the interpreter is
    step,       \* the step the forward loop is at, 1..N+1
    clause,     \* the requires clause it evaluates next
    completed,  \* names of the steps that succeeded, in order
    skipped,    \* steps with a step_skip event
    cause,      \* how the failed step's do block ended
    left,       \* completed steps the rollback has not undone yet
    undone,     \* steps with an undo_exit "ok" event, in order
    attempt,    \* undo attempts that failed, of the step being undone
    calls,      \* keyed writes handed to backends, over the whole run
    stacks,     \* the tracer's intent and scope stacks; an intent is
                \* identified by the invocation it belongs to
    leaked,     \* user code of this invocation called a saga or a pipeline
                \* that was abandoned
    inv,        \* invocations so far
    result      \* what the last invocation returned

vars == <<phase, step, clause, completed, skipped, cause, left, undone,
          attempt, calls, stacks, leaked, inv, result>>

Phases == {"idle", "requires", "do", "rollback", "undo"}

\* run_undo_with_retries: MAX_ATTEMPTS.
MaxAttempts == 3

\* How a do block fails: with an Err value or a raised error, or with an error
\* the language calls fatal (a contract or policy violation, the PartialFailure
\* of a saga called from the step).  The interpreter does not tell them apart.
\* A block left by `return`, `break` or `continue` yields a Flow other than
\* Flow::Value and succeeds, even when the returned value is an Err.
Failures == {"failure", "fatal"}

Results == {"none", "ok", "rolled_back", "partial", "raised", "arity"}

\* idempotency_key(trace_id, name, n): the hash is taken as injective, and the
\* trace id is the same for every key of a run.
Key(name, block, n) == <<name, block, n>>
\* Seeded fault: the position of the step is left out of its key.
BugDoKeyByName(i) == Key(StepName[i], "do", 0)

\* The n of a do block is the position of the step in the declaration.
DoKey(i) == Key(StepName[i], "do", i - 1)
\* The n of an undo block is the attempt.
UndoKey(i, a) == Key(StepName[i], "undo", a)

\* The rollback looks a completed step up by name: the first one wins.  Nothing
\* keeps two steps of a saga from having one name.
FirstNamed(name) ==
    CHOOSE i \in 1..N : /\ StepName[i] = name
                        /\ \A j \in 1..N : StepName[j] = name => i <= j

\* Seeded fault: the rollback walks the completed steps from the first.
BugUndoForwards == FirstNamed(completed[Len(completed) + 1 - left])

\* The step the rollback undoes next.
UndoTarget == FirstNamed(completed[left])
-----------------------------------------------------------------------------
Init ==
    /\ phase = "idle"
    /\ step = 1 /\ clause = 1
    /\ completed = <<>> /\ skipped = {} /\ cause = "none"
    /\ left = 0 /\ undone = <<>> /\ attempt = 0
    /\ calls = {}
    /\ stacks = EmptyStacks /\ leaked = FALSE
    /\ inv = 0 /\ result = "none"

\* A call with the wrong number of arguments fails before anything is traced.
BadArity ==
    /\ phase = "idle" /\ inv < MaxInvocations
    /\ inv' = inv + 1
    /\ result' = "arity"
    /\ UNCHANGED <<phase, step, clause, completed, skipped, cause, left, undone,
                   attempt, calls, stacks, leaked>>

Invoke ==
    /\ phase = "idle" /\ inv < MaxInvocations
    /\ phase' = "requires"
    /\ step' = 1 /\ clause' = 1
    /\ completed' = <<>> /\ skipped' = {} /\ cause' = "none"
    /\ left' = 0 /\ undone' = <<>> /\ attempt' = 0
    /\ stacks' = IntentEnter(stacks, inv + 1, "saga") /\ leaked' = FALSE
    /\ inv' = inv + 1
    /\ result' = "none"
    /\ UNCHANGED calls

\* A saga call returns: intent_exit, and back to the caller.
Return(r) ==
    /\ phase' = "idle"
    /\ result' = r
    /\ stacks' = IntentExit(stacks)
    /\ UNCHANGED <<step, clause, completed, skipped, cause, undone, attempt,
                   calls, inv, leaked>>
-----------------------------------------------------------------------------
(* The forward loop.                                                       *)

EvaluatingClause == phase = "requires" /\ step <= N /\ clause <= Clauses[step]

RequireTrue ==
    /\ EvaluatingClause
    /\ clause' = clause + 1
    /\ UNCHANGED <<phase, step, completed, skipped, cause, left, undone,
                   attempt, calls, stacks, inv, result, leaked>>

\* A clause that is not `true` records step_skip and continues with the next
\* clause of the same step.
RequireFalse ==
    /\ EvaluatingClause
    /\ clause' = clause + 1
    /\ skipped' = skipped \union {step}
    /\ UNCHANGED <<phase, step, completed, cause, left, undone, attempt, calls,
                   stacks, inv, result, leaked>>

\* A clause whose evaluation fails leaves invoke_saga through `?`: no rollback,
\* no saga_exit and no intent_exit.
RequireRaises ==
    /\ EvaluatingClause
    /\ phase' = "idle"
    /\ result' = "raised"
    /\ UNCHANGED <<step, clause, completed, skipped, cause, left, undone,
                   attempt, calls, stacks, inv, leaked>>

StepEnter ==
    /\ phase = "requires" /\ step <= N /\ clause > Clauses[step]
    /\ phase' = "do"
    /\ UNCHANGED <<step, clause, completed, skipped, cause, left, undone,
                   attempt, calls, stacks, inv, result, leaked>>

\* What user code runs in: a requires clause, or a do or an undo block.  The
\* clauses and the do block of a step share an environment, and its key.
InUserCode == EvaluatingClause \/ phase \in {"do", "undo"}
RunningBlock == IF phase = "undo" THEN "undo" ELSE "do"
RunningStep == IF phase = "undo" THEN UndoTarget ELSE step
EnvKey == IF phase = "undo" THEN UndoKey(UndoTarget, attempt) ELSE DoKey(step)

\* User code issues a write with the environment's key.  (A write issued inside
\* a user function carries none, for Env::from_snapshot starts the callee without
\* a key: it leaves this state as it is.)
WriteCall ==
    /\ InUserCode /\ Cardinality(calls) < MaxCalls
    /\ calls' = calls \union {[key |-> EnvKey, block |-> RunningBlock,
                              step |-> RunningStep, inv |-> inv]}
    /\ UNCHANGED <<phase, step, clause, completed, skipped, cause, left, undone,
                   attempt, stacks, leaked, inv, result>>

\* User code contains an intent block (intent 0, no scope) and runs it.
BodyIntentBlock ==
    /\ InUserCode
    /\ stacks' = IntentExit(IntentEnter(stacks, 0, NoScope))
    /\ UNCHANGED <<phase, step, clause, completed, skipped, cause, left, undone,
                   attempt, calls, leaked, inv, result>>

\* User code calls another saga or a pipeline (intent 0), and a requires clause
\* or a hook of that one raises.  (One that returns leaves the stacks as it
\* found them.)  Bound: once per invocation.
NestedAbandoned ==
    /\ InUserCode /\ ~leaked
    /\ stacks' = IntentEnter(stacks, 0, "saga")
    /\ leaked' = TRUE
    /\ UNCHANGED <<phase, step, clause, completed, skipped, cause, left, undone,
                   attempt, calls, inv, result>>

StepOk ==
    /\ phase = "do"
    /\ phase' = "requires"
    /\ completed' = Append(completed, StepName[step])
    /\ step' = step + 1
    /\ clause' = 1
    /\ UNCHANGED <<skipped, cause, left, undone, attempt, calls, stacks, inv,
                   result, leaked>>

StepErr ==
    /\ phase = "do"
    /\ cause' \in Failures
    /\ phase' = "rollback"
    /\ left' = Len(completed)
    /\ UNCHANGED <<step, clause, completed, skipped, undone, attempt, calls,
                   stacks, inv, result, leaked>>

Commit ==
    /\ phase = "requires" /\ step = N + 1
    /\ Return("ok")
    /\ UNCHANGED left
-----------------------------------------------------------------------------
(* The rollback loop, over the completed steps from the last to the first. *)

UndoEnter ==
    /\ phase = "rollback" /\ left > 0
    /\ UndoTarget \in HasUndo
    /\ phase' = "undo"
    /\ attempt' = 0
    /\ UNCHANGED <<step, clause, completed, skipped, cause, left, undone, calls,
                   stacks, inv, result, leaked>>

\* The undo of a step is done: undo_exit "ok", on to the previous step.
Compensated ==
    /\ phase' = "rollback"
    /\ undone' = Append(undone, UndoTarget)
    /\ left' = left - 1
    /\ UNCHANGED <<step, clause, completed, skipped, cause, attempt, calls,
                   stacks, inv, result, leaked>>

\* `undo: noop` is done as soon as it is entered.
UndoNoop ==
    /\ phase = "rollback" /\ left > 0
    /\ UndoTarget \notin HasUndo
    /\ Compensated

UndoOk == phase = "undo" /\ Compensated

\* Seeded fault: the attempts are not counted.
BugUndoRetryForever ==
    /\ phase = "undo"
    /\ attempt' = 1 - attempt
    /\ UNCHANGED <<phase, step, clause, completed, skipped, cause, left, undone,
                   calls, stacks, inv, result, leaked>>

UndoRetry ==
    /\ phase = "undo" /\ attempt + 1 < MaxAttempts
    /\ attempt' = attempt + 1
    /\ UNCHANGED <<phase, step, clause, completed, skipped, cause, left, undone,
                   calls, stacks, inv, result, leaked>>

\* Seeded fault: a compensation that never worked is reported as a rollback.
BugUndoExhaustedReportsRollback ==
    /\ phase = "undo" /\ attempt + 1 = MaxAttempts
    /\ Return("rolled_back")
    /\ UNCHANGED left

\* Seeded fault: the rollback goes on as if the step had been undone.
BugUndoExhaustedGoesOn ==
    /\ phase = "undo" /\ attempt + 1 = MaxAttempts
    /\ phase' = "rollback"
    /\ left' = left - 1
    /\ UNCHANGED <<step, clause, completed, skipped, cause, undone, attempt,
                   calls, stacks, inv, result, leaked>>

\* The last attempt failed: partial_failure, and the call raises PartialFailure
\* without undoing the steps still left.
UndoExhausted ==
    /\ phase = "undo" /\ attempt + 1 = MaxAttempts
    /\ Return("partial")
    /\ UNCHANGED left

RolledBack ==
    /\ phase = "rollback" /\ left = 0
    /\ Return("rolled_back")
    /\ UNCHANGED left
-----------------------------------------------------------------------------
Forward == RequireTrue \/ RequireFalse \/ RequireRaises \/ StepEnter
           \/ StepOk \/ StepErr \/ Commit
Rollback == UndoEnter \/ UndoNoop \/ UndoOk \/ UndoRetry \/ UndoExhausted \/ RolledBack
Body == WriteCall \/ BodyIntentBlock \/ NestedAbandoned

Next == Invoke \/ BadArity \/ Forward \/ Rollback \/ Body

Spec == Init /\ [][Next]_vars

\* The interpreter runs on one thread, and the blocks and clauses it evaluates
\* are assumed to end; nothing obliges the program to call the saga.
FairSpec == Spec /\ WF_vars(Forward \/ Rollback)

-----------------------------------------------------------------------------
(* Properties, and the mapping under which Saga implements SagaContract.   *)

HasNamesakeBefore(i) == \E j \in 1..(i - 1) : StepName[j] = StepName[i]

Keys == StepNames \X {"do", "undo"} \X Nat

WriteCalls == [key : Keys, block : {"do", "undo"}, step : 1..N, inv : Nat]

TypeOK ==
    /\ phase \in Phases
    /\ step \in 1..(N + 1)
    /\ clause \in Nat \ {0}
    /\ completed \in Seq(StepNames)
    /\ skipped \subseteq 1..N
    /\ cause \in Failures \union {"none"}
    /\ left \in Nat
    /\ undone \in Seq(1..N)
    /\ attempt \in 0..(MaxAttempts - 1)
    /\ calls \subseteq WriteCalls
    /\ stacks \in [intents : Seq(Nat), scopes : Seq({"saga"})]
    /\ leaked \in BOOLEAN
    /\ inv \in Nat
    /\ result \in Results

\* The rollback loop undoes from the last completed step to the first, with no
\* gap and no repetition: at any moment the steps undone are the mirror image
\* of the end of the forward loop's run, and `left` is what remains.  Where a
\* completed step has an earlier namesake, and only there, the undo that runs in
\* its place is the namesake's (README, Findings).
ReverseCompensation ==
    /\ left <= Len(completed)
    /\ phase \in {"rollback", "undo"} => Len(undone) = Len(completed) - left
    /\ phase \in {"requires", "do"} => undone = <<>>
    /\ \A k \in 1..Len(undone) :
          LET i == Len(completed) + 1 - k
          IN  IF HasNamesakeBefore(i)
              THEN undone[k] < i /\ StepName[undone[k]] = StepName[i]
              ELSE undone[k] = i

\* What invoke_saga returns is what happened: Ok only when every step succeeded
\* and nothing was undone, "rolled back" only when a step failed and each of the
\* completed steps was itself undone, but for those with an earlier namesake
\* (README, Findings), PartialFailure only when the undo of the step next in line
\* used up its attempts, and then no step before that one was undone.
HonestResult ==
    /\ result = "ok" => Len(completed) = N /\ undone = <<>>
    /\ result = "rolled_back" =>
          /\ Len(completed) < N /\ cause # "none"
          /\ Len(undone) = Len(completed)
          /\ \A i \in 1..Len(completed) :
                ~HasNamesakeBefore(i) => \E k \in 1..Len(undone) : undone[k] = i
    /\ result = "partial" =>
          /\ Len(completed) < N /\ cause # "none"
          /\ left > 0 /\ Len(undone) = Len(completed) - left
          /\ UndoTarget \in HasUndo /\ attempt = MaxAttempts - 1
          /\ \A i \in (left + 1)..Len(completed) :
                ~HasNamesakeBefore(i) => \E k \in 1..Len(undone) : undone[k] = i
    /\ result = "raised" => Len(completed) < N /\ undone = <<>> /\ cause = "none"

\* idempotency_key keeps the steps of a saga apart: a backend that ignores a
\* write whose key it has seen never drops the write of one step, or of an undo,
\* for the write of another step, or of a do.
KeysTellStepsApart ==
    \A c, d \in calls : c.key = d.key => c.step = d.step /\ c.block = d.block

\* The trace events of an invocation carry the intent of that invocation, also
\* when an earlier one was abandoned with its intent still on the stack, and
\* whatever the intent blocks inside the steps did to the two stacks.  It takes a
\* saga or a pipeline called from a step, and abandoned, to break it.
IntentIsOwn ==
    phase # "idle" /\ ~leaked =>
        /\ stacks.intents # <<>>
        /\ stacks.intents[Len(stacks.intents)] = inv

\* An undo attempt is made only for a step that has an undo block and completed
\* in this invocation, and no more often than MAX_ATTEMPTS allows: nothing is
\* compensated that did not happen.
OnlyCompletedUndone ==
    \A c \in calls :
        c.block = "undo" /\ c.inv = inv =>
            /\ c.step \in HasUndo
            /\ \E i \in 1..Len(completed) : completed[i] = StepName[c.step]

-----------------------------------------------------------------------------
(* The parts that make the invariants above inductive.                     *)

\* invoke_saga's forward loop never gets out of step with what it remembers:
\* the completed names are exactly those of the steps before the current one.
CompletedIsPrefix ==
    /\ Len(completed) = step - 1
    /\ \A i \in 1..(step - 1) : completed[i] = StepName[i]

\* What holds at each place of the interpreter.
Position ==
    /\ phase # "idle" => result = "none"
    /\ phase \in {"requires", "do"} => cause = "none"
    /\ phase \in {"do", "rollback", "undo"} => step <= N
    /\ phase \in {"rollback", "undo"} => cause # "none"
    /\ phase = "undo" => left > 0 /\ UndoTarget \in HasUndo

\* Where a key in `calls` comes from.
KeyOrigin ==
    \A c \in calls :
        /\ c.inv <= inv
        /\ c.block = "do" => c.key = DoKey(c.step)
        /\ c.block = "undo" =>
              /\ \E a \in 0..(MaxAttempts - 1) : c.key = UndoKey(c.step, a)
              /\ FirstNamed(StepName[c.step]) = c.step

\* The inductive invariant.
Inductive == /\ TypeOK /\ CompletedIsPrefix /\ ReverseCompensation /\ HonestResult
             /\ IntentIsOwn /\ OnlyCompletedUndone /\ Position /\ KeyOrigin
-----------------------------------------------------------------------------
\* The mapping onto SagaContract: clauses, writes and retries are stutters.
ContractState ==
    IF phase = "idle" THEN "idle"
    ELSE IF phase \in {"requires", "do"} THEN "forward" ELSE "backward"

Implements == INSTANCE SagaContract WITH
    Steps <- N,
    Label <- StepName,
    state <- ContractState,
    done <- Len(completed),
    compensated <- undone,
    report <- result

\* invoke_saga implements the contract of SagaContract, step by step and not name
\* by name: what the caller is told is what was done to each step, except for the
\* steps with an earlier namesake, which the contract sets apart.
ImplementsContract == Implements!CSpec

\* A saga call returns: undo retries are bounded, so neither loop can spin.
Returns == phase # "idle" ~> phase = "idle"

-----------------------------------------------------------------------------
(* Claims that the code does not meet (README, Findings): no run checks     *)
(* them, and TLC refutes each when it is added to the invariants of the run. *)

\* docs/language.md section 12.2: step.<name>.ok is what later `requires:` read,
\* and step_skip announces that the step is skipped; a step whose clause was not
\* true does not run its do block.
SkippedNeverRuns == phase = "do" => step \notin skipped

\* docs/language.md section 12.1: a failed step triggers the reverse-order undo of
\* all completed steps.  With two steps of one name the first is undone twice and
\* the other never.
EveryStepUndoneOnce ==
    result = "rolled_back" =>
        \A i \in 1..Len(completed) :
            Cardinality({k \in 1..Len(undone) : undone[k] = i}) = 1
=============================================================================
