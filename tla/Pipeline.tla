------------------------------ MODULE Pipeline ------------------------------
(***************************************************************************)
(* The pipeline interpreter: invoke_pipeline_run and invoke_pipeline.  A   *)
(* declaration is run up to MaxRuns times, one run after another.  User    *)
(* code decides the arguments, how each step and each hook ends, and which *)
(* writes a step issues.  A value or a message is identified by the step   *)
(* it comes from.                                                          *)
(***************************************************************************)
EXTENDS TraceStack

CONSTANTS
    N,          \* number of steps
    Labels,
    Label,      \* label of each step, step_<i> where none is written
    Bound,      \* the steps with an `as` binding
    Params,     \* the declared parameters
    ArgLists,   \* the argument lists the program calls Name.run with
    MaxRuns     \* bound: runs of the pipeline

ASSUME PipelineAssumption ==
    /\ N \in Nat
    /\ Label \in [1..N -> Labels]
    /\ Bound \subseteq 1..N
    /\ MaxRuns \in Nat

\* Parameter lists and argument lists are sequences.
ASSUME ArgsAssumption ==
    /\ Params \in Seq({Params[p] : p \in DOMAIN Params})
    /\ \A as \in ArgLists : as \in Seq({as[k] : k \in DOMAIN as})

VARIABLES
    hooks,      \* the hooks the declaration has
    phase,      \* where the interpreter is
    onError,    \* "stop" or "continue"
    i,          \* the step the loop is at, 1..N+1
    env,        \* the implicit variables and the `as` bindings
    succeeded,  \* steps with a step_exit "ok" event
    skipped,    \* steps skipped under "continue", in order
    cause,      \* how the last failed step failed
    message,    \* label and reason in the Err a stopped run returns
    calls,      \* keyed writes handed to backends, over the whole program
    stacks,     \* the tracer's stacks; an intent is the run it belongs to
    leaked,     \* user code of this run called a saga or a pipeline that was
                \* abandoned
    runs,
    result      \* what the last run returned

vars == <<hooks, phase, onError, i, env, succeeded, skipped, cause,
          message, calls, stacks, leaked, runs, result>>

Hooks == {"on_step", "on_failure"}
Phases == {"idle", "loop", "step", "on_step", "on_failure", "stopped"}
Results == {"none", "ok", "completed_with_skips", "stopped", "raised", "refused"}

\* How a step fails: an Err value, a raised error (`return`, `break` and
\* `continue` in a step are one), or a contract or policy violation.  The
\* interpreter treats them alike.
Failures == {"err", "raised", "fatal"}

NoStep == 0
NoLabel == "no label"
NoMessage == <<>>
FreshEnv == [last_step |-> NoLabel, last_output |-> NoStep, last_error |-> NoStep,
             outputs |-> {}]

\* idempotency_key(trace_id, label, i), the hash taken as injective.
StepKey(s) == <<Label[s], s - 1>>
-----------------------------------------------------------------------------
(* bind_pipeline_args: how the arguments of Name.run(...) reach the        *)
(* declared parameters.  An argument is the name it is given, or           *)
(* Positional; its value is identified by its position in the call.        *)

Positional == "positional"

\* Where the value of a parameter comes from when no argument gives it: the
\* `cap` in scope at the call.
Ambient == 0

\* A slot no argument has filled.
Empty == -1

Filled(slots) == {p \in DOMAIN slots : slots[p] # Empty}

\* Seeded fault: a positional argument goes to the next slot, filled or not.
BugFirstFree(slots, pos) == IF pos \in DOMAIN slots THEN pos ELSE 0

\* The slot the next positional argument takes: the first empty one from `pos`
\* on, 0 if there is none.
FirstFree(slots, pos) ==
    LET free == {p \in DOMAIN slots : p >= pos /\ slots[p] = Empty}
    IN IF free = {} THEN 0 ELSE CHOOSE p \in free : \A q \in free : p <= q

\* The slot the k-th argument goes to, 0 when the call is an error: an unknown
\* parameter, one bound twice, or one argument too many.
SlotOf(params, args, k, slots, pos) ==
    IF args[k] = Positional THEN FirstFree(slots, pos)
    ELSE LET named == {p \in DOMAIN params : params[p] = args[k]}
         IN IF named = {} THEN 0
            ELSE LET p == CHOOSE q \in named : \A r \in named : q <= r
                 IN IF slots[p] = Empty THEN p ELSE 0

\* The k-th turn of the loop over the arguments: the slots, the next position to
\* try, and whether every argument so far found a slot.
Place(params, args, k, s) ==
    LET p == SlotOf(params, args, k, s.slots, s.pos)
    IN IF ~s.ok \/ p = 0 THEN [slots |-> s.slots, pos |-> s.pos, ok |-> FALSE]
       ELSE [slots |-> [s.slots EXCEPT ![p] = k],
             pos |-> IF args[k] = Positional THEN p + 1 ELSE s.pos,
             ok |-> TRUE]

Unplaced(params) == [slots |-> [p \in DOMAIN params |-> Empty], pos |-> 1, ok |-> TRUE]

\* The loop.
Placed(params, args) ==
    LET place[k \in 0..Len(args)] ==
            IF k = 0 THEN Unplaced(params) ELSE Place(params, args, k, place[k - 1])
    IN place[Len(args)]

\* The parameters left empty that the ambient capability may fill.
Fillable(params, capInScope) ==
    IF capInScope THEN {p \in DOMAIN params : params[p] = "cap"} ELSE {}

Binds(params, args, capInScope) ==
    LET s == Placed(params, args)
    IN s.ok /\ DOMAIN params \ Filled(s.slots) \subseteq Fillable(params, capInScope)

\* The argument each parameter is bound to.
Binding(params, args) ==
    LET slots == Placed(params, args).slots
    IN [p \in DOMAIN params |-> IF slots[p] = Empty THEN Ambient ELSE slots[p]]

-----------------------------------------------------------------------------
Init ==
    /\ hooks \in SUBSET Hooks
    /\ phase = "idle" /\ onError = "stop"
    /\ i = 1 /\ env = FreshEnv /\ succeeded = {} /\ skipped = <<>>
    /\ cause = "none" /\ message = NoMessage
    /\ calls = {}
    /\ stacks = EmptyStacks /\ leaked = FALSE
    /\ runs = 0 /\ result = "none"

\* An argument that fails, an on_error that is neither "stop" nor "continue", or
\* arguments that do not bind: the call fails before anything is traced.
Refuse ==
    /\ phase = "idle" /\ runs < MaxRuns
    /\ runs' = runs + 1
    /\ result' = "refused"
    /\ UNCHANGED <<hooks, phase, onError, i, env, succeeded, skipped, cause,
                   message, calls, stacks, leaked>>

\* Some argument list binds, the capability being in scope or not.  What the
\* parameters are bound to is looked at in ArgsBoundOnce.
CanBind == \E as \in ArgLists, capInScope \in BOOLEAN : Binds(Params, as, capInScope)

Start(mode) ==
    /\ phase = "idle" /\ runs < MaxRuns
    /\ CanBind
    /\ phase' = "loop" /\ onError' = mode
    /\ i' = 1 /\ env' = FreshEnv /\ succeeded' = {} /\ skipped' = <<>>
    /\ cause' = "none" /\ message' = NoMessage
    /\ stacks' = IntentEnter(stacks, runs + 1, "pipeline") /\ leaked' = FALSE
    /\ runs' = runs + 1 /\ result' = "none"
    /\ UNCHANGED <<hooks, calls>>

\* Seeded fault: last_step is set when a step has succeeded.
BugStepEnterKeepsLastStep ==
    /\ phase = "loop" /\ i <= N
    /\ phase' = "step"
    /\ UNCHANGED <<hooks, onError, i, env, succeeded, skipped, cause, message,
                   calls, stacks, runs, result, leaked>>

StepEnter ==
    /\ phase = "loop" /\ i <= N
    /\ phase' = "step"
    /\ env' = [env EXCEPT !.last_step = Label[i]]
    /\ UNCHANGED <<hooks, onError, i, succeeded, skipped, cause, message, calls,
                   stacks, runs, result, leaked>>

\* The step issues a write in its own expression.  (Inside a function it calls,
\* and in the hooks, writes carry no key.)
WriteCall ==
    /\ phase = "step"
    /\ calls' = calls \union {[key |-> StepKey(i), step |-> i, run |-> runs]}
    /\ UNCHANGED <<hooks, phase, onError, i, env, succeeded, skipped, cause,
                   message, stacks, runs, result, leaked>>

InUserCode == phase \in {"step", "on_step", "on_failure"}

\* The step or the hook runs an intent block (intent 0, no scope).
BodyIntentBlock ==
    /\ InUserCode
    /\ stacks' = IntentExit(IntentEnter(stacks, 0, NoScope))
    /\ UNCHANGED <<hooks, phase, onError, i, env, succeeded, skipped, cause,
                   message, calls, runs, result, leaked>>

\* The step or the hook calls another pipeline or a saga (intent 0), and a hook
\* or a requires clause of that one raises: its intent and scope stay on the
\* stacks.  Bound: once per run.
NestedAbandoned ==
    /\ InUserCode /\ ~leaked
    /\ stacks' = IntentEnter(stacks, 0, "pipeline")
    /\ leaked' = TRUE
    /\ UNCHANGED <<hooks, phase, onError, i, env, succeeded, skipped, cause,
                   message, calls, runs, result>>
-----------------------------------------------------------------------------

StepOk ==
    /\ phase = "step"
    /\ succeeded' = succeeded \union {i}
    /\ env' = [env EXCEPT !.last_output = i,
                          !.outputs = @ \union ({i} \intersect Bound)]
    /\ IF "on_step" \in hooks
       THEN phase' = "on_step" /\ UNCHANGED i
       ELSE phase' = "loop" /\ i' = i + 1
    /\ UNCHANGED <<hooks, onError, skipped, cause, message, calls, stacks, runs,
                   result, leaked>>

\* What every failure does: step_exit "err" and last_error.
StepFails ==
    /\ phase = "step"
    /\ cause' \in Failures
    /\ env' = [env EXCEPT !.last_error = i]
    /\ UNCHANGED <<hooks, onError, succeeded, message, calls, stacks, runs,
                   result, leaked>>

StepSkipped ==
    /\ onError = "continue" /\ StepFails
    /\ skipped' = Append(skipped, i)
    /\ phase' = "loop" /\ i' = i + 1

StepStops ==
    /\ onError = "stop" /\ StepFails
    /\ phase' = IF "on_failure" \in hooks THEN "on_failure" ELSE "stopped"
    /\ UNCHANGED <<skipped, i, leaked>>

StepHookDone ==
    /\ phase = "on_step"
    /\ phase' = "loop" /\ i' = i + 1
    /\ UNCHANGED <<hooks, onError, env, succeeded, skipped, cause, message,
                   calls, stacks, runs, result, leaked>>

FailureHookDone ==
    /\ phase = "on_failure"
    /\ phase' = "stopped"
    /\ UNCHANGED <<hooks, onError, i, env, succeeded, skipped, cause, message,
                   calls, stacks, runs, result, leaked>>

\* A hook that fails leaves invoke_pipeline through `?`: no pipeline_exit and no
\* intent_exit.
HookRaises ==
    /\ phase \in {"on_step", "on_failure"}
    /\ phase' = "idle"
    /\ result' = "raised"
    /\ UNCHANGED <<hooks, onError, i, env, succeeded, skipped, cause, message,
                   calls, stacks, runs, leaked>>

\* pipeline_exit, intent_exit, and back to the caller.
Return(r) ==
    /\ phase' = "idle"
    /\ result' = r
    /\ stacks' = IntentExit(stacks)
    /\ UNCHANGED <<hooks, onError, i, env, succeeded, skipped, cause, calls,
                   runs, leaked>>

Stop ==
    /\ phase = "stopped"
    /\ message' = <<env.last_step, i>>
    /\ Return("stopped")

\* Seeded fault: the skipped steps are not looked at.
BugFinishForgetsSkips ==
    /\ phase = "loop" /\ i = N + 1
    /\ Return("ok")
    /\ UNCHANGED message

Finish ==
    /\ phase = "loop" /\ i = N + 1
    /\ Return(IF skipped = <<>> THEN "ok" ELSE "completed_with_skips")
    /\ UNCHANGED message
-----------------------------------------------------------------------------
Call == Refuse \/ \E mode \in {"stop", "continue"} : Start(mode)
Loop == StepEnter \/ StepOk \/ StepSkipped \/ StepStops \/ Stop \/ Finish
HookEnds == StepHookDone \/ FailureHookDone \/ HookRaises
Body == WriteCall \/ BodyIntentBlock \/ NestedAbandoned

Next == Call \/ Loop \/ HookEnds \/ Body

Spec == Init /\ [][Next]_vars

-----------------------------------------------------------------------------
(* Properties.                                                             *)

Envs == [last_step : Labels \union {NoLabel}, last_output : 0..N,
         last_error : 0..N, outputs : SUBSET Bound]

TypeOK ==
    /\ hooks \subseteq Hooks
    /\ phase \in Phases
    /\ onError \in {"stop", "continue"}
    /\ i \in 1..(N + 1)
    /\ env \in Envs
    /\ succeeded \subseteq 1..N
    /\ skipped \in Seq(1..N)
    /\ cause \in Failures \union {"none"}
    /\ message \in (Labels \X (1..N)) \union {NoMessage}
    /\ calls \subseteq [key : Labels \X Nat, step : 1..N, run : Nat]
    /\ stacks \in [intents : Seq(Nat), scopes : Seq({"pipeline"})]
    /\ leaked \in BOOLEAN
    /\ runs \in Nat
    /\ result \in Results

SkippedSteps == {skipped[k] : k \in 1..Len(skipped)}

\* The step the interpreter has not finished with: it may or may not be in
\* `succeeded` yet.
Behind == 1..(i - 1)

\* Every step behind the loop either succeeded or was skipped, never both and
\* never neither, and the run reports exactly that: "ok" when all N succeeded,
\* "completed_with_skips" when all were tried and some failed, "stopped" when the
\* first failure ended it, with the label of the failed step in the message.
HonestOutcome ==
    /\ succeeded \intersect SkippedSteps = {}
    /\ phase \in {"loop", "step"} => succeeded \union SkippedSteps = Behind
    /\ onError = "stop" => skipped = <<>>
    /\ result = "ok" => succeeded = 1..N
    /\ result = "completed_with_skips" =>
          /\ onError = "continue" /\ skipped # <<>>
          /\ succeeded \union SkippedSteps = 1..N
    /\ result = "stopped" =>
          /\ onError = "stop" /\ succeeded = Behind /\ i \in 1..N
          /\ message = <<Label[i], i>>

\* The steps that ended well so far, the latest of them, and the latest failure.
Last(S) == IF S = {} THEN NoStep ELSE CHOOSE s \in S : \A r \in S : r <= s

\* invoke_pipeline keeps the implicit variables in step with the run: whatever
\* hook or step reads them, last_step is the step at hand, last_output and the
\* `as` bindings come from the steps that succeeded, last_error from the latest
\* one that failed, and on_failure sees the failure it was called for.
EnvTellsTruth ==
    phase # "idle" =>
        /\ phase # "loop" => env.last_step = Label[i]
        /\ env.last_output = Last(succeeded)
        /\ env.outputs = succeeded \intersect Bound
        /\ phase \in {"loop", "step", "on_step"} => env.last_error = Last(SkippedSteps)
        /\ phase \in {"on_failure", "stopped"} => env.last_error = i

\* Two steps never present the same idempotency key, whatever their labels.
KeysTellStepsApart == \A c, d \in calls : c.key = d.key => c.step = d.step

\* Events of a run carry the intent of that run, also when a hook that failed
\* left the intent of an earlier run on the stack, and whatever the intent
\* blocks in steps and hooks did to the two stacks.  It takes a pipeline or a
\* saga called from a step or a hook, and abandoned, to break it.
IntentIsOwn ==
    phase # "idle" /\ ~leaked =>
        /\ stacks.intents # <<>>
        /\ stacks.intents[Len(stacks.intents)] = runs

\* An assignment of the arguments to the parameters: no two share one, a named
\* argument has the first parameter of that name, a positional one the first
\* parameter that no argument before it has.
Assigns(as, f) ==
    /\ \A j, k \in 1..Len(as) : f[j] = f[k] => j = k
    /\ \A k \in 1..Len(as) :
          LET free == DOMAIN Params \ {f[j] : j \in 1..(k - 1)}
          IN IF as[k] = Positional THEN f[k] \in free /\ \A p \in free : f[k] <= p
             ELSE /\ Params[f[k]] = as[k]
                  /\ \A p \in DOMAIN Params : Params[p] = as[k] => f[k] <= p

\* The parameters that have no argument can come from the scope of the call.
Covers(as, f, capInScope) ==
    \A p \in DOMAIN Params :
        (\A k \in 1..Len(as) : f[k] # p) => capInScope /\ Params[p] = "cap"

Assignments(as, capInScope) ==
    {f \in [1..Len(as) -> DOMAIN Params] : Assigns(as, f) /\ Covers(as, f, capInScope)}

\* bind_pipeline_args loses no argument and binds no parameter twice: it accepts
\* a call exactly when such an assignment exists, and then binds by it.  (Binding
\* looks at the call alone, so it is enough to ask before the first run.)
ArgsBoundOnce ==
    runs = 0 =>
    \A as \in ArgLists, capInScope \in BOOLEAN :
        /\ Binds(Params, as, capInScope) <=> Assignments(as, capInScope) # {}
        /\ \A f \in Assignments(as, capInScope), p \in DOMAIN Params :
              LET k == Binding(Params, as)[p]
              IN IF k = Ambient THEN \A j \in 1..Len(as) : f[j] # p ELSE f[k] = p

-----------------------------------------------------------------------------
(* The parts that make the invariants above inductive.                     *)

\* What holds at each place of the interpreter.
Position ==
    /\ phase # "idle" => result = "none"
    /\ phase \in {"step", "on_step", "on_failure", "stopped"} => i <= N
    /\ phase = "on_step" =>
          i \in succeeded /\ succeeded \union SkippedSteps = 1..i
    /\ phase \in {"on_failure", "stopped"} =>
          onError = "stop" /\ succeeded = Behind /\ SkippedSteps = {}

\* Where a key in `calls` comes from.
KeyOrigin == \A c \in calls : c.key = StepKey(c.step)

\* The inductive invariant.
Inductive == TypeOK /\ HonestOutcome /\ EnvTellsTruth /\ IntentIsOwn /\ Position /\ KeyOrigin
-----------------------------------------------------------------------------
(* A claim that the code does not meet (README, Findings): no run checks it, *)
(* and TLC refutes it when it is added to the invariants of the run.         *)

\* docs/language.md section 11.3: a contract or policy violation is not turned
\* into a step failure by either mode: the run that meets one does not return.
FatalStaysFatal == phase = "idle" /\ cause = "fatal" => result = "raised"
=============================================================================
