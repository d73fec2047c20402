------------------------------ MODULE Evaluator ------------------------------
(***************************************************************************)
(* The tree walk of runtime/eval.rs: blocks and their scopes, control      *)
(* flow, match, catch, retry, loops, spawn, closures and their captured    *)
(* scopes, contracts and deferred blocks.                                  *)
(*                                                                         *)
(* The program is not fixed: whenever an expression or a statement is to   *)
(* be evaluated, any form of the set `forms` may come.  The Rust call      *)
(* stack is the sequence `frames`, one frame per active form, the          *)
(* innermost last.  Every call of a closure has an Env of its own, the     *)
(* last of `envs`.  In mode "step" the innermost frame takes its next      *)
(* step, in "expr" it waits for an expression to be evaluated, in "give"   *)
(* it receives `flow`, what a form inside it ended with.                   *)
(***************************************************************************)
EXTENDS Integers, Sequences, FiniteSets

CONSTANTS
    Vars,         \* the names a program reads
    Locals,       \* those it binds by let, for, match and catch
    Fn,           \* the name of the function of the module
    Param,        \* the name of the one parameter of every closure
    Result,       \* the name under which an ensures clause sees the result
    NoName,
    Families,     \* records [forms, choices]: a program uses forms of one set only
                  \* and evaluates at most so many of them over the whole run
    MaxFrames,    \* bound on the nesting of forms
    MaxTries      \* bound on the n of retry, on items of a for and arms of a match

ASSUME NamesAssumption ==
    /\ {Fn, Param, Result} \union Locals \subseteq Vars /\ NoName \notin Vars
ASSUME BoundsAssumption ==
    /\ {MaxFrames, MaxTries} \subseteq Nat
    /\ \A m \in Families : m.choices \in Nat

VARIABLES
    frames, envs, closures, mode, flow,
    forms, choices,  \* the forms of this program, and how many more it evaluates
    fatal            \* history: a contract was violated outside a deferred body
vars == <<frames, envs, closures, mode, flow, forms, choices, fatal>>

-----------------------------------------------------------------------------
(* Values, and what an evaluation ends with.                               *)

Plain == [tag |-> "plain", id |-> 0]           \* neither a result nor a closure
OkVal == [tag |-> "ok", id |-> 0]
ErrVal == [tag |-> "err", id |-> 0]
ClosureVal(c) == [tag |-> "closure", id |-> c]  \* 0 is the function of the module

Flow(k, v) == [kind |-> k, val |-> v]
NoFlow == Flow("none", Plain)
ValueFlow(v) == Flow("value", v)
Failed == Flow("failed", Plain)       \* any EvalError a construct raises itself
Raised == Flow("raised", Plain)
Violated == Flow("contract", Plain)

IsValue(f) == f.kind = "value"
IsError(f) == f.kind \in {"failed", "raised", "contract"}

\* Flow::into_value: a break, continue or return is stray in an operand.
IntoValue(f) == IF IsValue(f) \/ IsError(f) THEN f ELSE Failed

-----------------------------------------------------------------------------
(* Env: scopes of slots.                                                   *)

Slot(v, m) == [val |-> v, mut |-> m]
NoSlots == [x \in {} |-> Slot(Plain, FALSE)]

Visible(s, x) == \E i \in DOMAIN s : x \in DOMAIN s[i]

\* The innermost scope that binds x.
Holder(s, x) == CHOOSE i \in DOMAIN s : /\ x \in DOMAIN s[i]
                                        /\ \A j \in (i + 1)..Len(s) : x \notin DOMAIN s[j]

\* Env::lookup: the scopes from the innermost one, then the module.
Lookup(s, x) ==
    IF Visible(s, x) THEN ValueFlow(s[Holder(s, x)][x].val)
    ELSE IF x = Fn THEN ValueFlow(ClosureVal(0)) ELSE Failed

\* bind_let and bind_var: in the innermost scope, whatever it already binds.
Bind(s, x, slot) ==
    [s EXCEPT ![Len(s)] = [y \in DOMAIN s[Len(s)] \union {x} |->
                              IF y = x THEN slot ELSE s[Len(s)][y]]]

CanAssign(s, x) == Visible(s, x) /\ s[Holder(s, x)][x].mut
Assigned(s, x, v) == [s EXCEPT ![Holder(s, x)][x].val = v]

\* Env::snapshot keeps the values, from_snapshot makes every slot immutable.
Snapshot(s) == [i \in DOMAIN s |-> [x \in DOMAIN s[i] |-> s[i][x].val]]
FromSnapshot(c) ==
    IF c = <<>> THEN <<NoSlots>>
    ELSE [i \in DOMAIN c |-> [x \in DOMAIN c[i] |-> Slot(c[i][x], FALSE)]]

Captured(c) == IF c = 0 THEN <<>> ELSE closures[c]

\* The Env invoke_value makes: the captured scopes and one for the parameter.
\* `open` while it has a defer frame, `ran` the deferred bodies that were run.
CallEnv(c, v) ==
    [fn |-> c, open |-> TRUE, defers |-> <<>>, ran |-> <<>>,
     scopes |-> Bind(Append(FromSnapshot(Captured(c)), NoSlots), Param, Slot(v, FALSE))]

Last(s) == s[Len(s)]
ButLast(s) == SubSeq(s, 1, Len(s) - 1)

Env == Last(envs)
Scopes == Env.scopes
SetScopes(s) == envs' = [envs EXCEPT ![Len(envs)].scopes = s]
Push(s) == Append(s, NoSlots)

-----------------------------------------------------------------------------
(* Frames.  `use` is the place in the code of the form where it stands,    *)
(* `env` is the Env it is evaluated in, `depth` the number of scopes when  *)
(* it was entered.                                                         *)

Frame(k, u, d) == [kind |-> k, use |-> u, env |-> Len(envs), depth |-> d, left |-> 0,
                   name |-> NoName, mut |-> FALSE, seen |-> FALSE, ret |-> NoFlow]

Top == Last(frames)
Below == ButLast(frames)
WithTop(f) == Append(Below, f)

Eval(fs) == frames' = fs /\ mode' = "expr" /\ flow' = NoFlow
Step(fs) == frames' = fs /\ mode' = "step" /\ flow' = NoFlow
Give(fs, f) == frames' = fs /\ mode' = "give" /\ flow' = f

\* eval_value of the operand at place u of a form: its frame is named by u and
\* keeps the data n and i of the form.
Operand(u, n, i) == Eval(Append(frames, [Frame("value", u, Len(Scopes)) EXCEPT
                                            !.name = n, !.left = i]))

\* eval_block over the frames fs, in the scopes s.
Enter(fs, s) == SetScopes(Push(s)) /\ Step(Append(fs, Frame("block", "stmt", Len(s))))

Same == UNCHANGED <<closures, forms, choices, fatal>>
SameEnv == UNCHANGED envs /\ Same

\* The form f comes next: a choice of the program, which the bounds limit.
Chosen(f) ==
    /\ f \in forms /\ choices > 0 /\ Len(frames) < MaxFrames
    /\ choices' = choices - 1
    /\ UNCHANGED <<forms, fatal>>

-----------------------------------------------------------------------------
(* eval_block and eval_stmt.                                               *)

InBlock == mode = "step" /\ Top.kind = "block"

\* A block ends: its scope goes, whatever it ends with.
PopBlock(f) == SetScopes(ButLast(Scopes)) /\ Give(Below, f)

EndBlock == InBlock /\ PopBlock(ValueFlow(Plain)) /\ Same

\* Stmt::Expr, or the tail expression of the block.
ExprStmt(u) == InBlock /\ Eval(WithTop([Top EXCEPT !.use = u])) /\ SameEnv

\* Stmt::Let and Stmt::Var: the value is not an operand, `return` passes.
LetStmt(x, m) ==
    /\ InBlock /\ Chosen("Let")
    /\ Eval(Append(frames, [Frame("bind", "", Len(Scopes)) EXCEPT !.name = x, !.mut = m]))
    /\ UNCHANGED <<envs, closures>>

\* Stmt::Defer: onto the defer frame of this call, or nowhere once that frame
\* is gone.  The deferred body first reads n, if it is a name; `seen` says that
\* it could read it now.
DeferStmt(n) ==
    /\ InBlock /\ Chosen("Defer")
    /\ IF Env.open
       THEN envs' = [envs EXCEPT ![Len(envs)].defers =
                        Append(@, [name |-> n, seen |-> Visible(Scopes, n)])]
       ELSE UNCHANGED envs
    /\ Step(frames) /\ UNCHANGED closures

\* Stmt::For and Stmt::While begin with an operand.
LoopStmt(u, x) ==
    /\ InBlock /\ Chosen(IF u = "items" THEN "For" ELSE "While")
    /\ Operand(u, x, 0)
    /\ UNCHANGED <<envs, closures>>

-----------------------------------------------------------------------------
(* eval_expr: the forms without an operand.                                *)

Waiting == mode = "expr"

Literal(v) ==
    /\ Waiting /\ (v = Plain \/ "Result" \in forms)
    /\ Give(frames, ValueFlow(v)) /\ SameEnv

Ident(x) == Waiting /\ Chosen("Ident") /\ Give(frames, Lookup(Scopes, x))
            /\ UNCHANGED <<envs, closures>>

\* Any EvalError of a builtin, an operator or a conversion.
Fail == Waiting /\ Chosen("Fail") /\ Give(frames, Failed) /\ UNCHANGED <<envs, closures>>

\* A where clause of a record does not hold.  A model whose clauses do not hold
\* is a schema violation, one more way to Fail.
InDeferred == \E i \in DOMAIN frames : frames[i].kind = "deferred"
WhereFails ==
    /\ Waiting /\ "Contract" \in forms
    /\ Give(frames, Violated)
    /\ fatal' = (fatal \/ ~ InDeferred)
    /\ UNCHANGED <<envs, closures, forms, choices>>

\* break, continue and a return without a value.
Jump(k) ==
    /\ Waiting /\ Chosen("Jump")
    /\ Give(frames, Flow(k, Plain))
    /\ UNCHANGED <<envs, closures>>

\* `{ .. }`, `intent` and `timeout` blocks: their body ends as the block does.
BlockExpr ==
    /\ Waiting /\ Chosen("Block")
    /\ Enter(frames, Scopes) /\ UNCHANGED closures

\* A segment of an interpolated string is no operand: a control signal passes.
Interpolate ==
    /\ Waiting /\ Chosen("interp")
    /\ Eval(Append(frames, Frame("interp", "", Len(Scopes))))
    /\ UNCHANGED <<envs, closures>>

\* A scope of its own around the block, as eval_for and `catch` have one.
Spawn ==
    /\ Waiting /\ Chosen("Spawn")
    /\ Enter(Append(frames, Frame("spawn", "body", Len(Scopes))), Push(Scopes))
    /\ UNCHANGED closures

Lambda ==
    /\ Waiting /\ Chosen("Lambda")
    /\ closures' = Append(closures, Snapshot(Scopes))
    /\ Give(frames, ValueFlow(ClosureVal(Len(closures'))))
    /\ UNCHANGED envs

\* The forms that begin with an operand: `?`, raise, return, an operator, if,
\* match, retry, every and the callee of a call.
OperandForms == {"try", "raise", "return", "use", "if", "match", "retry", "every", "callee"}
FormOf(u) == CASE u \in {"raise", "return"} -> "Jump"
               [] u = "callee" -> "Call"
               [] OTHER -> u
OperandExpr(u) == Waiting /\ Chosen(FormOf(u)) /\ Operand(u, NoName, 0)
                  /\ UNCHANGED <<envs, closures>>

\* `e catch x { .. }` and `x = e`.
NamedForms == {"catch", "assign"}
NamedExpr(u, x) == Waiting /\ Chosen(u) /\ Operand(u, x, 0) /\ UNCHANGED <<envs, closures>>

-----------------------------------------------------------------------------
(* What a form does with its operand.                                      *)

Given(k) == mode = "give" /\ Top.kind = k
HasOperand(u) == Given("value") /\ Top.use = u /\ IsValue(flow)

\* eval_value: an error passes, a control signal becomes one.
OperandFails ==
    /\ Given("value") /\ ~ IsValue(flow)
    /\ Give(Below, IntoValue(flow))
    /\ SameEnv

Try == /\ HasOperand("try")
       /\ Give(Below, CASE flow.val = OkVal -> ValueFlow(Plain)
                        [] flow.val = ErrVal -> Raised
                        [] OTHER -> Failed)
       /\ SameEnv

Raise == HasOperand("raise") /\ Give(Below, Raised) /\ SameEnv
Return == HasOperand("return") /\ Give(Below, Flow("return", flow.val)) /\ SameEnv
Use == HasOperand("use") /\ Give(Below, ValueFlow(Plain)) /\ SameEnv

Assign ==
    /\ HasOperand("assign")
    /\ IF CanAssign(Scopes, Top.name)
       THEN SetScopes(Assigned(Scopes, Top.name, flow.val)) /\ Give(Below, ValueFlow(Plain))
       ELSE UNCHANGED envs /\ Give(Below, Failed)
    /\ Same

\* `if` without an else, on a condition of any type.
IfCond ==
    /\ HasOperand("if") /\ Same
    /\ \/ Enter(Below, Scopes)
       \/ Give(Below, ValueFlow(Plain)) /\ UNCHANGED envs
       \/ Give(Below, Failed) /\ UNCHANGED envs

\* `catch`: the handler runs on Err only, in a scope that binds the error.
Catch ==
    /\ HasOperand("catch") /\ Same
    /\ IF flow.val = ErrVal
       THEN Enter(Append(Below, Frame("handler", "body", Len(Scopes))),
                  Bind(Push(Scopes), Top.name, Slot(Plain, FALSE)))
       ELSE Give(Below, IF flow.val = OkVal THEN ValueFlow(Plain) ELSE Failed)
            /\ UNCHANGED envs

\* A callee that cannot be called fails after its arguments were evaluated.
Callee == HasOperand("callee") /\ SameEnv
          /\ Eval(WithTop([Top EXCEPT !.use = "arg", !.ret = flow]))

\* invoke_value: an Env of its own, and the requires clauses first.
Invoke ==
    /\ HasOperand("arg") /\ Same
    /\ LET f == Top.ret.val IN
         IF f.tag = "closure"
         THEN LET e == CallEnv(f.id, flow.val) IN
              /\ envs' = Append(envs, e)
              /\ Step(Append(Below, [Frame("call", "requires", Len(e.scopes)) EXCEPT
                                        !.env = @ + 1]))
         ELSE UNCHANGED envs /\ Give(Below, Failed)

-----------------------------------------------------------------------------
(* eval_match.  `left` counts the arms that are not tried yet.             *)

Match ==
    /\ HasOperand("match") /\ SameEnv
    /\ \E n \in 0..MaxTries :
         Step(Append(Below, [Frame("match", "arms", Len(Scopes)) EXCEPT !.left = n]))

Matching == mode = "step" /\ Top.kind = "match"

NoArm == Matching /\ Top.left = 0 /\ Give(Below, Failed) /\ SameEnv

\* The pattern does not match: the scope of the arm is pushed and popped.
ArmMisses == Matching /\ Top.left > 0 /\ Step(WithTop([Top EXCEPT !.left = @ - 1])) /\ SameEnv

\* The pattern binds x; the body of the arm is an expression, in its scope.
ArmMatches(x) ==
    /\ Matching /\ Top.left > 0 /\ Same
    /\ SetScopes(Bind(Push(Scopes), x, Slot(Plain, FALSE)))
    /\ Eval(WithTop([Top EXCEPT !.use = "body"]))

\* The arm has a guard, which is an operand.
ArmGuarded(x) ==
    /\ Matching /\ Top.left > 0 /\ Same
    /\ SetScopes(Bind(Push(Scopes), x, Slot(Plain, FALSE)))
    /\ Eval(Append(WithTop([Top EXCEPT !.use = "guard"]),
                   Frame("value", "guard", Len(Scopes) + 1)))

\* pattern_matches itself fails, on a literal pattern: `?` leaves eval_match
\* with the scope of the arm still pushed.
ArmFails == Matching /\ Top.left > 0 /\ Same
            /\ SetScopes(Push(Scopes)) /\ Give(Below, Failed)

\* Seeded fault: an arm whose guard is false keeps its scope.
BugGuard ==
    /\ HasOperand("guard") /\ SameEnv
    /\ \E u \in {"arms", "body"} :
         LET arm == [Last(Below) EXCEPT !.use = u, !.left = @ - 1]
             fs == Append(ButLast(Below), arm)
         IN  IF u = "body" THEN Eval(fs) ELSE Step(fs)

\* The guard is true, false or not a bool; the frame of the match is below it.
Guard ==
    /\ HasOperand("guard") /\ Same
    /\ LET arm == Last(Below)
           outer == ButLast(Below)
       IN  \/ Eval(Append(outer, [arm EXCEPT !.use = "body"])) /\ UNCHANGED envs
           \/ /\ Step(Append(outer, [arm EXCEPT !.use = "arms", !.left = @ - 1]))
              /\ SetScopes(ButLast(Scopes))
           \/ Give(outer, Failed) /\ SetScopes(ButLast(Scopes))

\* The body of an arm ends and its scope goes.  An error in the guard goes
\* through `?`, and the scope stays.
EndMatch ==
    /\ Given("match") /\ Same
    /\ Give(Below, flow)
    /\ IF Top.use = "guard" THEN UNCHANGED envs ELSE SetScopes(ButLast(Scopes))

-----------------------------------------------------------------------------
(* Expr::Retry.  `left` counts the attempts that are left.                 *)

\* The attempts n must be a positive int.
Retry ==
    /\ HasOperand("retry") /\ Same
    /\ \/ Give(Below, Failed) /\ UNCHANGED envs
       \/ \E n \in 1..MaxTries :
             Enter(Append(Below, [Frame("retry", "body", Len(Scopes)) EXCEPT !.left = n - 1]),
                   Scopes)

\* Seeded fault: any error of the body costs an attempt, as an Err does.
BugRetryAgain == Given("retry") /\ (flow = ValueFlow(ErrVal) \/ IsError(flow)) /\ Top.left > 0

RetryAgain == Given("retry") /\ flow = ValueFlow(ErrVal) /\ Top.left > 0
EndAttempt ==
    /\ Given("retry") /\ Same
    /\ IF RetryAgain
       THEN Enter(WithTop([Top EXCEPT !.left = @ - 1]), Scopes)
       ELSE /\ UNCHANGED envs
            /\ Give(Below, IF IsValue(flow) /\ flow.val \notin {OkVal, ErrVal}
                           THEN Failed ELSE flow)

-----------------------------------------------------------------------------
(* Loops: Expr::Every, Stmt::While and eval_for.                           *)

\* The delay of every must be a duration; the body then runs until a break.
Every ==
    /\ HasOperand("every") /\ Same
    /\ \/ Give(Below, Failed) /\ UNCHANGED envs
       \/ Enter(Append(Below, Frame("loop", "every", Len(Scopes))), Scopes)

\* The condition of a while, which is evaluated anew before each iteration.
While ==
    /\ HasOperand("cond") /\ Same
    /\ \/ Enter(Append(Below, Frame("loop", "while", Len(Scopes))), Scopes)
       \/ Give(Below, ValueFlow(Plain)) /\ UNCHANGED envs
       \/ Give(Below, Failed) /\ UNCHANGED envs

\* The items are collected first; each has a scope that binds the variable.
NextItem(loop, s) ==
    IF loop.left = 0
    THEN Give(Below, ValueFlow(Plain)) /\ SetScopes(s)
    ELSE Enter(Append(Below, [loop EXCEPT !.left = @ - 1]),
               Bind(Push(s), loop.name, Slot(Plain, FALSE)))
For ==
    /\ HasOperand("items") /\ Same
    /\ \/ Give(Below, Failed) /\ UNCHANGED envs
       \/ \E n \in 0..MaxTries :
             NextItem([Frame("loop", "for", Len(Scopes)) EXCEPT
                          !.left = n, !.name = Top.name], Scopes)

\* The body of a loop has ended: a break ends the loop, a return or an error
\* leaves it.
EndIteration ==
    /\ Given("loop") /\ Same
    /\ LET outside == IF Top.use = "for" THEN ButLast(Scopes) ELSE Scopes IN
         IF flow.kind \notin {"value", "continue"}
         THEN /\ Give(Below, IF flow.kind = "break" THEN ValueFlow(Plain) ELSE flow)
              /\ SetScopes(outside)
         ELSE CASE Top.use = "for" -> NextItem(Top, outside)
                [] Top.use = "every" -> Enter(frames, Scopes)
                [] OTHER -> /\ Eval(WithTop(Frame("value", "cond", Top.depth)))
                            /\ UNCHANGED envs

-----------------------------------------------------------------------------
(* Frames that only receive.                                               *)

\* A block: the next statement, or its end.
EndStmt ==
    /\ Given("block") /\ Same
    /\ IF IsValue(flow) /\ Top.use = "stmt" THEN Step(frames) /\ UNCHANGED envs
       ELSE PopBlock(flow)

EndLet ==
    /\ Given("bind") /\ Same
    /\ IF IsValue(flow)
       THEN SetScopes(Bind(Scopes, Top.name, Slot(flow.val, Top.mut))) /\ Give(Below, ValueFlow(Plain))
       ELSE UNCHANGED envs /\ Give(Below, flow)

EndInterp ==
    /\ Given("interp") /\ SameEnv
    /\ Give(Below, IF IsValue(flow) THEN ValueFlow(Plain) ELSE flow)

EndHandler == Given("handler") /\ PopBlock(flow) /\ Same

\* spawn confines break, continue and return, and its value is unit.
EndSpawn ==
    /\ Given("spawn") /\ Same
    /\ PopBlock(IF IsError(flow) THEN flow ELSE ValueFlow(Plain))

-----------------------------------------------------------------------------
(* invoke_value.                                                           *)

Calling(u) == mode = "step" /\ Top.kind = "call" /\ Top.use = u

\* The defer frame is taken off; `left` counts the bodies still to be run.
Drain(f) ==
    /\ Step(WithTop([Top EXCEPT !.use = "drain", !.ret = f, !.left = Len(Env.defers)]))
    /\ envs' = [envs EXCEPT ![Len(envs)].open = FALSE]

\* A clause evaluates to true, to something else or ends with the error f.
\* Only the function of the module has clauses.
Clause(f) ==
    /\ Env.fn = 0 /\ "Contract" \in forms
    /\ fatal' = (fatal \/ (f = Violated /\ ~ InDeferred))
    /\ UNCHANGED <<closures, forms, choices>>

Requires ==
    /\ Calling("requires")
    /\ \/ Enter(WithTop([Top EXCEPT !.use = "body"]), Scopes) /\ Same
       \/ \E f \in {Violated, Failed} : Drain(f) /\ Clause(f)

\* Seeded fault: an error of the body leaves the call at once.
BugEndBody ==
    /\ Given("call") /\ Same
    /\ IF IsError(flow)
       THEN Step(WithTop([Top EXCEPT !.use = "drain", !.ret = flow])) /\ UNCHANGED envs
       ELSE IF IsValue(flow) \/ flow.kind = "return"
       THEN /\ Step(WithTop([Top EXCEPT !.use = "ensures", !.ret = ValueFlow(flow.val)]))
            /\ UNCHANGED envs
       ELSE Drain(Failed)

\* The body has ended: ensures clauses are next unless it ended with an error.
EndBody ==
    /\ Given("call") /\ Same
    /\ IF flow.kind \in {"value", "return"}
       THEN /\ Step(WithTop([Top EXCEPT !.use = "ensures", !.ret = ValueFlow(flow.val)]))
            /\ UNCHANGED envs
       ELSE Drain(IF IsError(flow) THEN flow ELSE Failed)

\* The clauses see the result under a name bound in the scope of the parameter.
Ensures ==
    /\ Calling("ensures")
    /\ \/ Drain(Top.ret) /\ Same
       \/ /\ \E f \in {Top.ret, Violated, Failed} :
                /\ Step(WithTop([Top EXCEPT !.use = "drain", !.ret = f, !.left = Len(Env.defers)]))
                /\ Clause(f)
          /\ envs' = [envs EXCEPT ![Len(envs)].open = FALSE,
                                  ![Len(envs)].scopes = Bind(@, Result, Slot(Top.ret.val, FALSE))]

\* A deferred body, the last one registered first: it reads its name.
RunDeferred ==
    /\ Calling("drain") /\ Top.left > 0 /\ Same
    /\ LET d == Env.defers[Top.left]
           fs == Append(WithTop([Top EXCEPT !.left = @ - 1]),
                        [Frame("deferred", "body", Len(Scopes)) EXCEPT
                            !.name = d.name, !.seen = d.seen])
       IN  IF d.name = NoName THEN Eval(fs) ELSE Give(fs, Lookup(Scopes, d.name))
    /\ envs' = [envs EXCEPT ![Len(envs)].ran = Append(@, Top.left)]

\* Whatever a deferred body ends with is dropped.
EndDeferred == Given("deferred") /\ Step(Below) /\ SameEnv

\* The call is over and the caller, if there is one, gets its outcome.
Returns ==
    /\ Calling("drain") /\ Top.left = 0 /\ Same
    /\ frames' = Below /\ envs' = ButLast(envs) /\ flow' = Top.ret
    /\ mode' = IF Below = <<>> THEN "done" ELSE "give"

Ended == mode = "done" /\ UNCHANGED vars

-----------------------------------------------------------------------------

\* run_main invokes main, a function of the module.
Init ==
    /\ \E m \in Families : forms = m.forms /\ choices = m.choices
    /\ closures = <<>>
    /\ envs = <<CallEnv(0, Plain)>>
    /\ frames = <<Frame("call", "requires", 2)>>
    /\ mode = "step" /\ flow = NoFlow /\ fatal = FALSE

Statement ==
    \/ EndBlock
    \/ \E u \in {"stmt", "tail"} : ExprStmt(u)
    \/ \E x \in Locals, m \in BOOLEAN : LetStmt(x, m)
    \/ \E n \in Vars \union {NoName} : DeferStmt(n)
    \/ \E u \in {"items", "cond"}, x \in Locals : LoopStmt(u, x)

Expression ==
    \/ \E v \in {Plain, OkVal, ErrVal} : Literal(v)
    \/ \E x \in Vars : Ident(x)
    \/ Fail \/ WhereFails \/ Interpolate
    \/ \E k \in {"break", "continue", "return"} : Jump(k)
    \/ BlockExpr
    \/ Spawn
    \/ Lambda
    \/ \E u \in OperandForms : OperandExpr(u)
    \/ \E u \in NamedForms, x \in Locals : NamedExpr(u, x)

OperandDone ==
    \/ OperandFails \/ Try \/ Raise \/ Return \/ Use \/ Assign \/ IfCond
    \/ Catch \/ Callee \/ Invoke \/ Match \/ Guard \/ Retry \/ Every
    \/ While \/ For

FormDone ==
    \/ NoArm \/ ArmMisses \/ ArmFails \/ EndMatch
    \/ \E x \in Locals : ArmMatches(x) \/ ArmGuarded(x)
    \/ EndAttempt \/ EndIteration \/ EndStmt \/ EndLet \/ EndInterp \/ EndHandler \/ EndSpawn

CallStep ==
    \/ Requires \/ EndBody \/ Ensures \/ RunDeferred \/ EndDeferred \/ Returns

Next == Statement \/ Expression \/ OperandDone \/ FormDone \/ CallStep \/ Ended

Spec == Init /\ [][Next]_vars

-----------------------------------------------------------------------------
(* Properties.                                                             *)

Kinds == {"block", "bind", "value", "spawn", "handler", "match", "retry", "loop", "interp",
          "call", "deferred"}
Signals == {"none", "value", "break", "continue", "return", "failed", "raised", "contract"}
Values == {Plain, OkVal, ErrVal} \union {ClosureVal(c) : c \in 0..Len(closures)}
Flows == [kind : Signals, val : Values]

CallFrames == {i \in DOMAIN frames : frames[i].kind = "call"}

TypeOK ==
    /\ mode \in {"step", "expr", "give", "done"} /\ flow \in Flows
    /\ choices \in Nat /\ \E m \in Families : forms = m.forms /\ choices <= m.choices
    /\ \A i \in DOMAIN frames : LET f == frames[i] IN
          /\ f.kind \in Kinds /\ f.env \in 1..Len(envs) /\ f.depth \in Nat /\ f.left \in Nat
          /\ f.name \in Vars \union {NoName} /\ f.mut \in BOOLEAN /\ f.ret \in Flows
    /\ \A k \in DOMAIN envs : LET e == envs[k] IN
          /\ e.fn \in 0..Len(closures) /\ e.open \in BOOLEAN
          /\ \A i \in DOMAIN e.scopes : DOMAIN e.scopes[i] \subseteq Vars
    /\ fatal \in BOOLEAN
    /\ Cardinality(CallFrames) = Len(envs)
    /\ mode = "done" <=> frames = <<>>

\* How many scopes a form has open while what it contains is evaluated.
Own(f) == CASE f.kind \in {"block", "spawn", "handler"} -> 1
            [] f.kind = "match" /\ f.use \in {"guard", "body"} -> 1
            [] f.kind = "loop" /\ f.use = "for" -> 1
            [] OTHER -> 0

Depth(f) == f.depth + Own(f)
Draining(f) == f.kind = "call" /\ f.use = "drain"

\* The frame of the call that runs in the last Env.
ThisCall == frames[CHOOSE i \in CallFrames : \A j \in CallFrames : j <= i]

\* Scopes are pushed and popped by hand in every construct of eval.rs, with `?`
\* in between.  A form leaves as many scopes as it found, so that a name never
\* outlives its block: whatever is evaluated next, in a function that is not yet
\* being left, has the scopes of the forms around it and no other; an error on
\* its way out may have left more, and never fewer, so that the parameters of
\* the call are there for its deferred bodies.
ScopesBalanced ==
    frames # <<>> =>
        /\ Len(Scopes) >= Depth(Top)
        /\ ~ Draining(ThisCall) /\ ~ IsError(flow) => Len(Scopes) = Depth(Top)

\* docs/language.md section 18.5: deferred bodies run "in LIFO order" and "on
\* every exit path".  A call that hands over its outcome has run all the bodies
\* it had registered, each once, the last one first.
DefersRunInReverse ==
    [][Len(envs') < Len(envs) =>
          Env.ran = [i \in DOMAIN Env.defers |-> Len(Env.defers) + 1 - i]]_vars

\* value.rs, Closure: "closures capture by value (a `var` mutation outside the
\* closure does not leak in)".  A closure sees the values its free names had
\* when it was made, and cannot
\* change them: an assignment to one fails, it does not write a copy that the
\* next call would not see.
CapturedIsReadOnly ==
    \A k \in DOMAIN envs :
        LET c == Captured(envs[k].fn) IN
        \A i \in DOMAIN c :
            [x \in DOMAIN envs[k].scopes[i] |-> envs[k].scopes[i][x].val] = c[i]

\* docs/language.md section 18.4: a contract violation is fatal, no construct of
\* a program recovers from it.  Once a contract is violated outside a deferred
\* body, the violation is on its way out, nothing is evaluated any more but
\* deferred bodies, and the run ends with it.  (Clauses are outcomes in Evaluator:
\* what is violated while a clause of a model is evaluated, which the code turns
\* into a schema violation, is outside of it.)
ContractIsFatal ==
    fatal =>
        CASE mode = "done" -> flow = Violated
          [] mode = "give" /\ ~ InDeferred -> flow = Violated
          [] OTHER -> \E i \in DOMAIN frames :
                /\ Draining(frames[i]) /\ frames[i].ret = Violated
                /\ \A j \in 1..i : frames[j].kind # "deferred"
                /\ i < Len(frames) => frames[i + 1].kind = "deferred"

-----------------------------------------------------------------------------
(* A claim that the code does not meet (README, Findings): no run checks it, *)
(* and TLC refutes it when it is added to the invariants of the run.         *)

\* docs/plan.md line 425: a deferred statement "captures `let` bindings by
\* value".  A name it reads, which it could read where it was registered, is
\* there when it runs.
DeferSeesItsNames ==
    mode = "give" /\ Top.kind = "deferred" /\ Top.name # NoName /\ Top.seen
        => IsValue(flow)
=============================================================================
