-------------------------------- MODULE Caps --------------------------------
(***************************************************************************)
(* A program under its capabilities (runtime/eval.rs).  The frames of the  *)
(* running functions each see a binding named `cap`; cap.subset[..] makes  *)
(* a narrower one; a call of a builtin goes through the policies of the    *)
(* module (apply_policies), the arguments, the check of the cap in scope,  *)
(* the effects of the handler and the trace event, one step each, and any  *)
(* of them can end the call with an error.  The ways to the model that     *)
(* eval_call does not dispatch go by the policies.                         *)
(***************************************************************************)
EXTENDS Builtins

CONSTANTS
    Manifests,   \* the aeris.toml the program may be started with
    Narrowings,  \* the caps that cap.subset[..] expressions ask for
    Signatures,  \* the caps that functions declare for their parameter `cap`
    Calls,       \* the builtin calls: [module, op, args], args of [name, value]
    Policies,    \* the `policy` declarations of the module, in order
    ActiveNames, \* aeris.toml [policies] active, {} when it is not given
    MaxFrames,   \* bound: functions that are running
    MaxRetries,  \* bound: the retries of ai.decide and agents, rounds of a network
    NotACap,     \* `cap` is bound to another kind of value
    Undeclared   \* the function declares no parameter `cap`

VARIABLES
    root,      \* the cap main was given
    enforce,   \* caps.enforce: "strict", "loose" or "off"
    stack,     \* frames: [cap, lineage, sig], the running function last
    doing,     \* "body", "policy", "args", "check", "handler", "raised"
    call,      \* the builtin call under way: [module, op, args, vals]
    clause,    \* position in the policies and in the clauses of the policy
    verdicts,  \* outcomes of the clauses evaluated for this call
    at,        \* position in the steps of the handler
    effects,   \* targets this call has touched, in order
    events,    \* events this call has recorded
    outcome    \* "none", "value", "errvalue", "refused", "raised"

capVars == <<root, enforce, stack, doing, call, clause, verdicts, at, effects, events, outcome>>
callVars == <<call, clause, verdicts, at, effects, events, outcome>>

ASSUME CapsAssumption ==
    /\ \A m \in Manifests : m.read = "parsed" =>
          \A list \in {m.caps.http_allow, m.caps.fs_allow_read, m.caps.fs_allow_write,
                       m.caps.kube_contexts, m.caps.ai_models} : IsAllowList(list)
    /\ \A c \in Narrowings : IsCap(c)
    /\ \A c \in Calls : IsList(c.args)
    /\ IsList(Policies)
    /\ \A p \in Members(Policies) :
          {p.when, p.require, p.deny, p.audit, p.limit} \subseteq Nat

NoCall == [module |-> "none", op |-> "none", args |-> <<>>, vals |-> <<>>]

Top == stack[Len(stack)]
Frame(cap, lineage, sig) == [cap |-> cap, lineage |-> lineage, sig |-> sig]
Holds(f) == f.cap # NotACap

----------------------------------------------------------------------------
(* Policies.                                                               *)

\* select_active_policies keeps all of them when no name is listed; a listed name
\* that no policy has keeps none.
Active(p) == ActiveNames = {} \/ p.name \in ActiveNames

\* match_pattern_covers over the values of the first `match`.
PolicyCovers(p, module, op) ==
    \E pat \in p.match : pat \in {<<module>>, <<module, op>>, <<module, "*">>}

Clauses(p) ==
    LET times(kind, n) == [i \in 1..n |-> kind]
    IN  times("when", p.when) \o times("require", p.require) \o times("deny", p.deny)
        \o times("audit", p.audit) \o times("limit", p.limit)

ClauseOutcomes == {"true", "false", "other"}

\* Seeded fault: a require clause that is not a Bool counts as met.
BugVerdict(kind, o) ==
    CASE kind = "when" -> IF o = "true" THEN "next" ELSE "skip"
      [] kind = "require" -> IF o = "false" THEN "refuse" ELSE "next"
      [] kind = "deny" -> IF o = "true" THEN "refuse" ELSE "next"
      [] OTHER -> "next"

\* What a clause does to the call: it goes on, leaves the policy, or is refused.
Verdict(kind, o) ==
    CASE kind = "when" -> IF o = "true" THEN "next" ELSE "skip"
      [] kind = "require" -> IF o = "true" THEN "next" ELSE "refuse"
      [] kind = "deny" -> IF o = "true" THEN "refuse" ELSE "next"
      [] OTHER -> "next"

CurrentPolicy == Policies[clause.policy]
\* A clause of a policy that is active and about the operation is due.
ClauseDue ==
    /\ doing = "policy" /\ clause.policy <= Len(Policies)
    /\ Active(CurrentPolicy) /\ PolicyCovers(CurrentPolicy, call.module, call.op)
    /\ clause.at <= Len(Clauses(CurrentPolicy))

----------------------------------------------------------------------------
\* The last call is over for good when the functions that run change.
DropCall ==
    /\ call' = NoCall /\ clause' = [policy |-> 1, at |-> 1] /\ verdicts' = {}
    /\ at' = 1 /\ effects' = <<>> /\ events' = 0 /\ outcome' = "none"

CapInit ==
    /\ \E m \in Manifests :
          /\ root = MainCap(m)
          /\ enforce = IF m.read = "parsed" THEN m.caps.enforce ELSE "strict"
    /\ \E s \in Signatures \union {Undeclared} : stack = << Frame(root, <<root>>, s) >>
    /\ doing = "body"
    /\ call = NoCall /\ clause = [policy |-> 1, at |-> 1] /\ verdicts = {}
    /\ at = 1 /\ effects = <<>> /\ events = 0 /\ outcome = "none"

\* A function with a parameter `cap` is given the caller's value as it is: the
\* type it declares for the parameter, allow-lists included, narrows nothing.
Enter(sig) ==
    /\ doing = "body" /\ Len(stack) < MaxFrames /\ Holds(Top)
    /\ stack' = Append(stack, Frame(Top.cap, Top.lineage, sig))
    /\ DropCall /\ UNCHANGED <<root, enforce, doing>>

\* A function without one finds the cap of main in the scope of the module,
\* which the checker lets pass unless enforce = "strict".
EnterWithoutCap ==
    /\ doing = "body" /\ Len(stack) < MaxFrames /\ enforce # "strict"
    /\ stack' = Append(stack, Frame(root, <<root>>, Undeclared))
    /\ DropCall /\ UNCHANGED <<root, enforce, doing>>

\* `let cap = ...` hides the cap behind another value.
Shadow ==
    /\ doing = "body" /\ Len(stack) < MaxFrames
    /\ stack' = Append(stack, [Top EXCEPT !.cap = NotACap])
    /\ DropCall /\ UNCHANGED <<root, enforce, doing>>

\* eval_cap_narrow, its result bound to `cap` in the rest of the block or
\* passed to a function.
Narrow(child) ==
    /\ doing = "body" /\ Len(stack) < MaxFrames
    /\ IF Holds(Top) /\ Covers(Top.cap, child)
       THEN /\ stack' = Append(stack, Frame(child, Append(Top.lineage, child), Top.sig))
            /\ doing' = doing
       ELSE stack' = stack /\ doing' = "raised"
    /\ DropCall /\ UNCHANGED <<root, enforce>>

Leave ==
    /\ doing = "body" /\ Len(stack) > 1
    /\ stack' = SubSeq(stack, 1, Len(stack) - 1)
    /\ DropCall /\ UNCHANGED <<root, enforce, doing>>

\* An error leaves functions up to one that goes on after it (a pipeline with
\* on_failure "continue", an agent that is tried again).
Unwind(n) ==
    /\ doing = "raised"
    /\ stack' = SubSeq(stack, 1, n)
    /\ doing' = "body"
    /\ DropCall /\ UNCHANGED <<root, enforce>>

\* The checker lets a function call what its signature lists, by name or by
\* module, and what is not an operation of the capability tree.
Resolves(sig, c) ==
    \/ enforce = "off" \/ ~IsCapOp(c.module, c.op) \/ ~Dispatched(c.module, c.op)
    \/ sig = Undeclared /\ enforce = "loose"
    \/ sig # Undeclared /\ \E e \in Members(sig.entries) : Names(e, c.module, c.op)

\* eval_call dispatches a builtin: named arguments are put in the order of its
\* parameters, then evaluated, which may raise, and the policies are next.  The
\* methods of records, agents and assert_semantic are handled without them.
Call(c) ==
    /\ doing = "body" /\ Resolves(Top.sig, c)
    /\ LET vals == Reorder(ParamNames(c.module, c.op), c.args)
           next == IF Dispatched(c.module, c.op) THEN "policy" ELSE "args"
       IN  /\ doing' \in (IF vals = KwargError THEN {"raised"} ELSE {next, "raised"})
           /\ call' = [module |-> c.module, op |-> c.op, args |-> c.args, vals |-> vals]
    /\ clause' = [policy |-> 1, at |-> 1] /\ verdicts' = {}
    /\ at' = 1 /\ effects' = <<>> /\ events' = 0 /\ outcome' = "none"
    /\ UNCHANGED <<root, enforce, stack>>

PoliciesDone ==
    /\ doing = "policy" /\ clause.policy > Len(Policies)
    /\ doing' = "args"
    /\ UNCHANGED <<root, enforce, stack>> /\ UNCHANGED callVars

NextPolicy ==
    /\ doing = "policy" /\ clause.policy <= Len(Policies) /\ ~ClauseDue
    /\ clause' = [policy |-> clause.policy + 1, at |-> 1]
    /\ UNCHANGED <<root, enforce, stack, doing, call, verdicts, at, effects, events, outcome>>

\* One clause is evaluated; audit and limit clauses record an event.
Clause(o) ==
    /\ ClauseDue
    /\ LET kind == Clauses(CurrentPolicy)[clause.at]
           v == Verdict(kind, o)
       IN  /\ verdicts' = verdicts \union {[policy |-> clause.policy, at |-> clause.at,
                                            kind |-> kind, outcome |-> o]}
           /\ clause' = CASE v = "skip" -> [policy |-> clause.policy + 1, at |-> 1]
                          [] v = "next" -> [clause EXCEPT !.at = @ + 1]
                          [] v = "refuse" -> clause
           /\ doing' = IF v = "refuse" THEN "raised" ELSE doing
           /\ outcome' = IF v = "refuse" THEN "refused" ELSE outcome
           /\ events' = IF kind \in {"audit", "limit"} THEN events + 1 ELSE events
    /\ UNCHANGED <<root, enforce, stack, call, at, effects>>

----------------------------------------------------------------------------
(* The handler.                                                            *)

\* The call ends with an error that is raised.
Fail(why) ==
    /\ outcome' = why /\ doing' = "raised"
    /\ UNCHANGED <<root, enforce, stack, call, clause, verdicts, at, effects, events>>

\* A clause, an argument, an effect or a reply fails.
Raise ==
    /\ \/ ClauseDue
       \/ doing = "args"
       \/ doing = "handler" /\ at <= Len(Steps(call.module, call.op))
          /\ Steps(call.module, call.op)[at] \in {"late", "act", "stages", "decode"}
    /\ Fail("raised")

\* What is read before the check must be in order (arity_check and the kinds of
\* the arguments): shell.pipe takes a list of stages that is not empty.
ArgsFit ==
    /\ <<call.module, call.op>> = <<"shell", "pipe">> =>
          /\ Len(call.vals) = 1
          /\ IsList(call.vals[1]) /\ call.vals[1] # <<>>
    /\ <<call.module, call.op>> = <<"fs", "rename">> => Len(call.vals) = 2

ArgsRead ==
    /\ doing = "args" /\ ArgsFit /\ doing' = "check"
    /\ UNCHANGED <<root, enforce, stack>> /\ UNCHANGED callVars

\* A cap is needed as soon as the operation is checked at all and the refusal is
\* not swallowed.
Refuse ==
    /\ doing = "check" /\ ~NeverRefused(call.module, call.op)
    /\ \/ ~Holds(Top)
       \/ Holds(Top) /\ Refused(Top.cap, call.module, call.op, call.vals)
    /\ Fail("refused")

Pass ==
    /\ doing = "check"
    /\ \/ NeverRefused(call.module, call.op)
       \/ Holds(Top) /\ ~Refused(Top.cap, call.module, call.op, call.vals)
    /\ doing' = "handler"
    /\ UNCHANGED <<root, enforce, stack>> /\ UNCHANGED callVars

Step == Steps(call.module, call.op)[at]
InHandler == doing = "handler" /\ at <= Len(Steps(call.module, call.op))

Continue == /\ at' = at + 1
            /\ UNCHANGED <<root, enforce, stack, doing, call, clause, verdicts>>

\* An argument or a reply is found in order.
Examine == /\ InHandler /\ Step \in {"late", "decode"}
           /\ Continue /\ UNCHANGED <<effects, events, outcome>>

\* What the call touches, and under which cap; a run of a network without one
\* goes to the model that cap[*] gives.
Touch == Touched(IF Holds(Top) THEN Top.cap ELSE CapStar, call.module, call.op, call.vals)

Act == /\ InHandler /\ Step \in {"do", "act", "send", "ask"}
       /\ effects' = effects \o Touch
       /\ Continue /\ UNCHANGED <<events, outcome>>

\* The transport or the program fails: the call goes on to its Err value.
SendFails == /\ InHandler /\ Step = "send"
             /\ outcome' = "errvalue"
             /\ Continue /\ UNCHANGED <<effects, events>>

\* The model fails: the Err value is returned at once.
AskFails == /\ InHandler /\ Step = "ask"
            /\ outcome' = "errvalue" /\ doing' = "body"
            /\ UNCHANGED <<root, enforce, stack, call, clause, verdicts, at, effects, events>>

\* The stages of shell.pipe are spawned one after the other.
Stage == /\ InHandler /\ Step = "stages" /\ Len(effects) < Len(Touch)
         /\ effects' = Append(effects, Touch[Len(effects) + 1])
         /\ UNCHANGED <<root, enforce, stack, doing, call, clause, verdicts, at, events,
                        outcome>>
StagesDone == /\ InHandler /\ Step = "stages" /\ Len(effects) = Len(Touch)
              /\ Continue /\ UNCHANGED <<effects, events, outcome>>

Record == /\ InHandler /\ Step = "event"
          /\ events' = events + 1
          /\ Continue /\ UNCHANGED <<effects, outcome>>

\* ai.decide asks again while the reply names no choice and retries are left, an
\* agent while it does not decode (an attempt that fails asks nothing), a network
\* once for each round.
AskAgain == /\ InHandler /\ Step = "again" /\ Len(effects) < MaxRetries
            /\ at' = 1
            /\ UNCHANGED <<root, enforce, stack, doing, call, clause, verdicts, effects,
                           events, outcome>>
Decided == /\ InHandler /\ Step = "again"
           /\ Continue /\ UNCHANGED <<effects, events, outcome>>

Return ==
    /\ doing = "handler" /\ at > Len(Steps(call.module, call.op))
    /\ doing' = "body"
    /\ outcome' = IF outcome = "none" THEN "value" ELSE outcome
    /\ UNCHANGED <<root, enforce, stack, call, clause, verdicts, at, effects, events>>

CapNext ==
    \/ \E s \in Signatures : Enter(s)
    \/ EnterWithoutCap \/ Shadow \/ Leave
    \/ \E c \in Narrowings : Narrow(c)
    \/ \E n \in 1..Len(stack) : Unwind(n)
    \/ \E c \in Calls : Call(c)
    \/ PoliciesDone \/ NextPolicy \/ \E o \in ClauseOutcomes : Clause(o)
    \/ Raise \/ ArgsRead \/ Refuse \/ Pass
    \/ Examine \/ Act \/ SendFails \/ AskFails \/ Stage \/ StagesDone \/ Record \/ AskAgain
    \/ Decided \/ Return

CapSpec == CapInit /\ [][CapNext]_capVars

-----------------------------------------------------------------------------
(* Properties.                                                             *)

Outcomes == {"none", "value", "errvalue", "refused", "raised"}

TypeOK ==
    /\ enforce \in {"strict", "loose", "off"}
    /\ Len(stack) \in 1..MaxFrames
    /\ \A i \in DOMAIN stack : Len(stack[i].lineage) >= 1 /\ stack[i].lineage[1] = root
    /\ doing \in {"body", "policy", "args", "check", "handler", "raised"}
    /\ clause \in [policy : Nat, at : Nat]
    /\ at \in Nat /\ events \in Nat /\ outcome \in Outcomes

\* What a cap says of an operation on a target, by the meaning that
\* docs/language.md sections 8.3 and 8.3.1 give its entries.
Grants(cap, module, op, target) ==
    cap.star \/ \E e \in Members(cap.entries) :
        /\ Names(e, module, op) \/ Wildcard(e, module)
        /\ \/ e.allow.open
           \/ module = "fs" /\ \E g \in Members(e.allow.items) : GlobMatches(g, target)
           \/ module # "fs" /\ target \in Members(e.allow.items)

\* The allow-lists of these families are read by no check (see the README).
AllowListIgnored == {"kube", "docker", "mongodb", "rabbitmq", "audit"}

\* These may go to the backend's default model under a cap that prescribes one: a
\* Session that was made without a model, a network whose refusal was swallowed.
ToDefault == {"session_ask", "network_run"}

\* Whatever is narrowed, shadowed, delegated or raised on the way, an effect of
\* an operation that checks is one that the cap in scope and every cap it was
\* narrowed from, up to the cap of main, grant: cap.subset never widens
\* (value.rs covers) and no handler acts before or beside its check.  Two
\* exceptions are the code's: the "mock" model of an empty list of models, and
\* the default model, to which alone a swallowed refusal leads.
EffectsGranted ==
    LET m == CheckedModule(call.module)
        o == CheckedOp(call.module, call.op)
    IN  ~Unchecked(call.module, call.op) /\ m \notin AllowListIgnored =>
            \A i \in DOMAIN effects :
                \/ m = "ai" /\ effects[i] = <<"mock">>
                \/ m = "ai" /\ call.op \in ToDefault /\ effects[i] = NoModel
                \/ /\ Holds(Top)
                   /\ \A k \in DOMAIN Top.lineage : Grants(Top.lineage[k], m, o, effects[i])

\* An active policy that covers the operation has been heard before its first
\* effect, however many clauses and policies there are: a `when` turned it away, or
\* every `require` was true and no `deny` was (apply_policies).
Heeded(n) ==
    LET p == Policies[n]
        heard == {v \in verdicts : v.policy = n}
        said(kind) == {v \in heard : v.kind = kind}
    IN  \/ \E v \in said("when") : v.outcome # "true"
        \/ /\ Cardinality(said("require")) = p.require
           /\ Cardinality(said("deny")) = p.deny
           /\ \A v \in said("require") : v.outcome = "true"
           /\ \A v \in said("deny") : v.outcome # "true"

\* What eval_call dispatches heeds its policies.
PoliciesHold ==
    Dispatched(call.module, call.op) /\ effects # <<>> =>
        \A n \in DOMAIN Policies :
            Active(Policies[n]) /\ PolicyCovers(Policies[n], call.module, call.op) => Heeded(n)

\* A call that returned a value, or an Err value, after it touched something
\* has left an event in the trace besides those of its policies.
ReturnedIsRecorded ==
    outcome \in {"value", "errvalue"} /\ effects # <<>> =>
        events > Cardinality({v \in verdicts : v.kind \in {"audit", "limit"}})

\* A named argument reaches the parameter of that name, when the arguments fill
\* the parameters from the first on without a gap.
NamedReachParameters ==
    LET names == ParamNames(call.module, call.op)
        args == Members(call.args)
        filled == {names[i] : i \in DOMAIN names \cap DOMAIN call.vals}
    IN  names # AnyNames /\ call.vals # KwargError /\ {a.name : a \in args} = filled =>
            \A a \in args : \A i \in DOMAIN call.vals :
                names[i] = a.name => call.vals[i] = a.value

-----------------------------------------------------------------------------
(* Claims that the code does not meet (README, Findings): no run checks     *)
(* them, and TLC refutes each when it is added to the invariants of the    *)
(* run.                                                                    *)

\* docs/language.md:883: "The allow-list attached to the operation in the
\* signature is enforced on the call's arguments at runtime".  The function that
\* runs declared a cap, and the effect is one its declaration grants.
SignatureEnforced ==
    Top.sig # Undeclared /\ ~Unchecked(call.module, call.op) =>
        \A i \in DOMAIN effects :
            Grants(Top.sig, CheckedModule(call.module), CheckedOp(call.module, call.op),
                   effects[i])

\* docs/language.md:1069: "Runtime allow-list (`http`, `fs`, `ai.models`, ...) |
\* enforced | enforced".  Whatever asks a model, a cap in scope grants that model.
ModelsAreGranted ==
    call.module = "ai" /\ call.op # "chat_dir" =>
        \A i \in DOMAIN effects :
            \/ effects[i] = <<"mock">>
            \/ /\ Holds(Top)
               /\ \/ Grants(Top.cap, "ai", call.op, effects[i])
                  \/ Grants(Top.cap, "ai", "complete", effects[i])

\* docs/language.md:1622-1626: a policy with `match: ai.*` holds for every call of a
\* model, whichever way the program asks.
PoliciesHoldForModels ==
    call.module = "ai" /\ effects # <<>> =>
        \A n \in DOMAIN Policies :
            Active(Policies[n]) /\ PolicyCovers(Policies[n], call.module, call.op) => Heeded(n)
=============================================================================
