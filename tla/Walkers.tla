------------------------------ MODULE Walkers ------------------------------
(***************************************************************************)
(* The walks of the static checker over the bodies of functions, saga      *)
(* steps and pipelines (check/effects.rs, check/narrow_caps.rs).           *)
(*                                                                         *)
(* An expression is a node [k, m, o, args, arms, kids].  What the walks    *)
(* tell apart is its kind:                                                 *)
(*   "op"       a call module.op(..): m and o name it, args are its        *)
(*              arguments [name, value] as they are written, the name ""   *)
(*              when positional, the value a member of Texts when it is a  *)
(*              string literal and anything else when it is computed       *)
(*   "intent"   the body of an intent block                                *)
(*   "spawn"    the body of a spawn                                        *)
(*   "match"    its arms are TRUE when guarded                             *)
(*   "walked"   any other construct whose parts the walks visit: blocks,   *)
(*              loops, conditionals, closures, operators, literals         *)
(*   "opaque"   catch, every, retry, timeout and interpolated strings,     *)
(*              which the last, empty arm of each walk passes over         *)
(***************************************************************************)
EXTENDS CapRules, Selection, SequencesExt

CONSTANTS
    MaxNesting,  \* bound: how deep an expression or a type nests
    Texts        \* the string literals, read as addresses: name -> its parts

WriteOpsOf(module) ==
    CASE module = "fs" -> {"write_file", "write_text", "write_bytes", "mkdir", "remove",
                           "rename"}
      [] module = "http" -> {"post", "put", "patch", "delete"}
      [] module = "shell" -> {"exec", "pipe"}
      [] module = "ai" -> {"complete", "chat", "embed", "tools", "session_ask", "decide"}
      [] module = "kube" -> {"apply", "delete"}
      [] module = "docker" -> {"run", "build", "push", "tag", "stop", "rm", "rmi"}
      [] module = "mongodb" -> {"write"}
      [] module = "minio" -> {"put"}
      [] module = "rabbitmq" -> {"publish"}
      [] module = "audit" -> {"event"}
      [] module = "env" -> {"set"}
      [] OTHER -> {}
IsWriteOp(module, op) == op \in WriteOpsOf(module)

\* Seeded fault: the walks pass over the arms of a match.
BugVisited(e) == IF e.k \in {"opaque", "match"} THEN {} ELSE Members(e.kids)

\* The parts of an expression the walks go on to.
Visited(e) == IF e.k = "opaque" THEN {} ELSE Members(e.kids)

\* The parts of r.node and what surrounds them: a body inherits the intent around
\* it, closures and spawns included; a spawn's body sees no cap.
Inside(r) ==
    {[node |-> x,
      intent |-> r.intent \/ r.node.k = "intent",
      spawned |-> r.spawned \/ r.node.k = "spawn",
      reached |-> r.reached /\ x \in Visited(r.node)] : x \in Members(r.node.kids)}

\* Every node of a body, with what surrounds it and whether the walks reach it.
NodesOf(body) ==
    LET layer[n \in 0..MaxNesting] ==
            IF n = 0
            THEN {[node |-> e, intent |-> FALSE, spawned |-> FALSE, reached |-> TRUE] :
                     e \in Members(body)}
            ELSE UNION {Inside(r) : r \in layer[n - 1]}
    IN  UNION {layer[n] : n \in 0..MaxNesting}

ReachedIn(body) == {r \in NodesOf(body) : r.reached}

Calls(body) == {r \in ReachedIn(body) : r.node.k = "op"}
CapCalls(body) == {r \in Calls(body) : IsCapOp(r.node.m, r.node.o)}

\* block_has_write_call, of the do block of a saga step.
HasWrite(body) == \E r \in Calls(body) : IsWriteOp(r.node.m, r.node.o)

\* collect_v2_violations: the writes outside every intent.
WithoutIntent(body) ==
    {<<r.node.m, r.node.o>> : r \in {c \in Calls(body) :
                                        IsWriteOp(c.node.m, c.node.o) /\ ~c.intent}}

\* A cap as the body sees it: given or not, and the operations it names.
NoCap == [given |-> FALSE, ops |-> {}]
CapOf(ops) == [given |-> TRUE, ops |-> ops]
EveryOp == {<<"*", "*">>}

SetCovers(ops, module, op) ==
    ops \cap {<<"*", "*">>, <<module, op>>, <<module, "*">>} # {}

\* collect_cap_resolution_errors.
Unresolved(body, cap) ==
    {<<"NoCapInScope", <<r.node.m, r.node.o>> >> :
        r \in {c \in CapCalls(body) : c.spawned \/ ~cap.given}}
    \union
    {<<"OpNotInCapSignature", <<r.node.m, r.node.o>> >> :
        r \in {c \in CapCalls(body) : ~c.spawned /\ cap.given
                                      /\ ~SetCovers(cap.ops, c.node.m, c.node.o)}}

\* classify_match: no arm at all, or every arm guarded.
BadMatches(body) ==
    {r \in ReachedIn(body) : r.node.k = "match" /\ FALSE \notin Members(r.node.arms)}

----------------------------------------------------------------------------
(* Narrowing a signature to what its body uses.                            *)

UsedOps(body) == {<<r.node.m, r.node.o>> : r \in CapCalls(body)}

\* A text is [scheme, user, host, port, tail]: the scheme "" when it has no "://",
\* the user <<>> or a name with its "@", the port "none", "u16", "large" (digits
\* that are no u16, or none) or "text", and the tail which of "/", "?" and "#"
\* comes first, or "".
ASSUME TextsAssumption ==
    \A t \in DOMAIN Texts : LET u == Texts[t] IN
        /\ IsList(u.user) /\ IsList(u.host)
        /\ u.port \in {"none", "u16", "large", "text"} /\ u.tail \in {"", "/", "?", "#"}

\* host_from_url: any scheme, and user-info and digits after a colon are dropped.
HostFromUrl(u) == u.host \o (IF u.port = "text" THEN <<":text">> ELSE <<>>)

\* parse_url: the hosts of the text, none when it is refused.  Only "/" ends the
\* authority, whose user-info stays in the host.
ParseUrl(u) ==
    LET beyond == u.tail \in {"?", "#"}
        host == u.user \o u.host \o (IF beyond THEN <<u.tail>> ELSE <<>>)
    IN  IF \/ u.scheme # "http"
           \/ u.port = "none" /\ host = <<>>
           \/ u.port # "none" /\ (u.port # "u16" \/ beyond)
        THEN {} ELSE {host}

\* The host the linter collects: of the argument written first, whatever its
\* name, when it is a literal; <<>> when there is none.
HostSeen(node) ==
    IF node.args = <<>> \/ node.args[1].value \notin DOMAIN Texts THEN <<>>
    ELSE HostFromUrl(Texts[node.args[1].value])

\* The hosts of the literals, of all the http calls together.
UsedHosts(body) ==
    {HostSeen(r.node) : r \in {c \in CapCalls(body) : c.node.m = "http"}} \ {<<>>}

\* Seeded fault: only one of the hosts the body names is kept.
BugNarrowAllow(module, op, allow, hosts) ==
    IF module # "http" \/ op \notin Members(HttpOps) \/ hosts = {} THEN allow
    ELSE Listed(<<SetToSeq(hosts)[1]>>)

\* narrow_allow_for: with no literal address the declared list stands.
NarrowAllow(module, op, allow, hosts) ==
    IF module # "http" \/ op \notin Members(HttpOps) \/ hosts = {} THEN allow
    ELSE IF allow.open THEN Listed(SetToSeq(hosts))
    ELSE Listed(Selected(allow.items, {i \in DOMAIN allow.items : allow.items[i] \in hosts}))

NarrowEntry(e, body) ==
    {Entry(op, NarrowAllow(op[1], op[2], e.allow, UsedHosts(body))) :
        op \in {u \in UsedOps(body) : e.path \in {<<u[1]>>, u}}}

\* narrow_fn: it sorts the entries by name, which no check but the one for the
\* buckets of minio can tell from another order.
NarrowedEntries(cap, body) == UNION {NarrowEntry(e, body) : e \in Members(cap.entries)}
NarrowedCap(cap, body) == [star |-> FALSE, entries |-> SetToSeq(NarrowedEntries(cap, body))]
=============================================================================
