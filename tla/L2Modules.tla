------------------------------ MODULE L2Modules ------------------------------
(***************************************************************************)
(* The L2 dispatch table: one backend for each family of operations, built *)
(* at start-up from aeris.toml (runtime/l2_backend/mod.rs), and the native *)
(* modules that may take the place of one (runtime/l2_module.rs,           *)
(* runtime/l2_backend/loaded.rs).                                          *)
(***************************************************************************)
EXTENDS Naturals, Sequences, FiniteSets

CONSTANTS
    Tomls   \* aeris.toml: [l2, modules], l2 says "mock", "real" or "replay"
            \* of each family, modules lists the families of [modules.*]
            \* in the order of their names

AuditOps == {"event"}
KubeOpNames == {"apply", "delete", "get", "watch"}
DockerOps == {"run", "build", "push", "pull", "tag", "inspect", "logs", "stop", "rm", "rmi"}
MongoOps == {"read", "write"}
MinioOps == {"get", "put", "mb", "bucket_exists", "list"}
RabbitOps == {"publish", "subscribe"}

FamilyOps == [audit |-> AuditOps, kube |-> KubeOpNames, docker |-> DockerOps,
              mongodb |-> MongoOps, minio |-> MinioOps, rabbitmq |-> RabbitOps]
Families == DOMAIN FamilyOps

ASSUME ConfigAssumption ==
    \A m \in Tomls :
        /\ m.l2 \in [Families -> {"mock", "real", "replay"}]
        /\ m.modules \in Seq(Families)
        /\ \A i, j \in DOMAIN m.modules : m.modules[i] = m.modules[j] => i = j

VARIABLES
    toml,     \* the manifest of the program
    table,    \* family -> "mock", "real" or "loaded"
    next,     \* position in toml.modules of the module being loaded
    passed,   \* family -> the checks its module has passed
    ran,      \* the families whose module has had code of its own run
    startup   \* "loading", "ready" or "refused"

moduleVars == <<toml, table, next, passed, ran, startup>>

\* from_manifest: a family that is replayed gets the mock.
TableOf(kind) == IF kind = "real" THEN "real" ELSE "mock"

\* Seeded fault: the library is opened before its signature is verified.
BugChecks == <<"hash", "open", "api", "metadata", "signature", "family">>

\* LoadedModule::load, check by check; the first three look at files, from
\* "open" on the code of the module runs.
Checks == <<"hash", "signature", "open", "api", "metadata", "family">>

\* The checks that run code of the module: its initialisers, then the functions
\* it exports.
RunsCode == {"open", "api", "metadata"}

ModulesInit ==
    /\ toml \in Tomls
    /\ table = [f \in Families |-> TableOf(toml.l2[f])]
    /\ next = 1 /\ passed = [f \in Families |-> {}] /\ ran = {}
    /\ startup = IF toml.modules = <<>> THEN "ready" ELSE "loading"

Loading == toml.modules[next]
CurrentCheck == Checks[Cardinality(passed[Loading]) + 1]

\* A check holds or ends the start-up before any user code; with the last one
\* the module takes the place of the family's backend.
CheckModule(ok) ==
    /\ startup = "loading" /\ UNCHANGED toml
    /\ ran' = IF CurrentCheck \in RunsCode THEN ran \union {Loading} ELSE ran
    /\ IF ok
       THEN LET done == passed[Loading] \union {CurrentCheck}
                installed == Cardinality(done) = Len(Checks)
            IN  /\ passed' = [passed EXCEPT ![Loading] = done]
                /\ table' = IF installed THEN [table EXCEPT ![Loading] = "loaded"] ELSE table
                /\ next' = IF installed THEN next + 1 ELSE next
                /\ startup' = IF installed /\ next = Len(toml.modules) THEN "ready" ELSE startup
       ELSE startup' = "refused" /\ UNCHANGED <<table, next, passed>>

----------------------------------------------------------------------------
(* A call of a loaded module.                                              *)

\* A reply: the names of the fields of an object in order; a null pointer and
\* text that is no object stand for themselves.
NullReply == <<"null pointer">>
TextReply == <<"not an object">>
Replies == {NullReply, TextReply, <<"ok">>, <<"err">>, <<"ok", "err">>, <<"err", "ok">>, <<"note">>}

\* LoadedModule::call, then decode_reply: the first of the fields `ok` and `err`
\* tells.  The event of the call is recorded before the reply is decoded, but
\* not when there is none.
ReplyOutcome(r) ==
    LET told == SelectSeq(r, LAMBDA f : f \in {"ok", "err"})
    IN  IF told # <<>> /\ told[1] = "ok" THEN "value" ELSE "raised"

\* The family of error that a failure of a store is raised as, from the words
\* its message holds (sdk_error_to_raised).
ErrorKind(words) ==
    LET order == <<"auth", "not_found", "timeout", "network">>
        hits == SelectSeq(order, LAMBDA w : w \in words)
    IN  IF hits = <<>> THEN "io" ELSE hits[1]
=============================================================================
