------------------------------ MODULE Builtins ------------------------------
(***************************************************************************)
(* The builtin operations of runtime/eval.rs, each as what its handler     *)
(* does once its arguments are read: which check guards it, under which    *)
(* name, and the steps that follow the check, in the order of the code:    *)
(*   "late"    an argument is checked after the capability, may raise      *)
(*   "do"      an effect that cannot fail                                  *)
(*   "act"     an effect whose failure raises                              *)
(*   "send"    an effect whose failure is the Err value of the call        *)
(*   "ask"     the same, and nothing follows the failure                   *)
(*   "stages"  one effect for each target, the first failure raises        *)
(*   "decode"  what came back is interpreted, may raise                    *)
(*   "again"   the steps are repeated while retries are left               *)
(*   "event"   record_event                                                *)
(* Besides the operations that a module exports there are the ways to the  *)
(* model that eval_call does not dispatch: ai.network_run stands for       *)
(* network.run(..), chat_ask for chat.ask(..) and for a question to the    *)
(* chat server, agent for the invocation of an agent, assert_semantic and  *)
(* assert_judge for assert_semantic(..) without and with a judge.          *)
(***************************************************************************)
EXTENDS CapRules, Selection

CONSTANTS
    Backend     \* L2 module -> "mock", "real" or "loaded" (aeris.toml [l2.*])

L2Modules == {"audit", "kube", "docker", "mongodb", "minio", "rabbitmq"}
ASSUME BackendAssumption == Backend \in [L2Modules -> {"mock", "real", "loaded"}]

PrintSteps == <<"do", "event">>
ReadLineSteps == <<"act", "event">>
SleepSteps == <<"event", "do">>
NowSteps == <<"event">>
RandomSteps == <<"event">>
DateNowSteps == <<"event">>
EnvSteps(op) ==
    CASE op = "read" -> <<"event">>
      [] op = "must_read" -> <<"decode", "event">>
      [] OTHER -> <<"do", "event">>    \* set

ReadTextSteps == <<"act", "decode", "event">>
ExistsSteps == <<"do", "event">>
FsReadSteps == <<"act", "event">>    \* read_bytes, stat, walk
WriteTextSteps == <<"act", "event">>
WriteBytesSteps == <<"act", "event">>
FsTreeSteps == <<"act", "event">>    \* mkdir, remove, rename

HttpSteps == <<"late", "send", "event">>
NetSteps == <<"act", "event">>
YamlFileSteps == <<"act", "event">>

ExecSteps == <<"act", "event">>
PipeSteps == <<"stages", "event">>

\* Seeded fault: the handlers of the module forget their event.
BugShellSteps(op) == IF op = "exec" THEN <<"act">> ELSE <<"stages">>

ShellSteps(op) == IF op = "exec" THEN ExecSteps ELSE PipeSteps

ModelSteps == <<"act", "event">>     \* complete, chat
ChatDirSteps == <<"act", "event">>
EmbedSteps == <<"event">>
ToolsSteps == <<"act", "event">>
SessionSteps == <<>>
AskSteps == <<"act", "event">>
DecideSteps == <<"act", "event", "again">>
UsageSteps == <<>>
NetworkRunSteps == <<"act", "event", "again">>
ChatAskSteps == <<"ask", "event">>
AgentSteps == <<"act", "event", "again", "decode">>  \* the last reply may not decode
JudgeSteps == <<"act", "event", "decode">>
AiSteps(op) ==
    CASE op \in {"complete", "chat"} -> ModelSteps
      [] op = "chat_dir" -> ChatDirSteps
      [] op = "embed" -> EmbedSteps
      [] op = "tools" -> ToolsSteps
      [] op \in {"session", "network"} -> SessionSteps
      [] op = "session_ask" -> AskSteps
      [] op = "decide" -> DecideSteps
      [] op = "network_run" -> NetworkRunSteps
      [] op = "chat_ask" -> ChatAskSteps
      [] op = "agent" -> AgentSteps
      [] op \in {"assert_semantic", "assert_judge"} -> JudgeSteps
      [] OTHER -> UsageSteps

\* The L2 families: a loaded module is called, the call recorded, its reply
\* decoded; a mock only records.
LoadedSteps == <<"late", "act", "event", "decode">>
AuditSteps == IF Backend["audit"] = "loaded" THEN LoadedSteps ELSE <<"act", "event">>
MockSteps == <<"late", "event">>
RealKubeSteps(op) == IF op = "watch" THEN MockSteps ELSE <<"late", "event", "send">>
KubeSteps(op) ==
    CASE Backend["kube"] = "loaded" -> LoadedSteps
      [] Backend["kube"] = "real" -> RealKubeSteps(op)
      [] Backend["kube"] = "mock" -> MockSteps
RealDockerSteps == <<"late", "event", "send">>
DockerSteps ==
    CASE Backend["docker"] = "loaded" -> LoadedSteps
      [] Backend["docker"] = "real" -> RealDockerSteps
      [] Backend["docker"] = "mock" -> MockSteps
StoreSteps(module) ==
    CASE Backend[module] = "loaded" -> LoadedSteps
      [] Backend[module] = "real" -> <<"late", "act", "event">>
      [] Backend[module] = "mock" -> MockSteps
MongoSteps == StoreSteps("mongodb")
MinioSteps == StoreSteps("minio")
RabbitSteps == StoreSteps("rabbitmq")

FsSteps(op) ==
    CASE op = "read_text" -> ReadTextSteps
      [] op = "exists" -> ExistsSteps
      [] op \in {"read_bytes", "read_file", "stat", "walk"} -> FsReadSteps
      [] op = "write_text" -> WriteTextSteps
      [] op \in {"write_bytes", "write_file"} -> WriteBytesSteps
      [] OTHER -> FsTreeSteps

\* lookup_builtin; nothing follows in the pure helpers.
Steps(module, op) ==
    CASE module = "io" -> IF op = "read_line" THEN ReadLineSteps ELSE PrintSteps
      [] module = "clock" -> IF op = "sleep" THEN SleepSteps ELSE NowSteps
      [] module = "random" -> RandomSteps
      [] module = "env" -> EnvSteps(op)
      [] <<module, op>> = <<"date", "now">> -> DateNowSteps
      [] module = "fs" -> FsSteps(op)
      [] module = "http" -> HttpSteps
      [] module = "shell" -> ShellSteps(op)
      [] module = "ai" -> AiSteps(op)
      [] module = "audit" -> AuditSteps
      [] module = "kube" -> KubeSteps(op)
      [] module = "docker" -> DockerSteps
      [] module = "mongodb" -> MongoSteps
      [] module = "minio" -> MinioSteps
      [] module = "rabbitmq" -> RabbitSteps
      [] <<module, op>> = <<"yaml", "parse_file">> -> YamlFileSteps
      [] module = "net" -> NetSteps
      [] OTHER -> <<>>

\* The name under which a handler checks: the aliases share the handler of
\* read_bytes and write_bytes, and most ways to the model that of ai.complete.
CheckedModule(module) == IF module = "yaml" THEN "fs" ELSE module
CheckedOp(module, op) ==
    CASE module = "fs" /\ op = "read_file" -> "read_bytes"
      [] module = "fs" /\ op = "write_file" -> "write_bytes"
      [] module = "ai" /\ op \in {"session_ask", "decide", "network_run", "agent",
                                 "assert_semantic"} -> "complete"
      [] module = "yaml" /\ op = "parse_file" -> "read_text"
      [] OTHER -> op

\* apply_policies is called where eval_call dispatches an operation by its module
\* and name, and nowhere else.
Dispatched(module, op) ==
    module # "ai" \/ op \notin {"network_run", "chat_ask", "agent", "assert_semantic",
                             "assert_judge"}

\* Operations that check nothing: those without a guard, and the ones of a
\* guarded module whose handler does not consult the cap.  ai.chat(system, dir)
\* consults it for the model of the Chat only and takes "default" when refused.
Unchecked(module, op) ==
    \/ Guard(CheckedModule(module)) = "none"
    \/ module = "yaml" /\ op # "parse_file"
    \/ module = "ai" /\ op \in {"session", "usage", "network", "chat_dir", "chat_ask",
                                "assert_judge"}

\* enforce_ai_cap(..).unwrap_or_default(): the handler checks and goes on when it
\* is refused.
Swallows(module, op) == <<module, op>> = <<"ai", "network_run">>

NeverRefused(module, op) == Unchecked(module, op) \/ Swallows(module, op)

\* What a handler checks and then touches: both paths of fs.rename, the program
\* of every stage of shell.pipe (its argument is the list of them), the directory
\* of ai.chat(system, dir), the first argument otherwise.  The first argument of
\* session_ask, chat_ask and assert_judge is the model that the Session or the Chat
\* was made with, or the judge.
Targets(module, op, vals) ==
    CASE <<module, op>> = <<"shell", "pipe">> -> vals[1]
      [] <<module, op>> = <<"fs", "rename">> -> <<vals[1], vals[2]>>
      [] <<module, op>> = <<"ai", "chat_dir">> -> <<vals[2]>>
      [] OTHER -> SubSeq(vals, 1, 1)

Checked(module, op, vals) == Members(Targets(module, op, vals))

\* The first target the cap does not permit refuses the call.  A session is
\* asked for the model it was made with, which must be the prescribed one.
Refused(cap, module, op, vals) ==
    LET m == CheckedModule(module)
        o == CheckedOp(module, op)
    IN  /\ ~NeverRefused(module, op)
        /\ \/ \E t \in Checked(module, op, vals) : ~Permits(cap, m, o, t)
           \/ /\ <<module, op>> = <<"ai", "session_ask">>
              /\ AiPermits(cap, o) /\ AiModel(cap, o) # NoModel
              /\ vals[1] \notin {NoModel, AiModel(cap, o)}

\* What the effect of the call touches: a model call goes to the prescribed
\* model, and to the backend's default (NoModel) where none is prescribed, also
\* when a refusal was swallowed; session_ask to the model of the session.
Touched(cap, module, op, vals) ==
    LET o == CheckedOp(module, op)
    IN  IF module = "ai" /\ op \in {"complete", "chat", "tools", "decide", "agent",
                                   "assert_semantic"}
        THEN <<AiModel(cap, o)>>
        ELSE IF Swallows(module, op)
        THEN IF AiPermits(cap, o) THEN <<AiModel(cap, o)>> ELSE <<NoModel>>
        ELSE Targets(module, op, vals)

=============================================================================
