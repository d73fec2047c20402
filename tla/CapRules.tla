------------------------------ MODULE CapRules ------------------------------
(***************************************************************************)
(* Capabilities as values: what a cap lists (runtime/value.rs), how one is *)
(* narrowed from another, which cap `main` is given (manifest/manifest.rs, *)
(* cli.rs) and what the checks before an effect read in it                 *)
(* (runtime/eval.rs, the enforce_* family).                                *)
(*                                                                         *)
(* A cap is [star, entries]; an entry is [path, allow]: a path is <<m>> or *)
(* <<m, op>>, an allow-list is [open, items], open when the entry has none.*)
(* Paths, patterns, hosts, programs, buckets and model names are all       *)
(* sequences of segments, so that they can be compared.                    *)
(***************************************************************************)
EXTENDS Naturals, Sequences, FiniteSets, Selection

Entry(path, allow) == [path |-> path, allow |-> allow]
Unlisted == [open |-> TRUE, items |-> <<>>]
Listed(items) == [open |-> FALSE, items |-> items]
Members(s) == {s[i] : i \in DOMAIN s}
IsList(v) == v \in Seq(Members(v))

\* The absence of a model; no allow-list has it for an item.
NoModel == <<>>
IsAllowList(list) == IsList(list) /\ NoModel \notin Members(list)
IsCap(cap) ==
    /\ IsList(cap.entries)
    /\ \A e \in Members(cap.entries) : IsList(e.path) /\ IsAllowList(e.allow.items)

----------------------------------------------------------------------------
(* Narrowing.                                                              *)

PathCovers(parent, child) ==
    IF Len(parent) = 1 THEN Len(child) > 0 /\ child[1] = parent[1] ELSE parent = child

\* Seeded fault: an entry without an allow-list counts as narrower than one with.
BugAllowCovers(parent, child) ==
    parent.open \/ Members(child.items) \subseteq Members(parent.items)

AllowCovers(parent, child) ==
    \/ parent.open
    \/ ~child.open /\ Members(child.items) \subseteq Members(parent.items)

EntryCovers(cap, e) ==
    \E p \in Members(cap.entries) : PathCovers(p.path, e.path) /\ AllowCovers(p.allow, e.allow)

Covers(parent, child) ==
    ~child.star /\ (parent.star \/ \A e \in Members(child.entries) : EntryCovers(parent, e))

----------------------------------------------------------------------------
(* The checks before an effect.                                            *)

\* glob_matches: "*" stands for one segment, "**" for any number of them.
\* m[i, j] says whether the pattern from i on matches the path from j on.
GlobMatches(pat, path) ==
    LET m[i \in 1..(Len(pat) + 1), j \in 1..(Len(path) + 1)] ==
            IF i > Len(pat) THEN j > Len(path)
            ELSE IF pat[i] = "**" THEN \E k \in j..(Len(path) + 1) : m[i + 1, k]
            ELSE j <= Len(path) /\ pat[i] \in {"*", path[j]} /\ m[i + 1, j + 1]
    IN  m[1, 1]

Names(e, module, op) == e.path \in {<<module>>, <<module, op>>}
Wildcard(e, module) == e.path = <<module, "*">>

\* The first entry of two segments that names the operation, 0 when none does.
FirstLeaf(cap, module, op) ==
    LET leaf(i) == cap.entries[i].path \in {<<module, op>>, <<module, "*">>}
    IN  IF \E i \in DOMAIN cap.entries : leaf(i)
        THEN CHOOSE i \in DOMAIN cap.entries :
                 leaf(i) /\ \A j \in 1..(i - 1) : ~leaf(j)
        ELSE 0

PathPermits(cap, module, op, target) ==
    cap.star \/ \E e \in Members(cap.entries) :
        /\ Names(e, module, op)
        /\ e.allow.open \/ \E g \in Members(e.allow.items) : GlobMatches(g, target)

HostPermits(cap, module, op, target) ==
    cap.star \/ \E e \in Members(cap.entries) :
        Names(e, module, op) /\ (e.allow.open \/ target \in Members(e.allow.items))

ArgvPermits(cap, module, op, target) ==
    cap.star \/ \E e \in Members(cap.entries) :
        Names(e, module, op) /\ (e.allow.open \/ target \in Members(e.allow.items))

\* enforce_simple_cap_or_violation looks at no allow-list.
SimplePermits(cap, module, op) ==
    cap.star \/ \E e \in Members(cap.entries) : Names(e, module, op) \/ Wildcard(e, module)

BucketPermits(cap, module, op, target) ==
    \/ cap.star
    \/ LET i == FirstLeaf(cap, module, op)
       IN  i # 0 /\ (cap.entries[i].allow.open
                     \/ target \in Members(cap.entries[i].allow.items))

\* The model enforce_ai_cap answers: none is prescribed under cap[*], "mock"
\* when the entry lists none.
AiPermits(cap, op) == cap.star \/ FirstLeaf(cap, "ai", op) # 0
AiModel(cap, op) ==
    LET allow == cap.entries[FirstLeaf(cap, "ai", op)].allow
    IN  IF cap.star THEN NoModel
        ELSE IF allow.open \/ allow.items = <<>> THEN <<"mock">> ELSE allow.items[1]

\* Which of the checks guards the operations of a module.
Guard(module) ==
    CASE module = "fs" -> "path"
      [] module = "http" -> "host"
      [] module = "shell" -> "argv"
      [] module = "minio" -> "bucket"
      [] module = "ai" -> "model"
      [] module \in {"audit", "kube", "docker", "mongodb", "rabbitmq"} -> "simple"
      [] OTHER -> "none"

Permits(cap, module, op, target) ==
    LET g == Guard(module)
    IN  CASE g = "path" -> PathPermits(cap, module, op, target)
          [] g = "host" -> HostPermits(cap, module, op, target)
          [] g = "argv" -> ArgvPermits(cap, module, op, target)
          [] g = "bucket" -> BucketPermits(cap, module, op, target)
          [] g = "model" -> AiPermits(cap, op)
          [] g = "simple" -> SimplePermits(cap, module, op)
          [] g = "none" -> TRUE

\* is_cap_op: the operations that the checker holds against the signature.
IsCapOp(module, op) ==
    \/ module \in {"io", "fs", "http", "shell", "env", "random", "date", "yaml", "kube",
                   "docker", "mongodb", "rabbitmq", "audit"}
    \/ module = "clock" /\ op \in {"now", "sleep"}
    \/ module = "net"
    \/ module = "ai"
    \/ module = "minio" /\ op \in {"get", "put"}

----------------------------------------------------------------------------
(* The cap of main.                                                        *)

CapStar == [star |-> TRUE, entries |-> <<>>]

\* One entry per operation, all with the list, when the list is not empty.
Family(module, ops, list) ==
    IF list = <<>> THEN <<>>
    ELSE [i \in DOMAIN ops |-> Entry(<<module, ops[i]>>, Listed(list))]

HttpOps == <<"get", "post", "put", "patch", "delete">>
ReadOps == <<"read_file", "read_text", "read_bytes", "stat", "exists", "walk">>
WriteOps == <<"write_file", "write_text", "write_bytes", "mkdir", "remove", "rename">>
KubeOps == <<"apply", "delete", "get", "watch">>
AiOps == <<"complete", "chat", "embed", "tools", "session", "session_ask", "decide",
           "usage", "network">>
FreeOps == << <<"audit", "event">>, <<"clock", "now">>, <<"random", "next">>,
              <<"env", "read">>, <<"io", "print">>, <<"io", "println">>,
              <<"io", "eprint">>, <<"io", "eprintln">>, <<"io", "read_line">> >>

\* synthesise_main_cap.  No entry is made for shell, docker, mongodb, minio and
\* rabbitmq, which only cap[*] reaches.
SynthesiseMainCap(caps) ==
    IF caps.enforce = "off" THEN CapStar
    ELSE [star |-> FALSE,
          entries |-> Family("http", HttpOps, caps.http_allow)
                      \o Family("fs", ReadOps, caps.fs_allow_read)
                      \o Family("fs", WriteOps, caps.fs_allow_write)
                      \o Family("kube", KubeOps, caps.kube_contexts)
                      \o Family("ai", AiOps, caps.ai_models)
                      \o [i \in DOMAIN FreeOps |-> Entry(FreeOps[i], Unlisted)]]

\* cmd_run and cmd_replay: a manifest that is missing, cannot be read or does
\* not parse leaves main with cap[*].
MainCap(manifest) ==
    IF manifest.read = "parsed" THEN SynthesiseMainCap(manifest.caps) ELSE CapStar
----------------------------------------------------------------------------
(* Named arguments (reorder_kwargs_for_builtin).                           *)

\* builtin_param_names of the operations that have an effect, "any" where the code
\* has no entry.
AnyNames == <<"any">>
EnvNames(op) ==
    CASE op = "read" -> <<"key">> [] op = "set" -> <<"key", "value">> [] OTHER -> AnyNames
FsNames(op) ==
    CASE op = "rename" -> <<"from", "to">>
      [] op \in {"write_text", "write_file", "write_bytes"} -> <<"path", "content">>
      [] OTHER -> <<"path">>
AiNames(op) ==
    CASE op = "complete" -> <<"prompt">>
      [] op = "chat" -> <<"system", "dir", "port">>
      [] op = "embed" -> <<"text">>
      [] op = "session" -> <<"system", "model">>
      [] op = "session_ask" -> <<"session", "prompt">>
      [] op = "decide" -> <<"prompt", "choices", "retries">>
      [] op = "usage" -> <<>>
      [] op = "network" -> <<"max_rounds">>
      [] OTHER -> AnyNames
DockerNames(op) ==
    CASE op = "run" -> <<"image", "name">>
      [] op = "build" -> <<"context", "tag">>
      [] op = "tag" -> <<"source", "target">>
      [] op \in {"push", "pull", "rmi"} -> <<"image">>
      [] OTHER -> <<"target">>
MinioNames(op) ==
    CASE op = "put" -> <<"bucket", "object", "content">>
      [] op = "get" -> <<"bucket", "object">>
      [] OTHER -> <<"bucket">>

ParamNames(module, op) ==
    CASE module = "io" -> IF op = "read_line" THEN <<>> ELSE <<"msg">>
      [] module = "env" -> EnvNames(op)
      [] module = "clock" -> IF op = "sleep" THEN <<"d">> ELSE <<>>
      [] module \in {"random", "date"} -> <<>>
      [] module = "yaml" -> <<"path">>
      [] module = "net" -> <<"port">>
      [] module = "fs" -> FsNames(op)
      [] module = "http" ->
            IF op \in {"get", "delete"} THEN <<"url">> ELSE <<"url", "body", "content_type">>
      [] module = "shell" -> <<"cmd">>
      [] module = "ai" -> AiNames(op)
      [] module = "audit" -> <<"kind", "fields">>
      [] module = "docker" -> DockerNames(op)
      [] module = "minio" -> MinioNames(op)
      [] OTHER -> AnyNames

\* An argument is [name, value], the name "" when it is positional.  The result
\* lists the values as the handler receives them, or is KwargError.  Slots no
\* argument filled are left out, so that what follows moves to the left.
KwargError == <<"kwarg error">>

\* Seeded fault: arguments are taken in the order in which they are written.
BugReorder(names, args) == [k \in DOMAIN args |-> args[k].value]

\* The slots after argument k, <<>> when it has none: a positional argument takes
\* the first that is free, a named one the slot of its name.
Seat(names, args, k, s) ==
    LET a == args[k]
        free == {i \in DOMAIN names : s[i] = 0 /\ \A j \in 1..(i - 1) : s[j] # 0}
        named == {i \in DOMAIN names : names[i] = a.name}
        pick == IF a.name = "" THEN free ELSE {i \in named : s[i] = 0}
    IN  IF s = <<>> \/ pick = {} THEN <<>> ELSE [s EXCEPT ![CHOOSE i \in pick : TRUE] = k]

Reorder(names, args) ==
    LET slotOf[k \in 0..Len(args)] ==      \* slot -> index of its argument, or 0
            IF k = 0 THEN [i \in DOMAIN names |-> 0] ELSE Seat(names, args, k, slotOf[k - 1])
        slots == slotOf[Len(args)]
        filled == Selected(slots, {i \in DOMAIN slots : slots[i] # 0})
    IN  IF names = AnyNames \/ \A k \in DOMAIN args : args[k].name = ""
        THEN [k \in DOMAIN args |-> args[k].value]
        ELSE IF slots = <<>> THEN KwargError
        ELSE [i \in DOMAIN filled |-> args[filled[i]].value]
=============================================================================
