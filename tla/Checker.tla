------------------------------ MODULE Checker ------------------------------
(***************************************************************************)
(* The static checker (check/mod.rs, resolver.rs, manifest_caps.rs), the   *)
(* narrowing linter (narrow_caps.rs), and a run of a body it has accepted. *)
(*                                                                         *)
(* A module is a sequence of items, each with a kind and a name; a type is *)
(* [k, name, version, args, star, entries]; a body is a sequence of the    *)
(* nodes of Walkers.  The agents of a net are numbered in the order of     *)
(* their names.                                                            *)
(***************************************************************************)
EXTENDS Walkers

CONSTANTS
    Modules,      \* name -> the items of a parsed module
    Manifests,    \* the [caps] tables a project may have
    Targets       \* what an effect may be aimed at

\* What the parser leaves of a signature: parse_cap_path takes one or two names.
IsSignature(params) ==
    /\ IsList(params)
    /\ \A p \in Members(params) : p.type.k = "cap" =>
          /\ IsList(p.type.entries)
          /\ \A e \in Members(p.type.entries) :
                /\ Len(e.path) \in {1, 2} /\ IsList(e.path) /\ "*" \notin Members(e.path)
                /\ IsList(e.allow.items)

\* MaxNesting is deep enough for the walks of a body to come to its leaves.
IsBody(body) ==
    /\ IsList(body)
    /\ \A r \in NodesOf(body) :
          /\ DOMAIN r.node = {"k", "m", "o", "args", "arms", "kids"} /\ IsList(r.node.kids)
          /\ IsList(r.node.args)
          /\ Inside(r) \subseteq NodesOf(body)

\* "no name", a string with a blank, stands for the end of a chain of aliases.
NoName == "no name"

IsItem(i) ==
    /\ i.name # NoName
    /\ i.kind \in {"fn", "saga", "pipeline"} => IsSignature(i.params)
    /\ i.kind \in {"fn", "pipeline"} => IsBody(i.body)
    /\ i.kind = "saga" => IsList(i.steps) /\ \A s \in Members(i.steps) : IsBody(s.do)
    /\ i.kind = "net" => i.flows \in Seq(Seq(Seq(Nat)))

ASSUME ModulesAssumption ==
    /\ MaxNesting \in Nat
    /\ \A m \in DOMAIN Modules :
          IsList(Modules[m]) /\ \A i \in Members(Modules[m]) : IsItem(i)

ASSUME ManifestsAssumption == \A m \in Manifests : m.enforce \in {"strict", "loose", "off"}

VARIABLES
    source,       \* the module under check
    caps,         \* its manifest's [caps]
    pc,           \* the pass under way
    at,           \* the item it has come to
    types,        \* the items that declare a type
    models,       \* the <<name, version>> declared
    errs,         \* errors: <<kind, subject>>
    color,        \* marks of the search for a cycle in a net
    stack,        \* its stack: [node, next]
    chain,        \* the cycle it has reported
    running,      \* what is run: [item, step, declared, narrowed, given]
    todo,         \* what is left of it: [node, intent, spawned, opaque]
    made          \* the effect just asked for, or none

search == <<color, stack, chain>>
run == <<running, todo, made>>
checkVars == <<source, caps, pc, at, types, models, errs, search, run>>

Items == Modules[source]
Item == Items[at]
Idle == [item |-> 0, step |-> 0, declared |-> CapStar, narrowed |-> CapStar, given |-> FALSE]
NoEffect == [m |-> "none"]

CheckInit ==
    /\ source \in DOMAIN Modules
    /\ caps \in Manifests
    /\ pc = "collect" /\ at = 1
    /\ types = {} /\ models = {} /\ errs = {}
    /\ color = <<>> /\ stack = <<>> /\ chain = <<>>
    /\ running = Idle /\ todo = <<>> /\ made = NoEffect

----------------------------------------------------------------------------
(* Pass 1: the names.                                                      *)

Declared(n) == \E i \in types : Items[i].name = n
Collecting == pc = "collect" /\ at <= Len(Items)

RegisterType ==
    /\ Collecting /\ Item.kind \in {"record", "enum", "alias"}
    /\ IF Declared(Item.name)
       THEN errs' = errs \union {<<"DuplicateDecl", <<Item.name>> >>} /\ UNCHANGED types
       ELSE types' = types \union {at} /\ UNCHANGED errs
    /\ at' = at + 1
    /\ UNCHANGED <<source, caps, pc, models, search, run>>

RegisterModel ==
    /\ Collecting /\ Item.kind = "model"
    /\ LET key == <<Item.name, Item.version>>
       IN  IF key \in models
           THEN errs' = errs \union {<<"ModelVersionConflict", <<Item.name>> >>}
                /\ UNCHANGED models
           ELSE models' = models \union {key} /\ UNCHANGED errs
    /\ at' = at + 1
    /\ UNCHANGED <<source, caps, pc, types, search, run>>

RegisterNothing ==
    /\ Collecting /\ Item.kind \notin {"record", "enum", "alias", "model"}
    /\ at' = at + 1
    /\ UNCHANGED <<source, caps, pc, types, models, errs, search, run>>

Collected ==
    /\ pc = "collect" /\ at > Len(Items)
    /\ pc' = "decls" /\ at' = 1
    /\ UNCHANGED <<source, caps, types, models, errs, search, run>>

----------------------------------------------------------------------------
(* Pass 2: each declaration.                                               *)

Primitives == {"bool", "int", "i8", "i16", "i32", "i64", "u8", "u16", "u32", "u64", "f32",
               "f64", "decimal", "string", "bytes", "char", "uuid", "date", "timestamp",
               "duration", "unit", "any"}
OneArgument == {"list", "set", "option", "result", "channel", "handle", "range"}
Containers == OneArgument \union {"map", "tuple"}
ArityMatches(n, k) == n = "tuple" \/ k = (IF n = "map" THEN 2 ELSE 1)

\* A type and every type it is built from.
PartsOf(t) ==
    LET layer[n \in 0..MaxNesting] ==
            IF n = 0 THEN {t} ELSE UNION {Members(a.args) : a \in layer[n - 1]}
    IN  UNION {layer[n] : n \in 0..MaxNesting}

\* type_contains_cap: by shape; the name of an alias is not looked up.
ContainsCap(t) == \E a \in PartsOf(t) : a.k = "cap"

\* check_named.
NamedErrors(n, generics) ==
    IF n \in Primitives \union Members(generics) \/ n = "tuple" THEN {}
    ELSE IF n \in Containers THEN {<<"ArityRequired", <<n>> >>}
    ELSE IF Declared(n) THEN {}
    ELSE IF \E key \in models : key[1] = n THEN {<<"BareModelWithoutVersion", <<n>> >>}
    ELSE {<<"UnknownType", <<n>> >>}

\* check_generic.
ArityErrors(n, k) ==
    IF n \in Containers
    THEN IF ArityMatches(n, k) THEN {} ELSE {<<"WrongTypeArity", <<n>> >>}
    ELSE IF Declared(n)
    THEN IF \E i \in types : Items[i].name = n /\ Len(Items[i].generics) = k THEN {}
         ELSE {<<"WrongTypeArity", <<n>> >>}
    ELSE {<<"UnknownType", <<n>> >>}

Escape(place) == {<<"CapEscape", <<place>> >>}

\* check_type, of a type and of every type it is built from.
PartErrors(t, generics) ==
    CASE t.k = "named" -> NamedErrors(t.name, generics)
      [] t.k = "generic" ->
            ArityErrors(t.name, Len(t.args))
            \union (IF t.name = "channel" /\ t.args # <<>> /\ ContainsCap(t.args[1])
                    THEN Escape("channel") ELSE {})
      [] t.k = "model" -> IF <<t.name, t.version>> \in models THEN {}
                          ELSE {<<"UnknownType", <<t.name>> >>}
      [] t.k = "cap" -> IF t.star THEN {<<"CapStarInUserCode", <<>> >>} ELSE {}
      [] OTHER -> {}     \* tuples and functions
TypeErrors(t, generics) == UNION {PartErrors(a, generics) : a \in PartsOf(t)}

Repeated(s, kind) ==
    {<<kind, <<s[i]>> >> : i \in {j \in DOMAIN s : \E h \in 1..(j - 1) : s[h] = s[j]}}
NamesOf(s) == [i \in DOMAIN s |-> s[i].name]
TypesOf(s) == {s[i].type : i \in DOMAIN s}
FieldErrors(fields, generics) ==
    Repeated(NamesOf(fields), "DuplicateField")
    \union (UNION {TypeErrors(t, generics) : t \in TypesOf(fields)})
EscapesIn(ts, place) == IF \E t \in ts : ContainsCap(t) THEN Escape(place) ELSE {}

RecordErrors(r) ==
    Repeated(r.generics, "DuplicateGeneric") \union FieldErrors(r.fields, r.generics)
    \union EscapesIn(TypesOf(r.fields), "record field")

\* A variant's fields, of which a tuple variant's have no names.
VariantErrors(v, generics) ==
    (UNION {TypeErrors(t, generics) : t \in TypesOf(v.fields)})
    \union (IF v.shape = "record" THEN Repeated(NamesOf(v.fields), "DuplicateField") ELSE {})
    \union EscapesIn(TypesOf(v.fields), "enum variant")
EnumErrors(e) ==
    Repeated(e.generics, "DuplicateGeneric")
    \union Repeated(NamesOf(e.variants), "DuplicateVariant")
    \union UNION {VariantErrors(v, e.generics) : v \in Members(e.variants)}

ModelErrors(m) == FieldErrors(m.fields, <<>>)
AliasErrors(a) ==
    Repeated(a.generics, "DuplicateGeneric") \union TypeErrors(a.target, a.generics)
ConstErrors(c) ==
    UNION {TypeErrors(t, <<>>) \union EscapesIn({t}, "const") : t \in Members(c.types)}

IsMainCap(f, p) ==
    f.name = "main" /\ p.name = "cap" /\ p.type.k = "cap" /\ p.type.star
    /\ p.type.entries = <<>>

\* The parameter named cap, the first when there are several.
CapParam(f) == Selected(f.params, {i \in DOMAIN f.params : f.params[i].name = "cap"})

\* cap_paths_from_entries: longer paths are left out.
PathsOf(entries) ==
    {IF Len(e.path) = 1 THEN <<e.path[1], "*">> ELSE e.path :
        e \in {x \in Members(entries) : Len(x.path) <= 2}}

\* extract_cap_paths; without a cap parameter a function sees no cap.
FnCap(f) ==
    IF CapParam(f) = <<>> THEN NoCap
    ELSE LET p == CapParam(f)[1]
         IN  IF p.type.k # "cap" THEN CapOf({})
             ELSE IF IsMainCap(f, p) THEN CapOf(EveryOp)
             ELSE CapOf(PathsOf(p.type.entries))

\* pipeline_cap_paths; without one a pipeline sees an empty cap.
PipelineCap(p) ==
    IF CapParam(p) = <<>> \/ CapParam(p)[1].type.k # "cap" THEN CapOf({})
    ELSE CapOf(PathsOf(CapParam(p)[1].type.entries))

\* check_fn_signature.
FnErrors(f) ==
    Repeated(f.generics, "DuplicateGeneric")
    \union (UNION {TypeErrors(p.type, f.generics) :
                      p \in {q \in Members(f.params) : ~IsMainCap(f, q)}})
    \union (UNION {TypeErrors(t, f.generics) : t \in Members(f.ret)})
    \union EscapesIn({t \in Members(f.ret) : t.k # "cap"}, "return")
    \union {<<"MissingIntentForWriteCall", op>> : op \in WithoutIntent(f.body)}
    \union Unresolved(f.body, FnCap(f))
    \union (IF BadMatches(f.body) # {} THEN {<<"NonExhaustiveMatch", <<f.name>> >>} ELSE {})

\* check_saga: the parameters and the bodies are not looked at otherwise.
SagaErrors(s) ==
    {<<"SagaStepUndoNoopWithWriteDo", <<st.name>> >> :
        st \in {x \in Members(s.steps) : x.noop /\ HasWrite(x.do)}}

\* check_pipeline: its intent stands around every step and hook.
PipelineErrors(p) ==
    (UNION {TypeErrors(q.type, <<>>) : q \in Members(p.params)})
    \union Unresolved(p.body, PipelineCap(p))

\* check_agent.
RequiredFields == {"llm", "intent", "prompt", "accept", "produce"}
AgentErrors(a) == {<<"MissingAgentField", <<f>> >> : f \in RequiredFields \ a.keys}

ItemErrors(i) ==
    CASE i.kind = "record" -> RecordErrors(i)
      [] i.kind = "enum" -> EnumErrors(i)
      [] i.kind = "model" -> ModelErrors(i)
      [] i.kind = "alias" -> AliasErrors(i)
      [] i.kind = "const" -> ConstErrors(i)
      [] i.kind = "fn" -> FnErrors(i)
      [] i.kind = "saga" -> SagaErrors(i)
      [] i.kind = "pipeline" -> PipelineErrors(i)
      [] i.kind = "agent" -> AgentErrors(i)
      [] OTHER -> {}     \* policies, tests, properties, top-level statements

CheckItem ==
    /\ pc = "decls" /\ at <= Len(Items) /\ Item.kind # "net"
    /\ errs' = errs \union ItemErrors(Item)
    /\ at' = at + 1
    /\ UNCHANGED <<source, caps, pc, types, models, search, run>>

----------------------------------------------------------------------------
(* A net: a depth-first search for an edge back into its own path.         *)

\* Every name of one stage flows to every name of the next.
Cross(froms, tos) ==
    FlattenSeq([f \in DOMAIN froms |-> [t \in DOMAIN tos |-> <<froms[f], tos[t]>>]])
EdgesOf(flow) == FlattenSeq([w \in 1..(Len(flow) - 1) |-> Cross(flow[w], flow[w + 1])])
Edges(net) == FlattenSeq([i \in DOMAIN net.flows |-> EdgesOf(net.flows[i])])
Nodes(net) == UNION {{e[1], e[2]} : e \in Members(Edges(net))}
Successors(net, n) ==
    LET out == Selected(Edges(net), {i \in DOMAIN Edges(net) : Edges(net)[i][1] = n})
    IN  [i \in DOMAIN out |-> out[i][2]]

Least(S) == CHOOSE x \in S : \A y \in S : x <= y
White == {n \in DOMAIN color : color[n] = "white"}
Top == stack[Len(stack)]
Reach == Successors(Item, Top.node)
Ahead == Reach[Top.next]
Push(frames, n) == Append(frames, [node |-> n, next |-> 1])
Advanced == [stack EXCEPT ![Len(stack)].next = @ + 1]
Searching == pc = "net" /\ stack # <<>>

StartNet ==
    /\ pc = "decls" /\ at <= Len(Items) /\ Item.kind = "net"
    /\ pc' = "net" /\ color' = [n \in Nodes(Item) |-> "white"]
    /\ UNCHANGED <<source, caps, at, types, models, errs, stack, chain, run>>

EnterRoot ==
    /\ pc = "net" /\ stack = <<>> /\ White # {}
    /\ color' = [color EXCEPT ![Least(White)] = "gray"]
    /\ stack' = Push(<<>>, Least(White))
    /\ UNCHANGED <<source, caps, pc, at, types, models, errs, chain, run>>

EnterSuccessor ==
    /\ Searching /\ Top.next <= Len(Reach) /\ color[Ahead] = "white"
    /\ color' = [color EXCEPT ![Ahead] = "gray"]
    /\ stack' = Push(Advanced, Ahead)
    /\ UNCHANGED <<source, caps, pc, at, types, models, errs, chain, run>>

PassSuccessor ==
    /\ Searching /\ Top.next <= Len(Reach) /\ color[Ahead] = "black"
    /\ stack' = Advanced
    /\ UNCHANGED <<source, caps, pc, at, types, models, errs, color, chain, run>>

\* Seeded fault: the whole path is reported, not the part from the node on.
BugChainFrom(frames, n) == [i \in DOMAIN frames |-> frames[i].node] \o <<n>>

\* The path from where n first stands on it, and n again.
ChainFrom(frames, n) ==
    LET cut == Least({i \in DOMAIN frames : frames[i].node = n})
    IN  [i \in 1..(Len(frames) - cut + 1) |-> frames[cut + i - 1].node] \o <<n>>

\* The first cycle ends the search of the net.
BackEdge ==
    /\ Searching /\ Top.next <= Len(Reach) /\ color[Ahead] = "gray"
    /\ chain' = ChainFrom(stack, Ahead)
    /\ errs' = errs \union {<<"AgentNetCycle", <<Item.name>> >>}
    /\ pc' = "decls" /\ at' = at + 1 /\ stack' = <<>>
    /\ UNCHANGED <<source, caps, types, models, color, run>>

LeaveNode ==
    /\ Searching /\ Top.next > Len(Reach)
    /\ color' = [color EXCEPT ![Top.node] = "black"]
    /\ stack' = SubSeq(stack, 1, Len(stack) - 1)
    /\ UNCHANGED <<source, caps, pc, at, types, models, errs, chain, run>>

NetIsAcyclic ==
    /\ pc = "net" /\ stack = <<>> /\ White = {}
    /\ pc' = "decls" /\ at' = at + 1
    /\ UNCHANGED <<source, caps, types, models, errs, search, run>>

----------------------------------------------------------------------------
(* Pass 3: aliases, by the names at the head of their targets only.        *)

Aliases == {i \in types : Items[i].kind = "alias"}
Chased(n) ==
    IF \E i \in Aliases : Items[i].name = n /\ Items[i].target.k = "named"
    THEN LET i == CHOOSE j \in Aliases : Items[j].name = n IN Items[i].target.name
    ELSE NoName

\* alias_chain_visits_self: the start is among the names seen whenever one of
\* them comes again, so a chain that only leads into a cycle is reported too.
VisitsSelf(start) ==
    LET names[k \in 0..(Cardinality(types) + 1)] ==
            IF k = 0 THEN start ELSE Chased(names[k - 1])
        seen(k) == {names[j] : j \in 0..(k - 1)}
    IN  \E k \in 1..(Cardinality(types) + 1) :
            NoName \notin seen(k) /\ names[k] \in seen(k) /\ start \in seen(k)

CheckAliases ==
    /\ pc = "decls" /\ at > Len(Items)
    /\ errs' = errs \union {<<"CyclicTypeAlias", <<Items[i].name>> >> :
                               i \in {j \in Aliases : VisitsSelf(Items[j].name)}}
    /\ pc' = "mode"
    /\ UNCHANGED <<source, caps, at, types, models, search, run>>

----------------------------------------------------------------------------
(* The manifest: what its mode forgives, and its ceiling.                  *)

Forgiven ==
    CASE caps.enforce = "strict" -> {}
      [] caps.enforce = "loose" -> {"NoCapInScope"}
      [] caps.enforce = "off" -> {"NoCapInScope", "OpNotInCapSignature", "CapStarInUserCode",
                                  "MissingIntentForWriteCall", "SagaStepUndoNoopWithWriteDo",
                                  "AllowListOutsideLockset"}

ApplyMode ==
    /\ pc = "mode"
    /\ errs' = {e \in errs : e[1] \notin Forgiven}
    /\ pc' = IF caps.enforce = "off" THEN "checked" ELSE "ceiling"
    /\ UNCHANGED <<source, caps, at, types, models, search, run>>

\* family_for.
HasCeiling(op) ==
    op[1] \in {"http", "kube", "ai"} \/ (op[1] = "fs" /\ op[2] \in Members(ReadOps \o WriteOps))
CeilingOf(op) ==
    CASE op[1] = "http" -> caps.http_allow
      [] op[1] = "kube" -> caps.kube_contexts
      [] op[1] = "ai" -> caps.ai_models
      [] op[1] = "fs" -> IF op[2] \in Members(ReadOps) THEN caps.fs_allow_read
                         ELSE caps.fs_allow_write

\* check_entry: an item of the list has to stand in the ceiling as written.
\* An entry for a whole module is not looked at.
EntryErrors(e) ==
    IF e.allow.open \/ Len(e.path) # 2 \/ ~HasCeiling(e.path) THEN {}
    ELSE {<<"AllowListOutsideLockset", e.path>> :
             x \in Members(e.allow.items) \ Members(CeilingOf(e.path))}

CapTypes(i) ==
    IF i.kind \in {"fn", "saga", "pipeline"}
    THEN {p.type : p \in {q \in Members(i.params) : q.type.k = "cap" /\ ~q.type.star}}
    ELSE {}

CheckCeiling ==
    /\ pc = "ceiling"
    /\ errs' = errs \union
          UNION {UNION {EntryErrors(e) : e \in Members(t.entries)} :
                    t \in UNION {CapTypes(i) : i \in Members(Items)}}
    /\ pc' = "checked"
    /\ UNCHANGED <<source, caps, at, types, models, search, run>>

----------------------------------------------------------------------------
(* A run of a body that was accepted: any branch of it may be taken.       *)

CapValue(t) == [star |-> t.star, entries |-> t.entries]
Frames(body, around) ==
    [i \in DOMAIN body |-> [node |-> body[i], intent |-> around.intent,
                            spawned |-> around.spawned, opaque |-> around.opaque]]
Outermost(intent) == [intent |-> intent, spawned |-> FALSE, opaque |-> FALSE]

Start(i, s, body, intent) ==
    LET p == CapParam(Items[i])
        given == p # <<>> /\ p[1].type.k = "cap"
        cap == IF given THEN CapValue(p[1].type) ELSE CapStar
    IN  /\ running' = [item |-> i, step |-> s, given |-> given, declared |-> cap,
                       narrowed |-> IF Items[i].kind = "fn" /\ ~cap.star
                                    THEN NarrowedCap(cap, body) ELSE cap]
        /\ todo' = Frames(body, Outermost(intent))
        /\ pc' = "running"

\* What is not accepted is not run (cmd_run).  Only a function's signature is narrowed.
RunFn ==
    /\ pc = "checked" /\ errs = {}
    /\ \E i \in DOMAIN Items : Items[i].kind = "fn" /\ Start(i, 0, Items[i].body, FALSE)
    /\ UNCHANGED <<source, caps, at, types, models, errs, search, made>>

RunPipeline ==
    /\ pc = "checked" /\ errs = {}
    /\ \E i \in DOMAIN Items : Items[i].kind = "pipeline" /\ Start(i, 0, Items[i].body, TRUE)
    /\ UNCHANGED <<source, caps, at, types, models, errs, search, made>>

RunStep ==
    /\ pc = "checked" /\ errs = {}
    /\ \E i \in DOMAIN Items :
          /\ Items[i].kind = "saga"
          /\ \E s \in DOMAIN Items[i].steps : Start(i, s, Items[i].steps[s].do, TRUE)
    /\ UNCHANGED <<source, caps, at, types, models, errs, search, made>>

\* The parts of an expression come before it; a branch may be passed over.
Descend ==
    LET f == Head(todo)
    IN  /\ pc = "running" /\ todo # <<>> /\ f.node.kids # <<>>
        /\ \E taken \in SUBSET DOMAIN f.node.kids :
              todo' = Frames(Selected(f.node.kids, taken),
                             [intent |-> f.intent \/ f.node.k = "intent",
                              spawned |-> f.spawned \/ f.node.k = "spawn",
                              opaque |-> f.opaque \/ f.node.k = "opaque"])
                      \o <<[f EXCEPT !.node.kids = <<>>]>> \o Tail(todo)
        /\ made' = NoEffect
        /\ UNCHANGED <<source, caps, pc, at, types, models, errs, search, running>>

AtOp == pc = "running" /\ todo # <<>> /\ Head(todo).node.kids = <<>>
        /\ Head(todo).node.k = "op"

\* What an operation is aimed at.  That of http is the host in the first of the
\* arguments its handler receives, which named ones have been put in the order of
\* the parameters; none is reached when they are too few or too many, or the
\* address is refused.
Arity(op) == IF op \in {"get", "delete"} THEN {1} ELSE {2, 3}
Received(node) == Reorder(ParamNames(node.m, node.o), node.args)
Reached(node) ==
    LET vals == Received(node)
    IN  IF node.m # "http" THEN Targets
        ELSE IF vals = KwargError \/ Len(vals) \notin Arity(node.o) THEN {}
        ELSE IF vals[1] \in DOMAIN Texts THEN ParseUrl(Texts[vals[1]])
        ELSE Targets

\* The operation comes to its check of the cap.
Perform ==
    LET f == Head(todo)
    IN  /\ AtOp
        /\ \E target \in Reached(f.node) :
              made' = [m |-> f.node.m, o |-> f.node.o, args |-> f.node.args, target |-> target,
                       intent |-> f.intent, spawned |-> f.spawned, opaque |-> f.opaque]
        /\ todo' = Tail(todo)
        /\ UNCHANGED <<source, caps, pc, at, types, models, errs, search, running>>

\* It raises before: the error unwinds to the end of a construct that catches it,
\* or to the end of the run.
Raise ==
    /\ AtOp
    /\ \E rest \in 2..(Len(todo) + 1) : todo' = SubSeq(todo, rest, Len(todo))
    /\ made' = NoEffect
    /\ UNCHANGED <<source, caps, pc, at, types, models, errs, search, running>>

Evaluate ==
    /\ pc = "running" /\ todo # <<>> /\ Head(todo).node.kids = <<>>
    /\ Head(todo).node.k # "op"
    /\ todo' = Tail(todo) /\ made' = NoEffect
    /\ UNCHANGED <<source, caps, pc, at, types, models, errs, search, running>>

Finish ==
    /\ pc = "running" /\ todo = <<>>
    /\ pc' = "done" /\ running' = Idle /\ made' = NoEffect
    /\ UNCHANGED <<source, caps, at, types, models, errs, search, todo>>

CheckNext ==
    \/ RegisterType \/ RegisterModel \/ RegisterNothing \/ Collected
    \/ CheckItem \/ StartNet \/ EnterRoot \/ EnterSuccessor \/ PassSuccessor \/ BackEdge
    \/ LeaveNode \/ NetIsAcyclic \/ CheckAliases \/ ApplyMode \/ CheckCeiling
    \/ RunFn \/ RunPipeline \/ RunStep \/ Descend \/ Perform \/ Raise \/ Evaluate \/ Finish

CheckSpec == CheckInit /\ [][CheckNext]_checkVars

----------------------------------------------------------------------------
(* Properties.                                                             *)

Effect == made.m # "none"
Runner == Items[running.item]
ByName(cap) == SimplePermits(cap, made.m, made.o)

\* What the checker accepts, a run bears out: outside the constructs its walks
\* pass over, every write of a function is inside an intent, a saga step whose
\* undo is noop writes nothing, and every operation of a function or pipeline
\* is named by its cap, so that the check by name of runtime/eval.rs passes
\* ("loose" gives this up where the checker sees no cap, "off" altogether).
AcceptedRunsHold ==
    (Effect /\ ~made.opaque /\ caps.enforce # "off") =>
        /\ (Runner.kind = "fn" /\ IsWriteOp(made.m, made.o)) => made.intent
        /\ (Runner.kind = "saga" /\ Runner.steps[running.step].noop)
              => ~IsWriteOp(made.m, made.o)
        /\ (Runner.kind # "saga" /\ IsCapOp(made.m, made.o)) =>
              \/ running.given /\ ByName(running.declared)
              \/ caps.enforce = "loose" /\ (made.spawned \/ ~running.given)

\* The entries that name an operation allow the same.
Agree(cap, m, o) ==
    \A d, e \in Members(cap.entries) : Names(d, m, o) /\ Names(e, m, o) => d.allow = e.allow

\* What is written first is what the handler receives first, a literal with a host
\* and with neither user-info before it nor a query or fragment right after it.
Plain(call) ==
    /\ call.args # <<>> /\ Received(call)[1] = call.args[1].value
    /\ call.args[1].value \in DOMAIN Texts
    /\ LET u == Texts[call.args[1].value]
       IN  u.user = <<>> /\ u.host # <<>> /\ u.tail \in {"", "/"}

\* The operation was permitted by the declared signature, and is by the narrowed one.
StillPermitted ==
    Permits(running.declared, made.m, made.o, made.target)
        => Permits(running.narrowed, made.m, made.o, made.target)
Narrowed == Effect /\ ~made.opaque /\ running.given /\ Runner.kind = "fn"

\* The signature the linter suggests (check/narrow_caps.rs) is no broader than
\* the declared one, and a run under it is refused nothing that it was granted,
\* for every operation whose address, if it is an http call, is plain and, where
\* the first entry alone decides (minio), whose entries agree.
NarrowingKeeps ==
    Narrowed =>
        /\ running.declared.star \/ Covers(running.declared, running.narrowed)
        /\ (/\ IsCapOp(made.m, made.o)
            /\ made.m = "http" => Plain(made)
            /\ Guard(made.m) = "bucket" => Agree(running.declared, made.m, made.o))
             => StillPermitted

\* A cycle goes through a set of nodes each of which flows into the set.
Cyclic(net) ==
    \E S \in SUBSET Nodes(net) :
        S # {} /\ \A n \in S : \E m \in S : <<n, m>> \in Members(Edges(net))

\* Whoever goes on looking names up never comes to the end of them.
NeverEnds(name) ==
    \E S \in SUBSET {Items[i].name : i \in types} : name \in S /\ \A n \in S : Chased(n) \in S

\* The two searches for cycles of check/resolver.rs find what there is: an error
\* names a net exactly when a net of that name flows back to where it started,
\* and the chain reported is such a way; an alias is refused exactly when the
\* names it stands for never come to an end.
CyclesAreFound ==
    pc = "mode" =>
        /\ \A i \in DOMAIN Items : Items[i].kind = "net" =>
              (<<"AgentNetCycle", <<Items[i].name>> >> \in errs
               <=> \E j \in DOMAIN Items : /\ Items[j].kind = "net"
                                           /\ Items[j].name = Items[i].name
                                           /\ Cyclic(Items[j]))
        /\ chain # <<>> =>
              /\ Len(chain) > 1 /\ chain[1] = chain[Len(chain)]
              /\ \E i \in DOMAIN Items : Items[i].kind = "net" /\
                    \A k \in 1..(Len(chain) - 1) :
                        <<chain[k], chain[k + 1]>> \in Members(Edges(Items[i]))
        /\ \A i \in Aliases :
              <<"CyclicTypeAlias", <<Items[i].name>> >> \in errs <=> NeverEnds(Items[i].name)

----------------------------------------------------------------------------
(* Claims that the code does not meet (README, Findings): no run checks    *)
(* them, and TLC refutes each when it is added to the invariants of the    *)
(* run.                                                                    *)

\* docs/language.md:932: the linter "rewrites broad declarations to the minimum the
\* body actually uses", so that what is left refuses no call whose arguments all are
\* literals.
NarrowingKeepsUsed ==
    (Narrowed /\ made.m = "http" /\ \A a \in Members(made.args) : a.value \in DOMAIN Texts)
        => StillPermitted

\* docs/language.md:930: "cap[fs] permits every fs.* operation", so what the checker
\* accepts by the name of a whole module no check refuses at run time.
WholeModulesHold ==
    (Narrowed /\ \E e \in Members(running.declared.entries) : e = Entry(<<made.m>>, Unlisted))
        => Permits(running.declared, made.m, made.o, made.target)
=============================================================================
