# Formal models of the Aeris interpreter

Aeris is a small language for automations: sagas with compensation, pipelines,
calls of language models, capabilities, and a trace of everything a run does that
can be replayed. This directory holds TLA+ models of the interpreter in `src/src`,
the TLC configurations that check them, and proofs of their main properties that
the TLA+ proof system (TLAPS) checks for every value of the constants.

`PROJECT.json` is the index: components, runs, the definition-to-source map,
seeded faults, findings, hazards and theorems. The models are of the code: where
a document says something else, the code is modelled and the divergence is a
finding.

## 1. The system

All paths are relative to `src/src`.

| Component | State it keeps | Operations | Talks to |
|---|---|---|---|
| Saga interpreter (`runtime/eval.rs`, `invoke_saga`) | completed step names, the environment of the saga, the idempotency key of the block that runs | call, requires clauses, do, rollback, undo with retries | tracer (intent, events), backends (writes with a key), evaluator (blocks) |
| Pipeline interpreter (`invoke_pipeline_run`, `invoke_pipeline`) | implicit variables `last_step`, `last_output`, `last_error`, `as` bindings, skipped labels | argument binding, steps, `on_step`, `on_failure`, stop or continue | tracer, backends, evaluator |
| Trace recorder (`runtime/trace.rs`) | last timestamp and counter, intent stack, scope stack, events, the file | `record`, `intent_enter`, `intent_exit` | everything that runs, the file system, the wall clock |
| Trace diff (`runtime/trace_diff.rs`) | none | alignment by scope and ordinal | traces |
| Recording and replay (`runtime/replay.rs`, the builtins in `eval.rs`, `cmd_replay`) | tape, cursor, mode | `consume_next`, parsing of a trace, recording of calls | builtins, trace files, model backend |
| Module loader (`loader.rs`) | files in progress, files loaded | load and inline imports | parser, file system, CLI |
| Evaluator (`runtime/eval.rs`) | scopes of `Env`, deferred blocks, control flow | expressions, blocks, calls, `try`, `retry`, `timeout`, `catch`, `defer`, `spawn` | all of the above |
| Agents and nets (`invoke_agent`, `invoke_agent_net`) | values by node of the iteration, the last value of a terminal node, attempts | topological order, walk, routing by accepted model, retries, `until` | model backend, functions and other nets, tracer |
| Capabilities and policies (`eval.rs`, `value.rs`) | the `cap` in scope of each running function, the active policies | synthesis from the manifest, narrowing, delegation, the check of each builtin, policy clauses | builtins, static checker, manifest |
| Builtins (`builtin_*` in `eval.rs`) | none | argument checks, capability check, effect, event, in an order of their own each | everything outside |
| L2 backends (`runtime/l2_*`) | collections, queues and objects on disk, loaded modules | load and verify, dispatch to mock, real or loaded, read and write | builtins, file system, sagas (through the key) |
| HTTP server, chat server (`runtime/net_server.rs`, `run_ai_chat_server`) | listeners and connections by id | serve, accept and parse, reply, the loop of the chat | sockets, model backend |
| `ai.network` (`run_ai_network`) | whose turn it is, the talk | rounds, hand-off, sentinel | model backend |
| Manifest and fetch (`manifest/`) | the cache of fetched modules | parse, fetch, surface diff | file system, HTTP client |
| Static checker (`check/`) | declared types, colours and path of a search | resolve, walk for intents, capabilities and matches, ceiling, modes, narrowing | parser, manifest, CLI |
| Lexer, parser, formatter, docs (`syntax/`) | position and two flags of the parser | tokens, productions, recovery, printing | the file, through `check`, `fmt` and `doc` |
| JSON (`runtime/json.rs`), test harness, CLI | none that outlives a call | codecs, shrinking, commands | |

The interpreter is one thread: sagas, pipelines, hooks and builtins call each
other, and `spawn` runs its block at once. What makes it hard is not parallelism
but what the *called* code may do at each point: a block may end with a value, an
`Err` value, a raised error, a fatal error, or by `return`, `break` or `continue`;
it may call another saga or pipeline; it may write several times. Errors travel
through `?` past code that was to restore something. Outside the thread there are
the wall clock, the file system, the model, the stores and the clients of a server,
each of which may fail, stop half-way or answer differently the second time, and the
process may die between two trace events, or within a write, and go on from what
reached the file.

What makes each component correct:

- *Saga*: compensation is the mirror image of what completed, step by step (and not name
  by name); the result says what happened to each step; keys tell writes apart;
  events carry the intent of the saga that runs; a call returns.
- *Pipeline*: every step is done, skipped or the one that stopped the run, and the
  outcome says which; hooks and steps read implicit variables of the right step;
  arguments reach the parameters they are meant for; keys; intents.
- *Trace*: timestamps sort in emission order; events carry the intents and scopes
  of the frames they were recorded in; a diff reports what was lost or swapped.
- *Replay*: what a replay returns is what was recorded; nothing outside is contacted
  for what the tape serves; nothing is served twice, out of order, or passed over.
- *Agent nets*: a node runs after what it depends on, once, on a value that comes
  from there and from this iteration; nothing is left out but what is behind a
  cycle; the model is called no more often than the retries allow; a net returns,
  and what it returns is what its last terminal node made in its last iteration.
- *Evaluator*: a form leaves the scopes it found; deferred bodies run on every way
  out of a call, each once, the last one first; what a closure captured cannot
  change; nothing recovers from a violated contract.
- *Loader*: what is accepted can be read and is acyclic; what is called a cycle is
  one; each file is inlined once, depth first; loading ends.
- *Capabilities*: an effect is granted by the cap in scope and by every cap it was
  narrowed from, and heard by every active policy; a call that returned after it
  touched something is in the trace; a named argument arrives under its name.
- *Backends*: no module runs unverified; the store puts a key into one document; what is
  acknowledged and can be decoded is there, except for what a torn write takes with it, and
  that is counted.
- *Servers*: an answer reaches the one who asked, once; no connection is kept for
  nobody; a body is whole; one bad client does not end or starve the chat server.
- *ai.network, fetch*: everyone's turn comes; the cache holds what its origin sent.
- *Checker*: what it accepts holds in a run; a suggested signature grants no more and
  refuses nothing that was used; cycles are found, and only cycles.
- *Syntax*: formatting keeps the tree; recovery reports the right errors and keeps the
  sound declarations; documentation stays with its declaration.

`PROJECT.json` lists under `hazards` what of this is hard to reach with a test, at
the line where it bites, with the property that covers it.

## 2. Modules

```
Selection         operator: the elements of a sequence at some positions
TraceStack        operators: the tracer's two stacks
 |- Tracer        the tracer, its file and its clock; diff_traces
 |- Saga          invoke_saga, run_undo_with_retries
 |- Pipeline      invoke_pipeline_run, invoke_pipeline, bind_pipeline_args
SagaContract      abstract specification of a saga; Saga implements it
Replay            recording a run, and replaying it
Loader            load_recursive and its two callers
AgentNet          the graph of an agent_net, topo_order; invoke_agent_net, invoke_agent
Evaluator         eval_expr, eval_block, eval_match, eval_for, invoke_value

CapRules          operators: what a cap covers, permits, and gets from the manifest;
 |                the order of named arguments
 |- Builtins      operators: the steps of each builtin
 |   |- Caps      functions, caps, policies and calls of builtins
 |- Walkers       operators: the checker's walks and the linter's, both readers of addresses
     |- Checker   resolver, modes, ceiling, searches for cycles, and a run
L2Modules         loading and verifying modules; which backend a family has
Stores            collections, queues and objects on disk
 |- Backends      a program and its backends (both of them)
HttpServer        registry of connections, request parser, chat server, clients
AiNetwork         ai.network
ModuleCache       the cache of fetched modules
 |- Services      what a program does with the network (one of the three)
Lexer             tokens
 |- Parser        the machinery of a recursive-descent parser, the productions, recovery
     |- Formatter     printing of trees
         |- Frontend    fmt, check and doc on a file
```

A component's module ends with its properties; `XProofs` holds theorems and proofs,
`MCX` the constants of its TLC run. Definitions whose name starts with `Bug` are
seeded faults: each is the form a plausible mistake would give to the definition
after it, and shows that the property it is listed with (`mutants` in `PROJECT.json`)
can fail. Nine modules end with claims of a document or a comment that the code does not
meet; no run checks them (section 3).

### Saga

`phase` is the place of the interpreter: `requires` and `do` in the forward loop,
`rollback` and `undo` in the other, `idle` outside. `step` and `clause` are the loop
indices, `completed` the vector of that name, `left` what the iterator over
`completed.iter().rev()` has not reached yet, `attempt` the loop variable of
`run_undo_with_retries`. `calls` is the set of keyed writes the run has issued:
the stores see only the key, the model remembers block, step and invocation as
well. `stacks` are the tracer's stacks, which a saga shares with everything else
in the run. Actions are named for what they do; `RequireRaises` is the `?` at
`eval.rs:6361`, `UndoExhausted` the return of `PartialFailure`.

User code is nondeterministic: each clause is true, not true or raises; each
block ends well or not and meanwhile issues writes (`WriteCall`), runs intent
blocks (`BodyIntentBlock`) or calls another saga or pipeline that is abandoned
(`NestedAbandoned`). A call of another saga or pipeline that returns leaves the
stacks as it found them and its writes carry its own keys, so it is a stutter
here. A saga that calls itself from a step is not modelled: its calls do not
interleave with the outer ones.

`SagaContract` is what docs/language.md section 12.4 promises: complete steps in
order, then commit, or compensate completed steps backwards until none is left
or one cannot be. It works on steps and not on their names, so it sees which of two
steps of one name was undone; `UndoNamesake` is the one place where it promises less than
the document, since the code looks a completed step up by its name and finds the first of
that name. `Saga` implements it under the mapping at the end of the module
(`ImplementsContract`), with clauses, writes and retries as stutters. `ReverseCompensation`
and `HonestResult` are about steps too: a completed step is undone itself, in its turn,
unless it has an earlier namesake (`HasNamesakeBefore`); `EveryStepUndoneOnce` is the claim
without that exception, which TLC refutes. Names are distinct in a sensible saga, but nothing
in the checker asks for it.

A fatal error of a block (a violated contract or policy) is one of the ways in which
`StepErr` is reached: like invoke_pipeline, invoke_saga turns it into an Err value.

### Pipeline

`i` is the loop variable, `env` the three implicit variables and the `as` bindings
of `pl_env`; a value is identified with the step that produced it. `hooks` is
chosen once: a declaration has both hooks, one or none. The model takes an `as`
name not to be one of the implicit variables, which nothing in the checker
enforces. `Place` is one turn of the first loop of `bind_pipeline_args`, `Placed` that loop
and `Binds` and `Binding` what follows it; `ArgsBoundOnce` compares them with a declarative definition (`Assignments`).

### Tracer

`Tick` is the monotonicity bump of `Tracer::record`, `Record` the whole of it:
event, memory, file. `open` is what the callers are really in; the tracer does
not know it, and `Abandon` is a caller that leaves through `?`. `Stamp` is
`format_iso_ms` with base and width of the counter as parameters. `diff_traces` is
the operator `DiffTraces`; the properties apply it to a run's events and its file
(what a crash or a failed write lost), and to the events with two neighbours
swapped.

### Replay

`script` is what the program was answered in the recorded run, `tape` what the
trace file holds of it. A failed model call leaves no event, a failed HTTP call
does; bodies are on the tape only under `full_record`. In the replay the program
is a deterministic client: while everything it has been given equals the
recording, its next call is the recorded one (`NextOps`), afterwards any. `Serve`,
`RunDry` and `GoLive` are the three ways a builtin can go. `contacts` are the
calls that went out of the process for their answer: to a model, the network or the disk.
Only ai.complete and its kin, clock.now and random.next look at the tape; the verbs of
http and the reads of fs do their work again, which `OnlyOffTapeContacts` says, as it says it of
`ai.session_ask` and `ai.decide`. There is one cursor for all kinds. `FaithfulReplay` states what
is right of "FIFO per kind" (`FifoOnTrack`): as long as the replay keeps to the recording and
could be answered by it, no event that a builtin would be served from has been passed over.

### Loader

`stack` are the frames of the recursion, each with the import it looks at and the
module built so far; a file is identified with its canonical path and its items.
With `checking` the outermost frame is the module `aeris check` has parsed, which
is in neither set. `Return` is the end of `load_recursive`, `Finish` that of the
outermost call.

### AgentNet

`flow` is the net as the sequence of edges that its flow lines spell out, fan-outs
multiplied out. `pending`, `indeg`, `queue` and `out` are the variables of `topo_order`;
`CountOff` is one turn of its inner loop and `Pop` one of its outer loop. Nets
with cycles are included: `aeris run` refuses them (the checker's E70), but
`aeris replay` runs a module that only the parser has seen.

`nodeOut` is `node_out`, `terminal` is `last_terminal_value`, `attempt` the loop
variable of `invoke_agent`. A value is the node that made it, the iteration, and the
name of its model, which is all that `value_matches_model` looks at. `Offered` holds what
the lookup may find: the value under the node or else that under any predecessor,
since the order of a `HashMap` is not fixed. `RunNode` is the call, and what the called
node does is one of `InputRejected` (the value is not what the agent accepts, before any
model is called), `AgentAnswers`, `AttemptFails`, `AgentFails` (the model, the
budgets and the decoding of its answer) or `OtherReturns`, `OtherErr`, `OtherRaises`.
`until` is a choice at the end of each iteration. `HonestResult` says which value a net has:
that of the last terminal node in the order that yielded in the last iteration, if one did
(`ValueIsLast`); an older one only if none did.

### Evaluator

The Rust call stack is the state: `frames` has one frame per form that is being
evaluated, the innermost last, with the place (`use`) at which its code waits. `envs`
has one `Env` per active call of a closure, with its scopes and its defer frame;
`closures` are the snapshots taken by lambdas. In mode `expr` an expression is to be
evaluated, in mode `step` the innermost frame goes on by itself, in mode `give` it
receives `flow`, what the form inside it ended with. A frame's `env` is the index of the
`Env` it is evaluated in. `Flow` has the kinds of the code's
`Flow` and, of the errors, tells apart what was raised, a violated contract and the
rest.

The program is nondeterministic: when an expression or a statement comes, it may be
any of the forms in `forms`, as long as `choices` allows another. Operators, builtins,
constructors and conversions are all `Use`, an operand and then a value, or `Fail`. The
clauses of a contract are outcomes. A deferred body reads one name or is any
expression. `depth`, `env`, `seen`, `ran` and `fatal` are history and guard
nothing.

Left out of this model: `if` with an else (its branches are blocks like the first),
options, several arguments, statements of the module outside functions, mutating
methods (`push`, `pop`) and their write-back, the `timeout` event. Policies and the
builtins are in Caps; sagas, pipelines, nets and replay are modules of their own.

### CapRules, Builtins and Caps

A cap is a set of entries, each a path with an allow-list or without one, or `cap[*]`;
a path pattern, host or argument is a sequence of segments. `Covers` is
`CapValue::covers`, `PathPermits` to `AiPermits` are the enforce functions, each with the
names it compares, and `SynthesiseMainCap` is the cap that main is given; `MainCap` adds
what `cmd_run` does with a manifest that is missing or does not parse.

`Reorder` is `reorder_kwargs_for_builtin` over the parameter table, `Seat` one turn of its
loop; the run of the checked program (Checker) uses them as well.

`Steps` of Builtins gives every builtin the order in which its handler checks late
arguments, acts, decodes what came back and records its event, and `Checked` what its
capability check is about; the handlers of the code differ in just this. Besides the
builtins there are the ways to a model that eval_call does not dispatch: `network_run`,
`chat_ask` (which the chat server takes too), `agent`, `assert_semantic` and `assert_judge`.
They go by the policies (`Dispatched`), some check nothing (`Unchecked`), and network.run
checks and drops the refusal (`Swallows`): it asks the default model then.

In Caps, `stack` are the running functions, each with the value its name `cap` is bound to
and, as history, the caps that this one was narrowed from; `sig` is the cap the signature
declares, which only the checker looks at (`Resolves`). A call goes through policies,
arguments, check and handler, one step each, and any of them may raise; `Unwind` is an
error that a pipeline or an agent goes on after. `EffectsGranted` reads the caps by the
meaning that docs/language.md section 8.3 gives them (`Grants`), not by the code's own
comparison; it is about the operations that check, with the two exceptions that the code
makes for models (`ToDefault`, and the mock of an empty list). `AllowListIgnored` names the
families whose allow-lists no check reads. `PoliciesHold` is about what eval_call
dispatches. `ModelsAreGranted` and `PoliciesHoldForModels` are the claims of the document for
every way to a model; TLC refutes both.

### L2Modules, Stores and Backends

`CheckModule` is one check of `LoadedModule::load`, in the order of `Checks`; `ran` are the
modules of which some code has run. `LoadedModule::load` reads the file once to hash it and
verify its signature (`l2_module.rs:89`) and opens it again by path to load it (line 128); what
may happen to the file between the two is not modelled: a module is one value. A file of the stores is a sequence of lines, a line a
sequence of fragments, since an append behind a torn line continues it. A fragment knows
its document, the keys its text shows and how far it was written (`Cuts`): an append may
stop before its first byte, before the key, inside a character, behind the key, or before
the end of the line. `Skipped` are the documents whose line no read decodes (values that are
no records, records with a number that the decoder does not take), `Bare` those that get no
key since they are no records. A document may bring a key of its own, from elsewhere or since
it was read from the collection (`Brings`, `KeysRead`): a read hands `__aeris_idem` back with the
other fields, and a write adds the key of the block only to a record that has none
(`KeysShown`). `Decodes` is what a read makes of a line, `HasKey` the search for
the key in the text of the lines. `Die` ends the process between or within writes;
`run` counts the starts. A saga presents one key to a whole block (`BlockKeys`), as
`idempotency_key` makes it: the two sides of the key, Saga and Stores, meet in
`KeysTellStepsApart` (different steps, different keys) and `KeyStoredOnce` (a key of a block
is put into one text of the collection; every other text that shows it is of a document that
was handed over with it). `LossIsBounded` compares what a read returns with what was
acknowledged, was no duplicate and can be decoded, whatever stands between. Three claims are
stronger and refuted: `KeyStandsOnce`, `RepeatIsDuplicate` and `AcknowledgedIsRead`.

### HttpServer, AiNetwork, ModuleCache and Services

`streams` is STREAMS, `nextId` is NEXT_ID, which listeners and connections share.
`reading` is the request being parsed, item by item: the request line, a header, a
length, the empty line, a piece of the body; the thread waits for each. The buffer of the
body is allocated for the length the client announces, before any of it has come: up to
`SafeLength` there is memory for it, beyond that `NoMemory` may end the process, with all
its connections (`dead`). Clients connect,
send and hang up at any time. In mode `program` user code calls accept, and reply on any
request it still has, also twice; in mode `chat` the loop of `run_ai_chat_server` does.
In AiNetwork a reply is the sentinel, a hand-off to a name, or neither; what the capability
answers is an input of `Run`, and a refusal leads to the default model. ModuleCache writes
in place, and a write may stop half-way (`StoreBreaks`); the body of an answer is taken as
it came. A process does one of the three things, so Services chooses one (`job`).

### Lexer, Parser, Formatter and Frontend

A source text is a sequence of glyphs: a character that the lexer looks at, or a run of
characters it copies. Productions are data (`Tok`, `Ref`, `All`, `Opt`, `List`, `Pick`),
one for each function of parser.rs, and `Run` interprets them over the parser's
state: position, and the flags for record literals and for `|`. `RecoverItems`, `AfterItem` and
`SyncToNextItem` are parse_module_recovering. A tree is a tag and a list of trees; `FmtItem`,
`FmtExpr` and their helpers are the functions of fmt.rs over it, with white space as one
glyph. Frontend runs the three commands on a file that an author writes piece by piece.
`Lossy` names the forms that the formatter is known to lose; `RoundTrip` says that there
are no others.

### Walkers and Checker

A body is a tree of nodes of which the walks tell apart the kind (`op`, `intent`, `spawn`,
`match`), what they descend into (`walked`) and what they pass over (`opaque`). An operation has
its arguments as they are written, each with its name or without, and an address is a text of
parts (`Texts`: scheme, user-info, host, port, what ends the authority), which `HostFromUrl` of the
linter and `ParseUrl` of the client read each in its own way. The linter looks at the argument
that is written first (`HostSeen`), the run at the first after they have been put in the
order of the parameters (`Received`). `RegisterType`
to `CheckAliases` are the passes of resolver.rs, one item a step; the search for a cycle in
a net keeps `color` and `stack` as `dfs_find_cycle` does. `CheckCeiling` compares signatures
with the manifest, `ApplyMode` drops what the mode forgives. What is accepted is then run
(`RunFn`, `RunPipeline`, `RunStep`): the run visits every node, opaque ones too, and
makes the effects that the caps of CapRules permit or refuse (`Perform`), or raises before it
gets there (`Raise`). `narrowed` is the signature that narrow_caps.rs suggests for the function
that runs, and `NarrowingKeeps` says when it grants what was granted before: for an http call
when the address is `Plain`, a literal that is written first and that both readers read
alike. Without that condition it is `NarrowingKeepsUsed`, which TLC refutes. What the checker
accepts is by name: cap[minio] and cap[ai] name all operations of their modules and the run
refuses each (`WholeModulesHold`, refuted); `AcceptedRunsHold` is about names. The nodes of a body
are collected layer by layer (`NodesOf`, of a type `PartsOf`), with what surrounds each and
whether the walks reach it; `MaxNesting` bounds the layers, and `ModulesAssumption` asks that
no body goes deeper. The searches of resolver.rs may meet anything.

## 3. Runs

| Run | Instance | Distinct states | Shows |
|---|---|---|---|
| `saga` | 4 steps, first and third of one name, second `undo: noop` and with a requires clause, 2 invocations | 242 812 | safety, refinement of `SagaContract`, `Returns` |
| `pipeline` | 3 steps, two with one label, two `as` bindings, parameters v, cap, w, 156 argument lists, 2 runs | 452 752 | safety, argument binding |
| `replay` | up to 3 recorded calls, 1 call off the recording, 2 values of each sort | 1 595 751 | what replays are faithful to, in which order, and what they contact |
| `trace` | up to 5 events, 2 clock readings, counter of 2 binary digits | 698 058 | order, frames, diff |
| `loader` | every graph over 3 files, each importing up to 2, or unreadable, or ill formed | 150 560 | verdicts, inlining |
| `agent_net` | every net of up to 3 edges over 2 agents and a function, and 4 of 4 or 5 edges | 293 164 | order, values, result, `EndsWithinBudget` |
| `evaluator` | every run of 3 to 6 forms from each of eight families, a function, one local, loops and retries of up to 2 | 1 128 986 | scopes, deferred bodies, contracts; no form is stuck |
| `caps` | 4 manifests, 4 narrowings, 1 signature, 19 calls, 3 policies, 3 functions deep, 2 retries | 98 868 | grants along the lineage, policies, trace, named arguments |
| `backends` | 3 manifests (Mongo, Rabbit and Minio, or two modules and Docker), 3 documents (a record, one with NaN, a list), 1 foreign key, 3 writes, 2 starts | 447 704 | verification, keys, torn writes |
| `frontend` | every operand in every frame, a program of each kind of item, files of up to 3 pieces | 6 309 | round trip, recovery, docs |
| `services` | 2 clients with 11 scripts, 3 replies; 3 agents with 3 names, up to 4 rounds; 3 fetches of 3 repositories | 731 615 | replies, bodies, turns, cache, `ChatServesEveryone` |
| `checker` | 40 modules, 3 manifests, 3 targets, 8 texts | 1 577 | accepted runs, narrowing, cycles |

Why the bounds are enough:

- *Saga.* Four steps, the third with the name of the first: a failure of the third
  rolls back steps of different names, a failure of the fourth a step, another, and its
  namesake.
- *Pipeline.* Three steps are the fewest with a first, a middle and a last one, two of
  them of one name with another between them.
- *Saga, Pipeline.* Two invocations are what
  it takes for one to find what the other left on the stacks. The properties about
  keys compare two calls, so two remembered calls (`MaxCalls`) are enough. One
  abandoned nested call per invocation is enough to break what it can break. The
  proofs need none of these bounds.
- *Pipeline arguments.* Three arguments for three parameters, with an unknown name
  and repetitions, include every order of positional and named ones that matters:
  named before, after and between positional ones, too many, too few, `cap` given
  or left out.
- *Replay.* The shared cursor is at fault when two kinds interleave around a third
  call: three calls. One call off the recording is enough to observe what the tape
  does next, and two values of a sort to see one taken for the other. `random.next`
  and `fs.read_*` are treated like `clock.now` and `http.*` and left out of the
  instance by `Uses`.
- *Trace.* The fourth event of a millisecond overflows a counter of two binary
  digits, the fifth shows its effect; the code has six decimal digits.
- *Loader.* Three files with two imports each include self-imports, cycles with
  and without the entry, diamonds, and a file imported twice by one file. A walk
  over them is complete after seven steps, since each file adds at most two.
- *Agent nets.* Three edges over three nodes include every loop, cycle, repeated
  edge, fan-out, fan-in and triangle, in every order of the lines. The larger nets
  add what needs four nodes: a diamond, branches of different models two nodes deep,
  two nested fan-ins, a cycle and an undefined name behind an entry. The agents
  differ in what they accept, produce and retry. Three iterations are the code's own
  bound (`AGENT_NET_MAX_ITERATIONS`).

- *Evaluator.* Each family of forms brings together constructs that share something:
  scopes and deferred bodies, signals and loops, errors and what catches them,
  captures and assignments. Recursion is included (a closure or the function may call
  itself), and a form inside a form inside a form, which is what a scope left behind
  or a signal taken for another needs to show. There is one name for locals, which is
  also the name that an ensures clause gives the result: shadowing is the interesting
  case, and unrelated names do not meet. `MaxFrames` (9) bounds the nesting, `choices`
  (3 to 6) the forms of a run, blocks and literals not counted, `MaxTries` (2) attempts,
  items and arms: one that fails and one after it. The choices differ since the
  families branch differently.

- *Caps.* Three functions are a caller, one with a narrowed cap and one it delegates to
  or that hides it. The nineteen calls have every order of steps among the builtins
  and every sort of target: one, two (`fs.rename`), a list (`shell.pipe`), a model chosen
  by the cap (`ai.decide`), and every way to a model that is not dispatched. The policies have every kind of clause, and two of a kind.
- *Backends.* Three writes are a torn one, one that is glued to it and one behind; two
  starts, one after a crash; a document that a read decodes, a record and another value that
  none does; with a key of their own, one that was read, or none. Stores, queues and modules
  share no file, so each has a manifest to itself.
- *Frontend.* Operands and frames include every operator and every production with an
  operand, one inside the other; deeper nesting repeats the same two-level question of
  which parentheses are needed. Three pieces are a broken one between two sound ones.
- *Services.* Two clients are one that is served and one that waits, or whose reply could
  be confused with the other's; the scripts end at every place of a request, and one announces
  more than `SafeLength`. Three
  agents are the fewest where round-robin and a skipped one differ, two may share a name.
  Three fetches: one that tears, one that reads it, one of another repository.
- *Checker.* The modules are written to have each error and, next to it, each shape that
  is just not the error; nets have up to four nodes, a cycle reached late, crossed
  twice, apart from the rest, or of one node; two nets may share a name. No body nests
  deeper than `MaxNesting` (TLC evaluates the assumption that says so).

Deadlock is checked for `evaluator`: in every state in which an evaluation is not over
some rule applies (`Ended` is the only step of a finished one; where a bound leaves no
form, a literal is left), and for `caps`, where a program can always do something. It is
not checked for the others, which may end.

*Fairness.* `Returns` (a saga call returns) assumes weak fairness of the two loops
of `invoke_saga`, not of user code issuing more writes and not of further calls.
The interpreter is one thread that does nothing else until the call is over; that
the blocks and clauses it evaluates end is an assumption about the program.
`EndsWithinBudget` of the agent net does likewise: the thread waits for the model and for
called functions only, and these are assumed to come back, with an answer or an error.
`ChatServesEveryone` assumes weak fairness of the server's thread and nothing of the
clients; since a silent client does hold up the server for ever, the property is
conditional on the server not waiting for ever in the middle of a request. Nothing
else is assumed to be fair.

### What the code does not do

`findings` in `PROJECT.json` quotes, for each disagreement met while modelling, the code
and what a document, a comment or the program's own trace says. Twenty claims are stated as
definitions at the end of their modules; TLC refutes each when it is added to the invariants in
the configuration of its component. They are not among the listed runs, so this has to be
repeated by hand after a change:

| Claim | Module | What the code does |
|---|---|---|
| `SkippedNeverRuns` | Saga | a false `requires:` clause records `step_skip`, and the step runs |
| `EveryStepUndoneOnce` | Saga | of two steps with one name the first is undone twice, the other never, and the result is "rolled back" |
| `FatalStaysFatal` | Pipeline | contract and policy violations in a pipeline step are ordinary failures (in a saga step too) |
| `AiIsReplayed` | Replay | `ai.*` is not replayed from a default recording; `session.ask` and `ai.decide` never are |
| `EveryKindIsReplayed` | Replay | the verbs of http and the reads of fs do their work again in a replay |
| `FifoPerKind` | Replay | one cursor for all kinds: looking for one passes over the others |
| `ErrFeedsNothing` | AgentNet | a node whose predecessors all failed runs on what they were given |
| `ResultIsFresh` | AgentNet | a net may return a value of an earlier iteration than the one `until` held for |
| `ExhaustedHasNothing` | AgentNet | a net is "exhausted" also when its terminal nodes yielded |
| `DeferSeesItsNames` | Evaluator | a deferred body runs when the scope of its function's body is gone |
| `SignatureEnforced` | Caps | the allow-list in a signature is not enforced at run time |
| `ModelsAreGranted` | Caps | network.run drops a refusal, chat.ask, the chat server and a judge check nothing |
| `PoliciesHoldForModels` | Caps | agents, network.run, chat.ask, the chat server and assert_semantic go by the policies |
| `KeyStandsOnce` | Backends | a document that was read brings its key along and is stored with it again |
| `RepeatIsDuplicate` | Backends | a value that is no record, or brings another key, is appended by every retry |
| `AcknowledgedIsRead` | Backends | a value that no read decodes is acknowledged |
| `ChatStaysUp` | Services | an announced length there is no memory for ends the process |
| `RefusedRunIsSilent` | Services | a network whose run the cap refuses talks to the default model |
| `NarrowingKeepsUsed` | Checker | the linter takes the argument written first for the address, and reads it with a parser of its own |
| `WholeModulesHold` | Checker | cap[ai] and cap[minio] pass the checker for operations that the run refuses |

The others:

- *Sagas.* The idempotency key is per declaration position, not per invocation, so two
  calls of a saga share their keys; a requires clause that raises leaves the saga without
  a rollback; an intent block takes away a scope it did not add.
- *Nets.* An agent that is out of retries ends its whole net, without `net_exit`.
- *Evaluation.* An error that `?` or `raise` makes is never seen by a `catch` or `retry` of a
  caller; `catch` on a value that is not a result is a type error; deferred bodies see the
  result that an ensures clause bound; a contract violated in a deferred body is dropped.
- *Capabilities.* A manifest that does not parse is one that is not there: `cap[*]`. The
  files of `ai.chat(dir)` are read without a check of their paths. Named arguments behind a
  gap move up. No check reads the allow-lists of kube, docker, mongodb, rabbitmq and audit.
- *Stores.* One block's second insert is dropped as a duplicate, and so is the retry of a
  write that was torn behind its key.
- *Services.* `spawn` does not multiplex; a second reply is recorded as if it were sent;
  a partial file stays in the cache for good, and two repositories may share a directory.
- *Checker.* The walks pass over `catch`, `every`, `retry`, `timeout` and interpolated strings; a
  computed address next to a literal one is narrowed away; where two entries for one
  operation of minio disagree, the suggested signature may put the wrong one first; an alias
  that leads into a cycle is reported as part of it.
- *Syntax.* `aeris fmt` drops comments and loses the forms of `Lossy`; recovery stops at the `fn`
  of a lambda and forgets to allow record literals again.

The invariants are stated so that they say exactly what remains true in spite of
these (`HasNamesakeBefore`, `~leaked`, `~abandoned`, `~bare`, `FailedAsk`, `OnTrack`, `ValueIsLast`,
`Dispatched`, `ToDefault`, `brought`, `Kept`, `~opaque`, `Plain`, `Lossy`, `Broken`, the
condition on `flow` and `Draining` in `ScopesBalanced`: an error in a pattern or a guard leaves
the scope of the arm pushed, which only the deferred bodies of the same call can notice).

## 4. Proofs

| Module | Theorems | Inductive invariant |
|---|---|---|
| `SagaCheckerProofs` | Saga: types, `ReverseCompensation`, `HonestResult`, `IntentIsOwn`, `OnlyCompletedUndone`, `KeysTellStepsApart`, refinement of `SagaContract`; a call ends (`LoopsAdvance`) | `Inductive` |
| | Checker: `AcceptedRunsHold`, `NarrowingKeeps` | `ErrorsStay`, `RunsWell` |
| | Checker: `CyclesAreFound`; the check ends (`CheckAdvances`) | `ErrorsStay`, `Searches`, `Found` |
| `PipelineProofs` | types, `HonestOutcome`, `EnvTellsTruth`, `ArgsBoundOnce`, `IntentIsOwn`, `KeysTellStepsApart`; a run ends (`RunsAdvance`) | `Inductive` of `Pipeline` |
| `TracerProofs` | Tracer: types, `TicksAscend`, `EventsTellTimeAndPlace`, `DiffTellsTruth` | `Inductive` with `EventsFollowFrames`; `Behind` |
| | Replay: `FaithfulReplay` with `FifoOnTrack`, `OnlyOffTapeContacts`, `ServedInOrder` | `ReplayInv` |
| `LoaderProofs` | types, `StackIsPath`, `VerdictIsRight`, `InlinedDepthFirst`, the walk ends (`InlinedAsWalked`); a load ends (`LoadAdvances`) | `IInv`, `Simulated`, `UsesGathered` |
| `AgentNetProofs` | types, `OrderIsRight`, `InputFromUpstream`, `CallBudget`, `HonestResult`; an invocation ends (`NetAdvances`) | `TopoInv` for the order, `Inductive` for the walk |
| `EvaluatorProofs` | types, `ScopesBalanced`, `ContractIsFatal`, `DefersRunInReverse`, `CapturedIsReadOnly` | `Inductive`: `Walk`, `FatalHeld`, `Program` |
| `EffectsProofs` | Services: `RepliesReachTheirClients`, `BodyIsWhole`, `EveryoneSpeaks`, `CacheHasOrigin` | `ServerInv`, `BodyInv`, `TalkInv`, `CacheInv` |
| | Backends: `VerifiedBeforeRun`, `KeyStoredOnce`, `LossIsBounded`, `MessagesStayPut` | `LoadInv`, `StoreInv`, `Loss` |
| | Caps: `EffectsGranted`, `ReturnedIsRecorded`, `PoliciesHold`, `NamedReachParameters` | `CapInv`, `Accounts`, `Heard`, `HandedOver` |
| `CommonProofs` | lemmas about the stacks, about selections, `LeastPosition` and `CountUp`, which stand in for induction, and `RanksEnd` | |

They rest on the named assumptions of the modules and nothing else: numbers of
steps, clauses and invocations are any naturals, labels and step names may repeat, parameters
and arguments are any sequences,
the import graph is arbitrary, and so are the net, its models and its retries, the
clients of a server and what they send, the agents of a network, the repositories that are
fetched, the manifests, narrowings and policies, the documents and the writes, the recorded
run and the program that is evaluated. What the assumptions ask is that constants have
the type their comment says (a script is a sequence, an allow-list a list, a number of clauses a
natural, a signature has paths of one or two names as the parser leaves it, a body nests no
deeper than `MaxNesting`), and in three places more: no declaration is called `"no name"`
(`ModulesAssumption`; a name holds no blank), the marks of
a replay are not values a program can be answered (`ReplayAssumption`), and nobody is called
`"nobody"` (`ClientsAreServed`).

- *Saga.* `ReverseCompensation` alone is not inductive: that the undone step is
  the right one needs to know that `completed` is the prefix of step names
  (`CompletedIsPrefix`), and that a result is honest needs to know what holds at
  each place of the two loops (`Position`) and that each step the rollback has passed was
  itself undone, unless it has an earlier namesake (`PassedIsUndone`). Keys are told apart through their
  origin (`KeyOrigin`): the key of a do block determines the position of the step,
  the key of an undo block its name, and rollback reaches only the first step of a
  name. The refinement maps each action to a contract step or a stutter.
- *Pipeline.* `HonestOutcome` needs, at each place, whether the step at hand is in
  `succeeded` already (`Position`), and `EnvTellsTruth` follows since the largest
  member of `succeeded` is the last to be added. `ArgsBoundOnce` is about an algorithm and not
  about a run: after *k* turns of the loop the slots hold the first *k* arguments, each once
  (`SlotsFilled`), and any assignment the declarative definition allows agrees with them
  (`Agrees`); both are carried over the arguments by `CountUp`.
- *Tracer.* The latest pair (millisecond, counter) is that of the last event, and
  every step goes beyond it; nothing is assumed of the clock. That the *strings* sort as long
  as the counter keeps its width follows in two steps: a number below a power is determined
  by its digits, from the first on (powers and quotients by `CountUp`), and where two numbers
  first differ in a digit the smaller has the smaller one. Places: the tracer's stacks are
  the names, and the names of the scoped ones, of the frames the callers are in, as long as
  no caller left through an error (and, for scopes, none without a scope has been closed).
  The diff compares the events of each scope position by position. A file holds, scope by
  scope, no more events than the run recorded (`Behind`), and with equal lengths
  everywhere none is missing. Two neighbours that changed places select the same
  sequences for all scopes unless they are of one (`SwapUnseen`, `SwapSelected`).
- *Replay.* The cursor is shared by all kinds of calls, so what a call is given depends on
  where all calls before it left the cursor. The tape is related to the calls of the
  recorded run by the place at which each stood when it returned (`Laid`: places ascend, a
  call with an event has it there, and every event that a builtin reads is one of them).
  As long as the replay repeats the recording the cursor is at most where the recording was
  and not before the last event that a call was given (`CursorFollows`), hence the next
  event of its kind is the call's own, and none of a kind that is served stands between
  (`NoneLeftBehind`).
- *Loader.* Acyclicity is layering: every nonempty set of loaded files has a
  member that imports none of them (`Layered`). A returning file has all of its
  imports loaded and is not loaded itself, so it is a new layer (`LayerAbove`).
  That an entry parsed by its caller is never loaded as an import needs the path of
  calls: its first import would be loaded and in progress at once.
  What is inlined is compared with a walk that keeps the files still to be looked at
  (`Walk`). The modules of the calls joined from the outermost on are what the walk has
  found, and the imports they have left, joined from the innermost on, are what it has to
  do (`At`): `Enter` and `AlreadyLoaded` are a step of the walk each, `Return` is none
  (`WalkEnters`, `WalkSkips`, `WalkReturns`). So the recursion simulates the walk
  (`Simulated`), except below an entry that was parsed by its caller and is entered again
  (`Doomed`): that one never returns. A result is reached only at the walk's end, and walks
  of any length that have ended agree (`WalksAgree`), so the bound `MaxWalk` of the
  property, which TLC needs, leaves nothing out.
- *Agent nets.* The count of a node is the number of its edges that are pending
  (`Counted`), what is not pending leads away from a node that is out
  (`CountedFromOut`), and a node has been queued exactly if its count is zero
  (`QueuedAtZero`); so all predecessors of a node that is popped are out, and a node
  that is left has a pending edge from one that is left. In the walk a value stored
  under a node comes from upstream, or is the node's own once it is passed
  (`StoredFromUpstream`): since the order lists a node once, a node about to run never
  finds its own. That a result is the last yield of the last iteration rests on this: a node
  the iteration has not come to has nothing of its own stored (`AheadIsEmpty`), so whatever a
  node yields comes last (`LastInv`). Calls are bounded by what the iterations before may have spent and
  what the nodes passed in this one may have (`CallsCounted`).
- *Evaluator.* The frames are a tower (`Tower`): each stands on one that may have it on top
  (`Under`), in the `Env` of that frame or, for a call, in the next, so there is one `Env` for
  every call under way. A form has the scopes below it that it found, and one more if it is of
  a kind that pushes (`Balanced`), unless an error goes out or the call is draining. A call
  that drains has run the deferred bodies from the last one down to the one at hand
  (`CallFits`); what a closure captured is at the bottom of its scopes and immutable
  (`ScopesFit`). A violation outside deferred bodies can be nowhere but on its way out:
  it is the flow that is handed down, or the result that a draining call keeps (`FatalHeld`), and
  no step but the end of a call takes a frame from under a deferred body (`Covers`). The proof
  has a lemma for each thing a step does to the tower (`TowerPop`, `TowerPush`, `TowerCall`,
  `TowerReturn` and what they mean for a form) and one for each action.
- *Services.* A reply finds the right client since ids in the registry are below NEXT_ID
  and no two name the same client (`Registry`), and since a request that is being read
  or can be replied to has the line of the client its id stands for (`ReadingOwn`,
  `HeldOwn`). It is told once because a client that is not closed has got nothing yet
  (`GotOwn`). That the chat server leaves no connection behind when it drops a request
  needs that it holds just one (`OneAtATime`). A process that died for want of memory has no
  connection left (`DeathKeeps`).
  A body is the stretch of the script behind its first empty line, as far as it
  has been read, or nothing where the client hung up before there was an empty line (`BodyUpTo`);
  the length the server holds is the one announced last before that place, however far
  it has come (`Announced`), and what a client sends later changes neither.
  In a network the position of the speaker of round *j* is that of round *i* moved on by *j - i*,
  as long as nobody hands over (`GoesRound`): this is kept from round to round, and a stretch of
  as many rounds as agents then hits each position.
- *Backends.* Modules are verified in the order of the manifest and a module runs code from
  its third check on (`LoadInOrder`, `RanVerified`); a run begins when all are through. A key is
  searched for in the text of the file before a document is appended, whether that text can be
  decoded or not, and an append that tears shows a key only if the whole of it was written; so
  the store adds a key to a document only if no text shows it, and every other text with the
  key is of a document that brought it (`KeyStoredOnce` is inductive by itself).
  What is lost is bounded through what an open line can still cost (`Slack`): the append that
  continues it spoils the document that stands there and is itself not taken; a document that
  no read decodes counts neither as stored nor as lost. The documents
  lost and that cost together never exceed the appends that stopped half-way (`Loss`).
- *Capabilities.* Every cap of a lineage covers the one in scope (`Narrowing`), since covering
  is transitive (for allow-lists: each entry of the narrower is within one of the wider);
  what a covering cap grants includes what the covered one grants (`CoveredGrants`); and what a
  call touches was looked at by its check under the cap that is still in scope (`Guarded`).
  Events are counted against the verdicts of `audit` and `limit` clauses and the handler's
  own step (`Accounts`). Policies are heard one after the other and clauses in their order
  (`Heard`), and one that let the call pass did so with each of its clauses (`AllHeard` counts
  them by kind). For named arguments, every slot in use holds an argument of its name and
  every argument has one (`Seated`, by `CountUp`); where they fill the parameters from the first
  on, leaving out the gaps leaves them where they are (`SelectedBeginning`).
- *Checker.* What the walks say of a body is in the errors from the time the pass over
  the declarations is through with the item until the mode forgives its kind, and what
  runs had none left (`ErrorsStay`). A run takes its body apart from the front: each frame
  that is pending stands for a node of `NodesOf`, inside an intent or a spawn exactly if that
  node is, and reached unless it is opaque (`RunsWell`; `NextFrames` for one step). So an
  effect is a call the walks have seen, under the cap they have read, and an error they did
  not report is one it does not make.
  The narrowed signature is a set of entries, each of them split off a declared one
  (`KeptIsUsed`), with one for every operation used (`UsedIsKept`); that the run is granted
  the same is shown for each of the kinds of check in eval.rs, whatever order the
  entries have, which is why the entries of minio must agree (`Agree`). That the host
  the linter collects is the one the call reaches is a lemma about the two readers of addresses
  (`PlainIsSeen`), and holds for plain addresses only.
  The depth-first search is right by its colours (`Searched`): gray is the path, and each
  node of it flows into the next; a successor that was passed is black or the next on the
  path; black nodes flow into black ones only, and among any of them one flows into
  none. At the end all is black, so there is no cycle (`NoneLeftNoCycle`); an edge into the path
  closes one, which is the chain reported (`BackEdgeCloses`). `Found` carries this over
  the items: the errors name the cyclic nets the pass is through with and nothing else does
  (`ItemErrorKinds`). A chain of aliases is followed as many times as there are types and once
  more; a chain that never ends repeats a name by then, since there are no more names
  (`ChainsEnd`).

*That loops end.* A rank is three natural numbers, and one is `Lower` than another if it is less
where they first differ; nothing can be lowered for ever (`RanksEnd`: the set of the ranks
met has a lowest member). Each step of a loop is shown to lower what is left:

| | Rank |
|---|---|
| `SagaLoopsAdvance` | the loop (steps before rollback before idle); steps left in it; clauses left of the step, or attempts left of its undo block |
| `PipelineRunsAdvance` | running or idle; steps left; how far the step at hand is (loop, body, hook) |
| `LoadsEnd` | files never met; calls in progress; imports left to the innermost. A file is met once, also on a cycle |
| `EveryStepAdvances` | iterations left; edges to count off, or nodes left of the order; what is left of the node: attempts of its agent, the queue while sorting |
| `CheckEnds` | the pass; its items left; and while a net is searched, nodes not entered, nodes not left, successors left of the node on top |

What user code does within a saga or pipeline is left out of the rank, and leaves it as it is: a
body may run for ever, the loops around it may not. `LoadsEnd` asks that there are finitely many
files. Together with fairness, which says only that a step that is possible is taken, this is
why `Returns` and `EndsWithinBudget` hold.

There is no induction over data in the prover's reach, but one of its consequences is: a set of
positions that holds 0, and with every position the next, holds all up to a given one
(`CountUp`, from `LeastPosition`, from the finiteness of an interval). A recursive function over
0..n is therefore proved to exist, and its values are described, position by position. For this
the loops of the models are functions with the turn as an operator of its own (`Place`,
`Seat`, `Selected`, `Power`) and not recursive operators, and trees are taken layer by layer
(`NodesOf`).

Type correctness, `IntentIsOwn`, `OnlyCompletedUndone`, `StackIsPath`, `CallBudget`,
`ServedInOrder`, `CapturedIsReadOnly` and the five properties on ranks are proved and not
repeated in the runs.

Only model-checked are:

- `Returns`, `EndsWithinBudget` and `ChatServesEveryone`: liveness under fairness, which needs
  ENABLED. Of the first two what is proved is the other half: that no step leads anywhere but
  towards the end;
- `RoundTrip`, `RecoveryIsSound` and `DocsFollowItems`: what the lexer, the parser and the
  formatter compute is defined by recursion over texts and trees of any depth, and a proof
  would be an induction over them.

## 5. What is not modelled, and the plan

Not modelled: the JSON codec, the TOML reader and the validation of manifest fields, the
diff of surfaces, the rendering of diagnostics, the wire protocols of modules and of the
HTTP client, TLS, argument parsing of the CLI, the shrinking of the test harness, the
sample module and the demos. They are text or set handling without a sequence of steps
that could go wrong; where a property depends on such a conversion it is modelled by
what it does (torn lines, escapes, keys found in text). The hash of idempotency keys is
taken as injective and trace ids as unique.

What is left to prove: an abstract specification for the stores (a set of documents, one for
each key) and one for the server (each request is answered once), and that Backends and
Services implement them.
