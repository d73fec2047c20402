------------------------------- MODULE Replay -------------------------------
(***************************************************************************)
(* Recording a run and replaying it: the trace events of the calls whose   *)
(* outcome the program cannot know, the file they are written to, and the  *)
(* tape a replay serves them from.  The program is a deterministic client: *)
(* a replay issues the calls of the recorded run as long as it has been    *)
(* given the values of that run, and any calls at all afterwards.          *)
(***************************************************************************)
EXTENDS Integers, Sequences

CONSTANTS
    Numbers,        \* what clock.now, random.next, http.* and fs.read_* return
    Texts,          \* replies of the model that the trace stores faithfully
    Escaped,        \* a reply with a backslash in it
    Uses,           \* the operations the program uses
    MaxLive,        \* bound: calls, and events, of the recorded run
    MaxStray        \* bound: calls of the replay that the recorded run did not make

Failed == "failed"
Vector == "vector"
NoResponse == ""

ASSUME ReplayAssumption ==
    /\ MaxLive \in Nat /\ MaxStray \in Nat
    /\ Escaped \notin Texts /\ Failed \notin Numbers \union Texts \union {Escaped}

VARIABLES
    full,       \* full_record: AI bodies are stored, not only their hashes
    mode,       \* the mode of the replay
    phase,      \* "live", "replay" or "rejected"
    script,     \* calls of the recorded run, with what each returned
    tape,       \* the events of that run, as the trace file holds them
    torn,       \* a line of the file is not well-formed JSON
    cursor,     \* events the tape has passed
    issued,     \* calls of the replay
    seen,       \* what each of them returned
    served,     \* events handed out, in order
    contacts    \* calls of the replay that reached a model, the network or the disk

replayVars == <<full, mode, phase, script, tape, torn, cursor, issued, seen, served,
               contacts>>

\* ai.complete stands for ai.chat and ai.tools too: the three are alike.
\* ai.session_ask stands for a chat's ask, the chat server, a network's run and
\* assert_semantic too: they record an ai_call and do not look at the tape.
Asks == {"ai.complete", "ai.session_ask", "ai.decide"}
AiOps == Asks \union {"ai.embed"}
Ops == AiOps \union {"clock.now", "random.next", "http", "fs.read"}

\* The calls that, answered live, go out of the process for their answer.
Outside == Asks \union {"http", "fs.read"}

ASSUME UsesAssumption == Uses \subseteq Ops

Kind(op) ==
    CASE op \in AiOps        -> "ai_call"
      [] op = "clock.now"    -> "clock_now"
      [] op = "random.next"  -> "random_next"
      [] op = "http"         -> "http_call"
      [] op = "fs.read"      -> "fs_read"

\* ReplayMode::replays.
Replays(m, kind) ==
    IF m = "from_fixtures"
    THEN kind \in {"ai_call", "clock_now", "random_next", "http_call", "fs_read"}
    ELSE kind \in {"clock_now", "random_next"}

\* Seeded fault: ai.complete does not look at the tape.
BugLooksAtTape == {"clock.now", "random.next"}

\* The builtins that look at the tape at all.
LooksAtTape == {"clock.now", "random.next", "ai.complete"}

\* What a call answered by the world may return.  ai.embed is computed from its
\* argument; clock.now and random.next do not fail.
Answers(op) ==
    CASE op \in Asks                          -> Texts \union {Escaped, Failed}
      [] op = "ai.embed"                      -> {Vector}
      [] op \in {"clock.now", "random.next"}  -> Numbers
      [] op \in {"http", "fs.read"}           -> Numbers \union {Failed}

\* record_ai_event escapes quotes and nothing else, so a backslash sequence is
\* read back as the character it denotes.
Unescaped(v) == IF v = Escaped THEN "unescaped" ELSE v

\* The event a call leaves in the trace, if any: a failed AI call or read leaves
\* none, a failed HTTP call does; http_call and fs_read hold hashes only.
EventOf(op, v) ==
    IF v = Failed /\ op # "http" THEN <<>>
    ELSE << [kind |-> Kind(op),
             value |-> IF op \in AiOps /\ full THEN Unescaped(v)
                       ELSE IF op \in {"clock.now", "random.next"} THEN v
                       ELSE NoResponse] >>

\* A full recording stores prompt and reply with their line breaks.  The prompt
\* of ai.decide always has one; the others may or may not.
LineBreaks(op, v) ==
    IF op \notin AiOps \/ ~full \/ v = Failed THEN {FALSE}
    ELSE IF op = "ai.decide" THEN {TRUE}
    ELSE BOOLEAN
-----------------------------------------------------------------------------
ReplayInit ==
    /\ full \in BOOLEAN
    /\ mode \in {"from_fixtures", "live"}
    /\ phase = "live"
    /\ script = <<>> /\ tape = <<>> /\ torn = FALSE
    /\ cursor = 0 /\ issued = <<>> /\ seen = <<>> /\ served = <<>>
    /\ contacts = {}

\* A call of the recorded run.  A failure need not end the program: catch, retry,
\* agents, sagas and pipelines go on after one.
LiveCall(op) ==
    /\ phase = "live" /\ Len(script) < MaxLive
    /\ op \in Uses
    /\ \E v \in Answers(op) :
          /\ script' = Append(script, [op |-> op, value |-> v])
          /\ tape' = tape \o EventOf(op, v)
          /\ \E broken \in LineBreaks(op, v) : torn' = (torn \/ broken)
    /\ UNCHANGED <<full, mode, phase, cursor, issued, seen, served, contacts>>

\* An event no builtin asks for (intent_enter, step_exit, clock_sleep, ...).
UnreadEvent ==
    /\ phase = "live" /\ Len(tape) < MaxLive
    /\ tape' = Append(tape, [kind |-> "other", value |-> NoResponse])
    /\ UNCHANGED <<full, mode, phase, script, torn, cursor, issued, seen, served,
                   contacts>>

\* The run is over, or its process has died: each event is written to the file
\* as it is recorded.  parse_trace_jsonl refuses a file with a torn line.
StartReplay ==
    /\ phase = "live"
    /\ phase' = IF torn THEN "rejected" ELSE "replay"
    /\ UNCHANGED <<full, mode, script, tape, torn, cursor, issued, seen, served,
                   contacts>>
-----------------------------------------------------------------------------
\* The replay has been given, so far, what the recorded run was given.
OnTrack(n) ==
    /\ n <= Len(script) /\ n <= Len(seen)
    /\ \A k \in 1..n : issued[k] = script[k].op /\ seen[k] = script[k].value

\* The calls the program may issue next.
NextOps ==
    IF OnTrack(Len(seen)) /\ Len(seen) < Len(script)
    THEN {script[Len(seen) + 1].op}
    ELSE Uses

\* The calls of the replay that repeat the recorded run come first: it may leave
\* that run for MaxStray calls.
WithinBound ==
    Len(seen) >= MaxStray => OnTrack(Len(seen) + 1 - MaxStray)

\* Seeded fault: the search starts at the first event.
BugAhead(kind) == {k \in 1..Len(tape) : tape[k].kind = kind}

\* The events of a kind that the cursor has not passed.
Ahead(kind) == {k \in (cursor + 1)..Len(tape) : tape[k].kind = kind}

\* The call asks the tape in this mode.
Asked(op) == op \in LooksAtTape /\ Replays(mode, Kind(op))

Issue(op, v) ==
    /\ phase = "replay" /\ WithinBound
    /\ op \in NextOps
    /\ issued' = Append(issued, op)
    /\ seen' = Append(seen, v)
    /\ UNCHANGED <<full, mode, phase, script, tape, torn>>

\* consume_next finds an event: the cursor moves past it, and past everything
\* before it, whatever its kind.
Serve(op) ==
    /\ Asked(op) /\ Ahead(Kind(op)) # {}
    /\ LET k == CHOOSE k \in Ahead(Kind(op)) : \A j \in Ahead(Kind(op)) : k <= j
       IN /\ Issue(op, tape[k].value)
          /\ cursor' = k
          /\ served' = Append(served, k)
    /\ UNCHANGED contacts

\* consume_next finds none: the cursor is at the end, and the call goes live.
RunDry(op) ==
    /\ Asked(op) /\ Ahead(Kind(op)) = {}
    /\ cursor' = Len(tape)
    /\ \E v \in Answers(op) : Issue(op, v)
    /\ contacts' = contacts \union {Len(seen) + 1 : o \in Outside \intersect {op}}
    /\ UNCHANGED served

\* A call that does not ask the tape goes live.
GoLive(op) ==
    /\ ~Asked(op)
    /\ \E v \in Answers(op) : Issue(op, v)
    /\ contacts' = contacts \union {Len(seen) + 1 : o \in Outside \intersect {op}}
    /\ UNCHANGED <<cursor, served>>
-----------------------------------------------------------------------------
ReplayNext ==
    \/ \E op \in Uses : LiveCall(op) \/ Serve(op) \/ RunDry(op) \/ GoLive(op)
    \/ UnreadEvent
    \/ StartReplay

ReplaySpec == ReplayInit /\ [][ReplayNext]_replayVars

-----------------------------------------------------------------------------
(* Properties.                                                             *)

Values == Numbers \union Texts \union {Escaped, "unescaped", Failed, Vector, NoResponse}
EventKinds == {"ai_call", "clock_now", "random_next", "http_call", "fs_read", "other"}

ReplayTypes ==
    /\ full \in BOOLEAN
    /\ mode \in {"from_fixtures", "live"}
    /\ phase \in {"live", "replay", "rejected"}
    /\ script \in Seq([op : Ops, value : Values])
    /\ tape \in Seq([kind : EventKinds, value : Values])
    /\ torn \in BOOLEAN
    /\ cursor \in 0..Len(tape)
    /\ issued \in Seq(Ops)
    /\ seen \in Seq(Values) /\ Len(seen) = Len(issued)
    /\ served \in Seq(1..Len(tape))
    /\ contacts \subseteq 1..Len(seen)

\* The n-th call of the replay is the n-th of the recorded run, made after the
\* same answers.
Repeats(n) == n <= Len(script) /\ OnTrack(n - 1)

\* A failed model call leaves no event, so in the replay its turn falls to the
\* event of a later one, and the cursor runs ahead of the program.
FailedAsk(k) == script[k].op = "ai.complete" /\ script[k].value = Failed

\* Every call up to the n-th is one the recording can answer in full.
Answerable(n) ==
    \A k \in 1..n :
        \/ script[k].op \in {"clock.now", "random.next", "http", "fs.read"}
        \/ script[k].op = "ai.complete" /\ full /\ script[k].value \in Texts

\* What replaying does keep of docs/language.md section 20.3, with one cursor for
\* all kinds: a call that repeats one of the recorded run and asks the tape is
\* given the value of that run.  clock.now and random.next need that no model
\* call failed before; ai.complete needs a full recording, and that no builtin
\* that records an ai_call without reading one came before.
GivenAsRecorded ==
    \A n \in 1..Len(seen) :
        /\ Repeats(n) /\ Asked(script[n].op)
        /\ IF script[n].op = "ai.complete" THEN Answerable(n)
           ELSE mode = "from_fixtures" => \A k \in 1..n : ~FailedAsk(k)
        => seen[n] = script[n].value

\* The cursor has passed no event that a builtin would be served from without
\* that event having been handed out.
NonePassedOver ==
    \A i \in 1..cursor :
        (\E op \in Uses : Asked(op) /\ Kind(op) = tape[i].kind)
        => \E j \in 1..Len(served) : served[j] = i

\* As long as every call so far repeated the recording and could be answered by it,
\* the events of each kind that is served are served first in, first out, without
\* a gap: the one cursor costs no kind an event.
FifoOnTrack ==
    /\ OnTrack(Len(seen))
    /\ mode = "from_fixtures" => Answerable(Len(seen))
    => NonePassedOver

FaithfulReplay == GivenAsRecorded /\ FifoOnTrack

\* A replay from fixtures goes out of the process only where it leaves the
\* recording, after a model call that failed in it, or in a builtin that never
\* looks at the tape.
OnlyOffTapeContacts ==
    \A n \in contacts :
        /\ mode = "from_fixtures" /\ Repeats(n)
        /\ \A k \in 1..n : ~FailedAsk(k)
        => script[n].op \in {"ai.session_ask", "ai.decide", "http", "fs.read"}

\* No recorded event is handed out twice, and none out of the order recorded.
ServedInOrder ==
    /\ \A j, k \in 1..Len(served) : j < k => served[j] < served[k]
    /\ \A k \in 1..Len(served) : served[k] <= cursor

-----------------------------------------------------------------------------
(* Claims that the code does not meet (README, Findings): no run checks     *)
(* them, and TLC refutes each when it is added to the invariants of the run. *)

\* docs/language.md section 20.3: `ai.*` returns the recorded response without
\* contacting any LLM.
AiIsReplayed ==
    mode = "from_fixtures" =>
    \A n \in 1..Len(seen) :
        Repeats(n) /\ script[n].op \in Asks => seen[n] = script[n].value

\* runtime/replay.rs:18: from_fixtures replays every recorded kind without contacting
\* any network or AI model.
EveryKindIsReplayed ==
    mode = "from_fixtures" => \A n \in contacts : ~Repeats(n)

\* runtime/replay.rs:3: recorded events are consumed in FIFO order per kind.
FifoPerKind == NonePassedOver
=============================================================================
