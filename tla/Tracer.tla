------------------------------- MODULE Tracer -------------------------------
(***************************************************************************)
(* The Tracer of a run: the events it records, their timestamps, and the   *)
(* trace file.  Its callers open frames (the run itself, sagas, pipelines  *)
(* and intent blocks) and close them; a saga or a pipeline that an error   *)
(* leaves early does not tell the tracer.  The wall clock may be set back, *)
(* a write to the file may fail, and the process may die.                  *)
(***************************************************************************)
EXTENDS TraceStack, Selection

CONSTANTS
    Clock,          \* readings of the wall clock, in milliseconds
    Base, Width,    \* the counter is printed in this base, to this many digits
    Outcomes,       \* what intent_exit is given
    Name,           \* the intent, and the scope, of the k-th frame opened
    MaxEvents       \* bound: events of the run

ASSUME TracerAssumption ==
    /\ Clock \subseteq Nat /\ Clock # {}
    /\ Base \in Nat \ {0, 1} /\ Width \in Nat \ {0}
    /\ MaxEvents \in Nat
    /\ DOMAIN Name = 1..MaxEvents
    /\ \A k \in DOMAIN Name : Name[k] \notin {NoScope, NoIntent}

VARIABLES
    last_ts_ms, counter,
    stacks,
    events,     \* events in memory
    file,       \* the events the file holds
    frames,     \* frames opened so far
    open,       \* the frames the callers are in: [name, scoped]
    abandoned,  \* a caller left a frame without telling the tracer
    bare        \* a frame without scope was closed

vars == <<last_ts_ms, counter, stacks, events, file, frames, open, abandoned, bare>>

NoFields == "no fields"

Max2(a, b) == IF a > b THEN a ELSE b

Init ==
    /\ last_ts_ms \in Clock /\ counter = 0
    /\ stacks = EmptyStacks
    /\ events = <<>> /\ file = <<>>
    /\ frames = 0 /\ open = <<>> /\ abandoned = FALSE /\ bare = FALSE

\* The timestamp of an event recorded at this reading of the clock.
Tick(now) ==
    IF now <= last_ts_ms THEN [ms |-> last_ts_ms, n |-> counter + 1]
    ELSE [ms |-> now, n |-> 0]

\* Tracer::record, with the stacks as the event finds them.  The event always
\* reaches memory; a failed write is ignored.
Record(st, kind, scope, fields) ==
    /\ Len(events) < MaxEvents
    /\ \E now \in Clock :
          LET e == [ts |-> Tick(now), kind |-> kind, intent |-> ActiveIntent(st),
                    scope |-> scope, fields |-> fields]
          IN /\ last_ts_ms' = e.ts.ms /\ counter' = e.ts.n
             /\ events' = Append(events, e)
             /\ file' \in {Append(file, e), file}

\* intent_enter: both stacks are pushed, then the event is recorded.
IntentEnterEvent(scoped) ==
    LET name == Name[frames + 1]
        st == IntentEnter(stacks, name, IF scoped THEN name ELSE NoScope)
    IN /\ Record(st, "intent_enter", CurrentScope(st), NoFields)
       /\ stacks' = st
       /\ frames' = frames + 1
       /\ open' = Append(open, [name |-> name, scoped |-> scoped])
       /\ UNCHANGED <<abandoned, bare>>

\* intent_exit: the intent is popped before the event is recorded, the scope
\* after.
IntentExitEvent ==
    /\ open # <<>>
    /\ LET st == IntentExit(stacks)
       IN /\ \E outcome \in Outcomes : Record(st, "intent_exit", CurrentScope(stacks), outcome)
          /\ stacks' = st
    /\ bare' = (bare \/ ~open[Len(open)].scoped)
    /\ open' = Popped(open)
    /\ UNCHANGED <<frames, abandoned>>

\* Any other event: record_event gives it no scope.
OtherEvent ==
    /\ Record(stacks, "other", EmptyStacks.scopes, NoFields)
    /\ UNCHANGED <<stacks, frames, open, abandoned, bare>>

\* A saga whose requires clause raises, or a pipeline whose hook raises, returns
\* without intent_exit.
Abandon ==
    /\ open # <<>> /\ open[Len(open)].scoped
    /\ open' = Popped(open)
    /\ abandoned' = TRUE
    /\ UNCHANGED <<last_ts_ms, counter, stacks, events, file, frames, bare>>

Next ==
    \/ \E scoped \in BOOLEAN : IntentEnterEvent(scoped)
    \/ IntentExitEvent
    \/ OtherEvent
    \/ Abandon

Spec == Init /\ [][Next]_vars
-----------------------------------------------------------------------------
(* aeris trace diff: two traces aligned by (scope, ordinal).               *)

\* compare_events looks at kind, intent and fields, not at ts or trace_id.
Compared(e) == <<e.kind, e.intent, e.fields>>

ScopesOf(trace) == {trace[k].scope : k \in DOMAIN trace}

\* group_by_scope: the events of one scope, in order.
InScope(trace, scope) == Selected(trace, {k \in DOMAIN trace : trace[k].scope = scope})

\* Seeded fault: only the ordinals both traces have are looked at.
BugRowsOf(a, b, scope) ==
    LET xs == InScope(a, scope)
        ys == InScope(b, scope)
    IN {[scope |-> scope, ordinal |-> i, row |-> "divergence"] :
           i \in {j \in DOMAIN xs \intersect DOMAIN ys : Compared(xs[j]) # Compared(ys[j])}}

\* The rows of one scope: an ordinal both traces have, or one alone.
RowsOf(a, b, scope) ==
    LET xs == InScope(a, scope)
        ys == InScope(b, scope)
        Row(i, what) == [scope |-> scope, ordinal |-> i, row |-> what]
    IN {Row(i, "divergence") :
           i \in {j \in DOMAIN xs \intersect DOMAIN ys : Compared(xs[j]) # Compared(ys[j])}}
       \union {Row(i, "missing") : i \in DOMAIN xs \ DOMAIN ys}
       \union {Row(i, "extra") : i \in DOMAIN ys \ DOMAIN xs}

\* diff_traces.  (The rows come out sorted by scope and ordinal.)
DiffTraces(a, b) == UNION {RowsOf(a, b, s) : s \in ScopesOf(a) \union ScopesOf(b)}

-----------------------------------------------------------------------------
\* format_iso_ms: the counter, zero-padded to Width digits and no more, then a
\* "Z", which is greater than any digit.  The milliseconds have a fixed width.
Power[k \in Nat] == IF k = 0 THEN 1 ELSE Base * Power[k - 1]

Digits(n, width) == [k \in 1..width |-> (n \div Power[width - k]) % Base]

WidthOf(n) == Max2(Width, CHOOSE w \in 1..(n + 1) :
                              n < Power[w] /\ \A v \in 1..(n + 1) : n < Power[v] => w <= v)

Stamp(ts) == <<ts.ms>> \o Digits(ts.n, WidthOf(ts.n)) \o <<Base>>

\* The order of strings.
Before(s, t) ==
    \E k \in DOMAIN s \intersect DOMAIN t :
        s[k] < t[k] /\ \A j \in 1..(k - 1) : s[j] = t[j]

-----------------------------------------------------------------------------
(* The properties.                                                         *)

Frames == {Name[k] : k \in 1..MaxEvents}
Kinds == {"intent_enter", "intent_exit", "other"}
Events == [ts : [ms : Clock, n : Nat], kind : Kinds, intent : Frames \union {NoIntent},
           scope : Seq(Frames), fields : Outcomes \union {NoFields}]

TypeOK ==
    /\ last_ts_ms \in Clock /\ counter \in Nat
    /\ stacks \in [intents : Seq(Frames), scopes : Seq(Frames)]
    /\ events \in Seq(Events) /\ file \in Seq(Events)
    /\ Len(file) <= Len(events)
    /\ frames \in 0..MaxEvents
    /\ open \in Seq([name : Frames, scoped : BOOLEAN])
    /\ abandoned \in BOOLEAN /\ bare \in BOOLEAN

\* trace.rs, format_iso_ms: lexicographic order tracks emission order.  It does,
\* also when the clock is set back, as long as no more than Base^Width - 1 events
\* are recorded with one reading of the clock as the latest.
EventsSorted ==
    LET stamp == [k \in 1..Len(events) |-> Stamp(events[k].ts)]
    IN \A j, k \in 1..Len(events) :
          j < k /\ (\A i \in 1..k : events[i].ts.n < Power[Width])
          => Before(stamp[j], stamp[k])

\* The pairs the stamps are made from ascend, whatever their number of digits.
Earlier(s, t) == s.ms < t.ms \/ (s.ms = t.ms /\ s.n < t.n)

TicksAscend ==
    \A j, k \in 1..Len(events) : j < k => Earlier(events[j].ts, events[k].ts)

\* What the callers are in.
OpenNames == [k \in 1..Len(open) |-> open[k].name]
OpenScopes == Selected(OpenNames, {k \in DOMAIN open : open[k].scoped})

Innermost == IF open = <<>> THEN NoIntent ELSE open[Len(open)].name

\* trace.rs, header: every event emitted between intent_enter and intent_exit
\* carries the active intent and the current scope path.  The intent does, as long
\* as no caller left a frame without intent_exit; the scope path does on entering,
\* as long as, besides, no frame without a scope was closed.
EventsFollowFrames ==
    LET last == events[Len(events)]
    IN /\ ~abandoned =>
             /\ stacks.intents = OpenNames
             /\ events # <<>> => last.intent = Innermost
       /\ ~abandoned /\ ~bare =>
             /\ stacks.scopes = OpenScopes
             /\ events # <<>> /\ last.kind = "intent_enter" => last.scope = OpenScopes

\* What an event says of itself is right: when it was recorded, before or after
\* which others, and in which frames.
EventsTellTimeAndPlace == EventsSorted /\ EventsFollowFrames

\* `aeris trace diff` of what a run recorded and of what reached its file is
\* empty exactly when every event did, also when the process died on the way.
DiffSeesLoss == DiffTraces(events, file) = {} <=> Len(file) = Len(events)

Swapped(s, k) == [s EXCEPT ![k] = s[k + 1], ![k + 1] = s[k]]

\* What alignment by (scope, ordinal) can see of an order: two neighbouring
\* events that change places are reported exactly when they are of one scope and
\* differ in something other than their timestamps.
DiffSeesOrder ==
    \A k \in 1..(Len(events) - 1) :
        DiffTraces(events, Swapped(events, k)) # {} <=>
            /\ events[k].scope = events[k + 1].scope
            /\ <<events[k].kind, events[k].intent, events[k].fields>> #
                   <<events[k + 1].kind, events[k + 1].intent, events[k + 1].fields>>

\* What `aeris trace diff` can be trusted with: loss, and order within a scope.
DiffTellsTruth == DiffSeesLoss /\ DiffSeesOrder
=============================================================================
