---------------------------- MODULE TracerProofs ----------------------------
(***************************************************************************)
(* Traces.  The Tracer, for every clock, every number of events and every  *)
(* nesting of frames; recording and replay, for every program, whatever    *)
(* its calls return, however long the run and wherever the replay leaves   *)
(* it.                                                                     *)
(***************************************************************************)
EXTENDS Tracer, Replay, CommonProofs

\* No event is recorded before the first frame, and no frame without an event;
\* the tracer's own clock is never behind an event.
Bounds ==
    /\ frames <= Len(events)
    /\ \A k \in 1..Len(events) :
          ~Earlier([ms |-> last_ts_ms, n |-> counter], events[k].ts)

Inductive == TypeOK /\ TicksAscend /\ Bounds

\* What record adds to a trace.
LEMMA RecordPreserves ==
    ASSUME Inductive, NEW st \in StacksOf(Frames, Frames), NEW kind \in Kinds,
           NEW scope \in Seq(Frames), NEW fields \in Outcomes \union {NoFields},
           Record(st, kind, scope, fields)
    PROVE  /\ last_ts_ms' \in Clock /\ counter' \in Nat
           /\ events' \in Seq(Events) /\ file' \in Seq(Events)
           /\ Len(file') <= Len(events') /\ Len(events') = Len(events) + 1
           /\ TicksAscend'
           /\ \A k \in 1..Len(events') :
                 ~Earlier([ms |-> last_ts_ms', n |-> counter'], events'[k].ts)
           /\ Len(events) < MaxEvents
<1> PICK now \in Clock :
      LET e == [ts |-> Tick(now), kind |-> kind, intent |-> ActiveIntent(st),
                scope |-> scope, fields |-> fields]
      IN /\ last_ts_ms' = e.ts.ms /\ counter' = e.ts.n
         /\ events' = Append(events, e)
         /\ file' \in {Append(file, e), file}
  BY DEF Record
<1> DEFINE e == [ts |-> Tick(now), kind |-> kind, intent |-> ActiveIntent(st),
                 scope |-> scope, fields |-> fields]
<1>1. /\ last_ts_ms \in Clock /\ counter \in Nat /\ events \in Seq(Events)
      /\ file \in Seq(Events) /\ Len(file) <= Len(events) /\ Clock \subseteq Nat
  BY TracerAssumption DEF Inductive, TypeOK
<1>2. /\ Tick(now) \in [ms : Clock, n : Nat]
      /\ Earlier([ms |-> last_ts_ms, n |-> counter], Tick(now))
  BY <1>1 DEF Tick, Earlier
<1>3. e \in Events
  BY <1>2, ActiveTyped DEF Events
<1>4. /\ events' = Append(events, e) /\ file' \in {Append(file, e), file}
      /\ last_ts_ms' = Tick(now).ms /\ counter' = Tick(now).n /\ e.ts = Tick(now)
  OBVIOUS
<1> HIDE DEF e
<1>5. /\ events' \in Seq(Events) /\ Len(events') = Len(events) + 1
      /\ \A k \in 1..Len(events) : events'[k] = events[k]
      /\ events'[Len(events) + 1] = e
  BY <1>1, <1>3, <1>4, AppendProperties
<1>6. /\ Append(file, e) \in Seq(Events) /\ Len(Append(file, e)) = Len(file) + 1
      /\ Len(file) \in Nat /\ Len(events) \in Nat
  BY <1>1, <1>3, AppendProperties
<1>7. file' \in Seq(Events) /\ Len(file') <= Len(events')
  <2>1. Len(file) <= Len(events) /\ Len(events') = Len(events) + 1 /\ file \in Seq(Events)
    BY <1>1, <1>5
  <2>2. CASE file' = Append(file, e)
    BY <1>6, <2>1, <2>2
  <2>3. CASE file' = file
    BY <1>6, <2>1, <2>3
  <2> QED BY <1>4, <2>2, <2>3
<1>8. \A k \in 1..Len(events) : events[k].ts \in [ms : Nat, n : Nat]
  <2>1. ASSUME NEW k \in 1..Len(events)
        PROVE  events[k].ts \in [ms : Nat, n : Nat]
    <3>1. events[k] \in Events
      BY <1>1, ElementOfSeq
    <3> QED BY <1>1, <3>1 DEF Events
  <2> QED BY <2>1
<1>9. \A k \in 1..Len(events) : Earlier(events[k].ts, Tick(now))
  <2>1. ASSUME NEW k \in 1..Len(events)
        PROVE  Earlier(events[k].ts, Tick(now))
    <3>1. ~Earlier([ms |-> last_ts_ms, n |-> counter], events[k].ts)
      BY DEF Inductive, Bounds
    <3>2. events[k].ts \in [ms : Nat, n : Nat] /\ Tick(now) \in [ms : Nat, n : Nat]
      BY <1>1, <1>2, <1>8
    <3> QED BY <1>1, <1>2, <3>1, <3>2 DEF Earlier
  <2> QED BY <2>1
<1>10. \A k \in 1..Len(events') : k \in 1..Len(events) \/ k = Len(events) + 1
  BY <1>5, <1>6
<1>11. TicksAscend'
  <2>1. ASSUME NEW j \in 1..Len(events'), NEW k \in 1..Len(events'), j < k
        PROVE  Earlier(events'[j].ts, events'[k].ts)
    <3>1. j \in 1..Len(events)
      BY <1>5, <1>6, <2>1
    <3>2. CASE k \in 1..Len(events)
      BY <1>5, <2>1, <3>1, <3>2 DEF Inductive, TicksAscend
    <3>3. CASE k = Len(events) + 1
      BY <1>4, <1>5, <1>9, <3>1, <3>3
    <3> QED BY <1>10, <3>2, <3>3
  <2> QED BY <2>1 DEF TicksAscend
<1>12. ASSUME NEW k \in 1..Len(events')
       PROVE  ~Earlier([ms |-> last_ts_ms', n |-> counter'], events'[k].ts)
  <2>1. Tick(now) \in [ms : Nat, n : Nat]
    BY <1>1, <1>2
  <2>2. CASE k \in 1..Len(events)
    <3>1. events'[k].ts \in [ms : Nat, n : Nat] /\ Earlier(events'[k].ts, Tick(now))
      BY <1>5, <1>8, <1>9, <2>2
    <3> QED BY <1>4, <2>1, <3>1 DEF Earlier
  <2>3. CASE k = Len(events) + 1
    BY <1>4, <1>5, <2>1, <2>3 DEF Earlier
  <2> QED BY <1>10, <2>2, <2>3
<1>13. last_ts_ms' \in Clock /\ counter' \in Nat
  BY <1>2, <1>4
<1> QED BY <1>5, <1>7, <1>11, <1>12, <1>13 DEF Record

\* The stacks of TypeOK, and the frame a caller opens next.
LEMMA TracerStacks ==
    TypeOK => /\ stacks \in StacksOf(Frames, Frames)
              /\ stacks.scopes \in Seq(Frames)
BY DEF TypeOK, StacksOf

LEMMA NextFrame ==
    ASSUME Inductive, Len(events) < MaxEvents
    PROVE  /\ Name[frames + 1] \in Frames /\ Name[frames + 1] # NoScope
           /\ frames + 1 \in 0..MaxEvents
<1>1. /\ frames \in Nat /\ frames <= Len(events) /\ Len(events) \in Nat
      /\ MaxEvents \in Nat
  BY TracerAssumption DEF Inductive, Bounds, TypeOK
<1>2. frames + 1 \in 1..MaxEvents
  BY <1>1
<1> QED BY <1>2, TracerAssumption DEF Frames

LEMMA EnterPreserves ==
    ASSUME Inductive, NEW scoped \in BOOLEAN, IntentEnterEvent(scoped)
    PROVE  Inductive'
<1> DEFINE name == Name[frames + 1]
           st == IntentEnter(stacks, name, IF scoped THEN name ELSE NoScope)
<1>1. /\ Record(st, "intent_enter", CurrentScope(st), NoFields)
      /\ stacks' = st /\ frames' = frames + 1
      /\ open' = Append(open, [name |-> name, scoped |-> scoped])
      /\ UNCHANGED <<abandoned, bare>>
  BY DEF IntentEnterEvent
<1>2. Len(events) < MaxEvents
  BY <1>1 DEF Record
<1>3. name \in Frames /\ name # NoScope /\ frames + 1 \in 0..MaxEvents
  BY <1>2, NextFrame
<1> HIDE DEF name
<1>4. st \in StacksOf(Frames, Frames)
  <2>1. stacks \in StacksOf(Frames, Frames)
    BY TracerStacks DEF Inductive
  <2>2. CASE scoped
    BY <1>3, <2>1, <2>2, EnterScoped
  <2>3. CASE ~scoped
    BY <1>3, <2>1, <2>3, EnterBare
  <2> QED BY <2>2, <2>3
<1> HIDE DEF st
<1>5. CurrentScope(st) \in Seq(Frames)
  BY <1>4 DEF StacksOf, CurrentScope
<1>6. /\ last_ts_ms' \in Clock /\ counter' \in Nat
      /\ events' \in Seq(Events) /\ file' \in Seq(Events)
      /\ Len(file') <= Len(events') /\ Len(events') = Len(events) + 1
      /\ TicksAscend'
      /\ \A k \in 1..Len(events') :
            ~Earlier([ms |-> last_ts_ms', n |-> counter'], events'[k].ts)
  BY <1>1, <1>4, <1>5, RecordPreserves DEF Kinds
<1>7. open' \in Seq([name : Frames, scoped : BOOLEAN])
  BY <1>1, <1>3, AppendProperties DEF Inductive, TypeOK
<1>8. frames' <= Len(events')
  BY <1>1, <1>3, <1>6 DEF Inductive, Bounds, TypeOK
<1>9. TypeOK'
  <2>1. stacks' \in [intents : Seq(Frames), scopes : Seq(Frames)]
    BY <1>1, <1>4 DEF StacksOf
  <2>2. frames' \in 0..MaxEvents /\ abandoned' \in BOOLEAN /\ bare' \in BOOLEAN
    BY <1>1, <1>3 DEF Inductive, TypeOK
  <2> QED BY <1>6, <1>7, <2>1, <2>2 DEF TypeOK
<1> QED BY <1>6, <1>8, <1>9 DEF Inductive, Bounds

LEMMA ExitPreserves == Inductive /\ IntentExitEvent => Inductive'
<1> SUFFICES ASSUME Inductive, IntentExitEvent PROVE Inductive'
  OBVIOUS
<1>1. PICK outcome \in Outcomes :
         Record(IntentExit(stacks), "intent_exit", CurrentScope(stacks), outcome)
  BY DEF IntentExitEvent
<1>2. stacks \in StacksOf(Frames, Frames) /\ CurrentScope(stacks) \in Seq(Frames)
  BY TracerStacks DEF Inductive, CurrentScope
<1>3. IntentExit(stacks) \in StacksOf(Frames, Frames)
  BY <1>2, ExitTyped
<1>4. /\ last_ts_ms' \in Clock /\ counter' \in Nat
      /\ events' \in Seq(Events) /\ file' \in Seq(Events)
      /\ Len(file') <= Len(events') /\ Len(events') = Len(events) + 1
      /\ TicksAscend'
      /\ \A k \in 1..Len(events') :
            ~Earlier([ms |-> last_ts_ms', n |-> counter'], events'[k].ts)
  BY <1>1, <1>2, <1>3, RecordPreserves DEF Kinds
<1>5. open' \in Seq([name : Frames, scoped : BOOLEAN])
  BY PoppedType DEF IntentExitEvent, Inductive, TypeOK
<1>6. TypeOK'
  <2>1. stacks' \in [intents : Seq(Frames), scopes : Seq(Frames)]
    BY <1>3 DEF IntentExitEvent, StacksOf
  <2>2. frames' \in 0..MaxEvents /\ abandoned' \in BOOLEAN
    BY DEF IntentExitEvent, Inductive, TypeOK
  <2>3. bare' \in BOOLEAN
    BY DEF IntentExitEvent, Inductive, TypeOK
  <2> QED BY <1>4, <1>5, <2>1, <2>2, <2>3 DEF TypeOK
<1>7. frames' <= Len(events')
  BY <1>4 DEF IntentExitEvent, Inductive, Bounds, TypeOK
<1> QED BY <1>4, <1>6, <1>7 DEF Inductive, Bounds

LEMMA OtherPreserves == Inductive /\ OtherEvent => Inductive'
<1> SUFFICES ASSUME Inductive, OtherEvent PROVE Inductive'
  OBVIOUS
<1>1. /\ Record(stacks, "other", <<>>, NoFields)
      /\ UNCHANGED <<stacks, frames, open, abandoned, bare>>
  BY DEF OtherEvent, EmptyStacks
<1>2. stacks \in StacksOf(Frames, Frames) /\ <<>> \in Seq(Frames)
  BY TracerStacks DEF Inductive
<1>3. /\ last_ts_ms' \in Clock /\ counter' \in Nat
      /\ events' \in Seq(Events) /\ file' \in Seq(Events)
      /\ Len(file') <= Len(events') /\ Len(events') = Len(events) + 1
      /\ TicksAscend'
      /\ \A k \in 1..Len(events') :
            ~Earlier([ms |-> last_ts_ms', n |-> counter'], events'[k].ts)
  BY <1>1, <1>2, RecordPreserves DEF Kinds
<1>4. TypeOK'
  BY <1>1, <1>3 DEF Inductive, TypeOK
<1>5. frames' <= Len(events')
  BY <1>1, <1>3 DEF Inductive, Bounds, TypeOK
<1> QED BY <1>3, <1>4, <1>5 DEF Inductive, Bounds

LEMMA NextPreserves == Inductive /\ [Next]_vars => Inductive'
<1> SUFFICES ASSUME Inductive, [Next]_vars PROVE Inductive'
  OBVIOUS
<1>1. ASSUME NEW scoped \in BOOLEAN, IntentEnterEvent(scoped) PROVE Inductive'
  BY <1>1, EnterPreserves
<1>2. CASE IntentExitEvent
  BY <1>2, ExitPreserves
<1>3. CASE OtherEvent
  BY <1>3, OtherPreserves
<1>4. CASE Abandon
  <2>1. open' \in Seq([name : Frames, scoped : BOOLEAN])
    BY <1>4, PoppedType DEF Abandon, Inductive, TypeOK
  <2> QED BY <1>4, <2>1 DEF Abandon, Inductive, TypeOK, TicksAscend, Bounds, Events, Frames
<1>5. CASE UNCHANGED vars
  BY <1>5 DEF vars, Inductive, TypeOK, TicksAscend, Bounds, Events, Frames
<1> QED BY <1>1, <1>2, <1>3, <1>4, <1>5 DEF Next

\* The inductive invariant holds throughout.
THEOREM InductiveInvariant == Spec => []Inductive
<1>1. Init => Inductive
  <2> SUFFICES ASSUME Init PROVE Inductive
    OBVIOUS
  <2>1. <<>> \in Seq(Events) /\ <<>> \in Seq(Frames) /\ Len(<<>>) = 0
        /\ <<>> \in Seq([name : Frames, scoped : BOOLEAN])
    OBVIOUS
  <2>2. 0 \in 0..MaxEvents /\ 1..0 = {}
    BY TracerAssumption
  <2>3. stacks \in [intents : Seq(Frames), scopes : Seq(Frames)]
    BY <2>1 DEF Init, EmptyStacks
  <2>4. Len(events) = 0 /\ Len(file) = 0
    BY <2>1 DEF Init
  <2>5. TypeOK
    <3>1. last_ts_ms \in Clock /\ counter \in Nat /\ frames \in 0..MaxEvents
      BY <2>2 DEF Init
    <3>2. events \in Seq(Events) /\ file \in Seq(Events) /\ Len(file) <= Len(events)
      BY <2>1, <2>4 DEF Init
    <3>3. open \in Seq([name : Frames, scoped : BOOLEAN])
      BY <2>1 DEF Init
    <3>4. abandoned \in BOOLEAN /\ bare \in BOOLEAN
      BY DEF Init
    <3> QED BY <2>3, <3>1, <3>2, <3>3, <3>4 DEF TypeOK
  <2>6. TicksAscend /\ Bounds
    BY <2>2, <2>4 DEF Init, TicksAscend, Bounds
  <2> QED BY <2>5, <2>6 DEF Inductive
<1>2. Inductive /\ [Next]_vars => Inductive'
  BY NextPreserves
<1> QED BY <1>1, <1>2, PTL DEF Spec

\* Every variable keeps its type.
THEOREM TypeCorrect == Spec => []TypeOK
BY InductiveInvariant, PTL DEF Inductive

\* The pairs timestamps are printed from strictly ascend in emission order, even
\* when the wall clock is set back.
THEOREM EmissionOrder == Spec => []TicksAscend
BY InductiveInvariant, PTL DEF Inductive

\* A trace differs from itself nowhere.
LEMMA DiffOfItself == ASSUME NEW a PROVE DiffTraces(a, a) = {}
<1>1. ASSUME NEW s PROVE RowsOf(a, a, s) = {}
  BY DEF RowsOf
<1> QED BY <1>1 DEF DiffTraces

-----------------------------------------------------------------------------
(* The frames events name.                                                 *)

LEMMA RecordedEvent ==
    ASSUME Inductive, NEW st \in StacksOf(Frames, Frames), NEW kind \in Kinds,
           NEW scope \in Seq(Frames), NEW fields \in Outcomes \union {NoFields},
           Record(st, kind, scope, fields)
    PROVE  \E e \in Events : /\ e.kind = kind /\ e.intent = ActiveIntent(st) /\ e.scope = scope
                             /\ events' = Append(events, e) /\ file' \in {Append(file, e), file}
<1> PICK now \in Clock :
      LET e == [ts |-> Tick(now), kind |-> kind, intent |-> ActiveIntent(st),
                scope |-> scope, fields |-> fields]
      IN /\ last_ts_ms' = e.ts.ms /\ counter' = e.ts.n
         /\ events' = Append(events, e)
         /\ file' \in {Append(file, e), file}
  BY DEF Record
<1> DEFINE e == [ts |-> Tick(now), kind |-> kind, intent |-> ActiveIntent(st),
                 scope |-> scope, fields |-> fields]
<1>1. last_ts_ms \in Clock /\ counter \in Nat
  BY DEF Inductive, TypeOK
<1>2. Tick(now) \in [ms : Clock, n : Nat]
  BY <1>1 DEF Tick
<1>3. e \in Events
  BY <1>2, ActiveTyped DEF Events
<1> QED BY <1>3

\* The names of frames, and the scopes they open.
NamesOf(o) == [k \in 1..Len(o) |-> o[k].name]
ScopesIn(o) == Selected(NamesOf(o), {k \in DOMAIN o : o[k].scoped})
Frame == [name : Frames, scoped : BOOLEAN]

LEMMA OneFrameMore ==
    ASSUME NEW o \in Seq(Frame), NEW f \in Frame
    PROVE  /\ NamesOf(o) \in Seq(Frames)
           /\ NamesOf(Append(o, f)) = Append(NamesOf(o), f.name)
           /\ ScopesIn(o) \in Seq(Frames)
           /\ ScopesIn(Append(o, f)) = IF f.scoped THEN Append(ScopesIn(o), f.name) ELSE ScopesIn(o)
<1> DEFINE n == Len(o)
           p == Append(o, f)
           s == NamesOf(o)
           t == NamesOf(p)
           P == {k \in DOMAIN o : o[k].scoped}
           Q == {k \in DOMAIN p : p[k].scoped}
<1>1. /\ n \in Nat /\ DOMAIN o = 1..n /\ \A k \in 1..n : o[k] \in Frame
      /\ p \in Seq(Frame) /\ Len(p) = n + 1 /\ p[n + 1] = f
      /\ \A k \in 1..n : p[k] = o[k]
  BY AppendProperties, LenProperties, ElementOfSeq
<1> HIDE DEF p
<1>2. DOMAIN p = 1..(n + 1)
  BY <1>1, LenProperties
<1>3. f.name \in Frames
  BY DEF Frame
<1>4. s = [k \in 1..n |-> o[k].name] /\ t = [k \in 1..(n + 1) |-> p[k].name]
  BY <1>1 DEF NamesOf
<1> HIDE DEF n, s, t
<1>5. s \in Seq(Frames) /\ Len(s) = n /\ \A k \in 1..n : s[k] = o[k].name
  <2>1. s \in [1..n -> Frames]
    BY <1>1, <1>4 DEF Frame
  <2> QED BY <1>1, <1>4, <2>1, SeqDef, LenProperties
<1>6. t \in Seq(Frames) /\ Len(t) = n + 1 /\ \A k \in 1..(n + 1) : t[k] = p[k].name
  <2>1. \A k \in 1..(n + 1) : p[k] \in Frame
    BY <1>1
  <2>2. t \in [1..(n + 1) -> Frames]
    BY <1>4, <2>1 DEF Frame
  <2>3. n + 1 \in Nat
    BY <1>1
  <2> QED BY <1>1, <1>4, <2>2, <2>3, SeqDef, LenProperties
<1>7. t = Append(s, f.name)
  <2> DEFINE sf == Append(s, f.name)
  <2>1. sf \in Seq(Frames) /\ Len(sf) = n + 1 /\ sf[n + 1] = f.name /\ \A k \in 1..n : sf[k] = s[k]
    BY <1>3, <1>5, AppendProperties
  <2> HIDE DEF sf
  <2>2. \A k \in 1..(n + 1) : t[k] = sf[k]
    <3> TAKE k \in 1..(n + 1)
    <3>1. CASE k = n + 1
      BY <1>1, <1>6, <2>1, <3>1
    <3>2. CASE k # n + 1
      <4>1. k \in 1..n
        BY <1>1, <3>2
      <4> QED BY <1>1, <1>5, <1>6, <2>1, <4>1
    <3> QED BY <3>1, <3>2
  <2>3. t = sf
    <3>1. Len(t) = Len(sf) /\ \A k \in 1..Len(t) : t[k] = sf[k]
      BY <1>6, <2>1, <2>2
    <3> QED BY <1>6, <2>1, <3>1, SeqEqual
  <2> QED BY <2>3 DEF sf
<1>8. Selected(t, Q) = IF n + 1 \in Q THEN Append(Selected(s, Q), f.name) ELSE Selected(s, Q)
  <2> HIDE DEF Q
  <2>0. s \in Seq(Frames)
    BY <1>5
  <2> DEFINE name == f.name
  <2>1. name \in Frames
    BY <1>3
  <2> HIDE DEF name
  <2>2. Selected(Append(s, name), Q)
            = IF Len(s) + 1 \in Q THEN Append(Selected(s, Q), name) ELSE Selected(s, Q)
    BY <2>0, <2>1, SelectedAppend
  <2>3. Len(s) = n
    BY <1>5
  <2> QED BY <1>7, <2>2, <2>3 DEF name
<1>9. Selected(s, Q) = Selected(s, P)
  <2>1. \A k \in 1..n : k \in P <=> k \in Q
    BY <1>1, <1>2
  <2> HIDE DEF P, Q
  <2> QED BY <1>1, <1>5, <2>1, SelectedSame
<1>10. n + 1 \in Q <=> f.scoped
  BY <1>1, <1>2
<1>11. Selected(s, P) \in Seq(Frames)
  BY <1>5, SelectedTyped
<1>12. ScopesIn(o) = Selected(s, P) /\ ScopesIn(p) = Selected(t, Q)
  BY DEF ScopesIn, s, t
<1> HIDE DEF P, Q
<1>13. ScopesIn(p) = IF f.scoped THEN Append(ScopesIn(o), f.name) ELSE ScopesIn(o)
  BY <1>8, <1>9, <1>10, <1>12
<1> QED BY <1>5, <1>7, <1>11, <1>12, <1>13 DEF n, p, s, t

LEMMA OpenFrames ==
    ASSUME TypeOK
    PROVE  /\ open \in Seq(Frame) /\ OpenNames = NamesOf(open) /\ OpenScopes = ScopesIn(open)
BY DEF TypeOK, Frame, OpenNames, NamesOf, OpenScopes, ScopesIn

\* An event is stamped with the innermost name.
LEMMA InnermostName ==
    ASSUME NEW o \in Seq(Frame)
    PROVE  (IF NamesOf(o) = <<>> THEN NoIntent ELSE NamesOf(o)[Len(NamesOf(o))])
             = IF o = <<>> THEN NoIntent ELSE o[Len(o)].name
<1>1. CASE o = <<>>
  <2>1. Len(o) = 0
    BY <1>1, EmptySeq
  <2>2. NamesOf(o) \in [1..0 -> Frames]
    BY <2>1 DEF NamesOf
  <2>3. NamesOf(o) \in Seq(Frames) /\ Len(NamesOf(o)) = 0
    BY <2>2, SeqDef, LenProperties
  <2>4. NamesOf(o) = <<>>
    BY <2>3, EmptySeq
  <2> QED BY <1>1, <2>4
<1>2. CASE o # <<>>
  <2>1. /\ Popped(o) \in Seq(Frame) /\ o[Len(o)] \in Frame
        /\ o = Append(Popped(o), o[Len(o)])
    BY <1>2, LastApart
  <2> DEFINE f == o[Len(o)]
             s == NamesOf(Popped(o))
  <2>2. s \in Seq(Frames) /\ NamesOf(Append(Popped(o), f)) = Append(s, f.name)
    BY <2>1, OneFrameMore
  <2>3. NamesOf(o) = Append(s, f.name) /\ f.name \in Frames
    BY <2>1, <2>2 DEF Frame
  <2> HIDE DEF s, f
  <2>4. Append(s, f.name) # <<>> /\ Append(s, f.name)[Len(Append(s, f.name))] = f.name
    BY <2>2, <2>3, AppendProperties, LenProperties
  <2> QED BY <1>2, <2>3, <2>4 DEF f
<1> QED BY <1>1, <1>2

LEMMA LastRecorded ==
    ASSUME TypeOK, NEW e \in Events, events' = Append(events, e)
    PROVE  events' # <<>> /\ events'[Len(events')] = e
BY AppendProperties, LenProperties DEF TypeOK

LEMMA EnterFollows ==
    ASSUME Inductive, EventsFollowFrames, NEW scoped \in BOOLEAN, IntentEnterEvent(scoped),
           TypeOK'
    PROVE  EventsFollowFrames'
<1> DEFINE name == Name[frames + 1]
           st == IntentEnter(stacks, name, IF scoped THEN name ELSE NoScope)
           f == [name |-> name, scoped |-> scoped]
<1>1. /\ Record(st, "intent_enter", CurrentScope(st), NoFields)
      /\ stacks' = st /\ open' = Append(open, f)
      /\ abandoned' = abandoned /\ bare' = bare
  BY DEF IntentEnterEvent
<1>2. Len(events) < MaxEvents
  BY <1>1 DEF Record
<1>3. name \in Frames /\ name # NoScope
  BY <1>2, NextFrame
<1>4. TypeOK /\ stacks \in StacksOf(Frames, Frames)
  BY TracerStacks DEF Inductive
<1>5. f \in Frame /\ f.name = name /\ f.scoped = scoped
  BY <1>3 DEF Frame
<1>6. /\ st \in StacksOf(Frames, Frames) /\ ActiveIntent(st) = name
      /\ st.intents = Append(stacks.intents, name)
      /\ st.scopes = IF scoped THEN Append(stacks.scopes, name) ELSE stacks.scopes
  <2> HIDE DEF name
  <2>1. CASE scoped
    <3>1. st.scopes = Append(stacks.scopes, name) /\ st.intents = Append(stacks.intents, name)
      BY <1>3, <2>1 DEF IntentEnter
    <3> QED BY <1>3, <1>4, <2>1, <3>1, EnterScoped
  <2>2. CASE ~scoped
    <3>1. st.scopes = stacks.scopes /\ st.intents = Append(stacks.intents, name)
      BY <2>2 DEF IntentEnter
    <3> QED BY <1>3, <1>4, <2>2, <3>1, EnterBare
  <2> QED BY <2>1, <2>2
<1>7. st.scopes \in Seq(Frames)
  BY <1>6 DEF StacksOf
<1> HIDE DEF st
<1>8. PICK e \in Events : /\ e.intent = ActiveIntent(st) /\ e.scope = CurrentScope(st)
                          /\ events' = Append(events, e)
  <2>1. "intent_enter" \in Kinds /\ NoFields \in Outcomes \union {NoFields}
    BY DEF Kinds
  <2>2. CurrentScope(st) \in Seq(Frames)
    BY <1>7 DEF CurrentScope
  <2> QED BY <1>1, <1>6, <2>1, <2>2, RecordedEvent
<1>9. events' # <<>> /\ events'[Len(events')] = e
  BY <1>4, <1>8, LastRecorded
<1>10. /\ open \in Seq(Frame) /\ OpenNames = NamesOf(open) /\ OpenScopes = ScopesIn(open)
       /\ OpenNames' = NamesOf(open') /\ OpenScopes' = ScopesIn(open')
  <2>1. OpenNames' = NamesOf(open') /\ OpenScopes' = ScopesIn(open')
    BY DEF OpenNames, NamesOf, OpenScopes, ScopesIn
  <2> QED BY <1>4, <2>1, OpenFrames
<1> HIDE DEF name, f
<1>11. /\ OpenNames' = Append(OpenNames, name)
       /\ OpenScopes' = IF scoped THEN Append(OpenScopes, name) ELSE OpenScopes
  BY <1>1, <1>5, <1>10, OneFrameMore
<1>12. Innermost' = name
  <2>1. Append(open, f) # <<>> /\ Append(open, f)[Len(Append(open, f))] = f
    BY <1>5, <1>10, AppendProperties, LenProperties
  <2> QED BY <1>1, <1>5, <2>1 DEF Innermost
<1>13. ~abandoned => stacks'.intents = OpenNames'
  BY <1>1, <1>6, <1>11 DEF EventsFollowFrames
<1>14. ~abandoned /\ ~bare => stacks'.scopes = OpenScopes'
  BY <1>1, <1>6, <1>11 DEF EventsFollowFrames
<1>15. e.intent = Innermost' /\ e.scope = stacks'.scopes
  BY <1>1, <1>6, <1>8, <1>12 DEF CurrentScope
<1> QED BY <1>1, <1>9, <1>13, <1>14, <1>15 DEF EventsFollowFrames

LEMMA ExitFollows ==
    ASSUME Inductive, EventsFollowFrames, IntentExitEvent
    PROVE  EventsFollowFrames'
<1> DEFINE st == IntentExit(stacks)
           f == open[Len(open)]
           o == Popped(open)
<1>1. PICK outcome \in Outcomes : Record(st, "intent_exit", CurrentScope(stacks), outcome)
  BY DEF IntentExitEvent
<1>2. /\ stacks' = st /\ open' = o /\ open # <<>>
      /\ abandoned' = abandoned /\ bare' = (bare \/ ~f.scoped)
  BY DEF IntentExitEvent
<1>3. TypeOK /\ stacks \in StacksOf(Frames, Frames) /\ CurrentScope(stacks) \in Seq(Frames)
  BY TracerStacks DEF Inductive, CurrentScope
<1>4. /\ st \in StacksOf(Frames, Frames)
      /\ st.intents = Popped(stacks.intents) /\ st.scopes = Popped(stacks.scopes)
  BY <1>3, ExitTyped DEF IntentExit
<1> HIDE DEF st
<1>5. PICK e \in Events : /\ e.kind = "intent_exit" /\ e.intent = ActiveIntent(st)
                          /\ events' = Append(events, e)
  BY <1>1, <1>3, <1>4, RecordedEvent DEF Kinds
<1>6. events' # <<>> /\ events'[Len(events')] = e
  BY <1>3, <1>5, LastRecorded
<1>7. /\ open \in Seq(Frame) /\ OpenNames = NamesOf(open) /\ OpenScopes = ScopesIn(open)
      /\ OpenNames' = NamesOf(open') /\ OpenScopes' = ScopesIn(open')
  <2>1. OpenNames' = NamesOf(open') /\ OpenScopes' = ScopesIn(open')
    BY DEF OpenNames, NamesOf, OpenScopes, ScopesIn
  <2> QED BY <1>3, <2>1, OpenFrames
<1>8. o \in Seq(Frame) /\ f \in Frame /\ open = Append(o, f)
  BY <1>2, <1>7, LastApart
<1>9. f.name \in Frames /\ f.scoped \in BOOLEAN
  BY <1>8 DEF Frame
<1> HIDE DEF o, f
<1>10. /\ NamesOf(o) \in Seq(Frames) /\ ScopesIn(o) \in Seq(Frames)
       /\ NamesOf(open) = Append(NamesOf(o), f.name)
       /\ ScopesIn(open) = IF f.scoped THEN Append(ScopesIn(o), f.name) ELSE ScopesIn(o)
  BY <1>8, OneFrameMore
<1>11. Popped(NamesOf(open)) = NamesOf(o)
  BY <1>9, <1>10, PoppedAppend
<1>12. f.scoped => Popped(ScopesIn(open)) = ScopesIn(o)
  BY <1>9, <1>10, PoppedAppend
<1>13. ~abandoned => st.intents = NamesOf(o)
  BY <1>4, <1>7, <1>11 DEF EventsFollowFrames
<1>14. ~abandoned /\ ~bare /\ f.scoped => st.scopes = ScopesIn(o)
  BY <1>4, <1>7, <1>12 DEF EventsFollowFrames
<1>15. ~abandoned => e.intent = IF o = <<>> THEN NoIntent ELSE o[Len(o)].name
  <2>1. ~abandoned => e.intent = IF NamesOf(o) = <<>> THEN NoIntent ELSE NamesOf(o)[Len(NamesOf(o))]
    BY <1>5, <1>13 DEF ActiveIntent
  <2> QED BY <1>8, <2>1, InnermostName
<1>16. Innermost' = IF o = <<>> THEN NoIntent ELSE o[Len(o)].name
  BY <1>2 DEF Innermost
<1> QED BY <1>2, <1>5, <1>6, <1>7, <1>13, <1>14, <1>15, <1>16 DEF EventsFollowFrames

LEMMA OtherFollows ==
    ASSUME Inductive, EventsFollowFrames, OtherEvent
    PROVE  EventsFollowFrames'
<1> DEFINE scope == EmptyStacks.scopes
<1>1. /\ Record(stacks, "other", scope, NoFields)
      /\ UNCHANGED <<stacks, frames, open, abandoned, bare>>
  BY DEF OtherEvent
<1>2. TypeOK /\ stacks \in StacksOf(Frames, Frames) /\ scope \in Seq(Frames)
  BY TracerStacks DEF Inductive, EmptyStacks
<1> HIDE DEF scope
<1>3. PICK e \in Events : /\ e.kind = "other" /\ e.intent = ActiveIntent(stacks)
                          /\ events' = Append(events, e)
  <2>1. "other" \in Kinds /\ NoFields \in Outcomes \union {NoFields}
    BY DEF Kinds
  <2> QED BY <1>1, <1>2, <2>1, RecordedEvent
<1>4. events' # <<>> /\ events'[Len(events')] = e
  BY <1>2, <1>3, LastRecorded
<1>5. open \in Seq(Frame) /\ OpenNames = NamesOf(open)
  BY <1>2, OpenFrames
<1>6. ~abandoned => e.intent = Innermost
  <2>1. ~abandoned => e.intent = IF NamesOf(open) = <<>> THEN NoIntent
                                 ELSE NamesOf(open)[Len(NamesOf(open))]
    BY <1>3, <1>5 DEF ActiveIntent, EventsFollowFrames
  <2> QED BY <1>5, <2>1, InnermostName DEF Innermost
<1>7. OpenNames' = OpenNames /\ OpenScopes' = OpenScopes /\ Innermost' = Innermost
  BY <1>1 DEF OpenNames, OpenScopes, Innermost
<1> QED BY <1>1, <1>3, <1>4, <1>6, <1>7 DEF EventsFollowFrames

LEMMA FramesFollowed == Inductive /\ EventsFollowFrames /\ [Next]_vars => EventsFollowFrames'
<1> SUFFICES ASSUME Inductive, EventsFollowFrames, [Next]_vars PROVE EventsFollowFrames'
  OBVIOUS
<1>1. TypeOK'
  BY NextPreserves DEF Inductive
<1>2. ASSUME NEW scoped \in BOOLEAN, IntentEnterEvent(scoped) PROVE EventsFollowFrames'
  BY <1>1, <1>2, EnterFollows
<1>3. CASE IntentExitEvent
  BY <1>3, ExitFollows
<1>4. CASE OtherEvent
  BY <1>4, OtherFollows
<1>5. CASE Abandon
  BY <1>5 DEF Abandon, EventsFollowFrames
<1>6. CASE UNCHANGED vars
  BY <1>6 DEF vars, EventsFollowFrames, OpenNames, OpenScopes, Innermost
<1> QED BY <1>2, <1>3, <1>4, <1>5, <1>6 DEF Next

LEMMA FramesAtFirst == Init => EventsFollowFrames
<1> SUFFICES ASSUME Init PROVE EventsFollowFrames
  OBVIOUS
<1>1. stacks = EmptyStacks /\ events = <<>> /\ open = <<>>
  BY DEF Init
<1>2. stacks.intents = <<>> /\ stacks.scopes = <<>>
  BY <1>1 DEF EmptyStacks
<1>3. OpenNames = <<>>
  <2>1. Len(open) = 0
    BY <1>1, EmptySeq
  <2>2. OpenNames \in [1..0 -> Frames]
    BY <2>1 DEF OpenNames
  <2>3. OpenNames \in Seq(Frames) /\ Len(OpenNames) = 0
    BY <2>2, SeqDef, LenProperties
  <2> QED BY <2>3, EmptySeq
<1>4. OpenScopes = <<>>
  BY <1>3, SelectedEmpty DEF OpenScopes
<1> QED BY <1>1, <1>2, <1>3, <1>4 DEF EventsFollowFrames

-----------------------------------------------------------------------------
(* The digits of a stamp.                                                  *)

\* The powers of the base up to the k-th.
Powers(p, k) == p = [j \in 0..k |-> IF j = 0 THEN 1 ELSE Base * p[j - 1]]

LEMMA PowersExist ==
    ASSUME NEW n \in Nat
    PROVE  \E p : Powers(p, n)
<1> DEFINE Fits(p, j) == Powers(p, j)
           Good == {j \in 0..n : \E p : Fits(p, j)}
<1>1. 0 \in Good
  <2>1. Fits([k \in 0..0 |-> 1], 0)
    BY DEF Powers
  <2> HIDE DEF Fits
  <2> QED BY <2>1
<1>2. ASSUME NEW j \in 1..n, j - 1 \in Good PROVE j \in Good
  <2>1. PICK g : Fits(g, j - 1)
    BY <1>2
  <2> DEFINE h == [k \in 0..j |-> IF k = j THEN Base * g[j - 1] ELSE g[k]]
  <2>2. \A k \in 0..j : h[k] = IF k = 0 THEN 1 ELSE Base * h[k - 1]
    <3> TAKE k \in 0..j
    <3>1. CASE k = j
      <4>1. k # 0 /\ k - 1 \in 0..j /\ k - 1 # j
        BY <3>1
      <4> QED BY <3>1, <4>1
    <3>2. CASE k # j /\ k = 0
      <4>1. 0 \in 0..(j - 1)
        OBVIOUS
      <4>2. g[0] = 1
        BY <2>1, <4>1 DEF Powers
      <4> QED BY <3>2, <4>2
    <3>3. CASE k # j /\ k # 0
      <4>1. k \in 0..(j - 1) /\ k - 1 \in 0..j /\ k - 1 # j
        BY <3>3
      <4>2. g[k] = Base * g[k - 1]
        BY <2>1, <3>3, <4>1 DEF Powers
      <4> QED BY <3>3, <4>1, <4>2
    <3> QED BY <3>1, <3>2, <3>3
  <2>3. h = [k \in 0..j |-> h[k]]
    OBVIOUS
  <2> HIDE DEF h
  <2>4. Fits(h, j)
    BY <2>2, <2>3 DEF Powers
  <2> HIDE DEF Fits
  <2> QED BY <2>4
<1>3. n \in Good
  <2> HIDE DEF Good
  <2>1. n \in 0..n
    OBVIOUS
  <2> QED BY <1>1, <1>2, <2>1, CountUp
<1> QED BY <1>3

LEMMA PowersSame ==
    ASSUME NEW m \in Nat, NEW n \in Nat, NEW p, NEW q, Powers(p, m), Powers(q, n), m <= n
    PROVE  p[m] = q[m]
<1> DEFINE Good == {j \in 0..m : p[j] = q[j]}
<1>1. \A j \in 0..m : j \in 0..n
  OBVIOUS
<1>2. \A j \in 0..m : /\ p[j] = IF j = 0 THEN 1 ELSE Base * p[j - 1]
                      /\ q[j] = IF j = 0 THEN 1 ELSE Base * q[j - 1]
  BY <1>1 DEF Powers
<1>3. 0 \in Good
  BY <1>2
<1>4. ASSUME NEW j \in 1..m, j - 1 \in Good PROVE j \in Good
  BY <1>2, <1>4
<1>5. m \in Good
  <2> HIDE DEF Good
  <2>1. m \in 0..m
    OBVIOUS
  <2> QED BY <1>3, <1>4, <2>1, CountUp
<1> QED BY <1>5

LEMMA PowerIs == Power = [k \in Nat |-> IF k = 0 THEN 1 ELSE Base * Power[k - 1]]
<1> DEFINE p(n) == CHOOSE q : Powers(q, n)
           f == [n \in Nat |-> p(n)[n]]
<1>1. ASSUME NEW n \in Nat PROVE Powers(p(n), n)
  BY PowersExist, Zenon
<1>2. f[0] = 1
  <2>1. 0 \in Nat /\ 0 \in 0..0
    OBVIOUS
  <2>2. Powers(p(0), 0)
    BY <1>1, <2>1
  <2> HIDE DEF p
  <2>3. p(0)[0] = 1
    BY <2>1, <2>2 DEF Powers
  <2> QED BY <2>1, <2>3
<1>3. ASSUME NEW n \in Nat, n # 0 PROVE f[n] = Base * f[n - 1]
  <2> DEFINE m == n - 1
             u == p(m)
             v == p(n)
  <2>1. m \in Nat /\ n \in 0..n /\ m <= n /\ f[n] = v[n] /\ f[m] = u[m]
    BY <1>3
  <2>2. Powers(u, m) /\ Powers(v, n)
    BY <1>1, <2>1
  <2> HIDE DEF u, v, f, p
  <2>3. v[n] = Base * v[m]
    BY <1>3, <2>1, <2>2 DEF Powers
  <2>4. u[m] = v[m]
    BY <2>1, <2>2, PowersSame
  <2> QED BY <2>1, <2>3, <2>4
<1>4. f = [n \in Nat |-> IF n = 0 THEN 1 ELSE Base * f[n - 1]]
  <2>1. \A n \in Nat : f[n] = IF n = 0 THEN 1 ELSE Base * f[n - 1]
    <3> HIDE DEF f
    <3> QED BY <1>2, <1>3
  <2>2. f = [n \in Nat |-> f[n]]
    OBVIOUS
  <2> HIDE DEF f
  <2> QED BY <2>1, <2>2
<1> HIDE DEF f
<1> QED BY <1>4 DEF Power

LEMMA PowerStep ==
    /\ Power[0] = 1
    /\ \A n \in Nat : Power[n + 1] = Base * Power[n]
<1>1. \A n \in Nat : Power[n] = IF n = 0 THEN 1 ELSE Base * Power[n - 1]
  BY PowerIs
<1>2. \A n \in Nat : n + 1 \in Nat /\ n + 1 # 0 /\ (n + 1) - 1 = n
  OBVIOUS
<1> QED BY <1>1, <1>2

\* Powers are positive and exceed their exponents.
LEMMA PowerBounds ==
    ASSUME NEW n \in Nat
    PROVE  Power[n] \in Nat /\ Power[n] >= n + 1
<1> DEFINE Good == {j \in 0..n : Power[j] \in Nat /\ Power[j] >= j + 1}
<1>1. 0 \in Good
  BY PowerStep
<1>2. ASSUME NEW j \in 1..n, j - 1 \in Good PROVE j \in Good
  <2> DEFINE i == j - 1
             x == Power[i]
  <2>1. i \in Nat /\ i + 1 = j
    OBVIOUS
  <2>2. Power[j] = Base * x /\ x \in Nat /\ x >= i + 1
    BY <1>2, <2>1, PowerStep
  <2> HIDE DEF x, i
  <2>3. Base \in Nat /\ Base >= 2
    BY TracerAssumption
  <2>4. Base * x \in Nat /\ Base * x >= 2 * x
    BY <2>2, <2>3
  <2> QED BY <2>1, <2>2, <2>4
<1>3. n \in Good
  <2> HIDE DEF Good
  <2>1. n \in 0..n
    OBVIOUS
  <2> QED BY <1>1, <1>2, <2>1, CountUp
<1> QED BY <1>3

(* Division.                                                               *)

LEMMA Euclid ==
    ASSUME NEW a \in Nat, NEW b \in Nat \ {0}
    PROVE  /\ a \div b \in Nat /\ a % b \in 0..(b - 1)
           /\ a = b * (a \div b) + (a % b)
<1>1. a \in Int /\ b \in Int /\ b > 0
  OBVIOUS
<1>2. a = b * (a \div b) + (a % b)
  OBVIOUS
<1>3. a % b \in 0..(b - 1)
  OBVIOUS
<1>4. a \div b \in Nat
  OBVIOUS
<1> QED BY <1>2, <1>3, <1>4

LEMMA Larger ==
    ASSUME NEW b \in Nat, NEW x \in Nat, NEW y \in Nat, x < y
    PROVE  b * y >= b * x + b /\ b * x \in Nat /\ b * y \in Nat
<1>1. PICK d \in Nat : y = x + 1 + d
  <2>1. y - x - 1 \in Nat /\ y = x + 1 + (y - x - 1)
    OBVIOUS
  <2> QED BY <2>1
<1>2. b * y = b * x + b + b * d
  BY <1>1
<1>3. b * d \in Nat /\ b * x \in Nat
  OBVIOUS
<1> QED BY <1>2, <1>3

LEMMA OneQuotient ==
    ASSUME NEW b \in Nat, NEW q \in Nat, NEW r \in 0..(b - 1),
           NEW x \in Nat, NEW y \in 0..(b - 1), b * q + r = b * x + y
    PROVE  q = x
<1>1. CASE q < x
  BY <1>1, Larger
<1>2. CASE x < q
  BY <1>2, Larger
<1> QED BY <1>1, <1>2

\* Dividing twice is dividing by the product.
LEMMA DivTwice ==
    ASSUME NEW a \in Nat, NEW b \in Nat \ {0}, NEW c \in Nat \ {0}
    PROVE  a \div (c * b) = (a \div b) \div c
<1> DEFINE q == a \div b
           r == a % b
           x == q \div c
           y == q % c
<1>1. q \in Nat /\ r \in 0..(b - 1) /\ a = b * q + r
  BY Euclid
<1> HIDE DEF q, r
<1>2. x \in Nat /\ y \in 0..(c - 1) /\ q = c * x + y
  BY <1>1, Euclid
<1> HIDE DEF x, y
<1>3. c * b \in Nat \ {0}
  OBVIOUS
<1>4. a = (c * b) * x + (b * y + r)
  BY <1>1, <1>2
<1>5. b * y + r \in 0..(c * b - 1)
  <2>1. b * c >= b * y + b /\ b * y \in Nat
    BY <1>2, Larger
  <2>2. b * c = c * b
    OBVIOUS
  <2> QED BY <1>1, <2>1, <2>2
<1> DEFINE d == c * b
           s == b * y + r
<1>6. d \in Nat \ {0} /\ s \in 0..(d - 1) /\ a = d * x + s
  BY <1>3, <1>4, <1>5
<1> HIDE DEF d, s
<1>7. a \div d \in Nat /\ a % d \in 0..(d - 1) /\ a = d * (a \div d) + (a % d)
  BY <1>6, Euclid
<1>8. a \div d = x
  BY <1>2, <1>6, <1>7, OneQuotient
<1> QED BY <1>8 DEF d, x, q

LEMMA DivGrows ==
    ASSUME NEW a \in Nat, NEW b \in Nat \ {0}, NEW c \in Nat, a <= c
    PROVE  a \div b <= c \div b
<1> DEFINE q == a \div b
           x == c \div b
<1>1. /\ q \in Nat /\ a % b \in 0..(b - 1) /\ a = b * q + (a % b)
      /\ x \in Nat /\ c % b \in 0..(b - 1) /\ c = b * x + (c % b)
  BY Euclid
<1> HIDE DEF q, x
<1>2. ASSUME x < q PROVE FALSE
  <2>1. b * q >= b * x + b
    BY <1>1, <1>2, Larger
  <2> QED BY <1>1, <2>1
<1>3. q <= x
  BY <1>1, <1>2
<1> QED BY <1>3 DEF q, x

\* A number without its last w - k digits.
Leading(a, w, k) == a \div Power[w - k]

LEMMA PowerPositive == \A n \in Nat : Power[n] \in Nat \ {0}
<1> SUFFICES ASSUME NEW n \in Nat PROVE Power[n] \in Nat \ {0}
  OBVIOUS
<1> QED BY PowerBounds

LEMMA LeadingFacts ==
    ASSUME NEW w \in Nat, NEW a \in Nat
    PROVE  /\ \A k \in 0..w : Leading(a, w, k) \in Nat
           /\ Leading(a, w, w) = a
           /\ a < Power[w] => Leading(a, w, 0) = 0
           /\ \A k \in 1..w : Leading(a, w, k - 1) = Leading(a, w, k) \div Base
<1>1. ASSUME NEW k \in 0..w PROVE Leading(a, w, k) \in Nat
  <2>1. Power[w - k] \in Nat \ {0}
    <3>1. w - k \in Nat
      OBVIOUS
    <3> QED BY <3>1, PowerPositive
  <2> QED BY <2>1, Euclid DEF Leading
<1>2. Leading(a, w, w) = a
  <2>1. w - w = 0 /\ a \div 1 = a
    OBVIOUS
  <2> QED BY <2>1, PowerStep DEF Leading
<1>3. ASSUME a < Power[w] PROVE Leading(a, w, 0) = 0
  <2> DEFINE p == Power[w]
  <2>1. w - 0 = w /\ p \in Nat \ {0} /\ a < p
    BY <1>3, PowerPositive
  <2>2. Leading(a, w, 0) = a \div p
    BY <2>1 DEF Leading
  <2> HIDE DEF p
  <2>3. a \div p \in Nat /\ a % p \in 0..(p - 1) /\ a = p * (a \div p) + (a % p)
    BY <2>1, Euclid
  <2>4. a \in 0..(p - 1) /\ a = p * 0 + a /\ 0 \in Nat
    BY <2>1
  <2>5. a \div p = 0
    BY <2>1, <2>3, <2>4, OneQuotient
  <2> QED BY <2>2, <2>5
<1>4. ASSUME NEW k \in 1..w PROVE Leading(a, w, k - 1) = Leading(a, w, k) \div Base
  <2> DEFINE m == w - k
             p == Power[m]
  <2>1. m \in Nat /\ w - (k - 1) = m + 1
    OBVIOUS
  <2>2. p \in Nat \ {0} /\ Power[m + 1] = Base * p /\ Base \in Nat \ {0}
    BY <2>1, PowerPositive, PowerStep, TracerAssumption
  <2>3. Leading(a, w, k) = a \div p /\ Leading(a, w, k - 1) = a \div (Base * p)
    BY <2>1, <2>2 DEF Leading
  <2> HIDE DEF p
  <2>4. a \div (Base * p) = (a \div p) \div Base
    BY <2>2, DivTwice
  <2> QED BY <2>3, <2>4
<1> QED BY <1>1, <1>2, <1>3, <1>4

\* Digits of the same width are in the order of their numbers.
LEMMA DigitsInOrder ==
    ASSUME NEW w \in Nat, NEW m \in Nat, NEW n \in Nat, m < n, n < Power[w]
    PROVE  \E i \in 1..w : /\ Digits(m, w)[i] < Digits(n, w)[i]
                           /\ \A j \in 1..(i - 1) : Digits(m, w)[j] = Digits(n, w)[j]
<1> DEFINE x(k) == Leading(m, w, k)
           y(k) == Leading(n, w, k)
           D == {k \in 1..w : x(k) # y(k)}
<1>1. /\ \A k \in 0..w : x(k) \in Nat /\ y(k) \in Nat
      /\ x(w) = m /\ y(w) = n /\ x(0) = 0 /\ y(0) = 0
      /\ \A k \in 1..w : x(k - 1) = x(k) \div Base /\ y(k - 1) = y(k) \div Base
  <2>1. Power[w] \in Nat
    BY PowerPositive
  <2>2. m < Power[w]
    BY <2>1
  <2> QED BY <2>2, LeadingFacts
<1>2. \A k \in 1..w : x(k) <= y(k)
  <2> TAKE k \in 1..w
  <2>1. w - k \in Nat /\ m <= n
    OBVIOUS
  <2>2. Power[w - k] \in Nat \ {0}
    BY <2>1, PowerPositive
  <2> QED BY <2>1, <2>2, DivGrows DEF Leading
<1>3. \A k \in 1..w : Digits(m, w)[k] = x(k) % Base /\ Digits(n, w)[k] = y(k) % Base
  BY DEF Digits, Leading
<1> HIDE DEF x, y
<1>4. w \in D
  <2>1. w # 0
    BY <1>1
  <2>2. w \in 1..w
    BY <2>1
  <2> QED BY <1>1, <2>2
<1>5. PICK i \in D : \A j \in D : i <= j
  BY <1>4, LeastPosition
<1>6. i \in 1..w /\ i - 1 \in 0..w /\ x(i) # y(i) /\ x(i) \in Nat /\ y(i) \in Nat
  BY <1>1, <1>5
<1>7. \A j \in 1..(i - 1) : j \in 1..w /\ x(j) = y(j)
  BY <1>5, <1>6
<1>8. x(i - 1) = y(i - 1)
  <2>1. i - 1 = 0 \/ i - 1 \in 1..(i - 1)
    BY <1>6
  <2> QED BY <1>1, <1>7, <2>1
<1>9. x(i) % Base < y(i) % Base
  <2> DEFINE b == Base
             u == x(i)
             v == y(i)
             q == u \div b
  <2>1. u \in Nat /\ v \in Nat /\ u < v /\ v \div b = q /\ b \in Nat \ {0}
    <3>1. u <= v
      BY <1>2, <1>6
    <3>2. v \div b = q
      BY <1>1, <1>6, <1>8
    <3>3. b \in Nat \ {0}
      BY TracerAssumption
    <3> QED BY <1>6, <3>1, <3>2, <3>3
  <2> HIDE DEF b, u, v
  <2>2. /\ u % b \in 0..(b - 1) /\ u = b * q + (u % b) /\ q \in Nat
        /\ v % b \in 0..(b - 1) /\ v = b * (v \div b) + (v % b)
    BY <2>1, Euclid
  <2>3. v = b * q + (v % b) /\ b * q \in Nat
    BY <2>1, <2>2
  <2> HIDE DEF q
  <2>4. u % b < v % b
    BY <2>1, <2>2, <2>3
  <2> QED BY <2>4 DEF b, u, v
<1>10. Digits(m, w)[i] < Digits(n, w)[i]
  BY <1>3, <1>6, <1>9
<1>11. \A j \in 1..(i - 1) : Digits(m, w)[j] = Digits(n, w)[j]
  BY <1>3, <1>7
<1> QED BY <1>6, <1>10, <1>11

\* A number that Width digits hold is printed with Width digits.
LEMMA WidthIs ==
    ASSUME NEW n \in Nat, n < Power[Width]
    PROVE  WidthOf(n) = Width
<1> DEFINE Least(w) == n < Power[w] /\ \A v \in 1..(n + 1) : n < Power[v] => w <= v
           M == {w \in 1..(n + 1) : n < Power[w]}
<1>1. n + 1 \in M
  <2>1. n + 1 \in Nat /\ n + 1 \in 1..(n + 1)
    OBVIOUS
  <2>2. Power[n + 1] \in Nat /\ Power[n + 1] >= (n + 1) + 1
    BY <2>1, PowerBounds
  <2>3. n < Power[n + 1]
    BY <2>2
  <2> QED BY <2>1, <2>3
<1>2. \E w \in 1..(n + 1) : Least(w)
  <2>1. n + 1 \in Nat /\ M \in SUBSET (1..(n + 1)) /\ M # {}
    BY <1>1
  <2>2. PICK w \in M : \A v \in M : w <= v
    <3> HIDE DEF M
    <3> QED BY <2>1, LeastPosition
  <2>3. w \in 1..(n + 1) /\ Least(w)
    BY <2>2
  <2> QED BY <2>3
<1> DEFINE c == CHOOSE w \in 1..(n + 1) : Least(w)
<1>3. c \in 1..(n + 1) /\ Least(c)
  <2> HIDE DEF Least
  <2> QED BY <1>2
<1>4. WidthOf(n) = Max2(Width, c)
  BY DEF WidthOf
<1> HIDE DEF c
<1>5. c <= Width
  <2>1. Width \in Nat \ {0}
    BY TracerAssumption
  <2>2. CASE Width \in 1..(n + 1)
    BY <1>3, <2>2
  <2>3. CASE Width \notin 1..(n + 1)
    BY <1>3, <2>1, <2>3
  <2> QED BY <2>2, <2>3
<1>6. Width \in Nat
  BY TracerAssumption
<1> QED BY <1>3, <1>4, <1>5, <1>6 DEF Max2

\* What a stamp is, place by place.
LEMMA StampPlaces ==
    ASSUME NEW ts \in [ms : Nat, n : Nat], ts.n < Power[Width]
    PROVE  /\ DOMAIN Stamp(ts) = 1..(Width + 2)
           /\ Stamp(ts)[1] = ts.ms
           /\ \A i \in 1..Width : Stamp(ts)[i + 1] = Digits(ts.n, Width)[i]
<1> DEFINE d == Digits(ts.n, Width)
           s == <<ts.ms>> \o d
           z == s \o <<Base>>
<1>1. ts.ms \in Nat /\ ts.n \in Nat /\ Width \in Nat \ {0} /\ Base \in Nat \ {0}
  BY TracerAssumption
<1>2. Stamp(ts) = z
  BY <1>1, WidthIs DEF Stamp
<1>3. d \in Seq(Nat) /\ Len(d) = Width
  <2>1. d \in [1..Width -> Nat]
    <3>1. \A k \in 1..Width : (ts.n \div Power[Width - k]) % Base \in Nat
      <4> TAKE k \in 1..Width
      <4>1. Width - k \in Nat
        BY <1>1
      <4>2. Power[Width - k] \in Nat \ {0}
        BY <4>1, PowerPositive
      <4>3. ts.n \div Power[Width - k] \in Nat
        BY <1>1, <4>2, Euclid
      <4>4. (ts.n \div Power[Width - k]) % Base \in 0..(Base - 1)
        BY <1>1, <4>3, Euclid
      <4> QED BY <1>1, <4>4
    <3> QED BY <3>1 DEF Digits
  <2> QED BY <1>1, <2>1, SeqDef, LenProperties
<1> HIDE DEF d
<1>4. <<ts.ms>> \in Seq(Nat) /\ Len(<<ts.ms>>) = 1 /\ <<ts.ms>>[1] = ts.ms
  BY <1>1
<1>5. <<Base>> \in Seq(Nat) /\ Len(<<Base>>) = 1
  BY <1>1
<1>6. /\ s \in Seq(Nat) /\ Len(s) = Width + 1
      /\ \A i \in 1..(1 + Width) : s[i] = IF i <= 1 THEN <<ts.ms>>[i] ELSE d[i - 1]
  BY <1>1, <1>3, <1>4, ConcatProperties
<1>7. s[1] = ts.ms /\ \A i \in 1..Width : s[i + 1] = d[i]
  <2>1. 1 \in 1..(1 + Width)
    BY <1>1
  <2>2. s[1] = ts.ms
    BY <1>4, <1>6, <2>1
  <2>3. ASSUME NEW i \in 1..Width PROVE s[i + 1] = d[i]
    <3>1. i + 1 \in 1..(1 + Width) /\ ~(i + 1 <= 1) /\ (i + 1) - 1 = i
      BY <1>1
    <3> QED BY <1>6, <3>1
  <2> QED BY <2>2, <2>3
<1> HIDE DEF s
<1>8. /\ z \in Seq(Nat) /\ Len(z) = Width + 2
      /\ \A i \in 1..(Width + 1) : z[i] = s[i]
  <2>1. /\ z \in Seq(Nat) /\ Len(z) = Len(s) + Len(<<Base>>)
        /\ \A i \in 1..(Len(s) + Len(<<Base>>)) : z[i] = IF i <= Len(s) THEN s[i] ELSE <<Base>>[i - Len(s)]
    BY <1>5, <1>6, ConcatProperties
  <2> HIDE DEF z
  <2>2. Len(z) = Width + 2 /\ \A i \in 1..(Width + 1) : i \in 1..(Len(s) + Len(<<Base>>)) /\ i <= Len(s)
    BY <1>1, <1>5, <1>6, <2>1
  <2> QED BY <2>1, <2>2
<1> HIDE DEF z
<1>9. DOMAIN z = 1..(Width + 2)
  BY <1>8, LenProperties
<1>10. 1 \in 1..(Width + 1) /\ \A i \in 1..Width : i + 1 \in 1..(Width + 1)
  BY <1>1
<1> QED BY <1>2, <1>7, <1>8, <1>9, <1>10 DEF d

LEMMA StampsInOrder ==
    ASSUME NEW s \in [ms : Nat, n : Nat], NEW t \in [ms : Nat, n : Nat],
           s.n < Power[Width], t.n < Power[Width], Earlier(s, t)
    PROVE  Before(Stamp(s), Stamp(t))
<1> DEFINE a == Stamp(s)
           b == Stamp(t)
<1>1. /\ DOMAIN a = 1..(Width + 2) /\ a[1] = s.ms
      /\ \A i \in 1..Width : a[i + 1] = Digits(s.n, Width)[i]
      /\ DOMAIN b = 1..(Width + 2) /\ b[1] = t.ms
      /\ \A i \in 1..Width : b[i + 1] = Digits(t.n, Width)[i]
  BY StampPlaces
<1>2. Width \in Nat /\ s.ms \in Nat /\ t.ms \in Nat /\ s.n \in Nat /\ t.n \in Nat
  BY TracerAssumption
<1> HIDE DEF a, b
<1>3. CASE s.ms < t.ms
  <2>1. 1 \in 1..(Width + 2) /\ 1..(1 - 1) = {}
    BY <1>2
  <2>1a. 1 \in DOMAIN a \intersect DOMAIN b /\ a[1] < b[1]
    BY <1>1, <1>3, <2>1
  <2>2. Before(a, b)
    BY <2>1, <2>1a DEF Before
  <2> QED BY <2>2 DEF a, b
<1>4. CASE s.ms = t.ms /\ s.n < t.n
  <2>1. PICK i \in 1..Width :
           /\ Digits(s.n, Width)[i] < Digits(t.n, Width)[i]
           /\ \A j \in 1..(i - 1) : Digits(s.n, Width)[j] = Digits(t.n, Width)[j]
    <3>1. Width \in Nat /\ s.n \in Nat /\ t.n \in Nat /\ s.n < t.n
      BY <1>2, <1>4
    <3>2. s.n < Power[Width] /\ t.n < Power[Width]
      OBVIOUS
    <3> QED BY <3>1, <3>2, DigitsInOrder
  <2> DEFINE k == i + 1
  <2>2. k \in DOMAIN a \intersect DOMAIN b /\ a[k] < b[k]
    BY <1>1, <1>2, <2>1
  <2>3. \A j \in 1..(k - 1) : a[j] = b[j]
    <3> TAKE j \in 1..(k - 1)
    <3>1. CASE j = 1
      BY <1>1, <1>4, <3>1
    <3>2. CASE j # 1
      <4>1. j - 1 \in 1..(i - 1) /\ j - 1 \in 1..Width /\ (j - 1) + 1 = j
        BY <1>2, <3>2
      <4> QED BY <1>1, <2>1, <4>1
    <3> QED BY <3>1, <3>2
  <2> HIDE DEF k
  <2>4. Before(a, b)
    BY <2>2, <2>3 DEF Before
  <2> QED BY <2>4 DEF a, b
<1> QED BY <1>3, <1>4 DEF Earlier

LEMMA StampsSorted ==
    ASSUME TypeOK, TicksAscend
    PROVE  EventsSorted
<1> SUFFICES ASSUME NEW j \in 1..Len(events), NEW k \in 1..Len(events), j < k,
                    \A i \in 1..k : events[i].ts.n < Power[Width]
             PROVE  Before(Stamp(events[j].ts), Stamp(events[k].ts))
  BY DEF EventsSorted
<1>1. events[j] \in Events /\ events[k] \in Events
  BY ElementOfSeq DEF TypeOK
<1>2. events[j].ts \in [ms : Nat, n : Nat] /\ events[k].ts \in [ms : Nat, n : Nat]
  BY <1>1, TracerAssumption DEF Events
<1>3. j \in 1..k /\ k \in 1..k
  OBVIOUS
<1>4. Earlier(events[j].ts, events[k].ts)
  BY DEF TicksAscend
<1> QED BY <1>2, <1>3, <1>4, StampsInOrder

\* An event tells when it was recorded and in which frames: the printed stamps are
\* in emission order, its intent is the innermost open one, and on entering a
\* frame its scope path is that of the open frames.
THEOREM EventsAreTruthful == Spec => []EventsTellTimeAndPlace
<1>1. Inductive => EventsSorted
  BY StampsSorted DEF Inductive
<1> QED BY <1>1, InductiveInvariant, FramesAtFirst, FramesFollowed, PTL
       DEF Spec, EventsTellTimeAndPlace

-----------------------------------------------------------------------------
(* The diff of two traces.                                                 *)

\* The events of one scope, one event later.
LEMMA InScopeAppend ==
    ASSUME NEW trace \in Seq(Events), NEW e \in Events, NEW sc
    PROVE  InScope(Append(trace, e), sc) =
               IF e.scope = sc THEN Append(InScope(trace, sc), e) ELSE InScope(trace, sc)
<1> DEFINE n == Len(trace)
           longer == Append(trace, e)
           P == {k \in DOMAIN trace : trace[k].scope = sc}
           Q == {k \in DOMAIN longer : longer[k].scope = sc}
<1>1. /\ n \in Nat /\ DOMAIN trace = 1..n
      /\ longer \in Seq(Events) /\ Len(longer) = n + 1 /\ longer[n + 1] = e
      /\ \A k \in 1..n : longer[k] = trace[k]
  BY AppendProperties, LenProperties
<1>2. DOMAIN longer = 1..(n + 1)
  <2> HIDE DEF longer
  <2> QED BY <1>1, LenProperties
<1>3. Selected(longer, Q) = IF n + 1 \in Q THEN Append(Selected(trace, Q), e) ELSE Selected(trace, Q)
  BY SelectedAppend, Zenon
<1>4. InScope(longer, sc) = Selected(longer, Q) /\ InScope(trace, sc) = Selected(trace, P)
  BY DEF InScope
<1>5. Selected(trace, Q) = Selected(trace, P)
  <2>1. Len(trace) = n
    OBVIOUS
  <2> HIDE DEF longer, n
  <2>2. \A k \in 1..n : (k \in Q <=> k \in P)
    BY <1>1, <1>2
  <2> HIDE DEF P, Q
  <2> QED BY <1>1, <2>1, <2>2, SelectedSame
<1>6. n + 1 \in Q <=> e.scope = sc
  <2> HIDE DEF longer, n
  <2>1. n + 1 \in 1..(n + 1)
    BY <1>1
  <2> QED BY <1>1, <1>2, <2>1
<1> QED BY <1>3, <1>4, <1>5, <1>6

LEMMA InScopeTyped ==
    ASSUME NEW trace \in Seq(Events), NEW sc
    PROVE  InScope(trace, sc) \in Seq(Events) /\ Len(InScope(trace, sc)) \in Nat
BY SelectedTyped, LenProperties DEF InScope

\* What the file lacks, it lacks in some scope.
Behind ==
    /\ \A sc \in Seq(Frames) : Len(InScope(file, sc)) <= Len(InScope(events, sc))
    /\ IF Len(file) = Len(events) THEN file = events
       ELSE \E sc \in Seq(Frames) : /\ sc \in ScopesOf(events)
                                    /\ Len(InScope(file, sc)) < Len(InScope(events, sc))

LEMMA FallsBehind ==
    ASSUME TypeOK, Behind, NEW e \in Events,
           events' = Append(events, e), file' \in {Append(file, e), file}
    PROVE  Behind'
<1>1. /\ events \in Seq(Events) /\ file \in Seq(Events)
      /\ Len(file) \in Nat /\ Len(events) \in Nat /\ Len(file) <= Len(events)
  BY LenProperties DEF TypeOK
<1>2. /\ events' \in Seq(Events) /\ Len(events') = Len(events) + 1
      /\ \A k \in 1..Len(events) : events'[k] = events[k]
      /\ events'[Len(events) + 1] = e /\ DOMAIN events' = 1..(Len(events) + 1)
      /\ DOMAIN events = 1..Len(events)
  BY <1>1, AppendProperties, LenProperties
<1>3. ScopesOf(events') = ScopesOf(events) \union {e.scope}
  <2>1. 1..(Len(events) + 1) = 1..Len(events) \union {Len(events) + 1}
    BY <1>1
  <2> QED BY <1>2, <2>1 DEF ScopesOf
<1>4. e.scope \in Seq(Frames)
  BY DEF Events
<1>5. \A sc : /\ InScope(events', sc) = IF e.scope = sc THEN Append(InScope(events, sc), e)
                                        ELSE InScope(events, sc)
              /\ InScope(Append(file, e), sc) = IF e.scope = sc THEN Append(InScope(file, sc), e)
                                        ELSE InScope(file, sc)
  BY <1>1, InScopeAppend
<1>6. \A sc : /\ Len(InScope(events, sc)) \in Nat /\ Len(InScope(file, sc)) \in Nat
              /\ Len(Append(InScope(events, sc), e)) = Len(InScope(events, sc)) + 1
              /\ Len(Append(InScope(file, sc), e)) = Len(InScope(file, sc)) + 1
  BY <1>1, InScopeTyped, AppendProperties
<1>7. \A sc : Len(InScope(events', sc)) = IF e.scope = sc THEN Len(InScope(events, sc)) + 1
                                          ELSE Len(InScope(events, sc))
  BY <1>5, <1>6
<1>8. CASE file' = Append(file, e)
  <2>1. \A sc : Len(InScope(file', sc)) = IF e.scope = sc THEN Len(InScope(file, sc)) + 1
                                          ELSE Len(InScope(file, sc))
    BY <1>5, <1>6, <1>8
  <2>2. Len(file') = Len(file) + 1
    BY <1>1, <1>8, AppendProperties
  <2>3. \A sc \in Seq(Frames) : Len(InScope(file', sc)) <= Len(InScope(events', sc))
    BY <1>6, <1>7, <2>1 DEF Behind
  <2>4. CASE Len(file) = Len(events)
    <3>1. file' = events' /\ Len(file') = Len(events')
      BY <1>8, <2>4 DEF Behind
    <3> QED BY <2>3, <3>1 DEF Behind
  <2>5. CASE Len(file) # Len(events)
    <3>1. PICK sc \in Seq(Frames) : sc \in ScopesOf(events)
                                    /\ Len(InScope(file, sc)) < Len(InScope(events, sc))
      BY <2>5 DEF Behind
    <3>2. sc \in ScopesOf(events') /\ Len(InScope(file', sc)) < Len(InScope(events', sc))
      BY <1>3, <1>6, <1>7, <2>1, <3>1
    <3>3. Len(file') # Len(events')
      BY <1>1, <1>2, <2>2, <2>5
    <3> QED BY <2>3, <3>2, <3>3 DEF Behind
  <2> QED BY <2>4, <2>5
<1>9. CASE file' = file
  <2>1. \A sc \in Seq(Frames) : Len(InScope(file', sc)) <= Len(InScope(events', sc))
    BY <1>6, <1>7, <1>9 DEF Behind
  <2>2. Len(InScope(file', e.scope)) < Len(InScope(events', e.scope))
    BY <1>4, <1>6, <1>7, <1>9 DEF Behind
  <2>3. Len(file') # Len(events')
    BY <1>1, <1>2, <1>9
  <2> QED BY <1>3, <1>4, <2>1, <2>2, <2>3 DEF Behind
<1> QED BY <1>8, <1>9

LEMMA LossIsSeen ==
    ASSUME TypeOK, Behind
    PROVE  DiffSeesLoss
<1>1. CASE Len(file) = Len(events)
  BY <1>1, DiffOfItself DEF DiffSeesLoss, Behind
<1>2. CASE Len(file) # Len(events)
  <2>1. PICK sc \in Seq(Frames) : sc \in ScopesOf(events)
                                  /\ Len(InScope(file, sc)) < Len(InScope(events, sc))
    BY <1>2 DEF Behind
  <2> DEFINE xs == InScope(events, sc)
             ys == InScope(file, sc)
             i == Len(ys) + 1
  <2>2. xs \in Seq(Events) /\ ys \in Seq(Events) /\ Len(xs) \in Nat /\ Len(ys) \in Nat
    BY InScopeTyped DEF TypeOK
  <2>3. DOMAIN xs = 1..Len(xs) /\ DOMAIN ys = 1..Len(ys)
    BY <2>2, LenProperties
  <2>4. i \in DOMAIN xs \ DOMAIN ys
    BY <2>1, <2>2, <2>3
  <2>5. [scope |-> sc, ordinal |-> i, row |-> "missing"] \in RowsOf(events, file, sc)
    BY <2>4 DEF RowsOf
  <2>6. DiffTraces(events, file) # {}
    BY <2>1, <2>5 DEF DiffTraces
  <2> QED BY <1>2, <2>6 DEF DiffSeesLoss
<1> QED BY <1>1, <1>2

LEMMA BehindKept == Inductive /\ Behind /\ [Next]_vars => Behind'
<1> SUFFICES ASSUME Inductive, Behind, [Next]_vars PROVE Behind'
  OBVIOUS
<1>1. TypeOK
  BY DEF Inductive
<1>2. ASSUME NEW scoped \in BOOLEAN, IntentEnterEvent(scoped) PROVE Behind'
  <2> DEFINE name == Name[frames + 1]
             st == IntentEnter(stacks, name, IF scoped THEN name ELSE NoScope)
  <2>1. Record(st, "intent_enter", CurrentScope(st), NoFields)
    BY <1>2 DEF IntentEnterEvent
  <2>2. Len(events) < MaxEvents
    BY <2>1 DEF Record
  <2>3. name \in Frames /\ name # NoScope
    BY <2>2, NextFrame
  <2>4. st \in StacksOf(Frames, Frames)
    <3>1. stacks \in StacksOf(Frames, Frames)
      BY <1>1, TracerStacks
    <3> HIDE DEF name
    <3>2. CASE scoped
      BY <2>3, <3>1, <3>2, EnterScoped
    <3>3. CASE ~scoped
      BY <2>3, <3>1, <3>3, EnterBare
    <3> QED BY <1>2, <3>2, <3>3
  <2> HIDE DEF st
  <2>5. CurrentScope(st) \in Seq(Frames)
    BY <2>4 DEF StacksOf, CurrentScope
  <2>6. PICK e \in Events : events' = Append(events, e) /\ file' \in {Append(file, e), file}
    BY <2>1, <2>4, <2>5, RecordedEvent DEF Kinds
  <2> QED BY <1>1, <2>6, FallsBehind
<1>3. CASE IntentExitEvent
  <2>1. PICK outcome \in Outcomes :
           Record(IntentExit(stacks), "intent_exit", CurrentScope(stacks), outcome)
    BY <1>3 DEF IntentExitEvent
  <2>2. stacks \in StacksOf(Frames, Frames) /\ CurrentScope(stacks) \in Seq(Frames)
    BY <1>1, TracerStacks DEF CurrentScope
  <2>3. IntentExit(stacks) \in StacksOf(Frames, Frames)
    BY <2>2, ExitTyped
  <2>4. PICK e \in Events : events' = Append(events, e) /\ file' \in {Append(file, e), file}
    BY <2>1, <2>2, <2>3, RecordedEvent DEF Kinds
  <2> QED BY <1>1, <2>4, FallsBehind
<1>4. CASE OtherEvent
  <2>1. Record(stacks, "other", <<>>, NoFields)
    BY <1>4 DEF OtherEvent, EmptyStacks
  <2>2. stacks \in StacksOf(Frames, Frames) /\ <<>> \in Seq(Frames)
    BY <1>1, TracerStacks
  <2>3. PICK e \in Events : events' = Append(events, e) /\ file' \in {Append(file, e), file}
    BY <2>1, <2>2, RecordedEvent DEF Kinds
  <2> QED BY <1>1, <2>3, FallsBehind
<1>5. CASE Abandon \/ UNCHANGED vars
  <2>1. events' = events /\ file' = file
    BY <1>5 DEF Abandon, vars
  <2> QED BY <2>1 DEF Behind
<1> QED BY <1>2, <1>3, <1>4, <1>5 DEF Next

LEMMA SwappedFacts ==
    ASSUME NEW s \in Seq(Events), NEW k \in 1..(Len(s) - 1)
    PROVE  /\ Swapped(s, k) \in Seq(Events) /\ Len(Swapped(s, k)) = Len(s)
           /\ Exchanged(s, Swapped(s, k), k, Len(s))
           /\ ScopesOf(Swapped(s, k)) = ScopesOf(s)
<1> DEFINE t == Swapped(s, k)
           n == Len(s)
<1>1. /\ n \in Nat /\ s \in [1..n -> Events] /\ DOMAIN s = 1..n
      /\ k \in 1..n /\ k + 1 \in 1..n /\ k # k + 1
  <2>1. n \in Nat /\ DOMAIN s = 1..n
    BY LenProperties
  <2>2. s \in [1..n -> Events]
    BY LenProperties
  <2> QED BY <2>1, <2>2
<1>2. t = [s EXCEPT ![k] = s[k + 1], ![k + 1] = s[k]]
  BY DEF Swapped
<1> HIDE DEF n, t
<1>3. t \in [1..n -> Events] /\ DOMAIN t = 1..n /\ t[k] = s[k + 1] /\ t[k + 1] = s[k]
      /\ \A j \in 1..n : j \notin {k, k + 1} => t[j] = s[j]
  BY <1>1, <1>2
<1>4. t \in Seq(Events) /\ Len(t) = n
  BY <1>1, <1>3, SeqDef, LenProperties
<1>5. ScopesOf(t) = ScopesOf(s)
  BY <1>1, <1>3 DEF ScopesOf
<1> QED BY <1>3, <1>4, <1>5 DEF n, t, Exchanged

LEMMA RowsOfEqual ==
    ASSUME NEW a, NEW b, NEW sc, InScope(a, sc) = InScope(b, sc)
    PROVE  RowsOf(a, b, sc) = {}
BY DEF RowsOf

\* The two selections of a scope, before and after.
LEMMA ScopeSelections ==
    ASSUME NEW s \in Seq(Events), NEW k \in 1..(Len(s) - 1), NEW sc
    PROVE  IF s[k].scope = sc /\ s[k + 1].scope = sc
           THEN \E o : SwappedAt(Events, InScope(s, sc), InScope(Swapped(s, k), sc), o, s[k], s[k + 1])
           ELSE InScope(s, sc) = InScope(Swapped(s, k), sc)
<1> DEFINE t == Swapped(s, k)
           n == Len(s)
           P == {j \in DOMAIN s : s[j].scope = sc}
           Q == {j \in DOMAIN t : t[j].scope = sc}
<1>1. /\ n \in Nat /\ DOMAIN s = 1..n /\ \A j \in 1..n : s[j] \in Events
      /\ k \in 1..n /\ k + 1 \in 1..n
  BY ElementOfSeq, LenProperties
<1>2. t \in Seq(Events) /\ Len(t) = n /\ Exchanged(s, t, k, n)
  BY SwappedFacts
<1> HIDE DEF t
<1>3. DOMAIN t = 1..n
  BY <1>2, LenProperties
<1>4. PICK u : Selecting(s, P, u, n) /\ Selected(s, P) = u[n]
  <2>1. Len(s) \in Nat
    BY <1>1
  <2> QED BY <2>1, SelectedUpTo
<1>5. PICK v : Selecting(t, Q, v, n) /\ Selected(t, Q) = v[n]
  <2>1. Len(t) \in Nat
    BY <1>1, <1>2
  <2>2. \E v : Selecting(t, Q, v, Len(t)) /\ Selected(t, Q) = v[Len(t)]
    BY <2>1, SelectedUpTo
  <2> QED BY <1>2, <2>2
<1>6. InScope(s, sc) = u[n] /\ InScope(t, sc) = v[n]
  BY <1>4, <1>5 DEF InScope
<1>7. k \in 1..(n - 1)
  OBVIOUS
<1> HIDE DEF n
<1>8. ExchangedIn(P, Q, k, n)
  BY <1>1, <1>2, <1>3 DEF Exchanged, ExchangedIn
<1>9. k \in P /\ k + 1 \in P <=> s[k].scope = sc /\ s[k + 1].scope = sc
  BY <1>1
<1> HIDE DEF P, Q
<1>10. CASE s[k].scope = sc /\ s[k + 1].scope = sc
  <2>1. \E o : SwappedAt(Events, u[n], v[n], o, s[k], s[k + 1])
    BY <1>1, <1>2, <1>4, <1>5, <1>7, <1>8, <1>9, <1>10, SwapSelected
  <2> QED BY <1>6, <1>10, <2>1 DEF t
<1>11. CASE ~(s[k].scope = sc /\ s[k + 1].scope = sc)
  <2>1. n \in Nat /\ ~(k \in P /\ k + 1 \in P)
    BY <1>1, <1>9, <1>11
  <2>2. Selecting(s, P, u, n) /\ Selecting(t, Q, v, n) /\ Exchanged(s, t, k, n)
    BY <1>2, <1>4, <1>5
  <2>3. u[n] = v[n]
    BY <1>7, <1>8, <2>1, <2>2, SwapUnseen, SMTT(30)
  <2> QED BY <1>6, <1>11, <2>3 DEF t
<1> QED BY <1>10, <1>11

LEMMA OrderIsSeen ==
    ASSUME events \in Seq(Events)
    PROVE  DiffSeesOrder
<1> SUFFICES ASSUME NEW k \in 1..(Len(events) - 1)
             PROVE  DiffTraces(events, Swapped(events, k)) # {} <=>
                       /\ events[k].scope = events[k + 1].scope
                       /\ Compared(events[k]) # Compared(events[k + 1])
  BY DEF DiffSeesOrder, Compared
<1> DEFINE t == Swapped(events, k)
           a == events[k]
           b == events[k + 1]
<1>1. ScopesOf(t) = ScopesOf(events)
  BY SwappedFacts
<1>2. \A sc : ~(a.scope = sc /\ b.scope = sc) => InScope(events, sc) = InScope(t, sc)
  BY ScopeSelections
<1>3. a.scope \in ScopesOf(events)
  <2>1. k \in 1..Len(events) /\ DOMAIN events = 1..Len(events)
    BY LenProperties
  <2> QED BY <2>1 DEF ScopesOf
<1>4. a.scope = b.scope => \E o : SwappedAt(Events, InScope(events, a.scope), InScope(t, a.scope), o, a, b)
  BY ScopeSelections
<1> HIDE DEF t, a, b
<1>5. \A sc : ~(a.scope = sc /\ b.scope = sc) => RowsOf(events, t, sc) = {}
  BY <1>2, RowsOfEqual
<1>6. CASE a.scope # b.scope
  <2>1. DiffTraces(events, t) = {}
    BY <1>5, <1>6 DEF DiffTraces
  <2> QED BY <1>6, <2>1 DEF t, a, b
<1>7. CASE a.scope = b.scope
  <2> DEFINE xs == InScope(events, a.scope)
             ys == InScope(t, a.scope)
  <2>1. PICK o : SwappedAt(Events, xs, ys, o, a, b)
    BY <1>4, <1>7
  <2>2. /\ Len(xs) \in Nat /\ DOMAIN xs = 1..Len(xs) /\ DOMAIN ys = 1..Len(xs)
        /\ o \in 1..Len(xs) /\ o + 1 \in 1..Len(xs)
        /\ xs[o] = a /\ xs[o + 1] = b /\ ys[o] = b /\ ys[o + 1] = a
        /\ \A i \in 1..Len(xs) : i \notin {o, o + 1} => xs[i] = ys[i]
    BY <2>1, LenProperties DEF SwappedAt
  <2>3. DiffTraces(events, t) = RowsOf(events, t, a.scope)
    <3>1. \A sc \in ScopesOf(events) : sc # a.scope => RowsOf(events, t, sc) = {}
      BY <1>5
    <3> QED BY <1>1, <1>3, <3>1 DEF DiffTraces
  <2>4. RowsOf(events, t, a.scope) =
          {[scope |-> a.scope, ordinal |-> i, row |-> "divergence"] :
             i \in {j \in DOMAIN xs \intersect DOMAIN ys : Compared(xs[j]) # Compared(ys[j])}}
    <3>1. DOMAIN xs \ DOMAIN ys = {} /\ DOMAIN ys \ DOMAIN xs = {}
      BY <2>2
    <3> QED BY <3>1 DEF RowsOf
  <2> HIDE DEF xs, ys
  <2>5. CASE Compared(a) = Compared(b)
    <3>1. \A j \in 1..Len(xs) : Compared(xs[j]) = Compared(ys[j])
      BY <2>2, <2>5
    <3>2. RowsOf(events, t, a.scope) = {}
      BY <2>2, <2>4, <3>1
    <3> QED BY <2>3, <2>5, <3>2 DEF t, a, b
  <2>6. CASE Compared(a) # Compared(b)
    <3>1. o \in {j \in DOMAIN xs \intersect DOMAIN ys : Compared(xs[j]) # Compared(ys[j])}
      BY <2>2, <2>6
    <3>2. RowsOf(events, t, a.scope) # {}
      BY <2>4, <3>1
    <3> QED BY <1>7, <2>3, <2>6, <3>2 DEF t, a, b
  <2> QED BY <2>5, <2>6
<1> QED BY <1>6, <1>7

\* What the trace diff can be trusted with.
THEOREM DiffIsTruthful == Spec => []DiffTellsTruth
<1>1. Init => Behind
  <2> SUFFICES ASSUME Init PROVE Behind
    OBVIOUS
  <2>1. events = <<>> /\ file = <<>>
    BY DEF Init
  <2>2. \A sc : Len(InScope(file, sc)) <= Len(InScope(events, sc))
    <3>1. \A sc : Len(InScope(events, sc)) \in Nat /\ InScope(file, sc) = InScope(events, sc)
      <4>1. <<>> \in Seq(Events)
        BY EmptySeq
      <4> QED BY <2>1, <4>1, InScopeTyped
    <3> QED BY <3>1
  <2> QED BY <2>1, <2>2 DEF Behind
<1>2. Inductive /\ Behind /\ [Next]_vars => Behind'
  BY BehindKept
<1>3. Inductive /\ Behind => DiffTellsTruth
  BY LossIsSeen, OrderIsSeen DEF Inductive, TypeOK, DiffTellsTruth
<1> QED BY <1>1, <1>2, <1>3, InductiveInvariant, PTL DEF Spec

-----------------------------------------------------------------------------
(* Recording and replay.                                                   *)

\* The event of the k-th recorded call, where it has one.
Recorded(k) == EventOf(script[k].op, script[k].value)
HasEvent(k) == Recorded(k) # <<>>

\* The tape holds the events of the recorded calls in their order, between events
\* that no builtin reads: after the k-th call it had end[k] events.
Laid(end) ==
    /\ end \in [1..Len(script) -> 0..Len(tape)]
    /\ \A j, k \in 1..Len(script) : j < k => end[j] <= end[k]
    /\ \A k \in 1..Len(script) : HasEvent(k) =>
          /\ end[k] > 0 /\ tape[end[k]] = Recorded(k)[1]
          /\ \A j \in 1..Len(script) : j < k => end[j] < end[k]
    /\ \A i \in 1..Len(tape) :
          \/ tape[i].kind = "other"
          \/ \E k \in 1..Len(script) : HasEvent(k) /\ end[k] = i

\* The first n calls of the replay repeat the recording, and no model call that
\* asks the tape failed among them.
Kept(n) == OnTrack(n) /\ (mode = "from_fixtures" => \A k \in 1..n : ~FailedAsk(k))

\* The k-th call was given its own event.
Exact(k) ==
    \/ script[k].op \in {"clock.now", "random.next"}
    \/ script[k].op = "ai.complete" /\ mode = "from_fixtures" /\ Answerable(k)

\* The cursor is where the recording was after the calls that were repeated, or
\* behind, at the last event that a call was given.
CursorFollows(end) ==
    Kept(Len(seen)) =>
        /\ cursor <= (IF seen = <<>> THEN 0 ELSE end[Len(seen)])
        /\ \A k \in 1..Len(seen) : Exact(k) => end[k] <= cursor

ReplayInv ==
    /\ ReplayTypes
    /\ \A k \in 1..Len(script) : script[k].value \in Answers(script[k].op)
    /\ phase # "replay" => seen = <<>> /\ cursor = 0 /\ contacts = {}
    /\ \E end : Laid(end) /\ CursorFollows(end)
    /\ GivenAsRecorded
    /\ OnlyOffTapeContacts

-----------------------------------------------------------------------------
LEMMA AnswersFacts ==
    ASSUME NEW op \in Ops, NEW v \in Answers(op)
    PROVE  /\ v \in Values
           /\ EventOf(op, v) = <<>>
              \/ /\ Len(EventOf(op, v)) = 1
                 /\ EventOf(op, v) = <<EventOf(op, v)[1]>>
                 /\ EventOf(op, v)[1].kind = Kind(op)
                 /\ EventOf(op, v)[1] \in [kind : EventKinds, value : Values]
           /\ EventOf(op, v) = <<>> <=> v = Failed /\ op # "http"
           /\ op \in {"clock.now", "random.next"} =>
                 v # Failed /\ EventOf(op, v)[1].value = v
           /\ op = "ai.complete" /\ full /\ v \in Texts => EventOf(op, v)[1].value = v
<1>0. v \in Values
  BY DEF Answers, Values, Ops, AiOps, Asks
<1>1. Kind(op) \in EventKinds
  BY DEF Kind, EventKinds, Ops, AiOps, Asks
<1>2. Unescaped(v) \in Values
  BY <1>0 DEF Unescaped, Values
<1>3. EventOf(op, v) = <<>> <=> v = Failed /\ op # "http"
  BY DEF EventOf
<1>4. ASSUME EventOf(op, v) # <<>>
      PROVE  /\ Len(EventOf(op, v)) = 1 /\ EventOf(op, v) = <<EventOf(op, v)[1]>>
             /\ EventOf(op, v)[1].kind = Kind(op)
             /\ EventOf(op, v)[1] \in [kind : EventKinds, value : Values]
  <2> DEFINE value == IF op \in AiOps /\ full THEN Unescaped(v)
                      ELSE IF op \in {"clock.now", "random.next"} THEN v ELSE NoResponse
  <2>1. EventOf(op, v) = <<[kind |-> Kind(op), value |-> value]>>
    BY <1>4 DEF EventOf
  <2>2. value \in Values
    BY <1>0, <1>2 DEF Values
  <2> HIDE DEF value
  <2> QED BY <1>1, <2>1, <2>2
<1>5. op \in {"clock.now", "random.next"} =>
         v # Failed /\ EventOf(op, v)[1].value = v
  <2> SUFFICES ASSUME op \in {"clock.now", "random.next"}
               PROVE  v # Failed /\ EventOf(op, v)[1].value = v
    OBVIOUS
  <2>1. v \in Numbers /\ op \notin AiOps
    BY DEF Answers, AiOps, Asks
  <2> QED BY <2>1, ReplayAssumption DEF EventOf
<1>6. op = "ai.complete" /\ full /\ v \in Texts => EventOf(op, v)[1].value = v
  <2> SUFFICES ASSUME op = "ai.complete", full, v \in Texts
               PROVE  EventOf(op, v)[1].value = v
    OBVIOUS
  <2>1. v # Failed /\ v # Escaped /\ op \in AiOps
    BY ReplayAssumption DEF AiOps, Asks
  <2> QED BY <2>1 DEF EventOf, Unescaped
<1> QED BY <1>0, <1>3, <1>4, <1>5, <1>6

\* The kinds of clock.now and random.next are theirs alone, that of ai.complete is
\* shared by the AI builtins.
LEMMA KindFacts ==
    ASSUME NEW op \in Ops, NEW other \in Ops, Kind(op) = Kind(other)
    PROVE  /\ op \in {"clock.now", "random.next"} => other = op
           /\ op = "ai.complete" => other \in AiOps
           /\ Kind(op) # "other"
BY DEF Kind, Ops, AiOps, Asks

\* consume_next finds the first event of the kind that the cursor has not passed.
LEMMA ServeFacts ==
    ASSUME ReplayTypes, NEW op \in Uses, Serve(op)
    PROVE  \E k \in Ahead(Kind(op)) :
              /\ \A j \in Ahead(Kind(op)) : k <= j
              /\ Issue(op, tape[k].value) /\ cursor' = k /\ served' = Append(served, k)
              /\ contacts' = contacts /\ Asked(op)
<1>1. Len(tape) \in Nat /\ cursor \in 0..Len(tape)
  BY DEF ReplayTypes
<1>2. Ahead(Kind(op)) \in SUBSET (1..Len(tape)) /\ Ahead(Kind(op)) # {}
  BY <1>1 DEF Ahead, Serve
<1>3. \E k \in Ahead(Kind(op)) : \A j \in Ahead(Kind(op)) : k <= j
  BY <1>1, <1>2, LeastPosition
<1> QED BY <1>3 DEF Serve

\* A call that repeats the recording finds its own event ahead, if it has one,
\* and no other of its kind before it, if it is of those that are answered exactly.
LEMMA OwnEventAhead ==
    ASSUME ReplayTypes, \A k \in 1..Len(script) : script[k].value \in Answers(script[k].op),
           NEW end, Laid(end), CursorFollows(end), Kept(Len(seen)),
           NEW n, n = Len(seen) + 1, n <= Len(script), HasEvent(n)
    PROVE  /\ end[n] \in Ahead(Kind(script[n].op)) /\ cursor < end[n]
           /\ tape[end[n]] = Recorded(n)[1]
           /\ Exact(n) => \A i \in Ahead(Kind(script[n].op)) : end[n] <= i
<1>1. /\ Len(seen) \in Nat /\ Len(script) \in Nat /\ Len(tape) \in Nat /\ n \in 1..Len(script)
      /\ cursor \in 0..Len(tape) /\ (seen = <<>> <=> Len(seen) = 0)
      /\ \A k \in 1..Len(script) : script[k].op \in Ops /\ end[k] \in 0..Len(tape)
  <2>1. /\ seen \in Seq(Values) /\ script \in Seq([op : Ops, value : Values])
        /\ tape \in Seq([kind : EventKinds, value : Values]) /\ cursor \in 0..Len(tape)
    BY DEF ReplayTypes
  <2>2. seen = <<>> <=> Len(seen) = 0
    BY <2>1, EmptySeq
  <2>3. ASSUME NEW k \in 1..Len(script)
        PROVE  script[k].op \in Ops /\ end[k] \in 0..Len(tape)
    <3>1. script[k] \in [op : Ops, value : Values]
      BY <2>1, ElementOfSeq
    <3>2. end \in [1..Len(script) -> 0..Len(tape)]
      BY DEF Laid
    <3> QED BY <3>1, <3>2
  <2>4. Len(seen) \in Nat /\ Len(script) \in Nat /\ Len(tape) \in Nat
    BY <2>1, LenProperties
  <2> QED BY <2>1, <2>2, <2>3, <2>4
<1>2. end[n] \in 1..Len(tape) /\ tape[end[n]] = Recorded(n)[1]
  BY <1>1 DEF Laid
<1>3. cursor < end[n]
  <2>1. CASE seen = <<>>
    BY <1>1, <1>2, <2>1 DEF CursorFollows
  <2>2. CASE seen # <<>>
    <3>1. Len(seen) \in 1..Len(script) /\ Len(seen) < n
      BY <1>1, <2>2
    <3>2. end[Len(seen)] < end[n]
      BY <1>1, <3>1 DEF Laid
    <3> QED BY <1>1, <2>2, <3>1, <3>2 DEF CursorFollows
  <2> QED BY <2>1, <2>2
<1>4. \A k \in 1..Len(script) : HasEvent(k) => Recorded(k)[1].kind = Kind(script[k].op)
  BY <1>1, AnswersFacts DEF HasEvent, Recorded
<1>5. end[n] \in Ahead(Kind(script[n].op))
  BY <1>1, <1>2, <1>3, <1>4 DEF Ahead
<1>6. ASSUME Exact(n), NEW i \in Ahead(Kind(script[n].op)), i < end[n]
      PROVE  FALSE
  <2>1. i \in 1..Len(tape) /\ cursor < i /\ tape[i].kind = Kind(script[n].op)
    BY <1>1 DEF Ahead
  <2>2. tape[i].kind # "other"
    BY <1>1, <2>1, KindFacts
  <2>3. PICK k \in 1..Len(script) : HasEvent(k) /\ end[k] = i
    BY <2>1, <2>2 DEF Laid
  <2>4. Kind(script[k].op) = Kind(script[n].op)
    BY <1>4, <2>1, <2>3 DEF Laid
  <2>5. k < n
    <3>1. ~(n <= k)
      <4>1. n < k => end[n] <= end[k]
        BY <1>1 DEF Laid
      <4> QED BY <1>1, <1>6, <2>1, <2>3, <4>1
    <3> QED BY <1>1, <3>1
  <2>6. Exact(k)
    <3>1. CASE script[n].op \in {"clock.now", "random.next"}
      BY <1>1, <2>4, <3>1, KindFacts DEF Exact
    <3>2. CASE script[n].op = "ai.complete" /\ mode = "from_fixtures" /\ Answerable(n)
      <4>1. script[k].op \in AiOps
        BY <1>1, <2>4, <3>2, KindFacts
      <4>2. \A j \in 1..k : j \in 1..n
        BY <1>1, <2>5
      <4>3. Answerable(k)
        BY <3>2, <4>2 DEF Answerable
      <4>4. script[k].op = "ai.complete"
        BY <1>1, <2>5, <3>2, <4>1 DEF Answerable, AiOps, Asks
      <4> QED BY <3>2, <4>3, <4>4 DEF Exact
    <3> QED BY <1>6, <3>1, <3>2 DEF Exact
  <2>7. k \in 1..Len(seen)
    BY <1>1, <2>5
  <2>8. end[k] <= cursor
    BY <2>6, <2>7 DEF CursorFollows
  <2> QED BY <1>1, <2>1, <2>3, <2>8
<1>7. Exact(n) => \A i \in Ahead(Kind(script[n].op)) : end[n] <= i
  <2> SUFFICES ASSUME Exact(n), NEW i \in Ahead(Kind(script[n].op))
               PROVE  end[n] <= i
    OBVIOUS
  <2>1. i \in Nat
    BY <1>1 DEF Ahead
  <2> QED BY <1>1, <1>6, <2>1
<1> QED BY <1>2, <1>3, <1>5, <1>7

-----------------------------------------------------------------------------
(* The steps.                                                              *)

\* What of a step of the replay decides whether the next call is exact.
LEMMA IssueFacts ==
    ASSUME ReplayTypes, NEW op \in Uses, NEW v \in Values, Issue(op, v)
    PROVE  /\ phase = "replay" /\ UNCHANGED <<full, mode, phase, script, tape, torn>>
           /\ issued' \in Seq(Ops) /\ seen' \in Seq(Values)
           /\ Len(seen') = Len(seen) + 1 /\ Len(issued') = Len(seen')
           /\ seen'[Len(seen) + 1] = v /\ issued'[Len(seen) + 1] = op
           /\ \A k \in 1..Len(seen) : seen'[k] = seen[k] /\ issued'[k] = issued[k]
           /\ Len(seen) \in Nat /\ Len(script) \in Nat
           /\ OnTrack(Len(seen)) /\ Len(seen) < Len(script) =>
                 op = script[Len(seen) + 1].op
<1>1. /\ seen \in Seq(Values) /\ issued \in Seq(Ops) /\ Len(issued) = Len(seen) /\ op \in Ops
      /\ script \in Seq([op : Ops, value : Values])
  BY UsesAssumption DEF ReplayTypes
<1>2. /\ phase = "replay" /\ UNCHANGED <<full, mode, phase, script, tape, torn>>
      /\ issued' = Append(issued, op) /\ seen' = Append(seen, v) /\ op \in NextOps
  BY DEF Issue
<1>3. OnTrack(Len(seen)) /\ Len(seen) < Len(script) => op = script[Len(seen) + 1].op
  BY <1>2 DEF NextOps
<1>4. /\ issued' \in Seq(Ops) /\ seen' \in Seq(Values)
      /\ Len(seen') = Len(seen) + 1 /\ Len(issued') = Len(issued) + 1
      /\ seen'[Len(seen) + 1] = v /\ issued'[Len(issued) + 1] = op
      /\ \A k \in 1..Len(seen) : seen'[k] = seen[k]
      /\ \A k \in 1..Len(issued) : issued'[k] = issued[k]
  BY <1>1, <1>2, AppendProperties
<1>5. Len(seen) \in Nat /\ Len(script) \in Nat
  BY <1>1
<1> QED BY <1>1, <1>2, <1>3, <1>4, <1>5

\* The calls so far are told by the calls so far.
LEMMA TrackFacts ==
    ASSUME ReplayTypes, NEW op \in Uses, NEW v \in Values, Issue(op, v)
    PROVE  /\ \A n \in 0..Len(seen) : OnTrack(n)' <=> OnTrack(n)
           /\ \A n \in 0..Len(seen) : Kept(n)' <=> Kept(n)
           /\ \A k : (Exact(k)' <=> Exact(k)) /\ (FailedAsk(k)' <=> FailedAsk(k))
           /\ \A n \in 1..(Len(seen) + 1) : Repeats(n)' <=> Repeats(n)
<1>1. /\ UNCHANGED <<full, mode, phase, script, tape, torn>>
      /\ Len(seen') = Len(seen) + 1 /\ Len(seen) \in Nat /\ Len(script) \in Nat
      /\ \A k \in 1..Len(seen) : seen'[k] = seen[k] /\ issued'[k] = issued[k]
  BY IssueFacts
<1>2. ASSUME NEW n \in 0..Len(seen) PROVE OnTrack(n)' <=> OnTrack(n)
  BY <1>1 DEF OnTrack
<1>3. \A k : FailedAsk(k)' <=> FailedAsk(k)
  BY <1>1 DEF FailedAsk
<1>4. \A k : Exact(k)' <=> Exact(k)
  BY <1>1 DEF Exact, Answerable
<1>5. ASSUME NEW n \in 0..Len(seen) PROVE Kept(n)' <=> Kept(n)
  BY <1>1, <1>2 DEF Kept, FailedAsk
<1>6. ASSUME NEW n \in 1..(Len(seen) + 1) PROVE Repeats(n)' <=> Repeats(n)
  <2>1. n - 1 \in 0..Len(seen)
    BY <1>1
  <2>2. OnTrack(n - 1)' <=> OnTrack(n - 1)
    BY <1>2, <2>1
  <2> QED BY <1>1, <2>1, <2>2 DEF Repeats, OnTrack
<1> QED BY <1>2, <1>3, <1>4, <1>5, <1>6

LEMMA AskedFacts ==
    ASSUME mode \in {"from_fixtures", "live"}, NEW op \in Ops
    PROVE  Asked(op) <=> \/ op \in {"clock.now", "random.next"}
                         \/ op = "ai.complete" /\ mode = "from_fixtures"
BY DEF Asked, LooksAtTape, Replays, Kind, AiOps, Asks, Ops

\* What a call must keep, and the invariant is kept.
LEMMA IssueKeeps ==
    ASSUME ReplayInv, NEW op \in Uses, NEW v \in Values, Issue(op, v),
           NEW end, Laid(end), CursorFollows(end), NEW n, n = Len(seen) + 1,
           cursor' \in 0..Len(tape), cursor <= cursor', served' \in Seq(1..Len(tape)),
           contacts' \subseteq contacts \cup {n},
           n <= Len(script) /\ Kept(Len(seen)) /\ (mode = "from_fixtures" => ~FailedAsk(n))
              => cursor' <= end[n] /\ (Exact(n) => end[n] <= cursor'),
           n <= Len(script) /\ OnTrack(Len(seen)) /\ Asked(op)
           /\ (IF op = "ai.complete" THEN Answerable(n)
               ELSE mode = "from_fixtures" => \A k \in 1..n : ~FailedAsk(k))
              => v = script[n].value,
           n \in contacts' /\ n <= Len(script) /\ OnTrack(Len(seen))
           /\ mode = "from_fixtures" /\ (\A k \in 1..n : ~FailedAsk(k))
              => op \in {"ai.session_ask", "ai.decide", "http", "fs.read"}
    PROVE  ReplayInv'
<1>0. ReplayTypes /\ Len(tape) \in Nat
  BY DEF ReplayInv, ReplayTypes
<1>1. /\ phase = "replay" /\ UNCHANGED <<full, mode, phase, script, tape, torn>>
      /\ issued' \in Seq(Ops) /\ seen' \in Seq(Values)
      /\ Len(seen') = n /\ Len(issued') = Len(seen')
      /\ seen'[n] = v /\ issued'[n] = op
      /\ \A k \in 1..Len(seen) : seen'[k] = seen[k] /\ issued'[k] = issued[k]
      /\ Len(seen) \in Nat /\ Len(script) \in Nat /\ n \in Nat /\ n > 0
  BY <1>0, IssueFacts
<1>2. OnTrack(Len(seen)) /\ n <= Len(script) => op = script[n].op
  BY <1>0, <1>1, IssueFacts
<1>3. /\ \A m \in 0..Len(seen) : (OnTrack(m)' <=> OnTrack(m)) /\ (Kept(m)' <=> Kept(m))
      /\ \A k : (Exact(k)' <=> Exact(k)) /\ (FailedAsk(k)' <=> FailedAsk(k))
      /\ \A m \in 1..n : Repeats(m)' <=> Repeats(m)
  BY <1>0, TrackFacts
<1>4. ReplayTypes'
  <2>1. 1..Len(seen) \subseteq 1..n /\ n \in 1..n
    BY <1>1
  <2>2. contacts' \subseteq 1..Len(seen')
    BY <1>0, <1>1, <2>1 DEF ReplayTypes
  <2> QED BY <1>0, <1>1, <2>2 DEF ReplayTypes
<1>5. Laid(end)'
  <2>1. UNCHANGED <<full, script, tape>>
    BY <1>1
  <2>2. Laid(end)
    OBVIOUS
  <2> QED BY <2>1, <2>2 DEF Laid, HasEvent, Recorded, EventOf
<1>6. CursorFollows(end)'
  <2> SUFFICES ASSUME Kept(n)'
               PROVE  /\ cursor' <= end[n]
                      /\ \A k \in 1..n : Exact(k)' => end[k] <= cursor'
    <3>1. seen' # <<>>
      BY <1>1
    <3> QED BY <1>1, <3>1 DEF CursorFollows
  <2>1. /\ n <= Len(script) /\ OnTrack(n - 1)'
        /\ mode = "from_fixtures" => \A k \in 1..n : ~FailedAsk(k)
    BY <1>1, <1>3 DEF Kept, OnTrack, FailedAsk
  <2>2. Kept(Len(seen))
    <3>1. Len(seen) = n - 1 /\ n - 1 \in 0..Len(seen) /\ \A k \in 1..(n - 1) : k \in 1..n
      BY <1>1
    <3>2. OnTrack(n - 1)
      BY <1>3, <2>1, <3>1
    <3> QED BY <2>1, <3>1, <3>2 DEF Kept
  <2>3. cursor' <= end[n] /\ (Exact(n) => end[n] <= cursor')
    BY <1>1, <2>1, <2>2
  <2>4. ASSUME NEW k \in 1..n, Exact(k) PROVE end[k] <= cursor'
    <3>1. CASE k = n
      BY <2>3, <2>4, <3>1
    <3>2. CASE k # n
      <4>1. k \in 1..Len(seen) /\ k \in 1..Len(script)
        BY <1>1, <2>1, <3>2
      <4>2. end[k] <= cursor
        BY <2>2, <2>4, <4>1 DEF CursorFollows
      <4>3. end[k] \in 0..Len(tape) /\ cursor \in 0..Len(tape)
        BY <1>0, <4>1 DEF Laid, ReplayTypes
      <4> QED BY <1>0, <4>2, <4>3
    <3> QED BY <3>1, <3>2
  <2> QED BY <1>3, <2>3, <2>4
<1>7. GivenAsRecorded'
  <2> SUFFICES ASSUME NEW m \in 1..n, Repeats(m)', Asked(script[m].op)',
                      (IF script[m].op = "ai.complete" THEN Answerable(m)
                       ELSE mode = "from_fixtures" => \A k \in 1..m : ~FailedAsk(k))'
               PROVE  seen'[m] = script'[m].value
    BY <1>1 DEF GivenAsRecorded
  <2>1. /\ Repeats(m) /\ Asked(script[m].op)
        /\ IF script[m].op = "ai.complete" THEN Answerable(m)
           ELSE mode = "from_fixtures" => \A k \in 1..m : ~FailedAsk(k)
    BY <1>1, <1>3 DEF Asked, Answerable, FailedAsk
  <2>2. CASE m = n
    <3>1. m <= Len(script) /\ OnTrack(Len(seen))
      BY <1>1, <2>1, <2>2 DEF Repeats
    <3>2. op = script[n].op
      BY <1>2, <2>2, <3>1
    <3>3. v = script[n].value
      BY <2>1, <2>2, <3>1, <3>2
    <3> QED BY <1>1, <2>2, <3>3
  <2>3. CASE m # n
    <3>1. m \in 1..Len(seen)
      BY <1>1, <2>3
    <3>2. seen[m] = script[m].value
      BY <2>1, <3>1 DEF ReplayInv, GivenAsRecorded
    <3> QED BY <1>1, <3>1, <3>2
  <2> QED BY <2>2, <2>3
<1>8. OnlyOffTapeContacts'
  <2> SUFFICES ASSUME NEW m \in contacts', mode = "from_fixtures", Repeats(m)',
                      \A k \in 1..m : ~FailedAsk(k)'
               PROVE  script[m].op \in {"ai.session_ask", "ai.decide", "http", "fs.read"}
    BY <1>1 DEF OnlyOffTapeContacts
  <2>1. m \in 1..n /\ (m \in contacts \/ m = n)
    BY <1>1, <1>4 DEF ReplayTypes
  <2>2. Repeats(m) /\ \A k \in 1..m : ~FailedAsk(k)
    BY <1>1, <1>3, <2>1 DEF FailedAsk
  <2>3. CASE m \in contacts
    BY <2>2, <2>3 DEF ReplayInv, OnlyOffTapeContacts
  <2>4. CASE m = n
    <3>1. n <= Len(script) /\ OnTrack(Len(seen))
      BY <1>1, <2>2, <2>4 DEF Repeats
    <3> QED BY <1>2, <2>2, <2>4, <3>1
  <2> QED BY <2>1, <2>3, <2>4
<1>9. \A k \in 1..Len(script') : script'[k].value \in Answers(script'[k].op)
  BY <1>1 DEF ReplayInv
<1>10. phase' = "replay"
  BY <1>1
<1> QED BY <1>4, <1>5, <1>6, <1>7, <1>8, <1>9, <1>10 DEF ReplayInv

\* A call that asks the tape and repeats the recording has an event there.
LEMMA AskedHasEvent ==
    ASSUME ReplayInv, NEW n \in 1..Len(script), Asked(script[n].op),
           mode = "from_fixtures" => ~FailedAsk(n)
    PROVE  HasEvent(n)
<1>1. script[n].op \in Ops /\ script[n].value \in Answers(script[n].op)
  <2>1. script[n] \in [op : Ops, value : Values]
    BY ElementOfSeq DEF ReplayInv, ReplayTypes
  <2> QED BY <2>1 DEF ReplayInv
<1>2. \/ script[n].op \in {"clock.now", "random.next"}
      \/ script[n].op = "ai.complete" /\ mode = "from_fixtures"
  BY <1>1, AskedFacts DEF ReplayInv, ReplayTypes
<1>3. script[n].value # Failed
  BY <1>1, <1>2, AnswersFacts DEF FailedAsk
<1> QED BY <1>1, <1>3, AnswersFacts DEF HasEvent, Recorded

\* An answerable model call comes after no failed one.
LEMMA AnswerableFacts ==
    ASSUME NEW n \in Nat, n > 0, Answerable(n), script[n].op = "ai.complete"
    PROVE  full /\ script[n].value \in Texts /\ \A k \in 1..n : ~FailedAsk(k)
<1>1. n \in 1..n
  OBVIOUS
<1>2. full /\ script[n].value \in Texts
  BY <1>1 DEF Answerable
<1>3. \A k \in 1..n : ~FailedAsk(k)
  BY ReplayAssumption DEF Answerable, FailedAsk
<1> QED BY <1>2, <1>3

LEMMA ServeKeeps ==
    ASSUME ReplayInv, NEW op \in Uses, Serve(op)
    PROVE  ReplayInv'
<1>0. ReplayTypes /\ op \in Ops /\ Len(tape) \in Nat /\ Len(seen) \in Nat /\ Len(script) \in Nat
      /\ cursor \in 0..Len(tape) /\ mode \in {"from_fixtures", "live"}
  BY UsesAssumption DEF ReplayInv, ReplayTypes
<1>1. PICK k \in Ahead(Kind(op)) :
              /\ \A j \in Ahead(Kind(op)) : k <= j
              /\ Issue(op, tape[k].value) /\ cursor' = k /\ served' = Append(served, k)
              /\ contacts' = contacts /\ Asked(op)
  BY <1>0, ServeFacts
<1>2. k \in 1..Len(tape) /\ cursor < k
  BY <1>0 DEF Ahead
<1>3. tape[k].value \in Values
  <2>1. tape[k] \in [kind : EventKinds, value : Values]
    BY <1>0, <1>2, ElementOfSeq DEF ReplayTypes
  <2> QED BY <2>1
<1>4. PICK end : Laid(end) /\ CursorFollows(end)
  BY DEF ReplayInv
<1>5. PICK n \in Nat : n = Len(seen) + 1
  BY <1>0
<1>6. OnTrack(Len(seen)) /\ n <= Len(script) => op = script[n].op
  BY <1>0, <1>1, <1>3, <1>5, IssueFacts
<1>7. n <= Len(script) => n \in 1..Len(script) /\ Len(seen) \in 0..n
  BY <1>0, <1>5
<1>8. ASSUME n <= Len(script), Kept(Len(seen)), mode = "from_fixtures" => ~FailedAsk(n)
      PROVE  /\ k <= end[n] /\ tape[end[n]] = Recorded(n)[1] /\ end[n] \in Nat
             /\ Exact(n) => end[n] = k
  <2>1. op = script[n].op
    BY <1>6, <1>8 DEF Kept
  <2>2. HasEvent(n)
    BY <1>1, <1>7, <1>8, <2>1, AskedHasEvent
  <2>3. /\ end[n] \in Ahead(Kind(op)) /\ tape[end[n]] = Recorded(n)[1]
        /\ Exact(n) => \A i \in Ahead(Kind(op)) : end[n] <= i
    BY <1>0, <1>4, <1>5, <1>8, <2>1, <2>2, OwnEventAhead DEF ReplayInv
  <2>4. end[n] \in Nat /\ k \in Nat
    BY <1>0, <1>2, <2>3 DEF Ahead
  <2> QED BY <1>1, <2>3, <2>4
<1>9. ASSUME n <= Len(script), OnTrack(Len(seen)),
             IF op = "ai.complete" THEN Answerable(n)
             ELSE mode = "from_fixtures" => \A j \in 1..n : ~FailedAsk(j)
      PROVE  tape[k].value = script[n].value
  <2>1. op = script[n].op /\ n > 0
    BY <1>5, <1>0, <1>6, <1>9
  <2>2. mode = "from_fixtures" => \A j \in 1..n : ~FailedAsk(j)
    BY <1>9, <2>1, AnswerableFacts
  <2>3. Kept(Len(seen)) /\ (mode = "from_fixtures" => ~FailedAsk(n))
    <3>1. n \in 1..n /\ \A j \in 1..Len(seen) : j \in 1..n
      BY <1>0, <1>5
    <3> QED BY <1>9, <2>2, <3>1 DEF Kept
  <2>4. op \in {"clock.now", "random.next"} \/ (op = "ai.complete" /\ mode = "from_fixtures")
    <3>1. Asked(op)
      BY <1>1
    <3> QED BY <1>0, <3>1, AskedFacts
  <2>5. Exact(n)
    BY <1>9, <2>1, <2>4 DEF Exact
  <2>6. tape[k] = Recorded(n)[1]
    BY <1>8, <1>9, <2>3, <2>5
  <2>7. script[n].value \in Answers(op)
    BY <1>7, <1>9, <2>1 DEF ReplayInv
  <2>8. op = "ai.complete" => full /\ script[n].value \in Texts
    BY <1>9, <2>1, AnswerableFacts
  <2> QED BY <1>0, <2>1, <2>4, <2>6, <2>7, <2>8, AnswersFacts DEF Recorded
<1>10. n \notin contacts
  <2>1. contacts \subseteq 1..Len(seen)
    BY <1>0 DEF ReplayTypes
  <2> QED BY <1>0, <1>5, <2>1
<1>11. /\ cursor' \in 0..Len(tape) /\ cursor <= cursor' /\ served' \in Seq(1..Len(tape))
       /\ contacts' \subseteq contacts \cup {n} /\ n \notin contacts'
  <2>1. served' \in Seq(1..Len(tape))
    BY <1>0, <1>1, <1>2, AppendProperties DEF ReplayTypes
  <2> QED BY <1>0, <1>1, <1>2, <1>10, <2>1
<1>12. n <= Len(script) /\ Kept(Len(seen)) /\ (mode = "from_fixtures" => ~FailedAsk(n))
         => cursor' <= end[n] /\ (Exact(n) => end[n] <= cursor')
  BY <1>0, <1>1, <1>2, <1>8
<1> QED BY <1>1, <1>3, <1>4, <1>5, <1>9, <1>11, <1>12, IssueKeeps

\* Neither a call that finds no event nor one that does not ask goes out of the
\* process where it should not.
LEMMA LiveAnswer ==
    ASSUME ReplayInv, NEW op \in Uses, RunDry(op) \/ GoLive(op)
    PROVE  ReplayInv'
<1>0. ReplayTypes /\ op \in Ops /\ Len(tape) \in Nat /\ Len(seen) \in Nat /\ Len(script) \in Nat
      /\ cursor \in 0..Len(tape) /\ mode \in {"from_fixtures", "live"}
  BY UsesAssumption DEF ReplayInv, ReplayTypes
<1>1. PICK n \in Nat : n = Len(seen) + 1
  BY <1>0
<1>2. PICK v \in Answers(op) : Issue(op, v)
  BY DEF RunDry, GoLive
<1>3. /\ v \in Values
      /\ contacts' = contacts \cup ({n : o \in Outside \cap {op}}) /\ served' = served
      /\ \/ Asked(op) /\ Ahead(Kind(op)) = {} /\ cursor' = Len(tape)
         \/ ~Asked(op) /\ cursor' = cursor
  BY <1>0, <1>1, AnswersFacts DEF RunDry, GoLive
<1>4. PICK end : Laid(end) /\ CursorFollows(end)
  BY DEF ReplayInv
<1>5. OnTrack(Len(seen)) /\ n <= Len(script) => op = script[n].op
  BY <1>0, <1>1, <1>2, <1>3, IssueFacts
<1>6. n \in 1..n /\ (\A j \in 1..Len(seen) : j \in 1..n)
      /\ (n <= Len(script) => n \in 1..Len(script))
  BY <1>0, <1>1
<1>7. ASSUME n <= Len(script), Kept(Len(seen)), mode = "from_fixtures" => ~FailedAsk(n)
      PROVE  ~Asked(op)
  <2> SUFFICES ASSUME Asked(op) PROVE FALSE
    OBVIOUS
  <2>1. op = script[n].op
    BY <1>5, <1>7 DEF Kept
  <2>2. HasEvent(n)
    BY <1>6, <1>7, <2>1, AskedHasEvent
  <2>3. end[n] \in Ahead(Kind(op))
    BY <1>0, <1>1, <1>4, <1>7, <2>1, <2>2, OwnEventAhead DEF ReplayInv
  <2> QED BY <1>3, <2>3
<1>8. ASSUME n <= Len(script), Kept(Len(seen)), mode = "from_fixtures" => ~FailedAsk(n)
      PROVE  cursor' <= end[n] /\ ~Exact(n)
  <2>1. op = script[n].op /\ ~Asked(op) /\ cursor' = cursor
    BY <1>3, <1>5, <1>7, <1>8 DEF Kept
  <2>2. ~Exact(n)
    BY <1>0, <2>1, AskedFacts DEF Exact
  <2>3. end[n] \in Nat /\ cursor \in Nat /\ cursor' = cursor
    BY <1>0, <1>4, <1>6, <1>8, <2>1 DEF Laid
  <2>4. CASE seen = <<>>
    BY <1>0, <1>4, <1>8, <2>2, <2>3, <2>4 DEF CursorFollows
  <2>5. CASE seen # <<>>
    <3>1. Len(seen) \in 1..Len(script) /\ Len(seen) < n
      BY <1>0, <1>1, <1>8, <2>5, EmptySeq DEF ReplayTypes
    <3>2. end[Len(seen)] <= end[n] /\ end[Len(seen)] \in Nat /\ cursor <= end[Len(seen)]
      BY <1>0, <1>4, <1>6, <1>8, <2>5, <3>1 DEF Laid, CursorFollows
    <3> QED BY <2>2, <2>3, <3>2
  <2> QED BY <2>2, <2>4, <2>5
<1>9. ASSUME n <= Len(script), OnTrack(Len(seen)),
             mode = "from_fixtures" => \A j \in 1..n : ~FailedAsk(j)
      PROVE  ~Asked(op)
  <2>1. Kept(Len(seen)) /\ (mode = "from_fixtures" => ~FailedAsk(n))
    BY <1>6, <1>9 DEF Kept
  <2> QED BY <1>7, <1>9, <2>1
<1>10. ASSUME n <= Len(script), OnTrack(Len(seen)), Asked(op),
              IF op = "ai.complete" THEN Answerable(n)
              ELSE mode = "from_fixtures" => \A j \in 1..n : ~FailedAsk(j)
       PROVE  v = script[n].value
  <2>1. op = script[n].op /\ n > 0
    BY <1>0, <1>1, <1>5, <1>10
  <2>2. mode = "from_fixtures" => \A j \in 1..n : ~FailedAsk(j)
    BY <1>10, <2>1, AnswerableFacts
  <2> QED BY <1>9, <1>10, <2>2
<1>11. ASSUME n \in contacts', n <= Len(script), OnTrack(Len(seen)), mode = "from_fixtures",
              \A j \in 1..n : ~FailedAsk(j)
       PROVE  op \in {"ai.session_ask", "ai.decide", "http", "fs.read"}
  <2>1. n \notin contacts
    <3>1. contacts \subseteq 1..Len(seen)
      BY <1>0 DEF ReplayTypes
    <3> QED BY <1>0, <1>1, <3>1
  <2>2. op \in Outside
    BY <1>3, <1>11, <2>1
  <2>3. ~Asked(op)
    BY <1>9, <1>11
  <2> QED BY <1>0, <1>11, <2>2, <2>3, AskedFacts DEF Outside, Asks
<1>12. /\ cursor' \in 0..Len(tape) /\ cursor <= cursor' /\ served' \in Seq(1..Len(tape))
       /\ contacts' \subseteq contacts \cup {n}
  BY <1>0, <1>3 DEF ReplayTypes
<1> QED BY <1>1, <1>2, <1>3, <1>4, <1>8, <1>10, <1>11, <1>12, IssueKeeps

\* While the run is recorded nothing is replayed.
LEMMA NotYet ==
    ASSUME seen = <<>>, cursor = 0, contacts = {}, NEW end
    PROVE  CursorFollows(end) /\ GivenAsRecorded /\ OnlyOffTapeContacts
<1>1. Len(seen) = 0 /\ 1..0 = {}
  OBVIOUS
<1> QED BY <1>1 DEF CursorFollows, GivenAsRecorded, OnlyOffTapeContacts

LEMMA RecordCall ==
    ASSUME ReplayInv, NEW op \in Uses, LiveCall(op)
    PROVE  ReplayInv'
<1>0. ReplayTypes /\ op \in Ops /\ phase = "live" /\ phase' = "live"
  BY UsesAssumption DEF ReplayInv, LiveCall
<1>1. /\ script \in Seq([op : Ops, value : Values]) /\ Len(script) \in Nat
      /\ tape \in Seq([kind : EventKinds, value : Values]) /\ Len(tape) \in Nat
  BY <1>0 DEF ReplayTypes
<1>2. PICK v \in Answers(op) :
          script' = Append(script, [op |-> op, value |-> v]) /\ tape' = tape \o EventOf(op, v)
  BY DEF LiveCall
<1>3. /\ seen = <<>> /\ cursor = 0 /\ contacts = {}
      /\ UNCHANGED <<full, mode, phase, cursor, issued, seen, served, contacts>>
      /\ torn' \in BOOLEAN
  BY <1>0 DEF ReplayInv, LiveCall, LineBreaks, ReplayTypes
<1>4. PICK end : Laid(end)
  BY DEF ReplayInv
<1> PICK n \in Nat : n = Len(script) + 1
  BY <1>1
<1> DEFINE call == [op |-> op, value |-> v]
           more == EventOf(op, v)
<1>5. call \in [op : Ops, value : Values]
  BY <1>0, AnswersFacts
<1>6. /\ script' \in Seq([op : Ops, value : Values]) /\ Len(script') = n
      /\ script'[n] = call /\ \A k \in 1..Len(script) : script'[k] = script[k]
  BY <1>1, <1>2, <1>5, AppendProperties
<1>7. /\ more \in Seq([kind : EventKinds, value : Values])
      /\ more = <<>> \/ (Len(more) = 1 /\ more[1].kind = Kind(op))
  <2>1. CASE more = <<>>
    BY <2>1
  <2>2. CASE more # <<>>
    <3>1. /\ Len(more) = 1 /\ more = <<more[1]>> /\ more[1].kind = Kind(op)
          /\ more[1] \in [kind : EventKinds, value : Values]
      BY <1>0, <2>2, AnswersFacts
    <3>2. <<more[1]>> \in Seq([kind : EventKinds, value : Values])
      BY <3>1
    <3> QED BY <3>1, <3>2
  <2> QED BY <2>1, <2>2
<1> HIDE DEF more
<1>8. /\ tape' \in Seq([kind : EventKinds, value : Values])
      /\ Len(tape') = Len(tape) + Len(more) /\ Len(tape') \in Nat
      /\ \A i \in 1..Len(tape) : tape'[i] = tape[i]
      /\ more # <<>> => Len(tape') = Len(tape) + 1 /\ tape'[Len(tape) + 1] = more[1]
      /\ more = <<>> => Len(tape') = Len(tape)
  <2>1. /\ tape' = tape \o more /\ Len(more) \in Nat /\ (more = <<>> => Len(more) = 0)
    BY <1>2, <1>7 DEF more
  <2>2. /\ tape \o more \in Seq([kind : EventKinds, value : Values])
        /\ Len(tape \o more) = Len(tape) + Len(more)
        /\ \A i \in 1..(Len(tape) + Len(more)) :
              (tape \o more)[i] = IF i <= Len(tape) THEN tape[i] ELSE more[i - Len(tape)]
    BY <1>1, <1>7, ConcatProperties
  <2> QED BY <1>1, <1>7, <2>1, <2>2
<1>9. /\ \A k \in 1..Len(script) : Recorded(k)' = Recorded(k)
      /\ Recorded(n)' = more
  <2>1. ASSUME NEW k \in 1..Len(script)
        PROVE  Recorded(k)' = Recorded(k)
    BY <1>3, <1>6 DEF Recorded, EventOf
  <2>2. Recorded(n)' = EventOf(op, v)
    BY <1>3, <1>6 DEF Recorded, EventOf
  <2> QED BY <2>1, <2>2 DEF more
<1> PICK m \in Nat : m = Len(tape')
  BY <1>8
<1> DEFINE after == [k \in 1..n |-> IF k < n THEN end[k] ELSE m]
<1>10. /\ after \in [1..n -> 0..m] /\ after[n] = m /\ n \in 1..n
       /\ \A k \in 1..n : k < n => k \in 1..Len(script) /\ after[k] = end[k]
                                  /\ end[k] \in 0..Len(tape)
       /\ Len(tape) <= m
  <2>1. \A k \in 1..n : k < n => k \in 1..Len(script)
    BY <1>1
  <2>2. \A k \in 1..Len(script) : end[k] \in 0..Len(tape)
    BY <1>4 DEF Laid
  <2>3. Len(tape) <= m
    <3>1. more = <<>> \/ more # <<>>
      OBVIOUS
    <3> QED BY <1>1, <1>8
  <2> QED BY <1>1, <2>1, <2>2, <2>3
<1> HIDE DEF after
<1>11. Laid(after)'
  <2>1. \A j, k \in 1..n : j < k => after[j] <= after[k]
    <3> SUFFICES ASSUME NEW j \in 1..n, NEW k \in 1..n, j < k PROVE after[j] <= after[k]
      OBVIOUS
    <3>1. j < n /\ after[j] = end[j] /\ j \in 1..Len(script) /\ end[j] \in 0..Len(tape)
      BY <1>10
    <3>2. CASE k = n
      BY <1>1, <1>10, <3>1, <3>2
    <3>3. CASE k # n
      <4>1. k \in 1..Len(script) /\ after[k] = end[k]
        BY <1>10, <3>3
      <4> QED BY <1>4, <3>1, <4>1 DEF Laid
    <3> QED BY <3>2, <3>3
  <2>2. ASSUME NEW k \in 1..n, HasEvent(k)'
        PROVE  /\ after[k] > 0 /\ tape'[after[k]] = Recorded(k)'[1]
               /\ \A j \in 1..n : j < k => after[j] < after[k]
    <3>1. CASE k = n
      <4>1. more # <<>> /\ m = Len(tape) + 1 /\ tape'[m] = more[1]
        BY <1>8, <1>9, <2>2, <3>1 DEF HasEvent
      <4>2. \A j \in 1..n : j < n => after[j] < after[n]
        BY <1>1, <1>10, <4>1
      <4> QED BY <1>1, <1>9, <1>10, <3>1, <4>1, <4>2
    <3>2. CASE k # n
      <4>1. /\ k \in 1..Len(script) /\ after[k] = end[k] /\ end[k] \in 0..Len(tape)
            /\ Recorded(k)' = Recorded(k) /\ HasEvent(k)
        BY <1>9, <1>10, <2>2, <3>2 DEF HasEvent
      <4>2. end[k] > 0 /\ tape[end[k]] = Recorded(k)[1]
        BY <1>4, <4>1 DEF Laid
      <4>3. end[k] \in 1..Len(tape) /\ tape'[end[k]] = tape[end[k]]
        BY <1>1, <1>8, <4>1, <4>2
      <4>4. ASSUME NEW j \in 1..n, j < k PROVE after[j] < after[k]
        <5>1. j \in 1..Len(script) /\ after[j] = end[j]
          BY <1>10, <4>4
        <5> QED BY <1>4, <4>1, <4>4, <5>1 DEF Laid
      <4> QED BY <4>1, <4>2, <4>3, <4>4
    <3> QED BY <3>1, <3>2
  <2>3. ASSUME NEW i \in 1..m, tape'[i].kind # "other"
        PROVE  \E k \in 1..n : HasEvent(k)' /\ after[k] = i
    <3>1. CASE i \in 1..Len(tape)
      <4>1. tape[i].kind # "other"
        BY <1>8, <2>3, <3>1
      <4>2. PICK k \in 1..Len(script) : HasEvent(k) /\ end[k] = i
        BY <1>4, <3>1, <4>1 DEF Laid
      <4>3. k \in 1..n /\ k < n /\ HasEvent(k)'
        BY <1>1, <1>9, <4>2 DEF HasEvent
      <4> QED BY <1>10, <4>2, <4>3
    <3>2. CASE i \notin 1..Len(tape)
      <4>1. more # <<>> /\ i = m
        BY <1>1, <1>8, <3>2
      <4>2. HasEvent(n)'
        BY <1>9, <4>1 DEF HasEvent
      <4> QED BY <1>10, <4>1, <4>2
    <3> QED BY <3>1, <3>2
  <2>4. Len(script') = n /\ Len(tape') = m
    BY <1>6
  <2> QED BY <1>10, <2>1, <2>2, <2>3, <2>4 DEF Laid
<1>12. \A k \in 1..Len(script') : script'[k].value \in Answers(script'[k].op)
  <2> SUFFICES ASSUME NEW k \in 1..n PROVE script'[k].value \in Answers(script'[k].op)
    BY <1>6
  <2>1. CASE k = n
    BY <1>6, <2>1
  <2>2. CASE k # n
    <3>1. k \in 1..Len(script) /\ script'[k] = script[k]
      BY <1>1, <1>6, <2>2
    <3> QED BY <3>1 DEF ReplayInv
  <2> QED BY <2>1, <2>2
<1>13. ReplayTypes'
  <2>1. served \in Seq(1..Len(tape)) /\ served' = served
    BY <1>0, <1>3 DEF ReplayTypes
  <2>2. served' \in Seq(1..Len(tape'))
    BY <1>1, <1>10, <2>1
  <2> QED BY <1>0, <1>3, <1>6, <1>8, <2>2 DEF ReplayTypes
<1>14. CursorFollows(after)' /\ GivenAsRecorded' /\ OnlyOffTapeContacts'
  <2>1. seen' = <<>> /\ cursor' = 0 /\ contacts' = {} /\ Len(seen') = 0 /\ 1..0 = {}
    BY <1>3
  <2> QED BY <2>1 DEF CursorFollows, GivenAsRecorded, OnlyOffTapeContacts
<1> QED BY <1>0, <1>3, <1>11, <1>12, <1>13, <1>14 DEF ReplayInv

LEMMA RecordOther ==
    ASSUME ReplayInv, UnreadEvent
    PROVE  ReplayInv'
<1>0. ReplayTypes /\ phase = "live" /\ phase' = "live"
  BY DEF ReplayInv, UnreadEvent
<1>1. /\ Len(script) \in Nat /\ tape \in Seq([kind : EventKinds, value : Values])
      /\ Len(tape) \in Nat /\ served \in Seq(1..Len(tape))
  BY <1>0 DEF ReplayTypes
<1> DEFINE other == [kind |-> "other", value |-> NoResponse]
<1>2. /\ tape' = Append(tape, other) /\ other \in [kind : EventKinds, value : Values]
      /\ UNCHANGED <<full, mode, phase, script, torn, cursor, issued, seen, served, contacts>>
      /\ seen = <<>> /\ cursor = 0 /\ contacts = {} /\ other.kind = "other"
  BY <1>0 DEF UnreadEvent, EventKinds, Values, ReplayInv
<1> HIDE DEF other
<1>3. /\ tape' \in Seq([kind : EventKinds, value : Values]) /\ Len(tape') = Len(tape) + 1
      /\ tape'[Len(tape) + 1] = other /\ \A i \in 1..Len(tape) : tape'[i] = tape[i]
  BY <1>1, <1>2, AppendProperties
<1>4. PICK end : Laid(end)
  BY DEF ReplayInv
<1>5. Laid(end)'
  <2>1. \A k \in 1..Len(script) : Recorded(k)' = Recorded(k) /\ (HasEvent(k)' <=> HasEvent(k))
    BY <1>2 DEF Recorded, HasEvent, EventOf
  <2>2. end \in [1..Len(script) -> 0..Len(tape')]
    BY <1>1, <1>3, <1>4 DEF Laid
  <2>3. ASSUME NEW k \in 1..Len(script), HasEvent(k)
        PROVE  tape'[end[k]] = Recorded(k)[1]
    <3>1. end[k] \in 1..Len(tape) /\ tape[end[k]] = Recorded(k)[1]
      BY <1>1, <1>4, <2>3 DEF Laid
    <3> QED BY <1>3, <3>1
  <2>4. ASSUME NEW i \in 1..Len(tape'), tape'[i].kind # "other"
        PROVE  \E k \in 1..Len(script) : HasEvent(k) /\ end[k] = i
    <3>1. i \in 1..Len(tape) /\ tape[i].kind # "other"
      BY <1>1, <1>2, <1>3, <2>4
    <3> QED BY <1>4, <3>1 DEF Laid
  <2>5. script' = script
    BY <1>2
  <2> QED BY <1>4, <2>1, <2>2, <2>3, <2>4, <2>5 DEF Laid
<1>6. ReplayTypes'
  <2>1. served' \in Seq(1..Len(tape'))
    BY <1>1, <1>2, <1>3
  <2> QED BY <1>0, <1>2, <1>3, <2>1 DEF ReplayTypes
<1>7. CursorFollows(end)' /\ GivenAsRecorded' /\ OnlyOffTapeContacts'
  <2>1. seen' = <<>> /\ cursor' = 0 /\ contacts' = {} /\ Len(seen') = 0 /\ 1..0 = {}
    BY <1>2
  <2> QED BY <2>1 DEF CursorFollows, GivenAsRecorded, OnlyOffTapeContacts
<1>8. \A k \in 1..Len(script') : script'[k].value \in Answers(script'[k].op)
  BY <1>2 DEF ReplayInv
<1> QED BY <1>0, <1>2, <1>5, <1>6, <1>7, <1>8 DEF ReplayInv

\* A step that leaves the calls and the tape alone.
LEMMA NothingReplayed ==
    ASSUME ReplayInv, phase' \in {phase, "replay", "rejected"},
           phase' = "rejected" => phase # "replay",
           UNCHANGED <<full, mode, script, tape, torn, cursor, issued, seen, served, contacts>>
    PROVE  ReplayInv'
<1>1. ReplayTypes'
  BY DEF ReplayInv, ReplayTypes
<1>2. /\ \A n : (OnTrack(n)' <=> OnTrack(n)) /\ (FailedAsk(n)' <=> FailedAsk(n))
  BY DEF OnTrack, FailedAsk
<1>3. \A end : (Laid(end)' <=> Laid(end)) /\ (CursorFollows(end)' <=> CursorFollows(end))
  BY DEF Laid, HasEvent, Recorded, EventOf, CursorFollows, Kept, OnTrack, FailedAsk, Exact,
         Answerable
<1>4. GivenAsRecorded' /\ OnlyOffTapeContacts'
  BY DEF ReplayInv, GivenAsRecorded, OnlyOffTapeContacts, Repeats, OnTrack, Asked, Answerable,
         FailedAsk
<1> QED BY <1>1, <1>3, <1>4 DEF ReplayInv

LEMMA ReplayStart == ReplayInit => ReplayInv
<1> SUFFICES ASSUME ReplayInit PROVE ReplayInv
  OBVIOUS
<1>1. script = <<>> /\ tape = <<>> /\ seen = <<>> /\ cursor = 0 /\ contacts = {}
  BY DEF ReplayInit
<1>2. Len(script) = 0 /\ Len(tape) = 0 /\ Len(seen) = 0 /\ 1..0 = {}
  BY <1>1
<1>3. ReplayTypes
  <2>1. /\ script \in Seq([op : Ops, value : Values])
        /\ tape \in Seq([kind : EventKinds, value : Values])
        /\ issued \in Seq(Ops) /\ seen \in Seq(Values) /\ Len(issued) = Len(seen)
        /\ served \in Seq(1..Len(tape))
    BY <1>1 DEF ReplayInit
  <2>2. /\ full \in BOOLEAN /\ mode \in {"from_fixtures", "live"} /\ torn \in BOOLEAN
        /\ phase \in {"live", "replay", "rejected"}
    BY DEF ReplayInit
  <2>3. cursor \in 0..Len(tape) /\ contacts \subseteq 1..Len(seen)
    BY <1>1, <1>2
  <2> QED BY <2>1, <2>2, <2>3 DEF ReplayTypes
<1> DEFINE none == [k \in 1..0 |-> 0]
<1>4. Laid(none)
  BY <1>2 DEF Laid
<1>5. CursorFollows(none) /\ GivenAsRecorded /\ OnlyOffTapeContacts
  BY <1>1, NotYet
<1> HIDE DEF none
<1> QED BY <1>1, <1>2, <1>3, <1>4, <1>5 DEF ReplayInv

LEMMA ReplaySteps == ReplayInv /\ [ReplayNext]_replayVars => ReplayInv'
<1> SUFFICES ASSUME ReplayInv, [ReplayNext]_replayVars PROVE ReplayInv'
  OBVIOUS
<1>1. CASE \E op \in Uses : LiveCall(op)
  BY <1>1, RecordCall
<1>2. CASE \E op \in Uses : Serve(op)
  BY <1>2, ServeKeeps
<1>3. CASE \E op \in Uses : RunDry(op) \/ GoLive(op)
  BY <1>3, LiveAnswer
<1>4. CASE UnreadEvent
  BY <1>4, RecordOther
<1>5. CASE StartReplay
  BY <1>5, NothingReplayed DEF StartReplay
<1>6. CASE UNCHANGED replayVars
  BY <1>6, NothingReplayed DEF replayVars
<1> QED BY <1>1, <1>2, <1>3, <1>4, <1>5, <1>6 DEF ReplayNext

-----------------------------------------------------------------------------
(* Nothing is passed over while the replay repeats the recording.          *)

\* The kinds that are served are those of the calls that ask.
ServedKind(i) == \E op \in Uses : Asked(op) /\ Kind(op) = tape[i].kind
InTurn == OnTrack(Len(seen)) /\ (mode = "from_fixtures" => Answerable(Len(seen)))

\* In turn, every call so far was one that is given its own event, or of a kind
\* that is not served.
LEMMA InTurnFacts ==
    ASSUME ReplayTypes, InTurn
    PROVE  /\ Kept(Len(seen))
           /\ \A k \in 1..Len(seen) : k \in 1..Len(script) /\ script[k].op \in Ops
           /\ \A k \in 1..Len(seen), op \in Ops :
                 Asked(op) /\ Kind(op) = Kind(script[k].op) => Exact(k)
<1>1. /\ Len(seen) \in Nat /\ Len(script) \in Nat /\ mode \in {"from_fixtures", "live"}
      /\ script \in Seq([op : Ops, value : Values])
  BY DEF ReplayTypes
<1>2. OnTrack(Len(seen)) /\ Len(seen) <= Len(script)
  BY DEF InTurn, OnTrack
<1>3. ASSUME NEW k \in 1..Len(seen) PROVE k \in 1..Len(script) /\ script[k].op \in Ops
  <2>1. k \in 1..Len(script)
    BY <1>1, <1>2
  <2>2. script[k] \in [op : Ops, value : Values]
    BY <1>1, <2>1, ElementOfSeq
  <2> QED BY <2>1, <2>2
<1>4. Kept(Len(seen))
  BY <1>2, ReplayAssumption DEF InTurn, Kept, Answerable, FailedAsk
<1>5. ASSUME NEW k \in 1..Len(seen), NEW op \in Ops, Asked(op), Kind(op) = Kind(script[k].op)
      PROVE  Exact(k)
  <2>1. CASE op \in {"clock.now", "random.next"}
    BY <1>3, <1>5, <2>1, KindFacts DEF Exact
  <2>2. CASE op = "ai.complete" /\ mode = "from_fixtures"
    <3>1. Answerable(k)
      <4>1. \A j \in 1..k : j \in 1..Len(seen)
        BY <1>1
      <4> QED BY <2>2, <4>1 DEF InTurn, Answerable
    <3>2. script[k].op \in AiOps
      BY <1>3, <1>5, <2>2, KindFacts
    <3>3. script[k].op = "ai.complete"
      BY <1>1, <3>1, <3>2 DEF Answerable, AiOps, Asks
    <3> QED BY <2>2, <3>1, <3>3 DEF Exact
  <2> QED BY <1>1, <1>5, <2>1, <2>2, AskedFacts
<1> QED BY <1>3, <1>4, <1>5

\* An event of a kind that is served, up to where the recording was after the calls
\* so far, is one the cursor has passed.
LEMMA NoneLeftBehind ==
    ASSUME ReplayTypes, \A k \in 1..Len(script) : script[k].value \in Answers(script[k].op),
           NEW end, Laid(end), CursorFollows(end), InTurn,
           NEW i \in 1..Len(tape), ServedKind(i), cursor < i
    PROVE  \A n \in 1..Len(script) : n <= Len(seen) => end[n] < i
<1>1. /\ Len(seen) \in Nat /\ Len(script) \in Nat /\ Len(tape) \in Nat
      /\ cursor \in 0..Len(tape) /\ Uses \subseteq Ops
      /\ \A k \in 1..Len(script) : end[k] \in 0..Len(tape)
  <2>1. Len(seen) \in Nat /\ Len(script) \in Nat /\ Len(tape) \in Nat
    BY DEF ReplayTypes
  <2>2. cursor \in 0..Len(tape) /\ Uses \subseteq Ops
    BY UsesAssumption DEF ReplayTypes
  <2>3. end \in [1..Len(script) -> 0..Len(tape)]
    BY DEF Laid
  <2> QED BY <2>1, <2>2, <2>3
<1>2. PICK op \in Ops : Asked(op) /\ Kind(op) = tape[i].kind
  BY <1>1 DEF ServedKind
<1>3. Kind(op) # "other"
  BY KindFacts
<1>4. PICK k \in 1..Len(script) : HasEvent(k) /\ end[k] = i
  BY <1>2, <1>3 DEF Laid
<1>5. script[k].op \in Ops /\ script[k].value \in Answers(script[k].op)
  <2>1. script[k] \in [op : Ops, value : Values]
    BY <1>1, <1>4, ElementOfSeq DEF ReplayTypes
  <2> QED BY <2>1
<1>6. tape[i].kind = Kind(script[k].op)
  <2>1. tape[end[k]] = Recorded(k)[1]
    BY <1>4 DEF Laid
  <2>2. Recorded(k)[1].kind = Kind(script[k].op)
    BY <1>4, <1>5, AnswersFacts DEF HasEvent, Recorded
  <2> QED BY <1>4, <2>1, <2>2
<1>7. ~(k <= Len(seen))
  <2> SUFFICES ASSUME k <= Len(seen) PROVE FALSE
    OBVIOUS
  <2>1. k \in 1..Len(seen)
    BY <1>1
  <2>2. Exact(k) /\ Kept(Len(seen))
    BY <1>2, <1>6, <2>1, InTurnFacts
  <2>3. end[k] <= cursor
    BY <2>1, <2>2 DEF CursorFollows
  <2> QED BY <1>1, <1>4, <2>3
<1>8. ASSUME NEW n \in 1..Len(script), n <= Len(seen) PROVE end[n] < i
  <2>1. n < k
    BY <1>1, <1>7, <1>8
  <2> QED BY <1>4, <1>8, <2>1 DEF Laid
<1> QED BY <1>8

\* The cursor is never moved past an event that should have been handed out.
LEMMA FifoSteps ==
    ASSUME ReplayInv, FifoOnTrack, [ReplayNext]_replayVars
    PROVE  FifoOnTrack'
<1>0. /\ ReplayTypes /\ served \in Seq(1..Len(tape)) /\ cursor \in 0..Len(tape)
      /\ Len(tape) \in Nat /\ Len(served) \in Nat /\ Len(seen) \in Nat /\ Len(script) \in Nat
      /\ mode \in {"from_fixtures", "live"}
  BY DEF ReplayInv, ReplayTypes
<1>1. CASE \E op \in Uses : LiveCall(op)
  <2>1. cursor' = 0 /\ 1..0 = {}
    BY <1>1 DEF LiveCall, ReplayInv
  <2> QED BY <2>1 DEF FifoOnTrack, NonePassedOver
<1>2. CASE UnreadEvent
  <2>1. cursor' = 0 /\ 1..0 = {}
    BY <1>2 DEF UnreadEvent, ReplayInv
  <2> QED BY <2>1 DEF FifoOnTrack, NonePassedOver
<1>3. CASE StartReplay \/ UNCHANGED replayVars
  BY <1>3 DEF StartReplay, replayVars, FifoOnTrack, NonePassedOver, OnTrack, Answerable, Asked
<1>4. ASSUME NEW op \in Uses, Serve(op) \/ RunDry(op) \/ GoLive(op), InTurn',
             NEW i \in 1..cursor', ServedKind(i)'
      PROVE  \E j \in 1..Len(served') : served'[j] = i
  <2>1. op \in Ops /\ Uses \subseteq Ops
    BY UsesAssumption
  <2>2. PICK v \in Values : Issue(op, v)
    <3>1. CASE Serve(op)
      <4>1. PICK k \in Ahead(Kind(op)) : Issue(op, tape[k].value)
        BY <1>0, <3>1, ServeFacts
      <4>2. k \in 1..Len(tape)
        BY <1>0 DEF Ahead
      <4>3. tape[k] \in [kind : EventKinds, value : Values]
        BY <1>0, <4>2, ElementOfSeq DEF ReplayTypes
      <4> QED BY <4>1, <4>3
    <3>2. CASE RunDry(op) \/ GoLive(op)
      BY <2>1, <3>2, AnswersFacts DEF RunDry, GoLive
    <3> QED BY <1>4, <3>1, <3>2
  <2>3. /\ UNCHANGED <<full, mode, phase, script, tape, torn>>
        /\ Len(seen') = Len(seen) + 1
        /\ OnTrack(Len(seen)) /\ Len(seen) < Len(script) => op = script[Len(seen) + 1].op
    BY <1>0, <2>2, IssueFacts
  <2>4. PICK n \in Nat : n = Len(seen) + 1
    BY <1>0
  <2>5. n \in 1..Len(script) /\ OnTrack(Len(seen)) /\ op = script[n].op
    <3>1. OnTrack(n)' /\ n <= Len(script) /\ n > 0
      BY <1>0, <1>4, <2>3, <2>4 DEF InTurn, OnTrack
    <3>2. PICK p \in 0..Len(seen) : p = Len(seen)
      BY <1>0
    <3>3. OnTrack(p)'
      BY <1>0, <2>3, <2>4, <3>1, <3>2 DEF OnTrack
    <3>4. OnTrack(p)' <=> OnTrack(p)
      BY <1>0, <2>2, TrackFacts
    <3>5. OnTrack(Len(seen))
      BY <3>2, <3>3, <3>4
    <3> QED BY <1>0, <2>3, <2>4, <3>1, <3>5
  <2>6. InTurn /\ (mode = "from_fixtures" => Answerable(n))
    <3>1. mode = "from_fixtures" => Answerable(n)
      BY <1>4, <2>3, <2>4 DEF InTurn, Answerable
    <3>2. \A k \in 1..Len(seen) : k \in 1..n
      BY <1>0, <2>4
    <3> QED BY <2>5, <3>1, <3>2 DEF InTurn, Answerable
  <2>7. ServedKind(i) <=> ServedKind(i)'
    BY <2>3 DEF ServedKind, Asked
  <2>8. PICK end : Laid(end) /\ CursorFollows(end)
    BY DEF ReplayInv
  <2>9. Kept(Len(seen)) /\ (mode = "from_fixtures" => ~FailedAsk(n))
    <3>1. n \in 1..n
      BY <2>5
    <3>2. mode = "from_fixtures" => ~FailedAsk(n)
      BY <2>6, <3>1, ReplayAssumption DEF Answerable, FailedAsk
    <3> QED BY <1>0, <2>6, <3>2, InTurnFacts
  <2>10. Asked(op) => HasEvent(n)
    BY <2>5, <2>9, AskedHasEvent
  <2>11. Asked(op) => end[n] \in Ahead(Kind(op))
    BY <1>0, <2>4, <2>5, <2>8, <2>9, <2>10, OwnEventAhead DEF ReplayInv
  <2>12. CASE i \in 1..cursor
    <3>1. PICK j \in 1..Len(served) : served[j] = i
      BY <1>4, <2>6, <2>7, <2>12 DEF FifoOnTrack, NonePassedOver, InTurn, ServedKind
    <3>2. CASE served' = served
      BY <3>1, <3>2
    <3>3. CASE Serve(op)
      <4>1. PICK k \in Ahead(Kind(op)) : served' = Append(served, k)
        BY <1>0, <3>3, ServeFacts
      <4>2. k \in 1..Len(tape)
        BY <1>0 DEF Ahead
      <4>3. Len(served') = Len(served) + 1 /\ served'[j] = i
        BY <1>0, <3>1, <4>1, <4>2, AppendProperties
      <4> QED BY <1>0, <4>3
    <3> QED BY <1>4, <3>2, <3>3 DEF RunDry, GoLive
  <2>13. CASE i \notin 1..cursor
    <3>1. Serve(op)
      <4>1. ~RunDry(op)
        BY <2>11 DEF RunDry
      <4>2. ~GoLive(op)
        BY <1>0, <1>4, <2>13 DEF GoLive
      <4> QED BY <1>4, <4>1, <4>2
    <3>2. PICK k \in Ahead(Kind(op)) :
              /\ \A j \in Ahead(Kind(op)) : k <= j
              /\ cursor' = k /\ served' = Append(served, k) /\ Asked(op)
      BY <1>0, <3>1, ServeFacts
    <3>3. k \in 1..Len(tape) /\ cursor < k /\ end[n] \in 1..Len(tape) /\ k <= end[n]
      BY <1>0, <2>11, <3>2 DEF Ahead
    <3>4. i \in 1..Len(tape) /\ cursor < i /\ i <= k
      BY <1>0, <2>13, <3>2, <3>3
    <3>5. i = k
      <4> SUFFICES ASSUME i < k PROVE FALSE
        BY <3>3, <3>4
      <4>1. PICK other \in Ops : Asked(other) /\ Kind(other) = tape[i].kind
        BY <1>4, <2>1, <2>7 DEF ServedKind
      <4>2. PICK m \in 1..Len(script) : HasEvent(m) /\ end[m] = i
        <5>1. tape[i].kind # "other"
          BY <4>1, KindFacts
        <5> QED BY <2>8, <3>4, <5>1 DEF Laid
      <4>3. ~(n <= m)
        <5>1. n < m => end[n] <= end[m]
          BY <2>5, <2>8 DEF Laid
        <5> QED BY <2>5, <3>3, <3>4, <4>2, <5>1
      <4>4. m <= Len(seen)
        BY <1>0, <2>4, <4>3
      <4>5. end[m] < i
        BY <1>0, <1>4, <2>6, <2>7, <2>8, <3>4, <4>4, NoneLeftBehind DEF ReplayInv
      <4> QED BY <3>4, <4>2, <4>5
    <3>6. Len(served') = Len(served) + 1 /\ served'[Len(served) + 1] = i
      BY <1>0, <3>2, <3>3, <3>5, AppendProperties
    <3> QED BY <1>0, <3>6
  <2> QED BY <2>12, <2>13
<1>5. CASE \E op \in Uses : Serve(op) \/ RunDry(op) \/ GoLive(op)
  BY <1>4, <1>5 DEF FifoOnTrack, NonePassedOver, InTurn, ServedKind
<1> QED BY <1>1, <1>2, <1>3, <1>5 DEF ReplayNext

\* A replay, whatever the run did and wherever it leaves it, gives the calls that
\* repeat the recording and ask the tape the values that the run was given, and, as
\* long as it repeats the recording, loses no event of the kinds it serves.
THEOREM ReplayIsFaithful == ReplaySpec => []FaithfulReplay
<1>1. ReplayInv => GivenAsRecorded
  BY DEF ReplayInv
<1>2. ReplayInit => FifoOnTrack
  <2> SUFFICES ASSUME ReplayInit PROVE FifoOnTrack
    OBVIOUS
  <2>1. cursor = 0 /\ 1..0 = {}
    BY DEF ReplayInit
  <2> QED BY <2>1 DEF FifoOnTrack, NonePassedOver
<1>3. ReplayInv /\ FifoOnTrack => FaithfulReplay
  BY <1>1 DEF FaithfulReplay
<1> QED BY <1>2, <1>3, ReplayStart, ReplaySteps, FifoSteps, PTL DEF ReplaySpec

\* From fixtures, a call goes out of the process only where it leaves the recording,
\* comes after a failed model call, or is of a builtin that never looks at the tape.
THEOREM ContactsAreOffTape == ReplaySpec => []OnlyOffTapeContacts
<1>1. ReplayInv => OnlyOffTapeContacts
  BY DEF ReplayInv
<1> QED BY <1>1, ReplayStart, ReplaySteps, PTL DEF ReplaySpec

LEMMA ServedSteps ==
    ASSUME ReplayInv, ServedInOrder, [ReplayNext]_replayVars
    PROVE  ServedInOrder'
<1>0. /\ ReplayTypes /\ served \in Seq(1..Len(tape)) /\ cursor \in 0..Len(tape)
      /\ Len(tape) \in Nat /\ Len(served) \in Nat
  BY DEF ReplayInv, ReplayTypes
<1>1. \A k \in 1..Len(served) : served[k] \in 1..Len(tape)
  BY <1>0, ElementOfSeq
<1>2. ASSUME served' = served, cursor' \in Nat, cursor <= cursor'
      PROVE  ServedInOrder'
  BY <1>0, <1>1, <1>2 DEF ServedInOrder
<1>3. CASE \E op \in Uses : Serve(op)
  <2>1. PICK op \in Uses : Serve(op)
    BY <1>3
  <2>2. PICK k \in Ahead(Kind(op)) : cursor' = k /\ served' = Append(served, k)
    BY <1>0, <2>1, ServeFacts
  <2>3. k \in 1..Len(tape) /\ cursor < k
    BY <1>0 DEF Ahead
  <2>4. /\ Len(served') = Len(served) + 1 /\ served'[Len(served) + 1] = k
        /\ \A j \in 1..Len(served) : served'[j] = served[j]
    BY <1>0, <2>2, <2>3, AppendProperties
  <2>5. \A j \in 1..Len(served) : served[j] < k
    BY <1>0, <1>1, <2>3 DEF ServedInOrder
  <2> QED BY <1>0, <1>1, <2>2, <2>3, <2>4, <2>5 DEF ServedInOrder
<1>4. CASE \E op \in Uses : LiveCall(op)
  BY <1>0, <1>2, <1>4 DEF LiveCall
<1>5. CASE \E op \in Uses : RunDry(op) \/ GoLive(op)
  BY <1>0, <1>2, <1>5 DEF RunDry, GoLive
<1>6. CASE UnreadEvent \/ StartReplay \/ UNCHANGED replayVars
  BY <1>0, <1>2, <1>6 DEF UnreadEvent, StartReplay, replayVars
<1> QED BY <1>3, <1>4, <1>5, <1>6 DEF ReplayNext

\* No recorded event is handed out twice, and none out of the order recorded.
THEOREM ServedOnce == ReplaySpec => []ServedInOrder
<1>1. ReplayInit => ServedInOrder
  BY DEF ReplayInit, ServedInOrder
<1> QED BY <1>1, ReplayStart, ReplaySteps, ServedSteps, PTL DEF ReplaySpec
=============================================================================
