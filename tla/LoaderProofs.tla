---------------------------- MODULE LoaderProofs ----------------------------
(***************************************************************************)
(* The safety properties of the loader, for every import graph.  While it  *)
(* loads, the set of files it calls loaded is closed under imports and     *)
(* layered (every part of it has a sink), and a call has already loaded    *)
(* what it has looked at; a file that returns is a new layer on top.  What *)
(* it inlines is what the walk of Loader finds: entering a file and        *)
(* skipping one are steps of the walk, returning is none.  Last, why a     *)
(* load of finitely many files ends.                                       *)
(***************************************************************************)
EXTENDS Loader, CommonProofs

\* What a call in progress has behind it.
FramesRead ==
    \A k \in 1..Len(stack) :
        /\ src[stack[k].file].state = "ok"
        /\ \A i \in 1..Len(src[stack[k].file].local) :
              i < stack[k].next => src[stack[k].file].local[i] \in loaded

Closed == \A f \in loaded : src[f].state = "ok" /\ Imports(f) \subseteq loaded

Layered == \A S \in SUBSET loaded : S # {} => HasSink(S)

\* The outermost call is the entry's, and an entry that was parsed by the caller
\* is never loaded as an import of itself.
Rooted ==
    /\ stack # <<>> => stack[1].file = Entry
    /\ stack = <<>> => ~checking /\ loaded = {}
    /\ checking => Entry \notin loaded

IInv ==
    /\ TypeOK
    /\ StackIsPath
    /\ outcome = "loading" => FramesRead /\ Closed /\ Layered /\ Rooted
    /\ AcceptedIsAcyclic
    /\ CycleIsReal

-----------------------------------------------------------------------------

\* A call that has its module back (Merged) is the same call, one import further.
LEMMA MergedFrame ==
    ASSUME NEW frame \in Frames, NEW items \in Seq(Files), NEW uses \in SUBSET Stdlib
    PROVE  /\ Merged(frame, items, uses) \in Frames
           /\ Merged(frame, items, uses).file = frame.file
           /\ Merged(frame, items, uses).next = frame.next + 1
<1>1. /\ frame.file \in Files /\ frame.next \in Nat \ {0}
      /\ frame.items \in Seq(Files) /\ frame.uses \in SUBSET Stdlib
  BY DEF Frames
<1>2. frame.items \o items \in Seq(Files) /\ frame.next + 1 \in Nat \ {0}
  BY <1>1
<1>3. frame.uses \union uses \in SUBSET Stdlib
  BY <1>1
<1> QED
  BY <1>1, <1>2, <1>3 DEF Merged, Frames

LEMMA MergedStack ==
    ASSUME NEW s \in Seq(Frames), s # <<>>, NEW m \in Frames,
           m.file = s[Len(s)].file, m.next = s[Len(s)].next + 1,
           NEW t, t = [s EXCEPT ![Len(s)] = m]
    PROVE  /\ t \in Seq(Frames) /\ Len(t) = Len(s)
           /\ \A k \in 1..Len(s) : t[k].file = s[k].file
           /\ \A k \in 1..(Len(s) - 1) : t[k].next = s[k].next
           /\ t[Len(s)].next = s[Len(s)].next + 1
<1>1. Len(s) \in 1..Len(s) /\ s[Len(s)] \in Frames
  OBVIOUS
<1>4. t \in Seq(Frames) /\ Len(t) = Len(s)
      /\ \A k \in 1..Len(s) : t[k] = IF k = Len(s) THEN m ELSE s[k]
  BY <1>1
<1>5. t[Len(s)] = m
  BY <1>1, <1>4
<1>6. ASSUME NEW k \in 1..(Len(s) - 1) PROVE t[k] = s[k]
  <2>1. Len(s) \in Nat
    OBVIOUS
  <2>2. k \in 1..Len(s) /\ k # Len(s)
    BY <2>1
  <2> QED
    BY <1>4, <2>2
<1>7. \A k \in 1..Len(s) : t[k].file = s[k].file
  BY <1>4
<1> QED
  BY <1>4, <1>5, <1>6, <1>7

\* A file whose imports all lie in a closed, layered set without it is a layer on
\* top of that set.
LEMMA LayerAbove ==
    ASSUME NEW T, NEW f, f \notin T, Imports(f) \subseteq T,
           \A g \in T : Imports(g) \subseteq T,
           \A S \in SUBSET T : S # {} => HasSink(S)
    PROVE  \A S \in SUBSET (T \union {f}) : S # {} => HasSink(S)
<1> SUFFICES ASSUME NEW S \in SUBSET (T \union {f}), S # {}
             PROVE  HasSink(S)
  OBVIOUS
<1>1. CASE S \subseteq {f}
  <2>1. f \in S /\ Imports(f) \intersect S = {}
    BY <1>1
  <2> QED
    BY <2>1 DEF HasSink
<1>2. CASE ~(S \subseteq {f})
  <2>1. S \ {f} \in SUBSET T /\ S \ {f} # {}
    BY <1>2
  <2>2. PICK g \in S \ {f} : Imports(g) \intersect (S \ {f}) = {}
    BY <2>1 DEF HasSink
  <2>3. f \notin Imports(g)
    BY <2>1
  <2> QED
    BY <2>2, <2>3 DEF HasSink
<1> QED
  BY <1>1, <1>2

\* A file that can be read has its imports among the files.
LEMMA LocalFiles ==
    ASSUME TypeOK, NEW f \in Files
    PROVE  src[f].local \in Seq(Files) /\ src[f].uses \in SUBSET Stdlib
<1>1. src[f] \in SourceType
  BY LoaderAssumption DEF TypeOK
<1> QED
  BY <1>1 DEF SourceType

\* The module read by a fresh call of load_recursive has the type of a frame.
LEMMA FrameType ==
    ASSUME TypeOK, NEW f \in Files
    PROVE  Frame(f) \in Frames /\ Frame(f).file = f /\ Frame(f).next = 1
<1>1. <<f>> \in Seq(Files)
  OBVIOUS
<1> QED
  BY <1>1, LocalFiles DEF Frame, Frames

\* The file whose load comes next is the entry or an import of the frame on top.
LEMMA CalleeType ==
    ASSUME TypeOK, Calling
    PROVE  /\ Callee \in Files
           /\ stack # <<>> =>
                 /\ Top \in Frames
                 /\ Top.next \in 1..Len(src[Top.file].local)
                 /\ Callee = src[Top.file].local[Top.next]
                 /\ Callee \in Imports(Top.file)
<1>1. CASE stack = <<>>
  BY <1>1, LoaderAssumption DEF Callee
<1>2. CASE stack # <<>>
  <2>1. Top \in Frames
    BY <1>2 DEF Top, TypeOK
  <2>2. Top.file \in Files /\ Top.next \in Nat \ {0}
    BY <2>1 DEF Frames
  <2>3. src[Top.file].local \in Seq(Files)
    BY <2>2, LocalFiles
  <2>4. Top.next \in 1..Len(src[Top.file].local)
    BY <1>2, <2>2, <2>3 DEF Calling, Done
  <2>5. Callee = src[Top.file].local[Top.next]
    BY <1>2 DEF Callee
  <2> QED
    BY <2>1, <2>3, <2>4, <2>5 DEF Imports
<1> QED
  BY <1>1, <1>2

\* A frame that has looked at all of its imports has loaded them.
LEMMA DoneIsLoaded ==
    ASSUME TypeOK, FramesRead, Done
    PROVE  /\ Top \in Frames /\ Top.file \in Files
           /\ src[Top.file].state = "ok" /\ Imports(Top.file) \subseteq loaded
<1>1. Len(stack) \in 1..Len(stack) /\ Top \in Frames
  BY DEF Done, Top, TypeOK
<1>2. Top.file \in Files /\ Top.next \in Nat \ {0}
  BY <1>1 DEF Frames
<1>3. src[Top.file].local \in Seq(Files)
  BY <1>2, LocalFiles
<1>4. \A i \in 1..Len(src[Top.file].local) : i < Top.next
  BY <1>2, <1>3 DEF Done
<1>5. src[Top.file].state = "ok"
      /\ \A i \in 1..Len(src[Top.file].local) : src[Top.file].local[i] \in loaded
  BY <1>1, <1>4 DEF FramesRead, Top
<1> QED
  BY <1>1, <1>2, <1>5 DEF Imports

-----------------------------------------------------------------------------

\* The imports of a file do not change.
LEMMA SameSink == ASSUME src' = src, NEW S, HasSink(S) PROVE HasSink(S)'
  BY DEF HasSink, Imports

LEMMA InitInv == Init => IInv
<1> SUFFICES ASSUME Init PROVE IInv
  OBVIOUS
<1>1. checking \in BOOLEAN /\ src \in [Files -> Sources] /\ outcome = "loading"
      /\ in_progress = {} /\ loaded = {}
  BY DEF Init
<1>2. \A f \in Files : Frame(f) \in Frames /\ Frame(f).file = f /\ Frame(f).next = 1
  <2> SUFFICES ASSUME NEW f \in Files
               PROVE  Frame(f) \in Frames /\ Frame(f).file = f /\ Frame(f).next = 1
    OBVIOUS
  <2>1. src[f].local \in Seq(Files) /\ src[f].uses \in SUBSET Stdlib
    BY <1>1, LoaderAssumption DEF SourceType
  <2>2. <<f>> \in Seq(Files)
    OBVIOUS
  <2> QED
    BY <2>1, <2>2 DEF Frame, Frames
<1> HIDE DEF Frame
<1>2a. Closed /\ Layered /\ AcceptedIsAcyclic /\ CycleIsReal
  BY <1>1 DEF Closed, Layered, AcceptedIsAcyclic, CycleIsReal
<1>3. CASE checking
  <2>1. stack = <<Frame(Entry)>> /\ src[Entry].state = "ok"
    BY <1>3 DEF Init
  <2>2. stack \in Seq(Frames) /\ Len(stack) = 1 /\ stack[1] = Frame(Entry)
    BY <2>1, <1>2, LoaderAssumption
  <2>3. stack[1].file = Entry /\ stack[1].next = 1
    BY <2>2, <1>2, LoaderAssumption
  <2>4. TypeOK
    BY <1>1, <2>2 DEF TypeOK
  <2>5. StackIsPath
    BY <1>1, <1>3, <2>2 DEF StackIsPath, Floor
  <2>6. FramesRead
    BY <2>1, <2>2, <2>3 DEF FramesRead
  <2>7. Rooted
    <3>1. stack # <<>>
      BY <2>2
    <3> QED
      BY <1>1, <2>3, <3>1 DEF Rooted
  <2> QED
    BY <1>1, <1>2a, <2>4, <2>5, <2>6, <2>7 DEF IInv
<1>4. CASE ~checking
  <2>1. stack = <<>> /\ stack \in Seq(Frames) /\ Len(stack) = 0
    BY <1>4 DEF Init
  <2>2. TypeOK
    BY <1>1, <2>1 DEF TypeOK
  <2>3. StackIsPath
    BY <1>1, <1>4, <2>1 DEF StackIsPath, Floor
  <2>4. FramesRead
    BY <2>1 DEF FramesRead
  <2>5. Rooted
    BY <1>1, <1>4, <2>1 DEF Rooted
  <2> QED
    BY <1>1, <1>2a, <2>2, <2>3, <2>4, <2>5 DEF IInv
<1> QED
  BY <1>3, <1>4

\* The files that are on disk do not change while they are loaded.
LEMMA UnreadableInv == ASSUME IInv, Unreadable PROVE IInv'
<1>1. outcome' = src[Callee].state /\ src[Callee].state # "ok"
      /\ UNCHANGED <<checking, src, stack, in_progress, loaded>>
  BY DEF Unreadable, Fail
<1>2. src[Callee].state \in {"io", "parse"}
  <2>1. Callee \in Files
    BY CalleeType DEF IInv, Unreadable
  <2>2. src[Callee] \in SourceType
    BY <2>1, LoaderAssumption DEF IInv, TypeOK
  <2> QED
    BY <1>1, <2>2 DEF SourceType
<1> QED
  BY <1>1, <1>2
  DEF IInv, TypeOK, StackIsPath, AcceptedIsAcyclic, CycleIsReal, LoopFrom

\* The file about to be called is in progress: the frames from its own to the one
\* on top are the cycle.
LEMMA CycleInv == ASSUME IInv, Cycle PROVE IInv'
<1>1. outcome = "loading" /\ outcome' = "cycle" /\ Callee \in in_progress
      /\ UNCHANGED <<checking, src, stack, in_progress, loaded>>
  BY DEF Cycle, Fail, Calling
<1>2. TypeOK /\ StackIsPath
  BY DEF IInv
<1>3. PICK k \in (Floor + 1)..Len(stack) : Callee = stack[k].file
  BY <1>1, <1>2 DEF StackIsPath
<1>4. k \in 1..Len(stack) /\ stack # <<>> /\ Len(stack) \in Nat
  BY <1>2, <1>3 DEF Floor, TypeOK
<1>5. ASSUME NEW j \in k..(Len(stack) - 1)
      PROVE  stack[j + 1].file \in Imports(stack[j].file)
  <2>1. j \in 1..(Len(stack) - 1) /\ stack[j] \in Frames
    BY <1>2, <1>4 DEF TypeOK
  <2>2. stack[j].next \in Nat \ {0} /\ stack[j].file \in Files
    BY <2>1 DEF Frames
  <2>3. src[stack[j].file].local \in Seq(Files)
    BY <1>2, <2>2, LocalFiles
  <2>4. stack[j].next <= Len(src[stack[j].file].local)
        /\ stack[j + 1].file = src[stack[j].file].local[stack[j].next]
    BY <1>1, <1>2, <2>1 DEF StackIsPath
  <2>5. stack[j].next \in 1..Len(src[stack[j].file].local)
    BY <2>2, <2>3, <2>4
  <2> QED
    BY <2>4, <2>5 DEF Imports
<1>6. stack[k].file \in Imports(stack[Len(stack)].file)
  BY <1>2, <1>3, <1>4, CalleeType DEF Cycle, Top
<1>7. LoopFrom(k)'
  BY <1>1, <1>5, <1>6 DEF LoopFrom, Imports
<1>8. CycleIsReal'
  BY <1>1, <1>4, <1>7 DEF CycleIsReal
<1> QED
  BY <1>1, <1>8 DEF IInv, TypeOK, StackIsPath, AcceptedIsAcyclic

\* A file that is entered is a new top of the path.
LEMMA EnterInv == ASSUME IInv, Enter PROVE IInv'
<1> DEFINE n == Len(stack)
           new == Frame(Callee)
<1>1. /\ Calling /\ Callee \notin in_progress /\ Callee \notin loaded
      /\ src[Callee].state = "ok"
      /\ stack' = Append(stack, new) /\ in_progress' = in_progress \union {Callee}
      /\ outcome = "loading"
      /\ UNCHANGED <<checking, src, loaded, outcome>>
  BY DEF Enter, Calling
<1>2. TypeOK /\ StackIsPath /\ FramesRead /\ Closed /\ Layered /\ Rooted
  BY <1>1 DEF IInv
<1>3. /\ Callee \in Files
      /\ stack # <<>> => /\ Top.next <= Len(src[Top.file].local)
                         /\ Callee = src[Top.file].local[Top.next]
  BY <1>1, <1>2, CalleeType
<1>4. new \in Frames /\ new.file = Callee /\ new.next = 1
  BY <1>2, <1>3, FrameType
<1>5. n \in Nat /\ stack \in Seq(Frames)
  BY <1>2 DEF TypeOK
<1> HIDE DEF new
<1>6. /\ stack' \in Seq(Frames) /\ Len(stack') = n + 1
      /\ \A k \in 1..n : stack'[k] = stack[k]
      /\ stack'[n + 1] = new
  BY <1>1, <1>4, <1>5
<1>7. Floor' = Floor /\ Floor \in {0, 1} /\ Floor <= n
  <2>1. Floor' = Floor /\ Floor \in {0, 1}
    BY <1>1 DEF Floor
  <2>2. checking => n # 0
    BY <1>2, <1>5 DEF Rooted
  <2> QED
    BY <1>5, <2>1, <2>2 DEF Floor
<1> HIDE DEF n
<1>8. TypeOK'
  BY <1>1, <1>2, <1>3, <1>6 DEF TypeOK
<1>9. StackIsPath'
  <2>1. in_progress = {stack[k].file : k \in (Floor + 1)..n}
    BY <1>1, <1>2 DEF StackIsPath, n
  <2>2. in_progress' = {stack'[k].file : k \in (Floor + 1)..(n + 1)}
    <3>1. (Floor + 1)..(n + 1) = ((Floor + 1)..n) \union {n + 1}
      BY <1>5, <1>7
    <3>2. \A k \in (Floor + 1)..n : stack'[k].file = stack[k].file
      BY <1>5, <1>6, <1>7
    <3>3. in_progress = {stack'[k].file : k \in (Floor + 1)..n}
      BY <2>1, <3>2
    <3>4. stack'[n + 1].file = Callee
      BY <1>4, <1>6
    <3>5. {stack'[k].file : k \in (Floor + 1)..(n + 1)} =
              {stack'[k].file : k \in (Floor + 1)..n} \union {stack'[n + 1].file}
      BY <3>1
    <3> QED
      BY <1>1, <3>3, <3>4, <3>5
  <2>3. ASSUME NEW j \in (Floor + 1)..(n + 1), NEW k \in (Floor + 1)..(n + 1),
               stack'[j].file = stack'[k].file
        PROVE  j = k
    <3>1. \A i \in (Floor + 1)..n : stack'[i].file \in in_progress
      BY <1>5, <1>6, <1>7, <2>1
    <3>2. stack'[n + 1].file \notin in_progress
      BY <1>1, <1>4, <1>6
    <3>3. CASE j \in (Floor + 1)..n /\ k \in (Floor + 1)..n
      <4>1. stack[j].file = stack[k].file
        BY <1>5, <1>6, <1>7, <2>3, <3>3
      <4> QED
        BY <1>1, <1>2, <3>3, <4>1 DEF StackIsPath, n
    <3> QED
      BY <1>5, <1>7, <2>3, <3>1, <3>2, <3>3
  <2>4. ASSUME NEW k \in 1..n
        PROVE  /\ stack'[k].next <= Len(src[stack'[k].file].local)
               /\ stack'[k + 1].file = src[stack'[k].file].local[stack'[k].next]
    <3>1. CASE k = n
      <4>1. stack # <<>> /\ Top = stack[n]
        BY <1>5, <3>1 DEF Top, n
      <4> QED
        BY <1>3, <1>4, <1>6, <3>1, <4>1
    <3>2. CASE k # n
      <4>1. k \in 1..(n - 1) /\ k + 1 \in 1..n
        BY <1>5, <3>2
      <4>2. /\ stack[k].next <= Len(src[stack[k].file].local)
            /\ stack[k + 1].file = src[stack[k].file].local[stack[k].next]
        BY <1>1, <1>2, <4>1 DEF StackIsPath, n
      <4> QED
        BY <1>6, <4>1, <4>2
    <3> QED
      BY <3>1, <3>2
  <2>5. in_progress' \intersect loaded' = {}
    BY <1>1, <1>2 DEF StackIsPath
  <2>6. Len(stack') - 1 = n /\ Len(stack') = n + 1 /\ Floor' = Floor /\ src' = src
    BY <1>1, <1>5, <1>6, <1>7
  <2> QED
    BY <2>2, <2>3, <2>4, <2>5, <2>6 DEF StackIsPath
<1>10. FramesRead'
  <2> SUFFICES ASSUME NEW k \in 1..(n + 1)
               PROVE  /\ src[stack'[k].file].state = "ok"
                      /\ \A i \in 1..Len(src[stack'[k].file].local) :
                            i < stack'[k].next =>
                                src[stack'[k].file].local[i] \in loaded
    BY <1>1, <1>6 DEF FramesRead
  <2>1. CASE k = n + 1
    <3>1. src[Callee].local \in Seq(Files)
      BY <1>2, <1>3, LocalFiles
    <3> QED
      BY <1>1, <1>4, <1>6, <2>1, <3>1
  <2>2. CASE k # n + 1
    <3>1. k \in 1..n
      BY <1>5, <2>2
    <3> QED
      BY <1>2, <1>6, <3>1 DEF FramesRead, n
  <2> QED
    BY <2>1, <2>2
<1>11. Rooted'
  <2>1. CASE n = 0
    <3>1. stack = <<>>
      BY <1>5, <2>1 DEF n
    <3>2. ~checking /\ Callee = Entry
      BY <1>2, <3>1 DEF Rooted, Callee
    <3>3. stack'[1] = new /\ stack' # <<>>
      BY <1>6, <2>1
    <3> QED
      BY <1>1, <1>4, <3>2, <3>3 DEF Rooted
  <2>2. CASE n # 0
    <3>1. stack # <<>> /\ stack' # <<>> /\ stack'[1] = stack[1]
      BY <1>5, <1>6, <2>2 DEF n
    <3> QED
      BY <1>1, <1>2, <3>1 DEF Rooted
  <2> QED
    BY <2>1, <2>2
<1>12. Closed' /\ Layered'
  BY <1>1, <1>2 DEF Closed, Layered, HasSink, Imports
<1> QED
  BY <1>1, <1>8, <1>9, <1>10, <1>11, <1>12 DEF IInv, AcceptedIsAcyclic, CycleIsReal

\* The n outermost calls stay as they are but for the n-th, which has loaded the
\* import it was looking at.
LEMMA CallAdvances ==
    ASSUME TypeOK, StackIsPath, FramesRead, Rooted,
           outcome = "loading", outcome' = "loading", UNCHANGED <<checking, src>>,
           NEW n \in 1..Len(stack), stack' \in Seq(Frames), Len(stack') = n,
           \A k \in 1..n : stack'[k].file = stack[k].file,
           \A k \in 1..(n - 1) : stack'[k].next = stack[k].next,
           stack'[n].next = stack[n].next + 1,
           loaded \subseteq loaded',
           stack[n].next \in 1..Len(src[stack[n].file].local) =>
               src[stack[n].file].local[stack[n].next] \in loaded',
           in_progress' = {stack[k].file : k \in (Floor + 1)..n},
           in_progress' \intersect loaded' = {},
           checking => Entry \notin loaded'
    PROVE  StackIsPath' /\ FramesRead' /\ Rooted'
<1>1. n \in Nat \ {0} /\ Len(stack) \in Nat /\ n <= Len(stack)
      /\ Floor \in {0, 1} /\ Floor' = Floor
  BY DEF Floor, TypeOK
<1>2. StackIsPath'
  <2>1. in_progress' = {stack'[k].file : k \in (Floor + 1)..n}
    <3>1. \A k \in (Floor + 1)..n : stack'[k].file = stack[k].file
      BY <1>1
    <3> QED
      BY <3>1
  <2>2. ASSUME NEW j \in (Floor + 1)..n, NEW k \in (Floor + 1)..n,
               stack'[j].file = stack'[k].file
        PROVE  j = k
    <3>1. stack[j].file = stack[k].file
          /\ j \in (Floor + 1)..Len(stack) /\ k \in (Floor + 1)..Len(stack)
      BY <1>1, <2>2
    <3> QED
      BY <3>1 DEF StackIsPath
  <2>3. ASSUME NEW k \in 1..(n - 1)
        PROVE  /\ stack'[k].next <= Len(src[stack'[k].file].local)
               /\ stack'[k + 1].file = src[stack'[k].file].local[stack'[k].next]
    <3>1. k \in 1..(Len(stack) - 1) /\ k \in 1..n /\ k + 1 \in 1..n
      BY <1>1
    <3>2. /\ stack[k].next <= Len(src[stack[k].file].local)
          /\ stack[k + 1].file = src[stack[k].file].local[stack[k].next]
      BY <3>1 DEF StackIsPath
    <3> QED
      BY <3>1, <3>2
  <2> QED
    BY <1>1, <2>1, <2>2, <2>3 DEF StackIsPath
<1>3. FramesRead'
  <2> SUFFICES ASSUME NEW k \in 1..n
               PROVE  /\ src[stack'[k].file].state = "ok"
                      /\ \A i \in 1..Len(src[stack'[k].file].local) :
                            i < stack'[k].next =>
                                src[stack'[k].file].local[i] \in loaded'
    BY DEF FramesRead
  <2>1. k \in 1..Len(stack) /\ stack'[k].file = stack[k].file
        /\ stack[k] \in Frames
    BY <1>1 DEF TypeOK
  <2>2. stack[k].next \in Nat \ {0} /\ stack[k].file \in Files
    BY <2>1 DEF Frames
  <2>3. src[stack[k].file].state = "ok"
        /\ \A i \in 1..Len(src[stack[k].file].local) :
              i < stack[k].next => src[stack[k].file].local[i] \in loaded'
    BY <2>1 DEF FramesRead
  <2>4. CASE k = n
    <3>1. ASSUME NEW i \in 1..Len(src[stack[k].file].local), i < stack[k].next + 1
          PROVE  src[stack[k].file].local[i] \in loaded'
      <4>1. src[stack[k].file].local \in Seq(Files)
        BY <2>2, LocalFiles
      <4>2. i < stack[k].next \/ i = stack[k].next
        BY <2>2, <3>1, <4>1
      <4> QED
        BY <2>3, <2>4, <4>2
    <3> QED
      BY <2>1, <2>3, <2>4, <3>1
  <2>5. CASE k # n
    <3>1. k \in 1..(n - 1)
      BY <1>1, <2>5
    <3> QED
      BY <2>1, <2>3, <3>1
  <2> QED
    BY <2>4, <2>5
<1>4. Rooted'
  <2>1. stack # <<>> /\ stack' # <<>> /\ stack'[1].file = stack[1].file
    BY <1>1
  <2> QED
    BY <2>1 DEF Rooted
<1> QED
  BY <1>2, <1>3, <1>4

\* A file that is loaded already leaves the caller one import further.
LEMMA AlreadyLoadedInv == ASSUME IInv, AlreadyLoaded PROVE IInv'
<1> DEFINE n == Len(stack)
<1>1. /\ Calling /\ Callee \in loaded /\ Callee \notin in_progress
      /\ stack' = [stack EXCEPT ![n] = Merged(@, <<>>, {})]
      /\ outcome = "loading" /\ outcome' = "loading"
      /\ UNCHANGED <<checking, src, in_progress, loaded, outcome>>
  BY DEF AlreadyLoaded, Calling
<1>2. TypeOK /\ StackIsPath /\ FramesRead /\ Closed /\ Layered /\ Rooted
  BY <1>1 DEF IInv
<1>3. stack # <<>> /\ stack \in Seq(Frames) /\ n \in 1..Len(stack)
  BY <1>1, <1>2 DEF Rooted, TypeOK
<1>4. Callee = src[stack[n].file].local[stack[n].next]
  BY <1>1, <1>2, <1>3, CalleeType DEF Top
<1> DEFINE m == Merged(stack[n], <<>>, {})
<1>5. m \in Frames /\ m.file = stack[n].file /\ m.next = stack[n].next + 1
  <2>1. <<>> \in Seq(Files) /\ {} \in SUBSET Stdlib /\ stack[n] \in Frames
    BY <1>3
  <2> QED
    BY <2>1, MergedFrame
<1>6. /\ stack' \in Seq(Frames) /\ Len(stack') = n
      /\ \A k \in 1..n : stack'[k].file = stack[k].file
      /\ \A k \in 1..(n - 1) : stack'[k].next = stack[k].next
      /\ stack'[n].next = stack[n].next + 1
  <2>1. stack' = [stack EXCEPT ![n] = m]
    BY <1>1
  <2> HIDE DEF m
  <2> QED
    BY <1>3, <1>5, <2>1, MergedStack
<1>7. in_progress' = {stack[k].file : k \in (Floor + 1)..n}
      /\ in_progress' \intersect loaded' = {}
  BY <1>1, <1>2 DEF StackIsPath
<1>8. checking => Entry \notin loaded'
  BY <1>1, <1>2 DEF Rooted
<1> HIDE DEF n
<1>9. StackIsPath' /\ FramesRead' /\ Rooted'
  BY <1>1, <1>2, <1>3, <1>4, <1>6, <1>7, <1>8, CallAdvances
<1>10. TypeOK'
  BY <1>1, <1>2, <1>6 DEF TypeOK
<1>11. Closed'
  BY <1>1, <1>2 DEF Closed, Imports
<1>12. Layered'
  <2>1. loaded' = loaded /\ src' = src
    BY <1>1
  <2> QED
    BY <1>2, <2>1, SameSink DEF Layered
<1> QED
  BY <1>1, <1>9, <1>10, <1>11, <1>12 DEF IInv, AcceptedIsAcyclic, CycleIsReal

\* A finished file is a new layer of what is loaded.
LEMMA Layers ==
    ASSUME Closed, Layered, src' = src, NEW f, f \notin loaded,
           Imports(f) \subseteq loaded, src[f].state = "ok",
           loaded' = loaded \union {f}
    PROVE  Closed' /\ Layered'
<1>1. Closed'
  BY DEF Closed, Imports
<1>2. \A S \in SUBSET (loaded \union {f}) : S # {} => HasSink(S)
  BY LayerAbove DEF Closed, Layered
<1>3. Layered'
  BY <1>2, SameSink DEF Layered
<1> QED
  BY <1>1, <1>3

\* A file that returns leaves the path and is loaded; it cannot be an entry parsed
\* by the caller, whose imports would then be loaded and in progress.
LEMMA ReturnInv == ASSUME IInv, Return PROVE IInv'
<1> DEFINE n == Len(stack) - 1
           s == SubSeq(stack, 1, n)
           m == Merged(stack[n], Top.items, Top.uses)
<1>1. /\ outcome = "loading" /\ outcome' = "loading" /\ Done /\ Len(stack) > 1
      /\ in_progress' = in_progress \ {Top.file}
      /\ loaded' = loaded \union {Top.file}
      /\ UNCHANGED <<checking, src>>
  BY DEF Return
<1>2. TypeOK /\ StackIsPath /\ FramesRead /\ Closed /\ Layered /\ Rooted
  BY <1>1 DEF IInv
<1>3. stack \in Seq(Frames) /\ Len(stack) \in Nat /\ n \in 1..(Len(stack) - 1)
      /\ n + 1 = Len(stack) /\ Top = stack[n + 1]
  BY <1>1, <1>2 DEF TypeOK, Top
<1>4. /\ Top \in Frames /\ Top.file \in Files
      /\ src[Top.file].state = "ok" /\ Imports(Top.file) \subseteq loaded
  BY <1>1, <1>2, DoneIsLoaded
<1>5. m \in Frames /\ m.file = stack[n].file /\ m.next = stack[n].next + 1
  <2>1. Top.items \in Seq(Files) /\ Top.uses \in SUBSET Stdlib
    BY <1>4 DEF Frames
  <2>2. stack[n] \in Frames
    BY <1>3
  <2> QED
    BY <2>1, <2>2, MergedFrame
<1>6. s \in Seq(Frames) /\ Len(s) = n /\ \A k \in 1..n : s[k] = stack[k]
  BY <1>3
<1>7. stack' = [s EXCEPT ![n] = m]
  <2>1. stack' = [s EXCEPT ![n] = Merged(s[n], Top.items, Top.uses)]
    BY DEF Return
  <2>2. s[n] = stack[n]
    BY <1>3, <1>6
  <2> QED
    BY <2>1, <2>2
<1> HIDE DEF s, m
<1>8. /\ stack' \in Seq(Frames) /\ Len(stack') = n
      /\ \A k \in 1..n : stack'[k].file = stack[k].file
      /\ \A k \in 1..(n - 1) : stack'[k].next = stack[k].next
      /\ stack'[n].next = stack[n].next + 1
  <2>1. s # <<>> /\ m.file = s[Len(s)].file /\ m.next = s[Len(s)].next + 1
    BY <1>3, <1>5, <1>6
  <2>2. /\ stack' \in Seq(Frames) /\ Len(stack') = Len(s)
        /\ \A k \in 1..Len(s) : stack'[k].file = s[k].file
        /\ \A k \in 1..(Len(s) - 1) : stack'[k].next = s[k].next
        /\ stack'[Len(s)].next = s[Len(s)].next + 1
    BY <1>5, <1>6, <1>7, <2>1, MergedStack
  <2>3. \A k \in 1..(n - 1) : k \in 1..n
    BY <1>3
  <2> QED
    BY <1>3, <1>6, <2>2, <2>3
<1>9. Floor \in {0, 1} /\ Floor <= n
  BY <1>3 DEF Floor
<1> HIDE DEF n
<1>10. /\ in_progress = {stack[k].file : k \in (Floor + 1)..(n + 1)}
       /\ \A j, k \in (Floor + 1)..(n + 1) : stack[j].file = stack[k].file => j = k
       /\ in_progress \intersect loaded = {}
       /\ stack[n].next <= Len(src[stack[n].file].local)
       /\ stack[n + 1].file = src[stack[n].file].local[stack[n].next]
  BY <1>1, <1>2, <1>3 DEF StackIsPath
<1>11. (Floor + 1)..(n + 1) = ((Floor + 1)..n) \union {n + 1}
       /\ n + 1 \notin (Floor + 1)..n
  BY <1>3, <1>9
<1>12. in_progress' = {stack[k].file : k \in (Floor + 1)..n}
  <2>1. {stack[k].file : k \in (Floor + 1)..(n + 1)} =
            {stack[k].file : k \in (Floor + 1)..n} \union {stack[n + 1].file}
    BY <1>11
  <2>2. stack[n + 1].file \notin {stack[k].file : k \in (Floor + 1)..n}
    BY <1>10, <1>11
  <2> QED
    BY <1>1, <1>3, <1>10, <2>1, <2>2
<1>13. Top.file \in in_progress /\ Top.file \notin loaded
  BY <1>3, <1>10, <1>11
<1>14. checking => Entry \notin loaded'
  <2> SUFFICES ASSUME checking, Entry = Top.file PROVE FALSE
    BY <1>1, <1>2 DEF Rooted
  <2>1. 1 \in 1..(Len(stack) - 1) /\ stack[1] \in Frames /\ stack # <<>>
    BY <1>3
  <2>2. stack[1].file = Entry
    BY <1>2, <2>1 DEF Rooted
  <2>3. stack[1].next \in Nat \ {0}
    BY <2>1 DEF Frames
  <2>4. /\ stack[1].next <= Len(src[Entry].local)
        /\ stack[2].file = src[Entry].local[stack[1].next]
    BY <1>1, <1>2, <2>1, <2>2 DEF StackIsPath
  <2>5. src[Entry].local \in Seq(Files)
    BY <1>2, LoaderAssumption, LocalFiles
  <2>6. stack[2].file \in Imports(Entry)
    BY <2>3, <2>4, <2>5 DEF Imports
  <2>7. 2 \in (Floor + 1)..(n + 1)
    BY <1>3, <1>9, <2>1
  <2>8. stack[2].file \in in_progress
    BY <1>10, <2>7
  <2> QED
    BY <1>4, <1>10, <2>6, <2>8
<1>15. StackIsPath' /\ FramesRead' /\ Rooted'
  <2>1. n \in 1..Len(stack) /\ loaded \subseteq loaded'
    BY <1>1, <1>3
  <2>2. src[stack[n].file].local[stack[n].next] \in loaded'
    BY <1>1, <1>3, <1>10
  <2>3. in_progress' \intersect loaded' = {}
    BY <1>1, <1>10
  <2> QED
    BY <1>1, <1>2, <1>8, <1>12, <1>14, <2>1, <2>2, <2>3, CallAdvances
<1>16. TypeOK'
  BY <1>1, <1>2, <1>4, <1>8 DEF TypeOK
<1>17. Closed' /\ Layered'
  BY <1>1, <1>2, <1>4, <1>13, Layers
<1> QED
  BY <1>1, <1>15, <1>16, <1>17 DEF IInv, AcceptedIsAcyclic, CycleIsReal

\* The entry is the last layer.
LEMMA FinishInv == ASSUME IInv, Finish PROVE IInv'
<1>1. /\ outcome = "loading" /\ outcome' = "ok" /\ Done /\ Len(stack) = 1
      /\ UNCHANGED <<checking, src, stack>>
      /\ loaded' = loaded \/ loaded' = loaded \union {Entry}
      /\ in_progress' \subseteq in_progress
  BY DEF Finish
<1>2. TypeOK /\ StackIsPath /\ FramesRead /\ Closed /\ Layered /\ Rooted
  BY <1>1 DEF IInv
<1>3. stack # <<>> /\ Top = stack[1] /\ Top.file = Entry
  BY <1>1, <1>2 DEF Done, Top, Rooted
<1>4. src[Entry].state = "ok" /\ Imports(Entry) \subseteq loaded
  BY <1>1, <1>2, <1>3, DoneIsLoaded
<1>5. Entry \notin loaded
  <2>1. CASE checking
    BY <1>2, <2>1 DEF Rooted
  <2>2. CASE ~checking
    <3>1. 1 \in (Floor + 1)..Len(stack)
      BY <1>1, <2>2 DEF Floor
    <3>2. stack[1].file \in in_progress /\ in_progress \intersect loaded = {}
      BY <1>1, <1>2, <3>1 DEF StackIsPath
    <3> QED
      BY <1>3, <3>2
  <2> QED
    BY <2>1, <2>2
<1> DEFINE all == loaded \union {Entry}
<1>6. \A f \in all : src[f].state = "ok" /\ Imports(f) \subseteq all
  BY <1>2, <1>4 DEF Closed
<1>7. \A S \in SUBSET all : S # {} => HasSink(S)
  BY <1>2, <1>4, <1>5, LayerAbove DEF Closed, Layered
<1>8. loaded' \union {Entry} = all /\ src' = src
  BY <1>1
<1> HIDE DEF all
<1>9. AcceptedIsAcyclic'
  BY <1>6, <1>7, <1>8 DEF AcceptedIsAcyclic, HasSink, Imports
<1>10. TypeOK'
  BY <1>1, <1>2, LoaderAssumption DEF TypeOK
<1> QED
  BY <1>1, <1>9, <1>10 DEF IInv, StackIsPath, CycleIsReal

LEMMA StutterInv == ASSUME IInv, UNCHANGED vars PROVE IInv'
<1>1. /\ checking' = checking /\ src' = src /\ stack' = stack
      /\ in_progress' = in_progress /\ loaded' = loaded /\ outcome' = outcome
  BY DEF vars
<1>2. TypeOK' /\ StackIsPath'
  BY <1>1 DEF IInv, TypeOK, StackIsPath, Floor
<1>3. outcome = "loading" => FramesRead' /\ Rooted' /\ Closed'
  BY <1>1 DEF IInv, FramesRead, Rooted, Closed, Imports
<1>4. outcome = "loading" => Layered'
  BY <1>1, SameSink DEF IInv, Layered
<1>5. AcceptedIsAcyclic'
  BY <1>1, SameSink DEF IInv, AcceptedIsAcyclic, Imports
<1>6. CycleIsReal'
  BY <1>1 DEF IInv, CycleIsReal, LoopFrom, Imports
<1> QED
  BY <1>1, <1>2, <1>3, <1>4, <1>5, <1>6 DEF IInv

-----------------------------------------------------------------------------

\* The invariant holds of every state the loader can reach (loader.rs,
\* load_recursive and its two callers), whatever the files import.
THEOREM InductiveInvariant == Spec => []IInv
<1>1. ASSUME IInv, [Next]_vars PROVE IInv'
  <2>1. CASE Unreadable
    BY <1>1, <2>1, UnreadableInv
  <2>2. CASE Cycle
    BY <1>1, <2>2, CycleInv
  <2>3. CASE Enter
    BY <1>1, <2>3, EnterInv
  <2>4. CASE AlreadyLoaded
    BY <1>1, <2>4, AlreadyLoadedInv
  <2>5. CASE Return
    BY <1>1, <2>5, ReturnInv
  <2>6. CASE Finish
    BY <1>1, <2>6, FinishInv
  <2>7. CASE UNCHANGED vars
    BY <1>1, <2>7, StutterInv
  <2> QED
    BY <1>1, <2>1, <2>2, <2>3, <2>4, <2>5, <2>6, <2>7 DEF Next
<1> QED
  BY <1>1, InitInv, PTL DEF Spec

\* Every state of the loader is well typed (loader.rs:106-184).
THEOREM TypeCorrect == Spec => []TypeOK
<1>1. IInv => TypeOK
  BY DEF IInv
<1> QED
  BY <1>1, InductiveInvariant, PTL

\* The set of files in progress is the path of calls from the entry, so the
\* recursion is never deeper than there are files (loader.rs:115-126 and 181).
THEOREM PathOfCalls == Spec => []StackIsPath
<1>1. IInv => StackIsPath
  BY DEF IInv
<1> QED
  BY <1>1, InductiveInvariant, PTL

\* What the loader accepts is complete and has no cycle among its imports
\* (docs/language.md section 3.2), a diamond being none.
THEOREM AcceptedImports == Spec => []AcceptedIsAcyclic
<1>1. IInv => AcceptedIsAcyclic
  BY DEF IInv
<1> QED
  BY <1>1, InductiveInvariant, PTL

\* What the loader rejects as a cycle is one (loader.rs:115-117).
THEOREM RejectedCycle == Spec => []CycleIsReal
<1>1. IInv => CycleIsReal
  BY DEF IInv
<1> QED
  BY <1>1, InductiveInvariant, PTL

\* The verdict of the loader is right either way, for every import graph.
THEOREM Verdict == Spec => []VerdictIsRight
<1>1. AcceptedIsAcyclic /\ CycleIsReal => VerdictIsRight
  BY DEF VerdictIsRight
<1> QED
  BY <1>1, AcceptedImports, RejectedCycle, PTL

-----------------------------------------------------------------------------
(* What the recursion builds, step by step with the walk.                  *)

\* The walk is a function of the number of steps.
Walks(sources, u, n) ==
    u = [k \in 0..n |-> IF k = 0 THEN WalkStart ELSE Advance(sources, u[k - 1])]

\* There is one of every length.
LEMMA WalkingExists ==
    ASSUME NEW sources, NEW n \in Nat
    PROVE  Walks(sources, CHOOSE u : Walks(sources, u, n), n)
<1> DEFINE E == {m \in 0..n : \E u : Walks(sources, u, m)}
<1>1. 0 \in E
  <2> DEFINE u == [k \in 0..0 |-> WalkStart]
  <2>1. 0..0 = {0}
    OBVIOUS
  <2>2. u = [k \in 0..0 |-> IF k = 0 THEN WalkStart ELSE Advance(sources, u[k - 1])]
    BY <2>1
  <2>3. Walks(sources, u, 0)
    BY <2>2 DEF Walks
  <2> QED BY <2>3
<1>2. ASSUME NEW m \in 1..n, m - 1 \in E PROVE m \in E
  <2>1. PICK v : Walks(sources, v, m - 1)
    BY <1>2
  <2> DEFINE u == [k \in 0..m |-> IF k = m THEN Advance(sources, v[m - 1]) ELSE v[k]]
  <2>2. ASSUME NEW k \in 0..m
        PROVE  u[k] = IF k = 0 THEN WalkStart ELSE Advance(sources, u[k - 1])
    <3>1. v = [x \in 0..(m - 1) |-> IF x = 0 THEN WalkStart ELSE Advance(sources, v[x - 1])]
      BY <2>1 DEF Walks
    <3>2. CASE k = m
      <4>1. m - 1 \in 0..m /\ m - 1 # m /\ m # 0
        OBVIOUS
      <4>2. u[m] = Advance(sources, v[m - 1]) /\ u[m - 1] = v[m - 1]
        BY <4>1
      <4> QED BY <3>2, <4>1, <4>2
    <3>3. CASE k # m
      <4>1. k \in 0..(m - 1) /\ (k # 0 => k - 1 \in 0..m /\ k - 1 # m)
        BY <3>3
      <4>2. u[k] = v[k] /\ (k # 0 => u[k - 1] = v[k - 1])
        BY <3>3, <4>1
      <4>3. v[k] = IF k = 0 THEN WalkStart ELSE Advance(sources, v[k - 1])
        BY <3>1, <4>1
      <4> QED BY <4>2, <4>3
    <3> QED BY <3>2, <3>3
  <2>3. Walks(sources, u, m)
    <3>1. u = [k \in 0..m |-> u[k]]
      OBVIOUS
    <3> HIDE DEF u
    <3>2. [k \in 0..m |-> u[k]] = [k \in 0..m |-> IF k = 0 THEN WalkStart ELSE Advance(sources, u[k - 1])]
      BY <2>2
    <3> QED BY <3>1, <3>2, Zenon DEF Walks
  <2> HIDE DEF u
  <2> QED BY <2>3
<1>3. n \in E
  <2> HIDE DEF E
  <2> QED BY <1>1, <1>2, CountUp
<1>4. \E u : Walks(sources, u, n)
  BY <1>3
<1> QED BY <1>4, Zenon

\* The walk's states one after the other.
LEMMA WalkedUpTo ==
    ASSUME NEW sources, NEW n \in Nat
    PROVE  \E u : /\ u[0] = WalkStart /\ \A k \in 1..n : u[k] = Advance(sources, u[k - 1])
                  /\ Walk(sources, n) = u[n]
<1> DEFINE f == CHOOSE u : Walks(sources, u, n)
<1>1. Walk(sources, n) = f[n]
  BY DEF Walk, Walks
<1>2. Walks(sources, f, n)
  BY WalkingExists, Zenon
<1> HIDE DEF f
<1>3. 0 \in 0..n /\ \A k \in 1..n : k \in 0..n /\ k # 0
  OBVIOUS
<1>4. f[0] = WalkStart /\ \A k \in 1..n : f[k] = Advance(sources, f[k - 1])
  BY <1>2, <1>3 DEF Walks
<1> QED BY <1>1, <1>4, Zenon

\* Its first state, and the one that follows another.
LEMMA WalkBegins ==
    ASSUME NEW sources
    PROVE  Walk(sources, 0) = WalkStart
<1>1. 0 \in Nat
  OBVIOUS
<1> QED BY <1>1, WalkedUpTo, Zenon

LEMMA WalkGoesOn ==
    ASSUME NEW sources, NEW n \in Nat
    PROVE  Walk(sources, n + 1) = Advance(sources, Walk(sources, n))
<1>1. PICK u : /\ u[0] = WalkStart /\ \A k \in 1..n : u[k] = Advance(sources, u[k - 1])
               /\ Walk(sources, n) = u[n]
  BY WalkedUpTo
<1>2. PICK v : /\ v[0] = WalkStart /\ \A k \in 1..(n + 1) : v[k] = Advance(sources, v[k - 1])
               /\ Walk(sources, n + 1) = v[n + 1]
  BY WalkedUpTo
<1> DEFINE Same == {k \in 0..n : u[k] = v[k]}
<1>3. 0 \in Same
  BY <1>1, <1>2
<1>4. ASSUME NEW k \in 1..n, k - 1 \in Same PROVE k \in Same
  <2>1. k \in 1..(n + 1) /\ k \in 0..n /\ u[k - 1] = v[k - 1]
    BY <1>4
  <2>2. u[k] = Advance(sources, u[k - 1]) /\ v[k] = Advance(sources, v[k - 1])
    BY <1>1, <1>2, <1>4, <2>1
  <2>3. u[k] = v[k]
    BY <2>1, <2>2
  <2> QED BY <2>1, <2>3
<1>5. n \in Same
  <2> HIDE DEF Same
  <2> QED BY <1>3, <1>4, CountUp
<1>6. u[n] = v[n] /\ n + 1 \in 1..(n + 1) /\ (n + 1) - 1 = n
  BY <1>5
<1>7. v[n + 1] = Advance(sources, v[n])
  BY <1>2, <1>6
<1> QED BY <1>1, <1>2, <1>6, <1>7

\* A walk that is complete stays as it is.
LEMMA WalkStays ==
    ASSUME NEW sources, NEW m \in Nat, NEW d \in Nat, Walk(sources, m).todo = <<>>
    PROVE  Walk(sources, m + d) = Walk(sources, m)
<1> DEFINE Same == {k \in 0..d : Walk(sources, m + k) = Walk(sources, m)}
<1>2. 0 \in Same
  <2>1. m + 0 = m /\ 0 \in 0..d
    OBVIOUS
  <2> QED BY <2>1
<1>3. ASSUME NEW k \in 1..d, k - 1 \in Same PROVE k \in Same
  <2>1. m + (k - 1) \in Nat /\ (m + (k - 1)) + 1 = m + k /\ k \in 0..d
    BY <1>3
  <2>2. Walk(sources, m + (k - 1)) = Walk(sources, m)
    BY <1>3, Zenon
  <2> DEFINE j == m + (k - 1)
  <2>3. Walk(sources, j + 1) = Advance(sources, Walk(sources, j))
    BY <2>1, WalkGoesOn
  <2>4. Advance(sources, Walk(sources, m)) = Walk(sources, m)
    BY Zenon DEF Advance
  <2>5. Walk(sources, m + k) = Walk(sources, m)
    BY <2>1, <2>2, <2>3, <2>4
  <2> QED BY <2>1, <2>5, Zenon
<1>4. d \in Same
  <2> HIDE DEF Same
  <2> QED BY <1>2, <1>3, CountUp
<1> QED BY <1>4, Zenon

\* Two walks that are complete have found the same.
LEMMA WalksAgree ==
    ASSUME NEW sources, NEW m \in Nat, NEW n \in Nat,
           Walk(sources, m).todo = <<>>, Walk(sources, n).todo = <<>>
    PROVE  Walk(sources, n) = Walk(sources, m)
<1>1. CASE m <= n
  <2>1. n - m \in Nat /\ m + (n - m) = n
    BY <1>1
  <2>2. Walk(sources, m + (n - m)) = Walk(sources, m)
    BY <2>1, WalkStays
  <2> QED BY <2>1, <2>2
<1>2. CASE n <= m
  <2>1. m - n \in Nat /\ n + (m - n) = m
    BY <1>2
  <2>2. Walk(sources, n + (m - n)) = Walk(sources, n)
    BY <2>1, WalkStays
  <2> QED BY <2>1, <2>2
<1>3. m <= n \/ n <= m
  OBVIOUS
<1> QED BY <1>1, <1>2, <1>3

\* Imports are files.
FilesOf(sources) == \A f \in Files : sources[f].local \in Seq(Files)

\* The imports of a call from one on.
Rest(sources, frame, i) ==
    SubSeq(sources[frame.file].local, i, Len(sources[frame.file].local))

\* The modules of the calls in progress joined from the outermost on, and what is
\* left to look at when the call on top of each has returned.
Glued(sources, s, o, d) ==
    /\ o \in [0..Len(s) -> Seq(Files)] /\ d \in [0..Len(s) -> Seq(Files)]
    /\ o[0] = <<>> /\ d[0] = <<>>
    /\ \A k \in 1..Len(s) : /\ o[k] = o[k - 1] \o s[k].items
                            /\ d[k] = Rest(sources, s[k], s[k].next + 1) \o d[k - 1]

\* The calls in progress have done what the walk has done.
At(sources, s, w) ==
    \E o, d :
        /\ Glued(sources, s, o, d)
        /\ w = [todo |-> Rest(sources, s[Len(s)], s[Len(s)].next) \o d[Len(s) - 1],
                out |-> o[Len(s)]]

\* What is left of a call are files.
LEMMA RestType ==
    ASSUME NEW sources, FilesOf(sources), NEW frame \in Frames, NEW i \in Nat \ {0}
    PROVE  Rest(sources, frame, i) \in Seq(Files)
<1> DEFINE l == sources[frame.file].local
<1>1. l \in Seq(Files)
  BY DEF FilesOf, Frames
<1> HIDE DEF l
<1>2. Len(l) \in Nat /\ \A j \in i..Len(l) : l[j] \in Files
  BY <1>1, LenProperties, ElementOfSeq
<1>3. SubSeq(l, i, Len(l)) \in Seq(Files)
  BY <1>2, SubSeqProperties
<1> QED BY <1>3 DEF Rest, l

\* The m-th call's module follows what is before it, and what is left after it is left.
GluedOn(sources, t, m, before, left) ==
    \E p, e : Glued(sources, t, p, e) /\ p[m] = before \o t[m].items /\ e[m - 1] = left

\* The calls below the m-th stay, and there is a new m-th on top.
LEMMA Glue ==
    ASSUME NEW sources, FilesOf(sources), NEW s \in Seq(Frames), NEW o, NEW d,
           Glued(sources, s, o, d),
           NEW t \in Seq(Frames), NEW m \in Nat \ {0}, Len(t) = m, m - 1 <= Len(s),
           \A k \in 1..(m - 1) : t[k] = s[k]
    PROVE  GluedOn(sources, t, m, o[m - 1], d[m - 1])
<1> DEFINE n == Len(s)
           top == t[m]
           out == o[m - 1] \o top.items
           left == Rest(sources, top, top.next + 1) \o d[m - 1]
           p == [k \in 0..m |-> IF k = m THEN out ELSE o[k]]
           e == [k \in 0..m |-> IF k = m THEN left ELSE d[k]]
<1>1. n \in Nat /\ m - 1 \in 0..n /\ 0..(m - 1) \subseteq 0..n
  BY LenProperties
<1>2. /\ o \in [0..n -> Seq(Files)] /\ d \in [0..n -> Seq(Files)]
      /\ o[0] = <<>> /\ d[0] = <<>>
      /\ \A k \in 1..n : /\ o[k] = o[k - 1] \o s[k].items
                         /\ d[k] = Rest(sources, s[k], s[k].next + 1) \o d[k - 1]
  BY DEF Glued
<1>3. top \in Frames
  BY ElementOfSeq
<1>4. top.items \in Seq(Files) /\ top.next \in Nat \ {0}
  BY <1>3 DEF Frames
<1> HIDE DEF n, top
<1>5. out \in Seq(Files)
  BY <1>1, <1>2, <1>4, ConcatProperties
<1>6. left \in Seq(Files)
  <2>1. Rest(sources, top, top.next + 1) \in Seq(Files)
    BY <1>3, <1>4, RestType
  <2> QED BY <1>1, <1>2, <2>1, ConcatProperties
<1> HIDE DEF out, left
<1>7. p \in [0..m -> Seq(Files)] /\ e \in [0..m -> Seq(Files)]
  <2>1. \A k \in 0..m : k # m => k \in 0..n
    BY <1>1
  <2> QED BY <1>2, <1>5, <1>6, <2>1
<1>8. /\ p[m] = out /\ e[m] = left
      /\ \A k \in 0..(m - 1) : p[k] = o[k] /\ e[k] = d[k]
  OBVIOUS
<1> HIDE DEF p, e
<1>9. p[0] = <<>> /\ e[0] = <<>>
  <2>1. 0 \in 0..(m - 1)
    OBVIOUS
  <2> QED BY <1>2, <1>8, <2>1
<1>10. ASSUME NEW k \in 1..m
       PROVE  /\ p[k] = p[k - 1] \o t[k].items
              /\ e[k] = Rest(sources, t[k], t[k].next + 1) \o e[k - 1]
  <2>1. k - 1 \in 0..(m - 1)
    OBVIOUS
  <2>2. CASE k = m
    BY <1>8, <2>1, <2>2 DEF out, left, top
  <2>3. CASE k # m
    <3>1. k \in 0..(m - 1) /\ k \in 1..(m - 1) /\ k \in 1..n
      BY <1>1, <2>3
    <3>2. p[k] = o[k] /\ p[k - 1] = o[k - 1] /\ e[k] = d[k] /\ e[k - 1] = d[k - 1] /\ t[k] = s[k]
      BY <1>8, <2>1, <3>1
    <3>3. /\ o[k] = o[k - 1] \o s[k].items
          /\ d[k] = Rest(sources, s[k], s[k].next + 1) \o d[k - 1]
      BY <1>2, <3>1
    <3> QED BY <3>2, <3>3
  <2> QED BY <2>2, <2>3
<1>11. Glued(sources, t, p, e)
  BY <1>7, <1>9, <1>10 DEF Glued
<1>12. p[m] = o[m - 1] \o t[m].items /\ e[m - 1] = d[m - 1]
  <2>1. m - 1 \in 0..(m - 1)
    OBVIOUS
  <2> QED BY <1>8, <2>1 DEF out, top
<1> QED BY <1>11, <1>12, Zenon DEF GluedOn

\* What is left of a call that has an import before it: the import, and the rest.
LEMMA RestHead ==
    ASSUME NEW sources, FilesOf(sources), NEW frame \in Frames, NEW r \in Seq(Files),
           frame.next <= Len(sources[frame.file].local)
    PROVE  /\ Rest(sources, frame, frame.next) \o r # <<>>
           /\ Head(Rest(sources, frame, frame.next) \o r)
                  = sources[frame.file].local[frame.next]
           /\ Tail(Rest(sources, frame, frame.next) \o r)
                  = Rest(sources, frame, frame.next + 1) \o r
<1> DEFINE l == sources[frame.file].local
           i == frame.next
           h == SubSeq(l, i, Len(l))
           tl == SubSeq(l, i + 1, Len(l))
<1>1. l \in Seq(Files) /\ i \in Nat \ {0} /\ i <= Len(l)
  BY DEF FilesOf, Frames
<1> HIDE DEF l, i
<1>2. Len(l) \in Nat /\ \A j \in 1..Len(l) : l[j] \in Files
  BY <1>1, LenProperties, ElementOfSeq
<1>3. i \in 1..Len(l) /\ Len(l) \in i..Len(l)
  BY <1>1, <1>2
<1>4. h = <<l[i]>> \o tl
  BY <1>1, <1>3, SubSeqRecursiveFirst
<1>5. tl \in Seq(Files) /\ l[i] \in Files
  <2>1. \A j \in (i + 1)..Len(l) : l[j] \in Files
    BY <1>1, <1>2
  <2> QED BY <1>1, <1>2, <1>3, <2>1, SubSeqProperties
<1> HIDE DEF h, tl
<1>6. <<l[i]>> \in Seq(Files)
  BY <1>5
<1>7. h \o r = <<l[i]>> \o (tl \o r)
  BY <1>4, <1>5, <1>6, ConcatAssociative
<1>8. tl \o r \in Seq(Files)
  BY <1>5, ConcatProperties
<1> DEFINE q == tl \o r
<1>9. q \in Seq(Files)
  BY <1>8
<1> HIDE DEF q
<1>10. <<l[i]>> \o q # <<>> /\ Head(<<l[i]>> \o q) = l[i] /\ Tail(<<l[i]>> \o q) = q
  BY <1>5, <1>6, <1>9
<1>11. h \o r = <<l[i]>> \o q
  BY <1>7 DEF q
<1>12. h \o r # <<>> /\ Head(h \o r) = l[i] /\ Tail(h \o r) = tl \o r
  BY <1>10, <1>11 DEF q
<1> QED BY <1>12 DEF Rest, h, tl, l, i

\* The files a walk has met.
Seen(w) == {w.out[k] : k \in DOMAIN w.out}

\* A call's parts, and how sequences of files are joined.
LEMMA FrameParts ==
    ASSUME NEW frame \in Frames
    PROVE  frame.items \in Seq(Files) /\ frame.next + 1 \in Nat \ {0}
  BY DEF Frames

LEMMA Associates ==
    ASSUME NEW a \in Seq(Files), NEW b \in Seq(Files), NEW c \in Seq(Files)
    PROVE  (a \o b) \o c = a \o (b \o c)
  BY ConcatAssociative

\* A call whose imports have all been looked at has nothing left to do, and one
\* that has looked at none has all of them.
LEMMA RestEnds ==
    ASSUME NEW sources, FilesOf(sources), NEW frame \in Frames
    PROVE  /\ frame.next > Len(sources[frame.file].local) =>
                 Rest(sources, frame, frame.next) = <<>>
           /\ Rest(sources, frame, 1) = sources[frame.file].local
<1> DEFINE l == sources[frame.file].local
           i == frame.next
<1>1. l \in Seq(Files) /\ i \in Nat \ {0}
  BY DEF FilesOf, Frames
<1> HIDE DEF l, i
<1>2. Len(l) \in Nat
  BY <1>1, LenProperties
<1>3. i > Len(l) => SubSeq(l, i, Len(l)) = <<>>
  BY <1>1, <1>2, SubSeqProperties
<1>4. SubSeq(l, 1, Len(l)) = l
  BY <1>1
<1> QED BY <1>3, <1>4 DEF Rest, l, i

\* The call on top looks at f; a call for f that has just read its file.
LooksAt(sources, s, f) ==
    /\ s # <<>> /\ s[Len(s)].next <= Len(sources[s[Len(s)].file].local)
    /\ f = sources[s[Len(s)].file].local[s[Len(s)].next]
Fresh(frame, f) == frame.file = f /\ frame.next = 1 /\ frame.items = <<f>>

\* A call that enters a file the walk has not met is a step of the walk.
LEMMA WalkEnters ==
    ASSUME NEW sources, FilesOf(sources), NEW s \in Seq(Frames), NEW w, At(sources, s, w),
           NEW f \in Files, LooksAt(sources, s, f), f \notin Seen(w),
           NEW new \in Frames, Fresh(new, f)
    PROVE  /\ At(sources, Append(s, new), Advance(sources, w))
           /\ Seen(Advance(sources, w)) = Seen(w) \union {f}
<1> DEFINE n == Len(s)
           top == s[n]
           t == Append(s, new)
<1>0. /\ s # <<>> /\ top.next <= Len(sources[top.file].local)
      /\ f = sources[top.file].local[top.next]
      /\ new.file = f /\ new.next = 1 /\ new.items = <<f>>
  BY DEF LooksAt, Fresh
<1>1. PICK o, d : /\ Glued(sources, s, o, d)
                  /\ w = [todo |-> Rest(sources, s[Len(s)], s[Len(s)].next) \o d[Len(s) - 1],
                          out |-> o[Len(s)]]
  BY DEF At
<1>2. n \in Nat \ {0} /\ top \in Frames
  <2>1. n \in Nat \ {0}
    BY <1>0, EmptySeq
  <2>2. n \in 1..Len(s)
    BY <2>1
  <2> QED BY <2>1, <2>2, ElementOfSeq
<1>3. t \in Seq(Frames) /\ Len(t) = n + 1 /\ t[n + 1] = new /\ \A k \in 1..n : t[k] = s[k]
  BY AppendProperties
<1> HIDE DEF t
<1>4. n + 1 \in Nat \ {0} /\ (n + 1) - 1 = n /\ n <= Len(s)
  BY <1>2
<1> HIDE DEF n, top
<1>5. \E p, e : /\ Glued(sources, t, p, e)
                /\ p[n + 1] = o[(n + 1) - 1] \o t[n + 1].items /\ e[(n + 1) - 1] = d[(n + 1) - 1]
  <2> DEFINE m == n + 1
  <2>1. m \in Nat \ {0} /\ Len(t) = m /\ m - 1 <= Len(s) /\ \A k \in 1..(m - 1) : t[k] = s[k]
    BY <1>3, <1>4
  <2> HIDE DEF m
  <2>2. GluedOn(sources, t, m, o[m - 1], d[m - 1])
    BY <1>1, <1>3, <2>1, Glue
  <2> QED BY <2>2, Zenon DEF m, GluedOn
<1>6. PICK p, e : /\ Glued(sources, t, p, e)
                  /\ p[n + 1] = o[n] \o <<f>> /\ e[n] = d[n]
  BY <1>0, <1>3, <1>4, <1>5
<1>7. /\ o[n] \in Seq(Files) /\ d[n - 1] \in Seq(Files)
      /\ d[n] = Rest(sources, top, top.next + 1) \o d[n - 1]
  <2>1. n \in 0..n /\ n - 1 \in 0..n /\ n \in 1..n
    BY <1>2
  <2> QED BY <1>1, <2>1 DEF Glued, n, top
<1>8. w.todo = Rest(sources, top, top.next) \o d[n - 1] /\ w.out = o[n]
  BY <1>1 DEF n, top
<1>9. w.todo # <<>> /\ Head(w.todo) = f /\ Tail(w.todo) = d[n]
  <2> DEFINE r == d[n - 1]
  <2>1. r \in Seq(Files) /\ w.todo = Rest(sources, top, top.next) \o r
        /\ d[n] = Rest(sources, top, top.next + 1) \o r
    BY <1>7, <1>8
  <2> HIDE DEF r
  <2>2. /\ Rest(sources, top, top.next) \o r # <<>>
        /\ Head(Rest(sources, top, top.next) \o r) = sources[top.file].local[top.next]
        /\ Tail(Rest(sources, top, top.next) \o r) = Rest(sources, top, top.next + 1) \o r
    BY <1>2, <1>0, <2>1, RestHead, Zenon
  <2> QED BY <1>0, <2>1, <2>2, Zenon
<1>10. ~\E k \in DOMAIN w.out : w.out[k] = f
  BY DEF Seen
<1>11. Advance(sources, w) = [todo |-> sources[f].local \o Tail(w.todo), out |-> Append(w.out, f)]
  BY <1>9, <1>10 DEF Advance
<1>12. Append(o[n], f) = o[n] \o <<f>>
  <2> DEFINE q == o[n]
  <2>1. q \in Seq(Files)
    BY <1>7
  <2> HIDE DEF q
  <2>2. Append(q, f) = q \o <<f>>
    BY <2>1, AppendIsConcat
  <2> QED BY <2>2 DEF q
<1>13. Rest(sources, new, new.next) = sources[f].local
  BY <1>0, RestEnds
<1>14. Advance(sources, w) = [todo |-> Rest(sources, t[Len(t)], t[Len(t)].next) \o e[Len(t) - 1],
                              out |-> p[Len(t)]]
  BY <1>3, <1>4, <1>6, <1>8, <1>9, <1>11, <1>12, <1>13
<1>15. At(sources, t, Advance(sources, w))
  BY <1>6, <1>14 DEF At
<1>16. Seen(Advance(sources, w)) = Seen(w) \union {f}
  <2> DEFINE q == w.out
             r == Append(q, f)
  <2>1. q \in Seq(Files)
    BY <1>7, <1>8
  <2>2. Advance(sources, w).out = r
    <3> DEFINE a == Advance(sources, w)
               x == sources[f].local \o Tail(w.todo)
    <3>1. a = [todo |-> x, out |-> r]
      BY <1>11
    <3> HIDE DEF a, x, r
    <3>2. a.out = r
      BY <3>1
    <3> QED BY <3>2 DEF a
  <2> HIDE DEF q
  <2>3. Len(q) \in Nat /\ DOMAIN q = 1..Len(q) /\ DOMAIN r = 1..(Len(q) + 1)
        /\ r[Len(q) + 1] = f /\ \A k \in 1..Len(q) : r[k] = q[k]
    BY <2>1, AppendProperties, LenProperties
  <2> HIDE DEF r
  <2>4. {r[k] : k \in DOMAIN r} = {q[k] : k \in DOMAIN q} \union {f}
    <3> DEFINE m == Len(q)
    <3>1. 1..(m + 1) = (1..m) \union {m + 1}
      BY <2>3
    <3>2. {r[k] : k \in 1..m} = {q[k] : k \in 1..m}
      BY <2>3
    <3> HIDE DEF m
    <3>3. {r[k] : k \in 1..(m + 1)} = {r[k] : k \in 1..m} \union {r[m + 1]}
      BY <3>1
    <3>4. r[m + 1] = f /\ DOMAIN r = 1..(m + 1) /\ DOMAIN q = 1..m
      BY <2>3 DEF m
    <3> QED BY <3>2, <3>3, <3>4
  <2> QED BY <2>2, <2>4 DEF Seen, q
<1> QED BY <1>15, <1>16 DEF t

\* An import the walk has met is one it skips.
LEMMA WalkSkips ==
    ASSUME NEW sources, FilesOf(sources), NEW s \in Seq(Frames), NEW w, At(sources, s, w),
           NEW f \in Seen(w), LooksAt(sources, s, f),
           NEW t \in Seq(Frames), Len(t) = Len(s), \A k \in 1..(Len(s) - 1) : t[k] = s[k],
           t[Len(s)].file = s[Len(s)].file, t[Len(s)].next = s[Len(s)].next + 1,
           t[Len(s)].items = s[Len(s)].items
    PROVE  At(sources, t, Advance(sources, w)) /\ Seen(Advance(sources, w)) = Seen(w)
<1> DEFINE n == Len(s)
           top == s[n]
<1>0. /\ s # <<>> /\ top.next <= Len(sources[top.file].local)
      /\ f = sources[top.file].local[top.next]
  BY DEF LooksAt
<1>1. PICK o, d : /\ Glued(sources, s, o, d)
                  /\ w = [todo |-> Rest(sources, s[Len(s)], s[Len(s)].next) \o d[Len(s) - 1],
                          out |-> o[Len(s)]]
  BY DEF At
<1>2. n \in Nat \ {0} /\ top \in Frames
  <2>1. n \in Nat \ {0}
    BY <1>0, EmptySeq
  <2>2. n \in 1..Len(s)
    BY <2>1
  <2> QED BY <2>1, <2>2, ElementOfSeq
<1>3. Len(t) = n /\ n - 1 <= Len(s) /\ \A k \in 1..(n - 1) : t[k] = s[k]
  BY <1>2
<1> HIDE DEF n
<1>5. PICK p, e : /\ Glued(sources, t, p, e)
                  /\ p[n] = o[n - 1] \o t[n].items /\ e[n - 1] = d[n - 1]
  <2>1. GluedOn(sources, t, n, o[n - 1], d[n - 1])
    BY <1>1, <1>2, <1>3, Glue
  <2> QED BY <2>1, Zenon DEF GluedOn
<1>7. /\ d[n - 1] \in Seq(Files) /\ o[n] = o[n - 1] \o top.items
  <2>1. n - 1 \in 0..n /\ n \in 1..n
    BY <1>2
  <2> QED BY <1>1, <2>1 DEF Glued, n, top
<1> HIDE DEF top
<1>8. w.todo = Rest(sources, top, top.next) \o d[n - 1] /\ w.out = o[n]
  BY <1>1 DEF n, top
<1>9. w.todo # <<>> /\ Head(w.todo) = f /\ Tail(w.todo) = Rest(sources, top, top.next + 1) \o d[n - 1]
  <2> DEFINE r == d[n - 1]
  <2>1. r \in Seq(Files) /\ w.todo = Rest(sources, top, top.next) \o r
    BY <1>7, <1>8
  <2> HIDE DEF r
  <2>2. /\ Rest(sources, top, top.next) \o r # <<>>
        /\ Head(Rest(sources, top, top.next) \o r) = sources[top.file].local[top.next]
        /\ Tail(Rest(sources, top, top.next) \o r) = Rest(sources, top, top.next + 1) \o r
    BY <1>2, <1>0, <2>1, RestHead, Zenon
  <2> QED BY <1>0, <2>1, <2>2, Zenon DEF r
<1>10. \E k \in DOMAIN w.out : w.out[k] = f
  BY DEF Seen, n, top
<1>11. Advance(sources, w) = [todo |-> Tail(w.todo), out |-> w.out]
  BY <1>9, <1>10 DEF Advance
<1>12. Rest(sources, t[n], t[n].next) = Rest(sources, top, top.next + 1)
  BY DEF Rest, n, top
<1>13. p[n] = o[n]
  BY <1>5, <1>7 DEF n, top
<1>14. Advance(sources, w) = [todo |-> Rest(sources, t[Len(t)], t[Len(t)].next) \o e[Len(t) - 1],
                              out |-> p[Len(t)]]
  BY <1>3, <1>5, <1>8, <1>9, <1>11, <1>12, <1>13
<1>15. At(sources, t, Advance(sources, w))
  BY <1>5, <1>14 DEF At
<1> QED BY <1>11, <1>15 DEF Seen

\* A call that returns its module is no step of the walk.
LEMMA WalkReturns ==
    ASSUME NEW sources, FilesOf(sources), NEW s \in Seq(Frames), Len(s) > 1,
           NEW w, At(sources, s, w),
           s[Len(s)].next > Len(sources[s[Len(s)].file].local),
           NEW t \in Seq(Frames), Len(t) = Len(s) - 1, \A k \in 1..(Len(s) - 2) : t[k] = s[k],
           t[Len(s) - 1].file = s[Len(s) - 1].file,
           t[Len(s) - 1].next = s[Len(s) - 1].next + 1,
           t[Len(s) - 1].items = s[Len(s) - 1].items \o s[Len(s)].items
    PROVE  At(sources, t, w)
<1> DEFINE n == Len(s)
           m == n - 1
           top == s[n]
           back == s[m]
<1>1. PICK o, d : /\ Glued(sources, s, o, d)
                  /\ w = [todo |-> Rest(sources, s[Len(s)], s[Len(s)].next) \o d[Len(s) - 1],
                          out |-> o[Len(s)]]
  BY DEF At
<1>2. n \in Nat /\ m \in Nat \ {0} /\ top \in Frames /\ back \in Frames
  BY LenProperties, ElementOfSeq
<1>3. Len(t) = m /\ m - 1 <= Len(s) /\ \A k \in 1..(m - 1) : t[k] = s[k]
  BY <1>2
<1>4. m \in 1..n /\ n \in 1..n /\ n - 1 = m /\ m - 1 \in 0..n
  BY <1>2
<1>5. /\ o[n] = o[m] \o top.items /\ o[m] = o[m - 1] \o back.items
      /\ d[m] = Rest(sources, back, back.next + 1) \o d[m - 1]
      /\ o[m - 1] \in Seq(Files) /\ d[m - 1] \in Seq(Files)
  BY <1>1, <1>4 DEF Glued
<1>6. back.items \in Seq(Files) /\ top.items \in Seq(Files) /\ back.next + 1 \in Nat \ {0}
  <2> HIDE DEF top, back
  <2> QED BY <1>2, FrameParts
<1>8. Rest(sources, top, top.next) = <<>>
  BY <1>2, RestEnds
<1>9. t[m].items = back.items \o top.items
  OBVIOUS
<1> HIDE DEF m
<1>7. PICK p, e : /\ Glued(sources, t, p, e)
                  /\ p[m] = o[m - 1] \o t[m].items /\ e[m - 1] = d[m - 1]
  <2>1. GluedOn(sources, t, m, o[m - 1], d[m - 1])
    BY <1>1, <1>2, <1>3, Glue
  <2> QED BY <2>1, Zenon DEF GluedOn
<1> HIDE DEF top, back
<1>10. p[m] = o[n]
  <2> DEFINE a == o[m - 1]
             b == back.items
             c == top.items
  <2>1. a \in Seq(Files) /\ b \in Seq(Files) /\ c \in Seq(Files)
    BY <1>5, <1>6
  <2>2. o[n] = (a \o b) \o c /\ p[m] = a \o (b \o c)
    BY <1>5, <1>7, <1>9
  <2> HIDE DEF a, b, c
  <2>3. (a \o b) \o c = a \o (b \o c)
    BY <2>1, Associates
  <2> QED BY <2>2, <2>3
<1>11. Rest(sources, t[m], t[m].next) = Rest(sources, back, back.next + 1)
  BY DEF Rest, m, back
<1>12. Rest(sources, back, back.next + 1) \in Seq(Files)
  BY <1>2, <1>6, RestType
<1>13. <<>> \o d[m] = d[m]
  <2>1. d[m] \in Seq(Files)
    BY <1>5, <1>12, ConcatProperties
  <2> QED BY <2>1, ConcatEmptySeq
<1>14. w.todo = d[m] /\ w.out = o[n]
  <2>1. w.todo = Rest(sources, top, top.next) \o d[m] /\ w.out = o[n]
    BY <1>1 DEF top, m
  <2> QED BY <1>8, <1>13, <2>1
<1>15. w = [todo |-> w.todo, out |-> w.out]
  BY <1>1
<1>16. w = [todo |-> Rest(sources, t[Len(t)], t[Len(t)].next) \o e[Len(t) - 1],
            out |-> p[Len(t)]]
  BY <1>3, <1>5, <1>7, <1>10, <1>11, <1>14, <1>15
<1> QED BY <1>7, <1>16 DEF At

\* The first call is the first step of the walk.
LEMMA WalkFirst ==
    ASSUME NEW sources, FilesOf(sources),
           NEW new \in Frames, new.file = Entry, new.next = 1, new.items = <<Entry>>
    PROVE  At(sources, <<new>>, Walk(sources, 1)) /\ Seen(Walk(sources, 1)) = {Entry}
<1> DEFINE t == <<new>>
           o == [k \in 0..0 |-> <<>>]
<1>1. t \in Seq(Frames) /\ Len(t) = 1 /\ t[1] = new
  OBVIOUS
<1>2. Glued(sources, <<>>, o, o)
  <2>1. Len(<<>>) = 0 /\ 1..0 = {} /\ 0 \in 0..0
    OBVIOUS
  <2>2. <<>> \in Seq(Files)
    OBVIOUS
  <2>3. o[0] = <<>> /\ o \in [0..0 -> Seq(Files)]
    BY <2>1, <2>2
  <2> HIDE DEF o
  <2> QED BY <2>1, <2>3 DEF Glued
<1>3. o[0] = <<>>
  OBVIOUS
<1> HIDE DEF t, o
<1>4. PICK p, e : /\ Glued(sources, t, p, e)
                  /\ p[1] = o[0] \o t[1].items /\ e[0] = o[0]
  <2> DEFINE s == <<>>
             m == 1
  <2>1. s \in Seq(Frames) /\ m \in Nat \ {0} /\ m - 1 <= Len(s) /\ m - 1 = 0 /\ Len(t) = m
    BY <1>1
  <2>2. \A k \in 1..(m - 1) : t[k] = s[k]
    BY <2>1
  <2>3. Glued(sources, s, o, o)
    BY <1>2
  <2> HIDE DEF s, m
  <2>3a. GluedOn(sources, t, m, o[m - 1], o[m - 1])
    BY <1>1, <2>1, <2>2, <2>3, Glue
  <2>4. \E p, e : Glued(sources, t, p, e) /\ p[m] = o[m - 1] \o t[m].items /\ e[m - 1] = o[m - 1]
    BY <2>3a, Zenon DEF GluedOn
  <2>5. m = 1 /\ m - 1 = 0
    BY DEF m
  <2> QED BY <2>4, <2>5, Zenon
<1>5. p[1] = <<>> \o <<Entry>> /\ e[0] = <<>>
  BY <1>1, <1>3, <1>4, Zenon
<1>6. Walk(sources, 1) = Advance(sources, WalkStart)
  <2>1. 0 \in Nat /\ 0 + 1 = 1
    OBVIOUS
  <2>2. Walk(sources, 0 + 1) = Advance(sources, Walk(sources, 0))
    BY <2>1, WalkGoesOn
  <2> QED BY <2>1, <2>2, WalkBegins
<1>7. WalkStart.todo = <<Entry>> /\ WalkStart.out = <<>>
  BY DEF WalkStart
<1>8. Walk(sources, 1) = [todo |-> sources[Entry].local \o Tail(<<Entry>>), out |-> Append(<<>>, Entry)]
  <2>1. <<Entry>> # <<>> /\ Head(<<Entry>>) = Entry /\ DOMAIN <<>> = {}
    BY LoaderAssumption
  <2> QED BY <1>6, <1>7, <2>1 DEF Advance
<1>9. Tail(<<Entry>>) = <<>> /\ Append(<<>>, Entry) = <<Entry>> /\ <<>> \o <<Entry>> = <<Entry>>
  BY LoaderAssumption
<1>10. Rest(sources, new, new.next) = sources[Entry].local
  BY RestEnds
<1>11. Walk(sources, 1) = [todo |-> Rest(sources, t[Len(t)], t[Len(t)].next) \o e[Len(t) - 1],
                           out |-> p[Len(t)]]
  <2>1. t[Len(t)] = new /\ Len(t) - 1 = 0 /\ p[Len(t)] = p[1] /\ e[Len(t) - 1] = <<>>
    BY <1>1, <1>5
  <2>2. Rest(sources, t[Len(t)], t[Len(t)].next) = sources[Entry].local
    BY <1>10, <2>1, Zenon
  <2> QED BY <1>5, <1>8, <1>9, <2>1, <2>2, Zenon
<1>12. Seen(Walk(sources, 1)) = {Entry}
  <2>1. Walk(sources, 1).out = <<Entry>>
    BY <1>8, <1>9
  <2>2. {<<Entry>>[k] : k \in DOMAIN <<Entry>>} = {Entry}
    OBVIOUS
  <2> QED BY <2>1, <2>2 DEF Seen
<1> QED BY <1>4, <1>11, <1>12 DEF At, t

\* The files the loader has met, the names they use, and the names gathered so far.
Met == loaded \union {stack[k].file : k \in 1..Len(stack)}
UsedBy(S) == UNION {src[f].uses : f \in S}
Gathered == UNION {stack[k].uses : k \in 1..Len(stack)}

\* An entry that was parsed by the caller and that is loaded again, as an import
\* of what it imports, is a cycle that is about to be found.
Doomed == checking /\ Entry \in in_progress

\* The calls have built what the walk has after some number of steps.
Simulated ==
    /\ outcome = "loading" /\ stack # <<>> /\ ~Doomed =>
          \E n \in Nat : At(src, stack, Walk(src, n)) /\ Seen(Walk(src, n)) = Met
    /\ outcome = "ok" =>
          \E n \in Nat : Walk(src, n) = [todo |-> <<>>, out |-> stack[1].items]

\* The names in scope are those of every file met.
UsesGathered ==
    /\ outcome = "loading" => Gathered = UsedBy(Met)
    /\ outcome = "ok" => stack[1].uses = UsedBy(loaded \union {Entry})

\* The part of the type that the walk needs.
SourcesOnDisk == src \in [Files -> Sources]

\* Then every import is a file.
LEMMA LocalSources == ASSUME SourcesOnDisk PROVE FilesOf(src)
<1> SUFFICES ASSUME NEW f \in Files PROVE src[f].local \in Seq(Files)
  BY DEF FilesOf
<1>1. src[f] \in SourceType
  BY LoaderAssumption DEF SourcesOnDisk
<1> QED BY <1>1 DEF SourceType

\* A single call that has just read its file is one step of the walk.
LEMMA OneCall ==
    ASSUME SourcesOnDisk, Frame(Entry) \in Frames, stack = <<Frame(Entry)>>, loaded = {}
    PROVE  /\ \E n \in Nat : At(src, stack, Walk(src, n)) /\ Seen(Walk(src, n)) = Met
           /\ Gathered = UsedBy(Met)
<1> DEFINE new == Frame(Entry)
<1>1. new \in Frames /\ new.file = Entry /\ new.next = 1 /\ new.items = <<Entry>>
      /\ new.uses = src[Entry].uses
  BY DEF Frame
<1> HIDE DEF new
<1>2. At(src, <<new>>, Walk(src, 1)) /\ Seen(Walk(src, 1)) = {Entry}
  BY <1>1, LocalSources, WalkFirst
<1>3. stack = <<new>> /\ Len(stack) = 1 /\ stack[1] = new /\ 1..Len(stack) = {1}
  BY DEF new
<1>4. Met = {Entry}
  BY <1>1, <1>3 DEF Met
<1>5. 1 \in Nat /\ At(src, stack, Walk(src, 1)) /\ Seen(Walk(src, 1)) = Met
  BY <1>2, <1>3, <1>4
<1>6. Gathered = UsedBy(Met)
  BY <1>1, <1>3, <1>4 DEF Gathered, UsedBy
<1> QED BY <1>5, <1>6

\* The loader starts where the walk does, or one step further with a parsed entry.
LEMMA SimulatedAtFirst == ASSUME Init PROVE Simulated /\ UsesGathered
<1>1. SourcesOnDisk /\ outcome = "loading" /\ loaded = {}
  BY DEF Init, SourcesOnDisk
<1>2. CASE checking
  <2>1. stack = <<Frame(Entry)>>
    BY <1>2 DEF Init
  <2>2. IInv
    BY InitInv
  <2>3. Frame(Entry) \in Frames
    BY <2>2, LoaderAssumption, FrameType DEF IInv
  <2> QED BY <1>1, <2>1, <2>3, OneCall DEF Simulated, UsesGathered
<1>3. CASE ~checking
  <2>1. stack = <<>> /\ Len(stack) = 0 /\ 1..Len(stack) = {}
    BY <1>3 DEF Init
  <2>2. Met = {} /\ Gathered = {}
    BY <1>1, <2>1 DEF Met, Gathered
  <2> QED BY <1>1, <2>1, <2>2 DEF Simulated, UsesGathered, UsedBy
<1> QED BY <1>2, <1>3

\* The walk has met the files of the loader's set and of its calls.
LEMMA CalleeIsNew ==
    ASSUME TypeOK, StackIsPath, Rooted, outcome = "loading", stack # <<>>,
           NEW f, f \notin in_progress, f \notin loaded, ~(checking /\ f = Entry)
    PROVE  f \notin Met
<1> SUFFICES ASSUME NEW k \in 1..Len(stack), stack[k].file = f PROVE FALSE
  BY DEF Met
<1>1. CASE k \in (Floor + 1)..Len(stack)
  BY <1>1 DEF StackIsPath
<1>2. CASE k \notin (Floor + 1)..Len(stack)
  <2>1. Len(stack) \in Nat
    BY LenProperties DEF TypeOK
  <2>2. checking /\ k = 1
    BY <1>2, <2>1 DEF Floor
  <2> QED BY <2>2 DEF Rooted
<1> QED BY <1>1, <1>2

\* Entering a file, skipping one that is loaded: a step of the walk each.
LEMMA EnterSimulated ==
    ASSUME IInv, Simulated, UsesGathered, Enter PROVE Simulated' /\ UsesGathered'
<1> DEFINE new == Frame(Callee)
           n == Len(stack)
<1>1. /\ Calling /\ Callee \notin in_progress /\ Callee \notin loaded
      /\ stack' = Append(stack, new) /\ in_progress' = in_progress \union {Callee}
      /\ outcome = "loading" /\ outcome' = "loading" /\ checking' = checking
      /\ src' = src /\ loaded' = loaded
  BY DEF Enter, Calling
<1>2. TypeOK /\ StackIsPath /\ Rooted /\ Gathered = UsedBy(Met)
  BY <1>1 DEF IInv, UsesGathered
<1>3. /\ Callee \in Files
      /\ stack # <<>> => /\ Top.next <= Len(src[Top.file].local)
                         /\ Callee = src[Top.file].local[Top.next]
  <2>1. Len(src[Top.file].local) \in Int \/ Len(src[Top.file].local) \notin Int
    OBVIOUS
  <2> QED BY <1>1, <1>2, CalleeType
<1>4. new \in Frames /\ new.file = Callee /\ new.next = 1
  BY <1>2, <1>3, FrameType
<1>5. new.items = <<Callee>> /\ new.uses = src[Callee].uses
  BY DEF Frame
<1> HIDE DEF new
<1>6. stack \in Seq(Frames) /\ n \in Nat
  BY <1>2, LenProperties DEF TypeOK
<1>7. Len(stack') = n + 1 /\ stack'[n + 1] = new /\ \A k \in 1..n : stack'[k] = stack[k]
  BY <1>1, <1>4, <1>6, AppendProperties
<1>8. 1..(n + 1) = (1..n) \union {n + 1}
  BY <1>6
<1> HIDE DEF n
<1>9. Met' = Met \union {Callee}
  BY <1>1, <1>4, <1>7, <1>8 DEF Met, n
<1>10. UsesGathered'
  <2>1. Gathered' = Gathered \union src[Callee].uses
    BY <1>5, <1>7, <1>8 DEF Gathered, n
  <2>2. UsedBy(Met)' = UsedBy(Met) \union src[Callee].uses
    BY <1>1, <1>9 DEF UsedBy
  <2> QED BY <1>1, <1>2, <2>1, <2>2 DEF UsesGathered
<1>11. Simulated'
  <2> SUFFICES ASSUME ~Doomed'
               PROVE  \E j \in Nat : /\ At(src', stack', Walk(src', j))
                                     /\ Seen(Walk(src', j)) = Met'
    BY <1>1 DEF Simulated
  <2>1. ~Doomed /\ ~(checking /\ Callee = Entry)
    BY <1>1 DEF Doomed
  <2>2. CASE stack = <<>>
    <3>1. Callee = Entry /\ loaded = {} /\ ~checking
      BY <1>2, <2>2 DEF Callee, Rooted
    <3>2. stack' = <<new>>
      BY <1>1, <2>2
    <3>3. At(src, <<new>>, Walk(src, 1)) /\ Seen(Walk(src, 1)) = {Entry}
      <4>1. FilesOf(src)
        BY <1>2, LocalSources DEF TypeOK, SourcesOnDisk
      <4> QED BY <1>4, <1>5, <3>1, <4>1, WalkFirst
    <3>4. Met = {}
      <4>1. 1..Len(stack) = {}
        BY <2>2
      <4> QED BY <3>1, <4>1 DEF Met
    <3>5. 1 \in Nat
      OBVIOUS
    <3> QED BY <1>1, <1>9, <3>1, <3>2, <3>3, <3>4, <3>5
  <2>3. CASE stack # <<>>
    <3>1. PICK j \in Nat : At(src, stack, Walk(src, j)) /\ Seen(Walk(src, j)) = Met
      BY <1>1, <2>1, <2>3 DEF Simulated
    <3>2. Callee \notin Met
      BY <1>1, <1>2, <2>1, <2>3, CalleeIsNew
    <3>3. FilesOf(src)
      BY <1>2, LocalSources DEF TypeOK, SourcesOnDisk
    <3>4. /\ stack[Len(stack)].next <= Len(src[stack[Len(stack)].file].local)
          /\ Callee = src[stack[Len(stack)].file].local[stack[Len(stack)].next]
      BY <1>3, <2>3 DEF Top
    <3> DEFINE w == Walk(src, j)
    <3>5. At(src, stack, w) /\ Seen(w) = Met /\ Callee \notin Seen(w)
      BY <3>1, <3>2
    <3> HIDE DEF w
    <3> DEFINE f == Callee
    <3>6a. f \in Files /\ f \notin Seen(w) /\ LooksAt(src, stack, f) /\ Fresh(new, f)
      BY <1>3, <1>4, <1>5, <2>3, <3>4, <3>5 DEF LooksAt, Fresh
    <3> HIDE DEF f
    <3>6b. /\ At(src, Append(stack, new), Advance(src, w))
           /\ Seen(Advance(src, w)) = Seen(w) \union {f}
      BY <1>4, <1>6, <3>3, <3>5, <3>6a, WalkEnters
    <3>6. /\ At(src, Append(stack, new), Advance(src, w))
          /\ Seen(Advance(src, w)) = Seen(w) \union {Callee}
      BY <3>6b DEF f
    <3>7. Walk(src, j + 1) = Advance(src, w) /\ j + 1 \in Nat
      BY <3>1, WalkGoesOn DEF w
    <3>8. At(src, stack', Walk(src, j + 1)) /\ Seen(Walk(src, j + 1)) = Met'
      BY <1>1, <1>9, <3>5, <3>6, <3>7
    <3> QED BY <1>1, <3>7, <3>8
  <2> QED BY <2>2, <2>3
<1> QED BY <1>10, <1>11

LEMMA AlreadyLoadedSimulated ==
    ASSUME IInv, Simulated, UsesGathered, AlreadyLoaded PROVE Simulated' /\ UsesGathered'
<1> DEFINE n == Len(stack)
           m == Merged(stack[n], <<>>, {})
<1>1. /\ Calling /\ Callee \in loaded /\ Callee \notin in_progress
      /\ stack' = [stack EXCEPT ![n] = m]
      /\ outcome = "loading" /\ outcome' = "loading"
      /\ checking' = checking /\ src' = src /\ in_progress' = in_progress /\ loaded' = loaded
  BY DEF AlreadyLoaded, Calling
<1>2. TypeOK /\ StackIsPath /\ Rooted /\ Gathered = UsedBy(Met)
  BY <1>1 DEF IInv, UsesGathered
<1>3. stack # <<>> /\ stack \in Seq(Frames) /\ n \in 1..n
  <2>1. stack # <<>> /\ stack \in Seq(Frames)
    BY <1>1, <1>2 DEF Rooted, TypeOK
  <2>2. n \in Nat \ {0}
    BY <2>1, EmptySeq
  <2> QED BY <2>1, <2>2
<1>4. /\ Callee \in Files /\ stack[n].next <= Len(src[stack[n].file].local)
      /\ Callee = src[stack[n].file].local[stack[n].next]
  BY <1>1, <1>2, <1>3, CalleeType DEF Top
<1>5. stack[n] \in Frames
  BY <1>3, ElementOfSeq
<1>6. m \in Frames /\ m.file = stack[n].file /\ m.next = stack[n].next + 1
      /\ m.items = stack[n].items /\ m.uses = stack[n].uses
  <2>1. <<>> \in Seq(Files) /\ {} \in SUBSET Stdlib
    OBVIOUS
  <2>2. m \in Frames /\ m.file = stack[n].file /\ m.next = stack[n].next + 1
    BY <1>5, <2>1, MergedFrame
  <2> DEFINE items == stack[n].items
  <2>3. items \in Seq(Files)
    BY <1>5 DEF Frames
  <2> HIDE DEF items
  <2>4. items \o <<>> = items
    BY <2>3, ConcatEmptySeq
  <2>5. m.items = items \o <<>> /\ m.uses = stack[n].uses
    BY DEF Merged, items
  <2> QED BY <2>2, <2>4, <2>5 DEF items
<1> HIDE DEF m
<1>7. stack' \in Seq(Frames) /\ Len(stack') = n /\ stack'[n] = m
      /\ \A k \in 1..n : k # n => stack'[k] = stack[k]
  BY <1>1, <1>3, <1>6
<1> HIDE DEF n
<1>8. \A k \in 1..n : stack'[k].file = stack[k].file /\ stack'[k].uses = stack[k].uses
  BY <1>6, <1>7
<1>9. Met' = Met
  BY <1>1, <1>7, <1>8 DEF Met, n
<1>10. UsesGathered'
  <2>1. Gathered' = Gathered
    BY <1>7, <1>8 DEF Gathered, n
  <2>2. UsedBy(Met)' = UsedBy(Met)
    BY <1>1, <1>9 DEF UsedBy
  <2> QED BY <1>1, <1>2, <2>1, <2>2 DEF UsesGathered
<1>11. Simulated'
  <2> SUFFICES ASSUME ~Doomed
               PROVE  \E j \in Nat : /\ At(src', stack', Walk(src', j))
                                     /\ Seen(Walk(src', j)) = Met'
    BY <1>1 DEF Simulated, Doomed
  <2>1. PICK j \in Nat : At(src, stack, Walk(src, j)) /\ Seen(Walk(src, j)) = Met
    BY <1>1, <1>3 DEF Simulated
  <2>2. FilesOf(src)
    BY <1>2, LocalSources DEF TypeOK, SourcesOnDisk
  <2> DEFINE w == Walk(src, j)
             t == stack'
  <2>3. At(src, stack, w) /\ Seen(w) = Met
    BY <2>1
  <2> HIDE DEF w
  <2> DEFINE f == Callee
  <2>4. f \in Seen(w) /\ LooksAt(src, stack, f)
    BY <1>1, <1>3, <1>4, <2>3 DEF Met, n, LooksAt
  <2>5. /\ t \in Seq(Frames) /\ Len(t) = Len(stack)
        /\ \A k \in 1..(Len(stack) - 1) : t[k] = stack[k]
    <3>1. \A k \in 1..(n - 1) : k \in 1..n /\ k # n
      BY <1>3
    <3> QED BY <1>7, <3>1 DEF n
  <2>6. /\ t[Len(stack)].file = stack[Len(stack)].file
        /\ t[Len(stack)].next = stack[Len(stack)].next + 1
        /\ t[Len(stack)].items = stack[Len(stack)].items
    BY <1>6, <1>7 DEF n
  <2> HIDE DEF t, f
  <2>8. At(src, t, Advance(src, w)) /\ Seen(Advance(src, w)) = Seen(w)
    BY <1>3, <2>2, <2>3, <2>4, <2>5, <2>6, WalkSkips
  <2>9. Walk(src, j + 1) = Advance(src, w) /\ j + 1 \in Nat
    BY <2>1, WalkGoesOn DEF w
  <2>10. At(src, stack', Walk(src, j + 1)) /\ Seen(Walk(src, j + 1)) = Met'
    BY <1>9, <2>3, <2>8, <2>9 DEF t
  <2> QED BY <1>1, <2>9, <2>10
<1> QED BY <1>10, <1>11

\* Returning a module is none, and a parsed entry that was entered again never does.
LEMMA ReturnSimulated ==
    ASSUME IInv, IInv', Simulated, UsesGathered, Return PROVE Simulated' /\ UsesGathered'
<1> DEFINE z == Len(stack)
           n == Len(stack) - 1
           s == SubSeq(stack, 1, n)
           m == Merged(stack[n], Top.items, Top.uses)
<1>1. /\ outcome = "loading" /\ outcome' = "loading" /\ Done /\ z > 1
      /\ in_progress' = in_progress \ {Top.file}
      /\ loaded' = loaded \union {Top.file}
      /\ checking' = checking /\ src' = src
  BY DEF Return
<1>2. TypeOK /\ StackIsPath /\ Rooted /\ Rooted' /\ Gathered = UsedBy(Met)
  BY <1>1 DEF IInv, UsesGathered
<1>3. stack \in Seq(Frames) /\ z \in Nat /\ n \in 1..n /\ z = n + 1 /\ n \in 1..z /\ z \in 1..z
      /\ Top = stack[z] /\ stack # <<>>
  BY <1>1, <1>2, EmptySeq, LenProperties DEF TypeOK, Top
<1>4. stack[n] \in Frames /\ Top \in Frames
  BY <1>3, ElementOfSeq
<1>5. m \in Frames /\ m.file = stack[n].file /\ m.next = stack[n].next + 1
      /\ m.items = stack[n].items \o Top.items /\ m.uses = stack[n].uses \union Top.uses
  <2>1. Top.items \in Seq(Files) /\ Top.uses \in SUBSET Stdlib
    BY <1>4 DEF Frames
  <2>2. m \in Frames /\ m.file = stack[n].file /\ m.next = stack[n].next + 1
    BY <1>4, <2>1, MergedFrame
  <2>3. m.items = stack[n].items \o Top.items /\ m.uses = stack[n].uses \union Top.uses
    BY DEF Merged
  <2> QED BY <2>2, <2>3
<1>6. s \in Seq(Frames) /\ Len(s) = n /\ \A k \in 1..n : s[k] = stack[k]
  BY <1>3
<1>7. stack' = [s EXCEPT ![n] = m]
  <2>1. stack' = [s EXCEPT ![n] = Merged(s[n], Top.items, Top.uses)]
    BY DEF Return
  <2>2. s[n] = stack[n]
    BY <1>3, <1>6
  <2> QED
    BY <2>1, <2>2
<1> HIDE DEF s, m
<1>8. stack' \in Seq(Frames) /\ Len(stack') = n /\ stack'[n] = m
      /\ \A k \in 1..n : k # n => stack'[k] = stack[k]
  <2> HIDE DEF n, z
  <2> DEFINE t == stack'
  <2>1. t = [s EXCEPT ![n] = m] /\ n \in 1..Len(s) /\ m \in Frames
    BY <1>3, <1>5, <1>6, <1>7
  <2> HIDE DEF t
  <2>2. t \in Seq(Frames) /\ Len(t) = Len(s) /\ t[n] = m
        /\ \A k \in 1..Len(s) : k # n => t[k] = s[k]
    BY <1>6, <2>1
  <2> QED BY <1>6, <2>2 DEF t
<1>9. \A k \in 1..n : stack'[k].file = stack[k].file
  BY <1>5, <1>8
<1>10. 1..z = (1..n) \union {z} /\ 1..n \subseteq 1..z
  BY <1>3
<1> HIDE DEF n, z
<1>11. Met' = Met
  <2>1. Met = loaded \union ({stack[k].file : k \in 1..n} \union {Top.file})
    BY <1>3, <1>10 DEF Met, z
  <2>2. {stack'[k].file : k \in 1..n} = {stack[k].file : k \in 1..n}
    BY <1>9
  <2> QED BY <1>1, <1>8, <2>1, <2>2 DEF Met
<1>12. UsesGathered'
  <2>1. Gathered' = Gathered
    <3>1. \A k \in 1..n : k # n => stack'[k].uses = stack[k].uses
      BY <1>8
    <3>2. stack'[n].uses = stack[n].uses \union stack[z].uses
      BY <1>3, <1>5, <1>8
    <3>3. Gathered' = UNION {stack'[k].uses : k \in 1..n} /\ Gathered = UNION {stack[k].uses : k \in 1..z}
      BY <1>8 DEF Gathered, z
    <3> QED BY <1>3, <1>10, <3>1, <3>2, <3>3
  <2>2. UsedBy(Met)' = UsedBy(Met)
    BY <1>1, <1>11 DEF UsedBy
  <2> QED BY <1>1, <1>2, <2>1, <2>2 DEF UsesGathered
<1>13. Simulated'
  <2> SUFFICES ASSUME ~Doomed'
               PROVE  \E j \in Nat : /\ At(src', stack', Walk(src', j))
                                     /\ Seen(Walk(src', j)) = Met'
    BY <1>1 DEF Simulated
  <2>0. ~Doomed
    <3>1. stack' # <<>> 
      BY <1>3, <1>8
    <3>2. checking => Entry \notin loaded'
      BY <1>1, <1>2 DEF Rooted
    <3> QED BY <1>1, <3>2 DEF Doomed
  <2>1. PICK j \in Nat : At(src, stack, Walk(src, j)) /\ Seen(Walk(src, j)) = Met
    BY <1>1, <1>3, <2>0 DEF Simulated
  <2>2. FilesOf(src)
    BY <1>2, LocalSources DEF TypeOK, SourcesOnDisk
  <2> DEFINE w == Walk(src, j)
             t == stack'
  <2>3. At(src, stack, w) /\ Seen(w) = Met
    BY <2>1
  <2> HIDE DEF w
  <2>4. Len(stack) > 1 /\ stack[Len(stack)].next > Len(src[stack[Len(stack)].file].local)
    BY <1>1, <1>3 DEF Done, z
  <2>5. /\ t \in Seq(Frames) /\ Len(t) = Len(stack) - 1
        /\ \A k \in 1..(Len(stack) - 2) : t[k] = stack[k]
    <3>1. \A k \in 1..(z - 2) : k \in 1..n /\ k # n
      BY <1>3
    <3> QED BY <1>8, <3>1 DEF n, z
  <2>6. /\ t[Len(stack) - 1].file = stack[Len(stack) - 1].file
        /\ t[Len(stack) - 1].next = stack[Len(stack) - 1].next + 1
        /\ t[Len(stack) - 1].items = stack[Len(stack) - 1].items \o stack[Len(stack)].items
    BY <1>3, <1>5, <1>8 DEF n, z
  <2> HIDE DEF t
  <2>7. At(src, t, w)
    BY <1>3, <2>2, <2>3, <2>4, <2>5, <2>6, WalkReturns
  <2> QED BY <1>1, <1>11, <2>1, <2>3, <2>7 DEF t, w
<1> QED BY <1>12, <1>13

\* When the outermost call returns, the walk has nothing left to look at.
LEMMA FinishSimulated ==
    ASSUME IInv, Simulated, UsesGathered, Finish PROVE Simulated' /\ UsesGathered'
<1>1. /\ outcome = "loading" /\ outcome' = "ok" /\ Done /\ Len(stack) = 1
      /\ src' = src /\ stack' = stack
      /\ loaded' = loaded \/ loaded' = loaded \union {Entry}
  BY DEF Finish
<1>2. TypeOK /\ StackIsPath /\ Rooted /\ Gathered = UsedBy(Met)
  BY <1>1 DEF IInv, UsesGathered
<1>3. stack # <<>> /\ Top = stack[1] /\ stack[1].file = Entry /\ 1..Len(stack) = {1}
  BY <1>1, <1>2 DEF Done, Top, Rooted
<1>4. stack[1] \in Frames
  <2>1. stack \in Seq(Frames) /\ 1 \in 1..Len(stack)
    BY <1>2, <1>3 DEF TypeOK
  <2> QED BY <2>1, ElementOfSeq
<1>5. UsesGathered'
  <2>1. Met = loaded \union {Entry} /\ Gathered = stack[1].uses
    BY <1>3 DEF Met, Gathered
  <2>2. loaded' \union {Entry} = loaded \union {Entry}
    BY <1>1
  <2> QED BY <1>1, <1>2, <2>1, <2>2 DEF UsesGathered, UsedBy
<1>6. Simulated'
  <2>1. ~Doomed
    <3> SUFFICES ASSUME checking PROVE Entry \notin in_progress
      BY DEF Doomed
    <3>1. Floor = 1 /\ (1 + 1)..1 = {}
      BY DEF Floor
    <3> QED BY <1>1, <1>2, <3>1 DEF StackIsPath
  <2>2. PICK j \in Nat : At(src, stack, Walk(src, j))
    BY <1>1, <1>3, <2>1 DEF Simulated
  <2> DEFINE w == Walk(src, j)
             f == stack[1]
  <2>3. PICK o, d : /\ Glued(src, stack, o, d)
                    /\ w = [todo |-> Rest(src, stack[Len(stack)], stack[Len(stack)].next)
                                        \o d[Len(stack) - 1],
                            out |-> o[Len(stack)]]
    BY <2>2 DEF At
  <2>4. d[0] = <<>> /\ o[1] = <<>> \o f.items
    <3>1. 1 \in 1..Len(stack) /\ 1 - 1 = 0
      BY <1>3
    <3>2. o[1] = o[1 - 1] \o stack[1].items /\ o[0] = <<>> /\ d[0] = <<>>
      BY <2>3, <3>1 DEF Glued
    <3> QED BY <3>1, <3>2
  <2>5. f.items \in Seq(Files)
    BY <1>4 DEF Frames
  <2>6. FilesOf(src)
    BY <1>2, LocalSources DEF TypeOK, SourcesOnDisk
  <2>7. f.next > Len(src[f.file].local)
    BY <1>1, <1>3 DEF Done
  <2> HIDE DEF f, w
  <2>8. Rest(src, f, f.next) = <<>>
    BY <1>4, <2>6, <2>7, RestEnds DEF f
  <2>9. <<>> \o f.items = f.items /\ <<>> \o <<>> = <<>>
    BY <2>5, ConcatEmptySeq
  <2>10. w = [todo |-> Rest(src, f, f.next) \o d[0], out |-> o[1]]
    <3>1. Len(stack) = 1 /\ Len(stack) - 1 = 0 /\ stack[Len(stack)] = f
      BY <1>1 DEF f
    <3> QED BY <2>3, <3>1
  <2>11. w = [todo |-> <<>>, out |-> f.items]
    BY <2>4, <2>8, <2>9, <2>10, Zenon
  <2> QED BY <1>1, <2>2, <2>11 DEF Simulated, w, f
<1> QED BY <1>5, <1>6

\* Each step of the loader.
LEMMA SimulatedNext ==
    ASSUME IInv, IInv', Simulated, UsesGathered, [Next]_vars PROVE Simulated' /\ UsesGathered'
<1>1. CASE Enter
  BY <1>1, EnterSimulated
<1>2. CASE AlreadyLoaded
  BY <1>2, AlreadyLoadedSimulated
<1>3. CASE Return
  BY <1>3, ReturnSimulated
<1>4. CASE Finish
  BY <1>4, FinishSimulated
<1>5. CASE Unreadable \/ Cycle
  <2>1. outcome' # "loading" /\ outcome' # "ok"
    <3>1. CASE Cycle
      BY <3>1 DEF Cycle, Fail
    <3>2. CASE Unreadable
      <4>1. Callee \in Files /\ src[Callee].state # "ok" /\ outcome' = src[Callee].state
        BY <3>2, CalleeType DEF Unreadable, Fail, IInv
      <4>2. src[Callee] \in SourceType
        BY <4>1, LoaderAssumption DEF IInv, TypeOK
      <4> QED BY <4>1, <4>2 DEF SourceType
    <3> QED BY <1>5, <3>1, <3>2
  <2> QED BY <2>1 DEF Simulated, UsesGathered
<1>6. CASE UNCHANGED vars
  <2>1. /\ checking' = checking /\ src' = src /\ stack' = stack
        /\ in_progress' = in_progress /\ loaded' = loaded /\ outcome' = outcome
    BY <1>6 DEF vars
  <2>2. Met' = Met /\ Gathered' = Gathered /\ Doomed' = Doomed
    BY <2>1 DEF Met, Gathered, Doomed
  <2>3. UsesGathered'
    BY <2>1, <2>2 DEF UsesGathered, UsedBy
  <2>4. Simulated'
    BY <2>1, <2>2 DEF Simulated
  <2> QED BY <2>3, <2>4
<1> QED BY <1>1, <1>2, <1>3, <1>4, <1>5, <1>6 DEF Next

\* A result is that of the walk carried to its end.
InlinedAsWalked ==
    outcome = "ok" => \E n \in Nat : Walk(src, n) = [todo |-> <<>>, out |-> stack[1].items]

\* While it loads, load_recursive (loader.rs:106-184) is somewhere along the walk,
\* and with a result it is at the walk's end.
THEOREM InlinesLikeTheWalk == Spec => [](Simulated /\ UsesGathered)
<1>1. Init => Simulated /\ UsesGathered
  BY SimulatedAtFirst
<1>2. IInv /\ IInv' /\ (Simulated /\ UsesGathered) /\ [Next]_vars => (Simulated /\ UsesGathered)'
  BY SimulatedNext
<1> QED BY <1>1, <1>2, InductiveInvariant, PTL DEF Spec

\* A module is accepted only when the walk of its imports ends, and is what the walk
\* finds (loader.rs:106-184): the bound of InlinedDepthFirst leaves nothing out.
THEOREM WalkEnds == Spec => []InlinedAsWalked
<1>1. Simulated => InlinedAsWalked
  BY DEF Simulated, InlinedAsWalked
<1> QED BY <1>1, InlinesLikeTheWalk, PTL

\* The items are inlined depth first, in declaration order and each file once, and
\* the names in scope are those of every file (docs/language.md section 3.2),
\* whatever the files import and wherever the walk is cut off.
THEOREM InlinesDepthFirst == Spec => []InlinedDepthFirst
<1>1. Simulated /\ UsesGathered => InlinedDepthFirst
  <2> SUFFICES ASSUME Simulated, UsesGathered, outcome = "ok"
               PROVE  /\ Walk(src, MaxWalk).todo = <<>> =>
                             stack[1].items = Walk(src, MaxWalk).out
                      /\ stack[1].uses = UNION {src[f].uses : f \in loaded \union {Entry}}
    BY DEF InlinedDepthFirst
  <2>1. PICK n \in Nat : Walk(src, n) = [todo |-> <<>>, out |-> stack[1].items]
    BY DEF Simulated
  <2>2. Walk(src, n).todo = <<>> /\ Walk(src, n).out = stack[1].items
    BY <2>1
  <2>3. ASSUME Walk(src, MaxWalk).todo = <<>>
        PROVE  stack[1].items = Walk(src, MaxWalk).out
    <3>1. Walk(src, MaxWalk) = Walk(src, n)
      BY <2>2, <2>3, WalkAssumption, WalksAgree
    <3> QED BY <2>2, <3>1
  <2>4. stack[1].uses = UNION {src[f].uses : f \in loaded \union {Entry}}
    BY DEF UsesGathered, UsedBy
  <2> QED BY <2>3, <2>4
<1> QED BY <1>1, InlinesLikeTheWalk, PTL
-----------------------------------------------------------------------------
(* Loading ends.                                                           *)

\* What a load has still to do: the files it has not met, the calls in progress, and
\* the imports left to the innermost.
Unmet == Files \ (in_progress \union loaded)
ImportsLeft == IF stack = <<>> \/ Done THEN 0 ELSE Len(src[Top.file].local) + 1 - Top.next
LoadRank ==
    IF outcome = "loading" THEN <<Cardinality(Unmet) + 1, Len(stack), ImportsLeft>>
    ELSE <<0, 0, 0>>

\* load_recursive does not go on for ever, also when files import each other: each
\* step of it lowers the rank of what is left.
LoadAdvances ==
    [][/\ LoadRank \in Ranks
       /\ Lower(LoadRank', LoadRank)]_vars

LEMMA LoadRanks ==
    ASSUME IInv, IsFiniteSet(Files)
    PROVE  LoadRank \in Ranks /\ IsFiniteSet(Unmet) /\ Cardinality(Unmet) \in Nat
<1>1. IsFiniteSet(Unmet)
  <2>1. Unmet \in SUBSET Files
    BY DEF Unmet
  <2> QED BY <2>1, FS_Subset
<1>2. Cardinality(Unmet) \in Nat
  BY <1>1, FS_CardinalityType
<1>3. Len(stack) \in Nat
  BY DEF IInv, TypeOK
<1>4. ImportsLeft \in Nat
  <2>1. CASE stack = <<>> \/ Done
    BY <2>1 DEF ImportsLeft
  <2>2. CASE stack # <<>> /\ ~Done
    <3>1. Top \in Frames
      BY <2>2 DEF IInv, TypeOK, Top
    <3>2. Top.file \in Files /\ Top.next \in Nat
      BY <3>1 DEF Frames
    <3>3. Len(src[Top.file].local) \in Nat
      BY <3>2, LocalFiles DEF IInv
    <3>4. Top.next <= Len(src[Top.file].local)
      BY <2>2, <3>2, <3>3 DEF Done
    <3>5. ImportsLeft = Len(src[Top.file].local) + 1 - Top.next
      BY <2>2, Zenon DEF ImportsLeft
    <3> DEFINE n == Len(src[Top.file].local)
               t == Top.next
    <3>6. n \in Nat /\ t \in Nat /\ t <= n /\ ImportsLeft = n + 1 - t
      BY <3>2, <3>3, <3>4, <3>5
    <3> HIDE DEF n, t
    <3> QED BY <3>6
  <2> QED BY <2>1, <2>2
<1>5. LoadRank \in Ranks
  BY <1>2, <1>3, <1>4 DEF LoadRank, Ranks
<1> QED BY <1>1, <1>2, <1>5

\* Nothing is met again, and meeting a file leaves one fewer.
LEMMA FewerUnmet ==
    ASSUME IInv, IInv', IsFiniteSet(Files), Unmet' \subseteq Unmet
    PROVE  \/ Unmet' = Unmet
           \/ Cardinality(Unmet') + 1 < Cardinality(Unmet) + 1
<1>1. IsFiniteSet(Unmet) /\ Cardinality(Unmet) \in Nat
  BY LoadRanks
<1>2. CASE Unmet' # Unmet
  <2>1. IsFiniteSet(Unmet') /\ Cardinality(Unmet') < Cardinality(Unmet)
    <3> DEFINE A == Unmet
               B == Unmet'
    <3>1. IsFiniteSet(A) /\ B \subseteq A /\ B # A
      BY <1>1, <1>2
    <3> HIDE DEF A, B
    <3>2. IsFiniteSet(B) /\ Cardinality(B) <= Cardinality(A)
          /\ (Cardinality(B) = Cardinality(A) => B = A)
      BY <3>1, FS_Subset
    <3>3. Cardinality(A) \in Nat /\ Cardinality(B) \in Nat
      BY <3>1, <3>2, FS_CardinalityType
    <3>4. Cardinality(B) < Cardinality(A)
      BY <3>1, <3>2, <3>3
    <3> QED BY <3>2, <3>4 DEF A, B
  <2>2. Cardinality(Unmet') \in Nat
    BY <2>1, FS_CardinalityType
  <2> QED BY <1>1, <2>1, <2>2
<1> QED BY <1>2

LEMMA LoadLowers ==
    ASSUME IInv, IInv', IsFiniteSet(Files), Next
    PROVE  Lower(LoadRank', LoadRank)
<1>0. outcome = "loading"
  BY DEF Next, Unreadable, Cycle, Enter, AlreadyLoaded, Return, Finish, Calling
<1>1. LoadRank = <<Cardinality(Unmet) + 1, Len(stack), ImportsLeft>>
  BY <1>0 DEF LoadRank
<1>2. Cardinality(Unmet) \in Nat /\ Len(stack) \in Nat /\ stack \in Seq(Frames)
  BY LoadRanks DEF IInv, TypeOK
<1>3. CASE Unreadable \/ Cycle \/ Finish
  <2>1. outcome' # "loading"
    <3>1. CASE Unreadable
      <4>1. outcome' = src[Callee].state /\ src[Callee].state # "ok"
        BY <3>1 DEF Unreadable, Fail
      <4>2. Callee \in Files
        BY <3>1, CalleeType DEF IInv, Unreadable
      <4>3. src[Callee] \in SourceType
        BY <4>2, LoaderAssumption DEF IInv, TypeOK
      <4> QED BY <4>1, <4>3 DEF SourceType
    <3>2. CASE Cycle \/ Finish
      BY <3>2 DEF Cycle, Finish, Fail
    <3> QED BY <1>3, <3>1, <3>2
  <2>2. LoadRank' = <<0, 0, 0>> /\ 0 < Cardinality(Unmet) + 1
    BY <1>2, <2>1 DEF LoadRank
  <2> QED BY <1>1, <2>2, LowerTriple
<1>4. ASSUME outcome' = "loading"
      PROVE  LoadRank' = <<Cardinality(Unmet') + 1, Len(stack'), ImportsLeft'>>
  BY <1>4 DEF LoadRank
<1>5. CASE Enter
  <2>1. /\ outcome' = outcome /\ loaded' = loaded
        /\ in_progress' = in_progress \union {Callee}
        /\ Callee \notin in_progress /\ Callee \notin loaded
    BY <1>5 DEF Enter
  <2>2. Callee \in Files
    BY <2>1 DEF IInv, TypeOK
  <2>3. Unmet' \subseteq Unmet /\ Unmet' # Unmet
    BY <2>1, <2>2 DEF Unmet
  <2>4. Cardinality(Unmet') + 1 < Cardinality(Unmet) + 1
    BY <2>3, FewerUnmet
  <2> QED BY <1>0, <1>1, <1>4, <2>1, <2>4, LowerTriple
<1>6. CASE AlreadyLoaded
  <2>1. /\ outcome' = outcome /\ Unmet' = Unmet
        /\ ~Done /\ stack' = [stack EXCEPT ![Len(stack)] = Merged(@, <<>>, {})]
        /\ src' = src /\ Callee \in loaded
    BY <1>6 DEF AlreadyLoaded, Calling, Unmet
  <2>2. stack # <<>>
    BY <1>0, <1>6 DEF AlreadyLoaded, IInv, Rooted
  <2>3. /\ Len(stack') = Len(stack) /\ stack' # <<>>
        /\ Top'.file = Top.file /\ Top'.next = Top.next + 1
    <3> DEFINE n == Len(stack)
               m == Merged(stack[n], <<>>, {})
    <3>1. n \in 1..n /\ stack[n] \in Frames
      BY <1>2, <2>2
    <3>2. m \in Frames /\ m.file = stack[n].file /\ m.next = stack[n].next + 1
      <4> DEFINE frame == stack[n]
                 items == <<>>
                 uses == {}
      <4>1. frame \in Frames /\ items \in Seq(Files) /\ uses \in SUBSET Stdlib
        BY <3>1
      <4>2. m = Merged(frame, items, uses)
        OBVIOUS
      <4> HIDE DEF m, frame, items, uses
      <4>3. m \in Frames /\ m.file = frame.file /\ m.next = frame.next + 1
        BY <4>1, <4>2, MergedFrame
      <4> QED BY <4>3 DEF frame
    <3>3. stack' = [stack EXCEPT ![n] = m]
      BY <2>1
    <3> HIDE DEF m
    <3>4. Len(stack') = n /\ stack'[n].file = stack[n].file /\ stack'[n].next = stack[n].next + 1
      BY <1>2, <2>2, <3>1, <3>2, <3>3, MergedStack
    <3>5. stack' # <<>>
      BY <2>2, <3>1, <3>3
    <3> QED BY <3>4, <3>5 DEF Top
  <2>4. Top.next \in Nat /\ Len(src[Top.file].local) \in Nat
    <3>1. Top \in Frames
      BY <1>2, <2>2 DEF Top
    <3>2. Top.file \in Files /\ Top.next \in Nat
      BY <3>1 DEF Frames
    <3> QED BY <3>2, LocalFiles DEF IInv
  <2>5. ImportsLeft' < ImportsLeft
    <3>1. Top.next <= Len(src[Top.file].local)
      BY <2>1, <2>2, <2>4 DEF Done
    <3>2. ImportsLeft = Len(src[Top.file].local) + 1 - Top.next
      BY <2>1, <2>2 DEF ImportsLeft
    <3>3. ImportsLeft' = IF Top.next + 1 > Len(src[Top.file].local) THEN 0
                         ELSE Len(src[Top.file].local) + 1 - (Top.next + 1)
      BY <2>1, <2>3 DEF ImportsLeft, Done
    <3> DEFINE n == Len(src[Top.file].local)
               t == Top.next
    <3>4. /\ n \in Nat /\ t \in Nat /\ t <= n /\ ImportsLeft = n + 1 - t
          /\ ImportsLeft' = IF t + 1 > n THEN 0 ELSE n + 1 - (t + 1)
      BY <2>4, <3>1, <3>2, <3>3
    <3> HIDE DEF n, t
    <3> QED BY <3>4
  <2>6. LoadRank' = <<Cardinality(Unmet) + 1, Len(stack), ImportsLeft'>>
    BY <1>0, <1>4, <2>1, <2>3
  <2> QED BY <1>1, <2>5, <2>6, LowerTriple
<1>7. CASE Return
  <2>1. /\ outcome' = outcome /\ Len(stack) > 1
        /\ in_progress' = in_progress \ {Top.file} /\ loaded' = loaded \union {Top.file}
    BY <1>7 DEF Return
  <2>2. Unmet' \subseteq Unmet
    BY <2>1 DEF Unmet
  <2>3. Len(stack') < Len(stack)
    <3> DEFINE n == Len(stack)
               s == SubSeq(stack, 1, n - 1)
               m == Merged(s[n - 1], Top.items, Top.uses)
    <3>1. stack' = [s EXCEPT ![n - 1] = m]
      BY <1>7 DEF Return
    <3>2. s \in Seq(Frames) /\ Len(s) = n - 1 /\ n \in Nat
      BY <1>2, <2>1
    <3> HIDE DEF s, m, n
    <3>3. Len(stack') = n - 1
      BY <3>1, <3>2
    <3> QED BY <3>2, <3>3 DEF n
  <2>4. CASE Unmet' = Unmet
    <3>1. LoadRank' = <<Cardinality(Unmet) + 1, Len(stack'), ImportsLeft'>>
      BY <1>0, <1>4, <2>1, <2>4
    <3> QED BY <1>1, <2>3, <3>1, LowerTriple
  <2>5. CASE Unmet' # Unmet
    <3>1. Cardinality(Unmet') + 1 < Cardinality(Unmet) + 1
      BY <2>2, <2>5, FewerUnmet
    <3> QED BY <1>0, <1>1, <1>4, <2>1, <3>1, LowerTriple
  <2> QED BY <2>4, <2>5
<1> QED BY <1>3, <1>5, <1>6, <1>7 DEF Next

\* A load of finitely many files gets closer to its end with every step, whatever
\* they import.
THEOREM LoadsEnd == IsFiniteSet(Files) => (Spec => LoadAdvances)
<1> SUFFICES ASSUME IsFiniteSet(Files) PROVE Spec => LoadAdvances
  OBVIOUS
<1>1. IInv /\ IInv' /\ [Next]_vars =>
         [/\ LoadRank \in Ranks
          /\ Lower(LoadRank', LoadRank)]_vars
  BY LoadRanks, LoadLowers
<1> QED BY <1>1, InductiveInvariant, PTL DEF Spec, LoadAdvances
=============================================================================
