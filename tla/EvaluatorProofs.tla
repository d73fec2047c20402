--------------------------- MODULE EvaluatorProofs ---------------------------
(***************************************************************************)
(* Proofs about the tree walk, for every program: scopes are balanced,     *)
(* deferred bodies run in reverse, contracts are fatal, and a closure      *)
(* cannot change what it captured.                                         *)
(*                                                                         *)
(* One invariant, Walk, carries all of it.  The frames are a tower: what   *)
(* a frame may stand on (Under) gives the number of scopes at each level,  *)
(* the Env of each frame, and where deferred bodies can be.  A step of     *)
(* eval.rs then does one of a few things to the top of the tower, and      *)
(* there is one lemma for each of these (Gives, Pops, Pushes, EntersHere,  *)
(* EntersBelow, EntersWithin, GoesOnAt), which the actions cite.           *)
(***************************************************************************)
EXTENDS Evaluator, FiniteSetTheorems, SequenceTheorems, TLAPS

-----------------------------------------------------------------------------
(* Sequences: the operators of the model on stacks.                        *)

\* A stack with something on it is what is below and the top.
LEMMA StackParts ==
    ASSUME NEW S, NEW s \in Seq(S), s # <<>>
    PROVE  /\ Len(s) \in Nat \ {0}
           /\ Last(s) \in S /\ Last(s) = s[Len(s)]
           /\ ButLast(s) \in Seq(S)
           /\ Len(ButLast(s)) = Len(s) - 1
           /\ \A i \in 1..(Len(s) - 1) : ButLast(s)[i] = s[i]
<1>1. Len(s) \in Nat \ {0}
  BY EmptySeq
<1>2. \A i \in 1..(Len(s) - 1) : s[i] \in S
  BY <1>1
<1>3. /\ SubSeq(s, 1, Len(s) - 1) \in Seq(S)
      /\ Len(SubSeq(s, 1, Len(s) - 1)) = IF 1 <= Len(s) - 1 THEN Len(s) - 1 - 1 + 1 ELSE 0
      /\ \A i \in 1..(Len(s) - 1 - 1 + 1) : SubSeq(s, 1, Len(s) - 1)[i] = s[1 + i - 1]
  BY <1>1, <1>2, SubSeqProperties
<1>4. s[Len(s)] \in S
  BY <1>1, ElementOfSeq
<1>5. Len(SubSeq(s, 1, Len(s) - 1)) = Len(s) - 1
  <2> DEFINE l == Len(SubSeq(s, 1, Len(s) - 1))
             k == Len(s)
  <2>1. l = IF 1 <= k - 1 THEN k - 1 - 1 + 1 ELSE 0
    BY <1>3
  <2>2. k \in Nat \ {0}
    BY <1>1
  <2> HIDE DEF l, k
  <2>3. l = k - 1
    BY <2>1, <2>2
  <2> QED BY <2>3 DEF l, k
<1>6. \A i \in 1..(Len(s) - 1) : SubSeq(s, 1, Len(s) - 1)[i] = s[i]
  <2> TAKE i \in 1..(Len(s) - 1)
  <2>1. i \in 1..(Len(s) - 1 - 1 + 1) /\ 1 + i - 1 = i
    BY <1>1
  <2> QED BY <2>1, <1>3
<1> QED BY <1>1, <1>3, <1>4, <1>5, <1>6 DEF Last, ButLast

\* What is pushed is on top, and the rest is below.
LEMMA Pushed ==
    ASSUME NEW S, NEW s \in Seq(S), NEW x \in S
    PROVE  /\ Append(s, x) \in Seq(S) /\ Append(s, x) # <<>>
           /\ Len(s) \in Nat /\ Len(Append(s, x)) = Len(s) + 1
           /\ \A i \in 1..Len(s) : Append(s, x)[i] = s[i]
           /\ Append(s, x)[Len(s) + 1] = x
           /\ Last(Append(s, x)) = x
           /\ ButLast(Append(s, x)) = s
<1>1. /\ Append(s, x) \in Seq(S) /\ Append(s, x) # <<>>
      /\ Len(s) \in Nat /\ Len(Append(s, x)) = Len(s) + 1
      /\ \A i \in 1..Len(s) : Append(s, x)[i] = s[i]
      /\ Append(s, x)[Len(s) + 1] = x
  BY AppendProperties, LenProperties
<1>2. ButLast(Append(s, x)) = s
  <2> DEFINE t == Append(s, x)
  <2>1. t \in Seq(S) /\ t # <<>> /\ Len(t) - 1 = Len(s)
        /\ \A i \in 1..Len(s) : t[i] = s[i]
    BY <1>1
  <2> HIDE DEF t
  <2>2. ButLast(t) \in Seq(S) /\ Len(ButLast(t)) = Len(s)
        /\ \A i \in 1..Len(s) : ButLast(t)[i] = t[i]
    BY <2>1, StackParts
  <2>3. ButLast(t) = s
    BY <2>1, <2>2, SeqEqual
  <2> QED BY <2>3 DEF t
<1> QED BY <1>1, <1>2 DEF Last

\* A set of positions that is not empty has a greatest one.  (The intervals from
\* each of them to the end are ordered by inclusion, which is well founded.)
LEMMA GreatestPosition ==
    ASSUME NEW n \in Nat, NEW M \in SUBSET (1..n), M # {}
    PROVE  \E i \in M : \A j \in M : j <= i
<1> DEFINE Segments == {i..n : i \in M}
           R == StrictSubsetOrdering(1..n)
<1>1. IsWellFoundedOn(R, SUBSET (1..n))
  <2>1. IsFiniteSet(1..n)
    BY FS_Interval
  <2> QED BY <2>1, FS_StrictSubsetOrderingWellFounded, FS_FiniteSubsetsOfFinite
<1>2. Segments \subseteq SUBSET (1..n) /\ Segments # {}
  <2>1. \A i \in M : i..n \in SUBSET (1..n)
    OBVIOUS
  <2> QED BY <2>1
<1>3. PICK X \in Segments : \A Y \in Segments : ~(<<Y, X>> \in R)
  <2> HIDE DEF Segments, R
  <2> QED BY <1>1, <1>2, WFMin
<1>4. PICK i \in M : X = i..n
  BY <1>3
<1>5. ASSUME NEW j \in M, ~(j <= i)
      PROVE  FALSE
  <2>1. j..n \subseteq i..n /\ i \in i..n /\ i \notin j..n
    BY <1>5
  <2>2. j..n \in SUBSET (1..n) /\ i..n \in SUBSET (1..n)
    OBVIOUS
  <2>3. <<j..n, i..n>> \in R
    BY <2>1, <2>2 DEF StrictSubsetOrdering
  <2> QED BY <2>3, <1>3, <1>4
<1> QED BY <1>5

-----------------------------------------------------------------------------
(* Types, where n closures are known, and the scopes of an Env.            *)

Uses == OperandForms \union NamedForms \union
        {"", "stmt", "tail", "body", "arms", "guard", "items", "cond", "arg",
         "while", "for", "requires", "ensures", "drain"}

ValuesOf(n) == {Plain, OkVal, ErrVal} \union {ClosureVal(c) : c \in 0..n}
SlotsOf(n) == [val : ValuesOf(n), mut : BOOLEAN]
ScopesOf(n) == UNION {[D -> SlotsOf(n)] : D \in SUBSET Vars}
SnapshotsOf(n) == UNION {[D -> ValuesOf(n)] : D \in SUBSET Vars}
FlowsOf(n) == [kind : Signals, val : ValuesOf(n)]
AnyFrames(n) == [kind : Kinds, use : Uses, env : Nat, depth : Nat, left : Nat,
                 name : Vars \union {NoName}, mut : BOOLEAN, seen : BOOLEAN, ret : FlowsOf(n)]
Binds(f) == \/ f.kind = "bind"
            \/ f.kind = "value" /\ f.use \in {"items", "catch"}
            \/ f.kind = "loop" /\ f.use = "for"
FramesOf(n) == {f \in AnyFrames(n) : /\ Binds(f) => f.name \in Vars
                                     /\ f.kind = "match" /\ f.use = "guard" => f.left > 0}
Registered == [name : Vars \union {NoName}, seen : BOOLEAN]
EnvsOf(n) == [fn : 0..n, open : BOOLEAN, defers : Seq(Registered), ran : Seq(Nat),
              scopes : Seq(ScopesOf(n))]
ClosuresFit(cs) == cs \in Seq(Seq(SnapshotsOf(Len(cs))))

\* The scopes that closure c captured, of the closures cs.
CapturedBy(cs, c) == IF c = 0 THEN <<>> ELSE cs[c]

\* Scopes that a call of c may have: there are more of them than c captured, and
\* those that c captured are as they were and cannot be assigned to.
ScopesFit(cs, c, s) ==
    LET captured == CapturedBy(cs, c) IN
    /\ s \in Seq(ScopesOf(Len(cs)))
    /\ Len(s) > Len(captured)
    /\ \A i \in 1..Len(captured) :
          /\ DOMAIN s[i] = DOMAIN captured[i]
          /\ \A x \in DOMAIN s[i] : s[i][x] = Slot(captured[i][x], FALSE)

\* One more closure: what was well typed still is.
LEMMA MoreValues ==
    ASSUME NEW n \in Nat, NEW k \in Nat, n <= k
    PROVE  /\ ValuesOf(n) \subseteq ValuesOf(k) /\ SlotsOf(n) \subseteq SlotsOf(k)
           /\ FlowsOf(n) \subseteq FlowsOf(k) /\ FramesOf(n) \subseteq FramesOf(k)
           /\ ScopesOf(n) \subseteq ScopesOf(k) /\ SnapshotsOf(n) \subseteq SnapshotsOf(k)
           /\ EnvsOf(n) \subseteq EnvsOf(k)
<1>1. 0..n \subseteq 0..k
  OBVIOUS
<1>2. ValuesOf(n) \subseteq ValuesOf(k)
  BY <1>1 DEF ValuesOf
<1>3. SlotsOf(n) \subseteq SlotsOf(k) /\ FlowsOf(n) \subseteq FlowsOf(k)
  BY <1>2 DEF SlotsOf, FlowsOf
<1>4. FramesOf(n) \subseteq FramesOf(k)
  BY <1>3 DEF FramesOf, AnyFrames
<1>5. ScopesOf(n) \subseteq ScopesOf(k)
  <2>1. \A D \in SUBSET Vars : [D -> SlotsOf(n)] \subseteq [D -> SlotsOf(k)]
    BY <1>3
  <2> QED BY <2>1 DEF ScopesOf
<1>6. SnapshotsOf(n) \subseteq SnapshotsOf(k)
  <2>1. \A D \in SUBSET Vars : [D -> ValuesOf(n)] \subseteq [D -> ValuesOf(k)]
    BY <1>2
  <2> QED BY <2>1 DEF SnapshotsOf
<1>7. EnvsOf(n) \subseteq EnvsOf(k)
  <2>1. Seq(ScopesOf(n)) \subseteq Seq(ScopesOf(k))
    BY <1>5, SeqMonotonic
  <2> QED BY <1>1, <2>1 DEF EnvsOf
<1> QED BY <1>2, <1>3, <1>4, <1>5, <1>6, <1>7

\* A scope is a set of slots by name.
LEMMA SlotIn ==
    ASSUME NEW n \in Nat, NEW s \in ScopesOf(n)
    PROVE  /\ DOMAIN s \subseteq Vars /\ s = [x \in DOMAIN s |-> s[x]]
           /\ \A x \in DOMAIN s : s[x] \in SlotsOf(n)
BY DEF ScopesOf

\* Scopes fit as long as those that were captured are left alone.
LEMMA FitsKept ==
    ASSUME NEW cs, NEW c, NEW s, ScopesFit(cs, c, s), Len(CapturedBy(cs, c)) \in Nat,
           NEW t \in Seq(ScopesOf(Len(cs))), Len(t) > Len(CapturedBy(cs, c)),
           NEW k \in Nat, k >= Len(CapturedBy(cs, c)), \A i \in 1..k : t[i] = s[i]
    PROVE  ScopesFit(cs, c, t)
<1> DEFINE m == Len(CapturedBy(cs, c))
<1>1. \A i \in 1..m : i \in 1..k
  OBVIOUS
<1>2. \A i \in 1..m : t[i] = s[i]
  BY <1>1
<1> QED BY <1>2 DEF ScopesFit

\* A scope more keeps those that were captured.
LEMMA FitsPush ==
    ASSUME NEW cs, NEW c, ClosuresFit(cs), NEW s, ScopesFit(cs, c, s),
           Len(CapturedBy(cs, c)) \in Nat
    PROVE  ScopesFit(cs, c, Push(s)) /\ Len(Push(s)) = Len(s) + 1
<1> DEFINE n == Len(cs)
<1>1. s \in Seq(ScopesOf(n)) /\ Len(s) \in Nat
  BY LenProperties DEF ScopesFit
<1>2. NoSlots \in ScopesOf(n)
  <2>1. NoSlots \in [{} -> SlotsOf(n)]
    BY DEF NoSlots
  <2> QED BY <2>1 DEF ScopesOf
<1>3. /\ Push(s) \in Seq(ScopesOf(n)) /\ Len(Push(s)) = Len(s) + 1
      /\ \A i \in 1..Len(s) : Push(s)[i] = s[i]
  BY <1>1, <1>2, Pushed DEF Push
<1>4. Len(s) >= Len(CapturedBy(cs, c)) /\ Len(Push(s)) > Len(CapturedBy(cs, c))
  BY <1>1, <1>3 DEF ScopesFit
<1> QED BY <1>1, <1>3, <1>4, FitsKept

\* bind_let and bind_var reach the innermost scope only, which was not captured.
LEMMA FitsBind ==
    ASSUME NEW cs, NEW c, ClosuresFit(cs), NEW s, ScopesFit(cs, c, s),
           Len(CapturedBy(cs, c)) \in Nat,
           NEW x \in Vars, NEW slot \in SlotsOf(Len(cs))
    PROVE  ScopesFit(cs, c, Bind(s, x, slot)) /\ Len(Bind(s, x, slot)) = Len(s)
<1> DEFINE n == Len(cs)
           in == [y \in DOMAIN s[Len(s)] \union {x} |-> IF y = x THEN slot ELSE s[Len(s)][y]]
<1>1. s \in Seq(ScopesOf(n)) /\ Len(s) \in Nat \ {0}
  BY LenProperties DEF ScopesFit
<1>2. s[Len(s)] \in ScopesOf(n) /\ n \in Nat
  BY <1>1, ElementOfSeq, LenProperties DEF ClosuresFit
<1>3. in \in ScopesOf(n)
  <2>1. DOMAIN s[Len(s)] \subseteq Vars /\ \A y \in DOMAIN s[Len(s)] : s[Len(s)][y] \in SlotsOf(n)
    BY <1>2, SlotIn
  <2>2. in \in [DOMAIN s[Len(s)] \union {x} -> SlotsOf(n)]
    BY <2>1
  <2> QED BY <2>1, <2>2 DEF ScopesOf
<1> HIDE DEF in
<1>4. /\ [s EXCEPT ![Len(s)] = in] \in Seq(ScopesOf(n))
      /\ Len([s EXCEPT ![Len(s)] = in]) = Len(s)
      /\ \A i \in 1..(Len(s) - 1) : [s EXCEPT ![Len(s)] = in][i] = s[i]
  BY <1>1, <1>3, ExceptSeq
<1>5. Bind(s, x, slot) = [s EXCEPT ![Len(s)] = in]
  BY DEF Bind, in
<1>6. Len(s) > Len(CapturedBy(cs, c)) /\ Len(s) - 1 \in Nat
      /\ Len(s) - 1 >= Len(CapturedBy(cs, c))
  BY <1>1 DEF ScopesFit
<1> QED BY <1>1, <1>4, <1>5, <1>6, FitsKept

\* The scopes that were captured are never the innermost ones.
LEMMA FitsDrop ==
    ASSUME NEW cs, NEW c, NEW s, ScopesFit(cs, c, s), Len(CapturedBy(cs, c)) \in Nat,
           Len(s) > Len(CapturedBy(cs, c)) + 1
    PROVE  ScopesFit(cs, c, ButLast(s)) /\ Len(ButLast(s)) = Len(s) - 1
<1>1. s \in Seq(ScopesOf(Len(cs))) /\ Len(s) \in Nat \ {0} /\ s # <<>>
  BY LenProperties, EmptySeq DEF ScopesFit
<1>2. /\ ButLast(s) \in Seq(ScopesOf(Len(cs))) /\ Len(ButLast(s)) = Len(s) - 1
      /\ \A i \in 1..(Len(s) - 1) : ButLast(s)[i] = s[i]
  BY <1>1, StackParts
<1>3. /\ Len(s) - 1 > Len(CapturedBy(cs, c)) /\ Len(s) - 1 \in Nat
      /\ Len(s) - 1 >= Len(CapturedBy(cs, c))
  BY <1>1
<1>4. Len(ButLast(s)) > Len(CapturedBy(cs, c))
  BY <1>2, <1>3
<1> QED BY <1>1, <1>2, <1>3, <1>4, FitsKept

\* A visible name has a scope that holds it, the innermost one that binds it.
LEMMA HolderHolds ==
    ASSUME NEW n \in Nat, NEW s \in Seq(ScopesOf(n)), NEW x, Visible(s, x)
    PROVE  Holder(s, x) \in 1..Len(s) /\ x \in DOMAIN s[Holder(s, x)]
<1> DEFINE M == {i \in 1..Len(s) : x \in DOMAIN s[i]}
<1>1. Len(s) \in Nat /\ DOMAIN s = 1..Len(s)
  BY LenProperties
<1>2. M # {} /\ M \in SUBSET (1..Len(s))
  BY <1>1 DEF Visible
<1>3. PICK i \in M : \A j \in M : j <= i
  <2> HIDE DEF M
  <2> QED BY <1>1, <1>2, GreatestPosition
<1>4. i \in DOMAIN s /\ x \in DOMAIN s[i] /\ \A j \in (i + 1)..Len(s) : x \notin DOMAIN s[j]
  <2>1. i \in 1..Len(s)
    BY <1>3
  <2>2. \A j \in (i + 1)..Len(s) : j \in 1..Len(s) /\ ~(j <= i)
    BY <1>1, <2>1
  <2> QED BY <1>1, <1>3, <2>1, <2>2
<1> HIDE DEF M
<1>5. Holder(s, x) \in DOMAIN s /\ x \in DOMAIN s[Holder(s, x)]
  BY <1>4 DEF Holder
<1> QED BY <1>1, <1>5

\* Env::lookup yields a value or an error.
LEMMA LookupTyped ==
    ASSUME NEW n \in Nat, NEW s \in Seq(ScopesOf(n)), NEW x
    PROVE  Lookup(s, x) \in FlowsOf(n)
<1>1. CASE Visible(s, x)
  <2> DEFINE h == Holder(s, x)
  <2>1. h \in 1..Len(s) /\ x \in DOMAIN s[h]
    BY <1>1, HolderHolds
  <2>2. s[h] \in ScopesOf(n)
    BY <2>1, ElementOfSeq
  <2> HIDE DEF h
  <2>3. s[h][x] \in SlotsOf(n)
    BY <2>1, <2>2, SlotIn
  <2>4. s[h][x].val \in ValuesOf(n)
    BY <2>3 DEF SlotsOf
  <2>5. Lookup(s, x) = ValueFlow(s[h][x].val)
    BY <1>1 DEF Lookup, h
  <2> QED BY <2>4, <2>5 DEF FlowsOf, ValueFlow, Flow, Signals
<1>2. CASE ~Visible(s, x)
  <2>1. ClosureVal(0) \in ValuesOf(n) /\ Plain \in ValuesOf(n)
    BY DEF ValuesOf
  <2> QED BY <1>2, <2>1 DEF Lookup, FlowsOf, ValueFlow, Failed, Flow, Signals
<1> QED BY <1>1, <1>2

\* An assignment goes to a name that was not captured.
LEMMA FitsAssign ==
    ASSUME NEW cs, NEW c, ClosuresFit(cs), NEW s, ScopesFit(cs, c, s),
           Len(CapturedBy(cs, c)) \in Nat,
           NEW x, CanAssign(s, x), NEW v \in ValuesOf(Len(cs))
    PROVE  ScopesFit(cs, c, Assigned(s, x, v)) /\ Len(Assigned(s, x, v)) = Len(s)
<1> DEFINE n == Len(cs)
           h == Holder(s, x)
           in == [s[h] EXCEPT ![x].val = v]
<1>1. s \in Seq(ScopesOf(n)) /\ Len(s) \in Nat /\ n \in Nat
  BY LenProperties DEF ScopesFit, ClosuresFit
<1>2. h \in 1..Len(s) /\ x \in DOMAIN s[h] /\ s[h][x].mut
  BY <1>1, HolderHolds DEF CanAssign
<1>3. s[h] \in ScopesOf(n)
  BY <1>1, <1>2, ElementOfSeq
<1>4. Assigned(s, x, v) = [s EXCEPT ![h] = in]
  BY <1>1, <1>2, <1>3, SlotIn DEF Assigned
<1> HIDE DEF h
<1>5. in \in ScopesOf(n)
  <2>1. /\ DOMAIN s[h] \subseteq Vars /\ s[h] = [y \in DOMAIN s[h] |-> s[h][y]]
        /\ \A y \in DOMAIN s[h] : s[h][y] \in SlotsOf(n)
    BY <1>1, <1>3, SlotIn
  <2>2. [s[h][x] EXCEPT !.val = v] \in SlotsOf(n)
    BY <1>2, <2>1 DEF SlotsOf
  <2>3. in \in [DOMAIN s[h] -> SlotsOf(n)]
    BY <1>2, <2>1, <2>2
  <2> QED BY <2>1, <2>3 DEF ScopesOf
<1> HIDE DEF in
<1>6. /\ [s EXCEPT ![h] = in] \in Seq(ScopesOf(n))
      /\ Len([s EXCEPT ![h] = in]) = Len(s)
      /\ \A i \in 1..Len(s) : [s EXCEPT ![h] = in][i] = IF i = h THEN in ELSE s[i]
  BY <1>1, <1>2, <1>5, ExceptSeq
<1>7. h \notin 1..Len(CapturedBy(cs, c))
  <2>1. SUFFICES ASSUME h \in 1..Len(CapturedBy(cs, c)) PROVE FALSE
    OBVIOUS
  <2>2. s[h][x] = Slot(CapturedBy(cs, c)[h][x], FALSE)
    BY <1>2, <2>1 DEF ScopesFit
  <2> QED BY <1>2, <2>2 DEF Slot
<1>8. /\ Len(s) > Len(CapturedBy(cs, c)) /\ \A i \in 1..Len(CapturedBy(cs, c)) : i \in 1..Len(s)
  BY <1>1 DEF ScopesFit
<1>9. \A i \in 1..Len(CapturedBy(cs, c)) : Assigned(s, x, v)[i] = s[i]
  BY <1>4, <1>6, <1>7, <1>8
<1>10. Assigned(s, x, v) \in Seq(ScopesOf(n)) /\ Len(Assigned(s, x, v)) = Len(s)
  BY <1>4, <1>6
<1> QED BY <1>8, <1>9, <1>10, FitsKept

\* What a closure captured is a snapshot.
LEMMA CapturedTyped ==
    ASSUME NEW cs, ClosuresFit(cs), NEW c \in 0..Len(cs)
    PROVE  /\ Len(cs) \in Nat
           /\ CapturedBy(cs, c) \in Seq(SnapshotsOf(Len(cs)))
           /\ Len(CapturedBy(cs, c)) \in Nat
<1>1. cs \in Seq(Seq(SnapshotsOf(Len(cs)))) /\ Len(cs) \in Nat
  BY LenProperties DEF ClosuresFit
<1>2. CASE c = 0
  BY <1>1, <1>2, EmptySeq DEF CapturedBy
<1>3. CASE c # 0
  <2>1. c \in 1..Len(cs)
    BY <1>1, <1>3
  <2>2. cs[c] \in Seq(SnapshotsOf(Len(cs)))
    BY <1>1, <2>1, ElementOfSeq
  <2> QED BY <1>1, <1>3, <2>2, LenProperties DEF CapturedBy
<1> QED BY <1>2, <1>3

\* Env::snapshot.
LEMMA SnapshotTyped ==
    ASSUME NEW n \in Nat, NEW s \in Seq(ScopesOf(n))
    PROVE  Snapshot(s) \in Seq(SnapshotsOf(n))
<1> DEFINE snap(i) == [x \in DOMAIN s[i] |-> s[i][x].val]
<1>1. Len(s) \in Nat /\ DOMAIN s = 1..Len(s)
  BY LenProperties
<1>2. ASSUME NEW i \in 1..Len(s)
      PROVE  snap(i) \in SnapshotsOf(n)
  <2>1. s[i] \in ScopesOf(n)
    BY ElementOfSeq
  <2>2. DOMAIN s[i] \subseteq Vars /\ \A x \in DOMAIN s[i] : s[i][x] \in SlotsOf(n)
    BY <2>1, SlotIn
  <2>3. \A x \in DOMAIN s[i] : s[i][x].val \in ValuesOf(n)
    BY <2>2 DEF SlotsOf
  <2>4. snap(i) \in [DOMAIN s[i] -> ValuesOf(n)]
    BY <2>3
  <2> QED BY <2>2, <2>4 DEF SnapshotsOf
<1>3. [i \in 1..Len(s) |-> snap(i)] \in [1..Len(s) -> SnapshotsOf(n)]
  BY <1>2
<1>4. [i \in 1..Len(s) |-> snap(i)] \in Seq(SnapshotsOf(n))
  BY <1>1, <1>3, SeqDef
<1> QED BY <1>1, <1>4 DEF Snapshot

\* A closure more: nothing changes for those there were.
LEMMA ClosureAdded ==
    ASSUME NEW cs, ClosuresFit(cs), NEW snap \in Seq(SnapshotsOf(Len(cs)))
    PROVE  /\ ClosuresFit(Append(cs, snap)) /\ Len(cs) \in Nat
           /\ Len(Append(cs, snap)) = Len(cs) + 1
           /\ \A c \in 0..Len(cs) : CapturedBy(Append(cs, snap), c) = CapturedBy(cs, c)
           /\ \A c \in 0..Len(cs) : \A s : ScopesFit(cs, c, s) => ScopesFit(Append(cs, snap), c, s)
<1> DEFINE n == Len(cs)
           new == Append(cs, snap)
<1>1. cs \in Seq(Seq(SnapshotsOf(n))) /\ n \in Nat
  BY LenProperties DEF ClosuresFit
<1>2. /\ new \in Seq(Seq(SnapshotsOf(n))) /\ Len(new) = n + 1
      /\ \A i \in 1..n : new[i] = cs[i]
  BY <1>1, Pushed
<1> HIDE DEF new
<1>3. SnapshotsOf(n) \subseteq SnapshotsOf(n + 1) /\ ScopesOf(n) \subseteq ScopesOf(n + 1)
  BY <1>1, MoreValues
<1>4. Seq(SnapshotsOf(n)) \subseteq Seq(SnapshotsOf(n + 1))
      /\ Seq(ScopesOf(n)) \subseteq Seq(ScopesOf(n + 1))
  BY <1>3, SeqMonotonic
<1>5. new \in Seq(Seq(SnapshotsOf(n + 1)))
  BY <1>2, <1>4, SeqMonotonic
<1>6. \A c \in 0..n : CapturedBy(new, c) = CapturedBy(cs, c)
  BY <1>1, <1>2 DEF CapturedBy
<1>7. ASSUME NEW c \in 0..n, NEW s, ScopesFit(cs, c, s)
      PROVE  ScopesFit(new, c, s)
  BY <1>2, <1>4, <1>6, <1>7 DEF ScopesFit
<1> QED BY <1>1, <1>2, <1>5, <1>6, <1>7 DEF ClosuresFit, new

\* Env::from_snapshot makes the captured scopes immutable.
LEMMA FromSnapshotTyped ==
    ASSUME NEW n \in Nat, NEW c \in Seq(SnapshotsOf(n))
    PROVE  /\ FromSnapshot(c) \in Seq(ScopesOf(n))
           /\ Len(FromSnapshot(c)) >= Len(c) /\ Len(FromSnapshot(c)) \in Nat
           /\ \A i \in 1..Len(c) :
                 /\ DOMAIN FromSnapshot(c)[i] = DOMAIN c[i]
                 /\ \A x \in DOMAIN c[i] : FromSnapshot(c)[i][x] = Slot(c[i][x], FALSE)
<1>1. Len(c) \in Nat /\ DOMAIN c = 1..Len(c)
  BY LenProperties
<1>2. CASE c = <<>>
  <2>1. NoSlots \in ScopesOf(n)
    <3>1. NoSlots \in [{} -> SlotsOf(n)]
      BY DEF NoSlots
    <3> QED BY <3>1 DEF ScopesOf
  <2>2. <<NoSlots>> \in Seq(ScopesOf(n)) /\ Len(<<NoSlots>>) = 1
    BY <2>1
  <2> QED BY <1>2, <2>2, EmptySeq DEF FromSnapshot
<1>3. CASE c # <<>>
  <2> DEFINE slots(i) == [x \in DOMAIN c[i] |-> Slot(c[i][x], FALSE)]
             all == [i \in 1..Len(c) |-> slots(i)]
  <2>1. ASSUME NEW i \in 1..Len(c)
        PROVE  slots(i) \in ScopesOf(n)
    <3>1. c[i] \in SnapshotsOf(n)
      BY ElementOfSeq
    <3>2. DOMAIN c[i] \subseteq Vars /\ \A x \in DOMAIN c[i] : c[i][x] \in ValuesOf(n)
      BY <3>1 DEF SnapshotsOf
    <3>3. slots(i) \in [DOMAIN c[i] -> SlotsOf(n)]
      BY <3>2 DEF Slot, SlotsOf
    <3> QED BY <3>2, <3>3 DEF ScopesOf
  <2>2. all \in [1..Len(c) -> ScopesOf(n)]
    BY <2>1
  <2>3. all \in Seq(ScopesOf(n)) /\ Len(all) = Len(c)
    <3>1. all \in Seq(ScopesOf(n))
      BY <1>1, <2>2, SeqDef
    <3>2. DOMAIN all = 1..Len(c)
      OBVIOUS
    <3> HIDE DEF all
    <3>3. Len(all) \in Nat /\ DOMAIN all = 1..Len(all)
      BY <3>1, LenProperties
    <3>4. Len(all) = Len(c)
      BY <1>1, <3>2, <3>3
    <3> QED BY <3>1, <3>4
  <2>4. FromSnapshot(c) = all
    BY <1>1, <1>3 DEF FromSnapshot
  <2>5. \A i \in 1..Len(c) : all[i] = slots(i)
    OBVIOUS
  <2>6. \A i \in 1..Len(c) : /\ DOMAIN slots(i) = DOMAIN c[i]
                            /\ \A x \in DOMAIN c[i] : slots(i)[x] = Slot(c[i][x], FALSE)
    OBVIOUS
  <2> HIDE DEF all, slots
  <2>7. \A i \in 1..Len(c) : /\ DOMAIN all[i] = DOMAIN c[i]
                            /\ \A x \in DOMAIN c[i] : all[i][x] = Slot(c[i][x], FALSE)
    BY <2>5, <2>6
  <2>8. all \in Seq(ScopesOf(n)) /\ Len(all) >= Len(c) /\ Len(all) \in Nat
    BY <1>1, <2>3
  <2> QED BY <2>4, <2>7, <2>8
<1> QED BY <1>2, <1>3

\* The Env that invoke_value makes.
LEMMA CallEnvFits ==
    ASSUME NEW n, n = Len(closures), ClosuresFit(closures), NEW c \in 0..n, NEW v \in ValuesOf(n),
           Param \in Vars
    PROVE  /\ CallEnv(c, v) \in EnvsOf(n)
           /\ ScopesFit(closures, c, CallEnv(c, v).scopes)
           /\ Len(CallEnv(c, v).scopes) \in Nat
           /\ CallEnv(c, v).fn = c /\ CallEnv(c, v).open
           /\ CallEnv(c, v).ran = <<>> /\ CallEnv(c, v).defers = <<>>
<1> DEFINE captured == CapturedBy(closures, c)
           made == FromSnapshot(captured)
           more == Append(made, NoSlots)
           slot == Slot(v, FALSE)
           bound == Bind(more, Param, slot)
<1>1. n \in Nat /\ captured \in Seq(SnapshotsOf(n)) /\ Len(captured) \in Nat
  BY CapturedTyped
<1>2. /\ made \in Seq(ScopesOf(n)) /\ Len(made) >= Len(captured) /\ Len(made) \in Nat
      /\ \A i \in 1..Len(captured) :
            /\ DOMAIN made[i] = DOMAIN captured[i]
            /\ \A x \in DOMAIN captured[i] : made[i][x] = Slot(captured[i][x], FALSE)
  BY <1>1, FromSnapshotTyped
<1> HIDE DEF made
<1>3. NoSlots \in ScopesOf(n)
  <2>1. NoSlots \in [{} -> SlotsOf(n)]
    BY DEF NoSlots
  <2> QED BY <2>1 DEF ScopesOf
<1>4. /\ more \in Seq(ScopesOf(n)) /\ Len(more) = Len(made) + 1
      /\ \A i \in 1..Len(made) : more[i] = made[i]
  BY <1>2, <1>3, Pushed
<1> HIDE DEF more
<1>5. ScopesFit(closures, c, more)
  <2>1. \A i \in 1..Len(captured) : i \in 1..Len(made) /\ more[i] = made[i]
    BY <1>1, <1>2, <1>4
  <2> HIDE DEF captured
  <2>2. Len(more) > Len(captured)
    BY <1>1, <1>2, <1>4
  <2>3. more \in Seq(ScopesOf(Len(closures)))
    BY <1>4
  <2> QED BY <1>2, <2>1, <2>2, <2>3 DEF ScopesFit, captured
<1>6. slot \in SlotsOf(n)
  BY DEF Slot, SlotsOf
<1> HIDE DEF slot
<1>7. ScopesFit(closures, c, bound) /\ Len(bound) = Len(more)
  BY <1>1, <1>5, <1>6, FitsBind
<1>8. bound \in Seq(ScopesOf(n)) /\ Len(bound) \in Nat
  BY <1>7, LenProperties DEF ScopesFit
<1>9. CallEnv(c, v) = [fn |-> c, open |-> TRUE, defers |-> <<>>, ran |-> <<>>, scopes |-> bound]
  BY DEF CallEnv, bound, more, made, slot, Captured, CapturedBy
<1> HIDE DEF bound
<1>10. <<>> \in Seq(Registered) /\ <<>> \in Seq(Nat)
  BY EmptySeq
<1> QED BY <1>7, <1>8, <1>9, <1>10 DEF EnvsOf

-----------------------------------------------------------------------------
(* Frames and the Envs they are evaluated in.                              *)

\* The frame g stands directly on the frame f, whose Env is e.
Under(f, g, e) ==
    /\ IF g.kind = "call"
       THEN f.kind # "call" /\ g.env = f.env + 1 /\ Len(e.scopes) = Depth(f)
       ELSE /\ g.env = f.env /\ g.depth >= Depth(f)
            /\ g.kind # "deferred" => g.depth = Depth(f)
    /\ g.kind = "deferred" <=> Draining(f)
    /\ f.kind = "call" => Draining(f) \/ (f.use = "body" /\ g.kind = "block")
    /\ f.kind = "match" => f.use \in {"guard", "body"}
    /\ (f.kind = "match" /\ f.use = "guard") <=> (g.kind = "value" /\ g.use = "guard")

\* The deferred bodies that the call f has run, and those it still has to run.
CallFits(f, e) ==
    IF Draining(f)
    THEN /\ ~ e.open /\ f.left <= Len(e.defers)
         /\ e.ran = [i \in 1..(Len(e.defers) - f.left) |-> Len(e.defers) + 1 - i]
    ELSE e.open /\ e.ran = <<>>

Calls(fs) == {i \in 1..Len(fs) : fs[i].kind = "call"}

\* Every frame has an Env, and more scopes below it than the closure captured.
FrameFits(f, es, cs) ==
    /\ f.env \in 1..Len(es)
    /\ f.depth > Len(CapturedBy(cs, es[f.env].fn))
    /\ f.kind = "call" => CallFits(f, es[f.env])

\* The frames fs are those of calls, one for each Env, and of forms on top of them.
Tower(fs, es, cs) ==
    /\ fs # <<>> => fs[1].kind = "call" /\ Cardinality(Calls(fs)) = fs[Len(fs)].env
    /\ \A i \in 1..(Len(fs) - 1) : Under(fs[i], fs[i + 1], es[fs[i].env])
    /\ \A i, j \in 1..Len(fs) : i < j =>
          fs[i].env <= fs[j].env /\ (fs[j].kind = "call" => fs[i].env < fs[j].env)
    /\ \A i \in 1..Len(fs) : FrameFits(fs[i], es, cs)

\* A form has at most one scope of its own.
LEMMA DepthTyped ==
    ASSUME NEW n, NEW f \in FramesOf(n)
    PROVE  Own(f) \in {0, 1} /\ f.depth \in Nat /\ Depth(f) \in Nat /\ Depth(f) >= f.depth
<1>1. f.depth \in Nat
  BY DEF FramesOf, AnyFrames
<1>2. Own(f) \in {0, 1}
  BY DEF Own
<1> QED BY <1>1, <1>2 DEF Depth

\* The floor of a frame is a number.
LEMMA FloorTyped ==
    ASSUME NEW cs, ClosuresFit(cs), NEW es \in Seq(EnvsOf(Len(cs))), NEW i \in 1..Len(es)
    PROVE  /\ es[i] \in EnvsOf(Len(cs)) /\ es[i].fn \in 0..Len(cs)
           /\ Len(CapturedBy(cs, es[i].fn)) \in Nat
<1>1. es[i] \in EnvsOf(Len(cs))
  BY ElementOfSeq
<1>2. es[i].fn \in 0..Len(cs)
  BY <1>1 DEF EnvsOf
<1> QED BY <1>1, <1>2, CapturedTyped

\* The calls that are under way can be counted.
LEMMA CallsFinite ==
    ASSUME NEW n, NEW fs \in Seq(FramesOf(n))
    PROVE  IsFiniteSet(Calls(fs)) /\ Cardinality(Calls(fs)) \in Nat
<1>1. Len(fs) \in Nat
  BY LenProperties
<1>2. IsFiniteSet(1..Len(fs)) /\ Calls(fs) \in SUBSET (1..Len(fs))
  BY <1>1, FS_Interval DEF Calls
<1> QED BY <1>2, FS_Subset, FS_CardinalityType

\* One call more, if the new frame is one.
LEMMA CallsPushed ==
    ASSUME NEW n, NEW fs \in Seq(FramesOf(n)), NEW g \in FramesOf(n)
    PROVE  Cardinality(Calls(Append(fs, g)))
              = IF g.kind = "call" THEN Cardinality(Calls(fs)) + 1 ELSE Cardinality(Calls(fs))
<1> DEFINE k == Len(fs)
           new == Append(fs, g)
<1>1. /\ k \in Nat /\ Len(new) = k + 1 /\ new[k + 1] = g
      /\ \A i \in 1..k : new[i] = fs[i]
  BY Pushed
<1> HIDE DEF new
<1>2. \A i : i \in 1..(k + 1) <=> i \in 1..k \/ i = k + 1
  BY <1>1
<1>3. IsFiniteSet(Calls(fs)) /\ k + 1 \notin Calls(fs)
  BY <1>1, CallsFinite DEF Calls
<1>4. CASE g.kind = "call"
  <2>1. Calls(new) = Calls(fs) \cup {k + 1}
    BY <1>1, <1>2, <1>4 DEF Calls
  <2> QED BY <1>3, <1>4, <2>1, FS_AddElement DEF new
<1>5. CASE g.kind # "call"
  <2>1. Calls(new) = Calls(fs)
    BY <1>1, <1>2, <1>5 DEF Calls
  <2> QED BY <1>5, <2>1 DEF new
<1> QED BY <1>4, <1>5

\* The stack as what is below and the top.
LEMMA Rebuilt ==
    ASSUME NEW S, NEW s \in Seq(S), s # <<>>
    PROVE  s = Append(ButLast(s), Last(s))
<1> DEFINE b == ButLast(s)
           t == Append(b, Last(s))
<1>1. /\ Len(s) \in Nat \ {0} /\ Last(s) \in S /\ Last(s) = s[Len(s)] /\ b \in Seq(S)
      /\ Len(b) = Len(s) - 1 /\ \A i \in 1..(Len(s) - 1) : b[i] = s[i]
  BY StackParts
<1> HIDE DEF b
<1>2. /\ t \in Seq(S) /\ Len(t) = Len(b) + 1 /\ t[Len(b) + 1] = Last(s)
      /\ \A i \in 1..Len(b) : t[i] = b[i]
  BY <1>1, Pushed
<1> HIDE DEF t
<1>3. Len(t) = Len(s) /\ \A i \in 1..Len(s) : s[i] = t[i]
  BY <1>1, <1>2
<1>4. s = t
  BY <1>1, <1>2, <1>3, SeqEqual
<1> QED BY <1>4 DEF t, b

\* The tower without its top.
LEMMA TowerPop ==
    ASSUME NEW n, NEW fs \in Seq(FramesOf(n)), NEW es, NEW cs, Tower(fs, es, cs), fs # <<>>
    PROVE  /\ Tower(ButLast(fs), es, cs)
           /\ Last(fs).kind # "call" => ButLast(fs) # <<>>
           /\ ButLast(fs) # <<>> =>
                Under(Last(ButLast(fs)), Last(fs), es[Last(ButLast(fs)).env])
<1> DEFINE k == Len(fs)
           b == ButLast(fs)
<1>1. /\ k \in Nat \ {0} /\ Last(fs) = fs[k] /\ fs[k] \in FramesOf(n) /\ b \in Seq(FramesOf(n))
      /\ Len(b) = k - 1 /\ \A i \in 1..(k - 1) : b[i] = fs[i]
  BY StackParts
<1>2. b # <<>> => k - 1 \in 1..(k - 1) /\ Last(b) = fs[k - 1] /\ k - 1 + 1 = k
  BY <1>1, EmptySeq DEF Last
<1>3. fs = Append(b, fs[k])
  BY <1>1, Rebuilt
<1>4. /\ Cardinality(Calls(b)) \in Nat
      /\ Cardinality(Calls(fs)) = IF fs[k].kind = "call" THEN Cardinality(Calls(b)) + 1
                                  ELSE Cardinality(Calls(b))
  BY <1>1, <1>3, CallsPushed, CallsFinite
<1> HIDE DEF b, k
<1>5. b # <<>> => Under(Last(b), fs[k], es[Last(b).env])
  BY <1>2 DEF Tower, k
<1>6. b # <<>> => b[1].kind = "call" /\ Cardinality(Calls(b)) = b[Len(b)].env
  <2>1. SUFFICES ASSUME b # <<>>
                 PROVE  b[1].kind = "call" /\ Cardinality(Calls(b)) = b[Len(b)].env
    OBVIOUS
  <2>2. 1 \in 1..(k - 1) /\ b[Len(b)] = Last(b) /\ Last(b) = fs[k - 1]
    BY <1>1, <1>2, <2>1 DEF Last
  <2>3. fs[k - 1] \in FramesOf(n) /\ fs[k].env \in Nat
    <3>1. k - 1 \in 1..Len(fs)
      BY <1>1, <2>2 DEF k
    <3> QED BY <1>1, <3>1, ElementOfSeq DEF FramesOf, AnyFrames
  <2>4. fs[k - 1].env \in Nat
    BY <2>3 DEF FramesOf, AnyFrames
  <2>5. fs[k].env = IF fs[k].kind = "call" THEN fs[k - 1].env + 1 ELSE fs[k - 1].env
    BY <1>5, <2>1, <2>2 DEF Under
  <2>6. Cardinality(Calls(fs)) = fs[k].env
    BY DEF Tower, k
  <2>7. Cardinality(Calls(b)) = fs[k - 1].env
    BY <1>4, <2>3, <2>4, <2>5, <2>6
  <2>8. b[1].kind = "call"
    BY <1>1, <2>2 DEF Tower
  <2> QED BY <2>2, <2>7, <2>8
<1>7. \A i \in 1..(Len(b) - 1) : Under(b[i], b[i + 1], es[b[i].env])
  <2> TAKE i \in 1..(Len(b) - 1)
  <2>1. i \in 1..(Len(fs) - 1) /\ b[i] = fs[i] /\ b[i + 1] = fs[i + 1]
    BY <1>1 DEF k
  <2> QED BY <2>1 DEF Tower
<1>8. \A i \in 1..Len(b) : i \in 1..Len(fs) /\ b[i] = fs[i]
  BY <1>1 DEF k
<1>9. Tower(b, es, cs)
  BY <1>6, <1>7, <1>8 DEF Tower
<1>10. fs[k].kind # "call" => b # <<>>
  <2>1. SUFFICES ASSUME b = <<>> PROVE fs[k].kind = "call"
    OBVIOUS
  <2>2. k = 1
    BY <1>1, <2>1
  <2> QED BY <2>2 DEF Tower
<1> QED BY <1>1, <1>5, <1>9, <1>10 DEF b

\* A form on the tower, in the Env of the frame below it.
LEMMA TowerPush ==
    ASSUME NEW n, NEW fs \in Seq(FramesOf(n)), NEW cs, ClosuresFit(cs),
           NEW es \in Seq(EnvsOf(Len(cs))), Tower(fs, es, cs), fs # <<>>,
           NEW g \in FramesOf(n), g.kind # "call", Under(Last(fs), g, es[Last(fs).env])
    PROVE  Tower(Append(fs, g), es, cs)
<1> DEFINE k == Len(fs)
           t == Append(fs, g)
<1>1. /\ k \in Nat \ {0} /\ Last(fs) = fs[k] /\ fs[k] \in FramesOf(n)
  BY StackParts
<1>2. /\ t # <<>> /\ Len(t) = k + 1 /\ t[k + 1] = g /\ \A i \in 1..k : t[i] = fs[i]
  BY Pushed
<1>3. Cardinality(Calls(t)) = Cardinality(Calls(fs))
  BY CallsPushed
<1> HIDE DEF t, k
<1>4. g.env = fs[k].env /\ g.env \in Nat /\ g.depth >= Depth(fs[k])
  BY <1>1 DEF Under, FramesOf, AnyFrames
<1>5. t[1].kind = "call" /\ Cardinality(Calls(t)) = t[Len(t)].env
  <2>1. t[1] = fs[1] /\ 1 \in 1..k
    BY <1>1, <1>2
  <2> QED BY <1>2, <1>3, <1>4, <2>1 DEF Tower, k
<1>6. ASSUME NEW i \in 1..(Len(t) - 1)
      PROVE  Under(t[i], t[i + 1], es[t[i].env])
  <2>1. CASE i = k
    BY <1>1, <1>2, <2>1
  <2>2. CASE i # k
    <3>1. i \in 1..(Len(fs) - 1) /\ t[i] = fs[i] /\ t[i + 1] = fs[i + 1]
      BY <1>1, <1>2, <2>2 DEF k
    <3> QED BY <3>1 DEF Tower
  <2> QED BY <2>1, <2>2
<1>7. ASSUME NEW i \in 1..Len(t), NEW j \in 1..Len(t), i < j
      PROVE  t[i].env <= t[j].env /\ (t[j].kind = "call" => t[i].env < t[j].env)
  <2>1. i \in 1..k /\ t[i] = fs[i]
    BY <1>1, <1>2, <1>7
  <2>2. CASE j = k + 1
    <3>1. fs[i].env <= fs[k].env
      <4>1. CASE i = k
        BY <1>4, <4>1
      <4>2. CASE i # k
        <5>1. i \in 1..Len(fs) /\ k \in 1..Len(fs) /\ i < k
          BY <1>1, <2>1, <4>2 DEF k
        <5> QED BY <5>1 DEF Tower
      <4> QED BY <4>1, <4>2
    <3> QED BY <1>2, <1>4, <2>1, <2>2, <3>1
  <2>3. CASE j # k + 1
    <3>1. j \in 1..Len(fs) /\ i \in 1..Len(fs) /\ t[j] = fs[j]
      BY <1>1, <1>2, <2>1, <2>3 DEF k
    <3> QED BY <1>7, <2>1, <3>1 DEF Tower
  <2> QED BY <2>2, <2>3
<1>8. ASSUME NEW i \in 1..Len(t)
      PROVE  FrameFits(t[i], es, cs)
  <2>1. CASE i = k + 1
    <3>1. k \in 1..Len(fs)
      BY <1>1 DEF k
    <3>2. FrameFits(fs[k], es, cs)
      BY <3>1 DEF Tower
    <3>3. fs[k].depth \in Nat /\ g.depth \in Nat /\ Depth(fs[k]) >= fs[k].depth
      BY <1>1, DepthTyped
    <3>4. Depth(fs[k]) \in Nat
      BY <1>1, DepthTyped
    <3> DEFINE m == Len(CapturedBy(cs, es[g.env].fn))
    <3>5. fs[k].depth > m
      BY <1>4, <3>2 DEF FrameFits
    <3>7. m \in Nat
      BY <1>4, <3>2, FloorTyped DEF FrameFits
    <3> HIDE DEF m
    <3>6. g.depth > m
      BY <1>4, <3>3, <3>4, <3>5, <3>7
    <3> QED BY <1>2, <1>4, <2>1, <3>2, <3>6 DEF FrameFits, m
  <2>2. CASE i # k + 1
    <3>1. i \in 1..Len(fs) /\ t[i] = fs[i]
      BY <1>1, <1>2, <2>2 DEF k
    <3> QED BY <3>1 DEF Tower
  <2> QED BY <2>1, <2>2
<1>9. Tower(t, es, cs)
  BY <1>5, <1>6, <1>7, <1>8 DEF Tower
<1> QED BY <1>9 DEF t

\* Only the last Env changes, and of it neither the closure nor, unless the top
\* frame is its call, what is known of its deferred bodies.
Differ(es, ds) ==
    /\ Len(ds) = Len(es) /\ \A k \in 1..(Len(es) - 1) : ds[k] = es[k]
    /\ Last(ds).fn = Last(es).fn
KeepDefers(e, d) ==
    /\ d.open = e.open /\ d.ran = e.ran
    /\ ~ e.open => d.defers = e.defers

\* The frame on top goes on, and its Env may change.
LEMMA TowerTop ==
    ASSUME NEW n, NEW fs \in Seq(FramesOf(n)), NEW cs, ClosuresFit(cs),
           NEW es \in Seq(EnvsOf(Len(cs))), Tower(fs, es, cs), fs # <<>>,
           Last(fs).env = Len(es), NEW ds \in Seq(EnvsOf(Len(cs))), Differ(es, ds),
           NEW g \in FramesOf(n), g.kind = Last(fs).kind, g.env = Last(fs).env,
           g.depth = Last(fs).depth,
           g.kind = "value" => (g.use = "guard" <=> Last(fs).use = "guard"),
           g.kind = "call" => CallFits(g, Last(ds)),
           g.kind # "call" => KeepDefers(Last(es), Last(ds))
    PROVE  Tower(Append(ButLast(fs), g), ds, cs)
<1> DEFINE k == Len(fs)
           t == Append(ButLast(fs), g)
           l == Len(es)
<1>1. /\ k \in Nat \ {0} /\ Last(fs) = fs[k] /\ fs[k] \in FramesOf(n)
      /\ ButLast(fs) \in Seq(FramesOf(n)) /\ Len(ButLast(fs)) = k - 1
      /\ \A i \in 1..(k - 1) : ButLast(fs)[i] = fs[i]
  BY StackParts
<1>2. /\ t # <<>> /\ Len(t) = k /\ t[k] = g /\ \A i \in 1..(k - 1) : t[i] = fs[i]
  <2>1. /\ t # <<>> /\ Len(t) = k - 1 + 1 /\ t[k - 1 + 1] = g
        /\ \A i \in 1..(k - 1) : t[i] = ButLast(fs)[i]
    BY <1>1, Pushed
  <2> QED BY <1>1, <2>1
<1>3. Cardinality(Calls(t)) = Cardinality(Calls(fs))
  <2>1. \A i \in 1..k : t[i].kind = fs[i].kind
    <3> TAKE i \in 1..k
    <3>1. CASE i = k
      BY <1>1, <1>2, <3>1
    <3>2. CASE i # k
      <4>1. i \in 1..(k - 1)
        BY <1>1, <3>2
      <4> QED BY <1>2, <4>1
    <3> QED BY <3>1, <3>2
  <2>2. Calls(t) = Calls(fs)
    BY <1>2, <2>1 DEF Calls
  <2> QED BY <2>2
<1>4. /\ l \in Nat /\ fs[k].env = l /\ l \in 1..l /\ Last(es) = es[l] /\ Last(ds) = ds[l]
      /\ Len(ds) = l
  <2>1. FrameFits(fs[k], es, cs)
    BY <1>1 DEF Tower
  <2> QED BY <1>1, <2>1, LenProperties DEF Differ, FrameFits, Last
<1> HIDE DEF t, k
<1>5. t[1].kind = "call" /\ Cardinality(Calls(t)) = t[Len(t)].env
  <2>1. t[1].kind = fs[1].kind
    BY <1>1, <1>2
  <2> QED BY <1>1, <1>2, <1>3, <2>1 DEF Tower, k
<1>6. \A i \in 1..k : fs[i].env \in 1..l /\ t[i].env = fs[i].env /\ t[i].kind = fs[i].kind
                      /\ t[i].depth = fs[i].depth
  <2> TAKE i \in 1..k
  <2>1. FrameFits(fs[i], es, cs)
    BY DEF Tower, k
  <2> QED BY <1>1, <1>2, <2>1 DEF FrameFits
<1>7. ASSUME NEW i \in 1..(Len(t) - 1)
      PROVE  Under(t[i], t[i + 1], ds[t[i].env])
  <2>1. i \in 1..(k - 1) /\ i \in 1..k /\ i + 1 \in 1..k /\ t[i] = fs[i]
    BY <1>1, <1>2
  <2>2. Under(fs[i], fs[i + 1], es[fs[i].env])
    BY <2>1 DEF Tower, k
  <2>3. /\ t[i + 1].kind = fs[i + 1].kind /\ t[i + 1].env = fs[i + 1].env
        /\ t[i + 1].depth = fs[i + 1].depth
    BY <1>6, <2>1
  <2>4. t[i + 1].kind = "value" => (t[i + 1].use = "guard" <=> fs[i + 1].use = "guard")
    BY <1>1, <1>2, <2>1
  <2>5. t[i + 1].kind = "call" => ds[fs[i].env] = es[fs[i].env]
    <3>1. SUFFICES ASSUME t[i + 1].kind = "call" PROVE ds[fs[i].env] = es[fs[i].env]
      OBVIOUS
    <3>2. i \in 1..Len(fs) /\ i + 1 \in 1..Len(fs) /\ i < i + 1
      BY <2>1 DEF k
    <3>3. fs[i].env < fs[i + 1].env
      BY <3>1, <3>2, <2>3 DEF Tower
    <3>4. fs[i].env \in 1..(l - 1)
      BY <1>4, <1>6, <2>1, <3>3
    <3> QED BY <3>4 DEF Differ
  <2> QED BY <2>1, <2>2, <2>3, <2>4, <2>5 DEF Under
<1>8. \A i, j \in 1..Len(t) : i < j =>
          t[i].env <= t[j].env /\ (t[j].kind = "call" => t[i].env < t[j].env)
  BY <1>2, <1>6 DEF Tower, k
<1>9. ASSUME NEW i \in 1..Len(t)
      PROVE  FrameFits(t[i], ds, cs)
  <2>1. i \in 1..Len(fs) /\ i \in 1..k /\ FrameFits(fs[i], es, cs)
    BY <1>2 DEF Tower, k
  <2>2. CASE fs[i].env # l
    <3>1. fs[i].env \in 1..(l - 1)
      BY <1>4, <1>6, <2>1, <2>2
    <3>2. ds[fs[i].env] = es[fs[i].env]
      BY <3>1 DEF Differ
    <3>3. i # k
      BY <1>4, <2>2
    <3>4. t[i] = fs[i]
      BY <1>1, <1>2, <2>1, <3>3
    <3> QED BY <1>4, <2>1, <3>2, <3>4 DEF FrameFits
  <2>3. CASE fs[i].env = l /\ i = k
    <3>1. ds[l].fn = es[l].fn /\ t[i] = g
      BY <1>2, <1>4, <2>3 DEF Differ
    <3> QED BY <1>1, <1>4, <2>1, <2>3, <3>1 DEF FrameFits
  <2>4. CASE fs[i].env = l /\ i # k
    <3>0. i \in 1..(k - 1) /\ k \in 1..k
      BY <1>1, <2>1, <2>4
    <3>1. t[i] = fs[i] /\ i < k /\ k \in 1..Len(fs)
      BY <1>1, <1>2, <3>0 DEF k
    <3>2. fs[k].kind # "call"
      <4>1. fs[k].kind = "call" => fs[i].env < fs[k].env
        BY <2>1, <3>1 DEF Tower
      <4> QED BY <1>4, <2>4, <4>1
    <3>3. KeepDefers(es[l], ds[l]) /\ ds[l].fn = es[l].fn
      BY <1>1, <1>4, <3>2 DEF Differ
    <3>4. fs[i].kind = "call" => CallFits(fs[i], ds[l])
      <4>1. fs[i].kind = "call" => CallFits(fs[i], es[l])
        BY <2>1, <2>4 DEF FrameFits
      <4> QED BY <3>3, <4>1 DEF CallFits, KeepDefers
    <3> QED BY <1>4, <2>1, <2>4, <3>1, <3>3, <3>4 DEF FrameFits
  <2> QED BY <2>2, <2>3, <2>4
<1>10. Tower(t, ds, cs)
  BY <1>5, <1>7, <1>8, <1>9 DEF Tower
<1> QED BY <1>10 DEF t

\* The scopes of the last Env change, or a deferred body is registered.
LEMMA TowerEnv ==
    ASSUME NEW n, NEW fs \in Seq(FramesOf(n)), NEW cs, ClosuresFit(cs),
           NEW es \in Seq(EnvsOf(Len(cs))), Tower(fs, es, cs), fs # <<>>,
           Last(fs).env = Len(es), NEW ds \in Seq(EnvsOf(Len(cs))), Differ(es, ds),
           KeepDefers(Last(es), Last(ds)),
           Last(fs).kind = "call" => Last(ds).defers = Last(es).defers
    PROVE  Tower(fs, ds, cs)
<1> DEFINE g == Last(fs)
<1>1. g \in FramesOf(n) /\ fs = Append(ButLast(fs), g)
  BY StackParts, Rebuilt
<1>2. g.kind = "call" => CallFits(g, Last(ds))
  <2>1. FrameFits(g, es, cs)
    <3>1. Len(fs) \in 1..Len(fs) /\ g = fs[Len(fs)]
      <4>1. Len(fs) \in Nat \ {0} /\ g = fs[Len(fs)]
        BY StackParts
      <4> QED BY <4>1
    <3> QED BY <3>1 DEF Tower
  <2>2. g.kind = "call" => CallFits(g, Last(es))
    BY <2>1 DEF FrameFits, Last
  <2> QED BY <2>2 DEF CallFits, KeepDefers
<1> HIDE DEF g
<1>3. g = Last(fs)
  BY DEF g
<1>4. Tower(Append(ButLast(fs), g), ds, cs)
  BY <1>1, <1>2, <1>3, TowerTop
<1> QED BY <1>1, <1>4

\* A call begins.
LEMMA TowerCall ==
    ASSUME NEW n, NEW fs \in Seq(FramesOf(n)), NEW cs, ClosuresFit(cs),
           NEW es \in Seq(EnvsOf(Len(cs))), Tower(fs, es, cs), fs # <<>>,
           Last(fs).env = Len(es), NEW e \in EnvsOf(Len(cs)),
           NEW g \in FramesOf(n), g.kind = "call", g.env = Len(es) + 1, CallFits(g, e),
           g.depth > Len(CapturedBy(cs, e.fn)), Under(Last(fs), g, Last(es))
    PROVE  Tower(Append(fs, g), Append(es, e), cs)
<1> DEFINE k == Len(fs)
           t == Append(fs, g)
           l == Len(es)
           ds == Append(es, e)
<1>1. /\ k \in Nat \ {0} /\ Last(fs) = fs[k] /\ fs[k] \in FramesOf(n)
  BY StackParts
<1>2. /\ t # <<>> /\ Len(t) = k + 1 /\ t[k + 1] = g /\ \A i \in 1..k : t[i] = fs[i]
  BY Pushed
<1>3. Cardinality(Calls(t)) = Cardinality(Calls(fs)) + 1
  BY CallsPushed
<1>4. /\ l \in Nat /\ Len(ds) = l + 1 /\ ds[l + 1] = e /\ \A i \in 1..l : ds[i] = es[i]
  BY Pushed
<1> HIDE DEF t, k, ds
<1>5. fs[k].env = l /\ l \in 1..l /\ Last(es) = es[l]
  BY <1>1 DEF Tower, FrameFits, Last, k
<1>6. \A i \in 1..k : fs[i].env \in 1..l /\ ds[fs[i].env] = es[fs[i].env]
  BY <1>4 DEF Tower, FrameFits, k
<1>7. t[1].kind = "call" /\ Cardinality(Calls(t)) = t[Len(t)].env
  <2>1. t[1] = fs[1] /\ 1 \in 1..k
    BY <1>1, <1>2
  <2> QED BY <1>2, <1>3, <1>5, <2>1 DEF Tower, k
<1>8. ASSUME NEW i \in 1..(Len(t) - 1)
      PROVE  Under(t[i], t[i + 1], ds[t[i].env])
  <2>1. CASE i = k
    BY <1>1, <1>2, <1>5, <1>6, <2>1
  <2>2. CASE i # k
    <3>1. i \in 1..k /\ i \in 1..(Len(fs) - 1) /\ t[i] = fs[i] /\ t[i + 1] = fs[i + 1]
      BY <1>1, <1>2, <2>2 DEF k
    <3> QED BY <1>6, <3>1 DEF Tower
  <2> QED BY <2>1, <2>2
<1>9. ASSUME NEW i \in 1..Len(t), NEW j \in 1..Len(t), i < j
      PROVE  t[i].env <= t[j].env /\ (t[j].kind = "call" => t[i].env < t[j].env)
  <2>1. i \in 1..k /\ t[i] = fs[i] /\ fs[i].env \in 1..l
    BY <1>1, <1>2, <1>6, <1>9
  <2>2. CASE j = k + 1
    BY <1>2, <1>4, <2>1, <2>2
  <2>3. CASE j # k + 1
    <3>0. j \in 1..k /\ t[j] = fs[j]
      BY <1>1, <1>2, <2>3
    <3>1. j \in 1..Len(fs) /\ i \in 1..Len(fs) /\ t[j] = fs[j]
      BY <2>1, <3>0 DEF k
    <3> QED BY <1>9, <2>1, <3>1 DEF Tower
  <2> QED BY <2>2, <2>3
<1>10. ASSUME NEW i \in 1..Len(t)
       PROVE  FrameFits(t[i], ds, cs)
  <2>1. CASE i = k + 1
    BY <1>2, <1>4, <2>1 DEF FrameFits
  <2>2. CASE i # k + 1
    <3>1. i \in 1..Len(fs) /\ i \in 1..k /\ t[i] = fs[i]
      BY <1>1, <1>2, <2>2 DEF k
    <3>2. FrameFits(fs[i], es, cs)
      BY <3>1 DEF Tower
    <3> QED BY <1>4, <1>6, <3>1, <3>2 DEF FrameFits
  <2> QED BY <2>1, <2>2
<1>11. Tower(t, ds, cs)
  BY <1>7, <1>8, <1>9, <1>10 DEF Tower
<1> QED BY <1>11 DEF t, ds

\* A call is over, and its Env with it.
LEMMA TowerReturn ==
    ASSUME NEW n, NEW fs \in Seq(FramesOf(n)), NEW cs, ClosuresFit(cs),
           NEW es \in Seq(EnvsOf(Len(cs))), Tower(fs, es, cs), fs # <<>>,
           Last(fs).env = Len(es), Last(fs).kind = "call"
    PROVE  /\ Tower(ButLast(fs), ButLast(es), cs)
           /\ ButLast(fs) = <<>> => ButLast(es) = <<>>
           /\ ButLast(fs) # <<>> => /\ Last(ButLast(fs)).env = Len(ButLast(es))
                                    /\ ButLast(es) # <<>>
                                    /\ Last(ButLast(es)) = es[Last(ButLast(fs)).env]
<1> DEFINE k == Len(fs)
           b == ButLast(fs)
           l == Len(es)
           ds == ButLast(es)
<1>1. /\ k \in Nat \ {0} /\ Last(fs) = fs[k] /\ b \in Seq(FramesOf(n)) /\ Len(b) = k - 1
      /\ \A i \in 1..(k - 1) : b[i] = fs[i]
  BY StackParts
<1>2. fs[k].env \in 1..Len(es) /\ fs[k].kind = "call"
  BY <1>1 DEF Tower, FrameFits
<1>3. /\ l \in Nat \ {0} /\ ds \in Seq(EnvsOf(Len(cs))) /\ Len(ds) = l - 1
      /\ \A i \in 1..(l - 1) : ds[i] = es[i]
  <2>1. es # <<>>
    BY <1>2, EmptySeq
  <2> QED BY <2>1, StackParts
<1>4. /\ Tower(b, es, cs)
      /\ b # <<>> => Under(Last(b), Last(fs), es[Last(b).env])
  BY TowerPop
<1> HIDE DEF b, k, ds
<1>5. ASSUME NEW i \in 1..(k - 1)
      PROVE  fs[i].env \in 1..(l - 1) /\ ds[fs[i].env] = es[fs[i].env] /\ b[i] = fs[i]
  <2>1. i \in 1..Len(fs) /\ k \in 1..Len(fs) /\ i < k
    BY <1>1 DEF k
  <2>2. fs[i].env < fs[k].env /\ fs[i].env \in 1..l
    BY <1>2, <2>1 DEF Tower, FrameFits
  <2>3. fs[i].env \in 1..(l - 1)
    BY <1>2, <1>3, <2>2
  <2> QED BY <1>1, <1>3, <2>3
<1>6. \A i \in 1..Len(b) : FrameFits(b[i], ds, cs)
  <2> TAKE i \in 1..Len(b)
  <2>1. i \in 1..(k - 1) /\ FrameFits(b[i], es, cs)
    BY <1>1, <1>4 DEF Tower
  <2> QED BY <1>3, <1>5, <2>1 DEF FrameFits
<1>7. \A i \in 1..(Len(b) - 1) : Under(b[i], b[i + 1], ds[b[i].env])
  <2> TAKE i \in 1..(Len(b) - 1)
  <2>1. i \in 1..(k - 1) /\ Under(b[i], b[i + 1], es[b[i].env])
    BY <1>1, <1>4 DEF Tower
  <2> QED BY <1>5, <2>1
<1>8. Tower(b, ds, cs)
  BY <1>4, <1>6, <1>7 DEF Tower
<1>9. b = <<>> => ds = <<>>
  <2>1. SUFFICES ASSUME b = <<>> PROVE ds = <<>>
    OBVIOUS
  <2>2. k = 1
    BY <1>1, <2>1
  <2>3. Calls(fs) = {1}
    BY <1>2, <2>2 DEF Calls, k
  <2>4. fs[k].env = 1
    BY <2>2, <2>3, FS_Singleton DEF Tower, k
  <2>5. Len(ds) = 0
    BY <1>1, <1>3, <2>4
  <2> QED BY <1>3, <2>5, EmptySeq
<1>10. b # <<>> => Last(b).env = Len(ds) /\ ds # <<>> /\ Last(ds) = es[Last(b).env]
  <2>1. SUFFICES ASSUME b # <<>>
                 PROVE  Last(b).env = Len(ds) /\ ds # <<>> /\ Last(ds) = es[Last(b).env]
    OBVIOUS
  <2>2. k - 1 \in 1..(k - 1) /\ Last(b) = fs[k - 1]
    BY <1>1, <2>1, EmptySeq DEF Last
  <2>3. l = Last(b).env + 1
    BY <1>1, <1>2, <1>4, <2>1 DEF Under
  <2>4. fs[k - 1].env \in 1..(l - 1) /\ ds[fs[k - 1].env] = es[fs[k - 1].env]
    BY <1>5, <2>2
  <2>5. Last(b).env = l - 1 /\ l - 1 \in 1..(l - 1)
    BY <1>3, <2>2, <2>3, <2>4
  <2>6. ds # <<>> /\ Last(ds) = ds[l - 1]
    BY <1>3, <2>5, EmptySeq DEF Last
  <2> QED BY <1>3, <2>2, <2>4, <2>5, <2>6
<1> QED BY <1>8, <1>9, <1>10 DEF b, ds

-----------------------------------------------------------------------------
(* The invariant of the walk, for any frames fs, Envs es, closures cs, mode  *)
(* m and flow fl.                                                          *)

\* Well-typed frames and Envs, the innermost frame in the last Env.
Standing(fs, es, cs) ==
    /\ ClosuresFit(cs)
    /\ fs \in Seq(FramesOf(Len(cs))) /\ fs # <<>>
    /\ es \in Seq(EnvsOf(Len(cs))) /\ Last(fs).env = Len(es)
    /\ \A k \in 1..Len(es) : ScopesFit(cs, es[k].fn, es[k].scopes)
    /\ Tower(fs, es, cs)

\* Where the innermost frame f stands in each mode.
Stands(m, f, fl) ==
    CASE m = "expr" -> \/ f.kind \in {"block", "bind", "interp", "value", "deferred"}
                       \/ f.kind = "match" /\ f.use = "body"
      [] m = "step" -> \/ f.kind = "block"
                       \/ f.kind = "match" /\ f.use = "arms"
                       \/ f.kind = "call" /\ f.use \in {"requires", "ensures", "drain"}
      [] m = "give" -> /\ f.kind = "call" => f.use = "body"
                       /\ f.kind = "match" => f.use = "body" \/ (f.use = "guard" /\ IsError(fl))
      [] OTHER -> FALSE

\* The innermost frame f has its scopes, s; more of them where an error goes out.
Balanced(f, s, fl) ==
    /\ Len(s) >= Depth(f)
    /\ ~ IsError(fl) /\ ~ Draining(f) => Len(s) = Depth(f)

Sound(fs, es, cs, m, fl) ==
    /\ fl \in FlowsOf(Len(cs)) /\ ClosuresFit(cs)
    /\ m \in {"expr", "step"} => fl = NoFlow
    /\ IF m = "done" THEN fs = <<>> /\ es = <<>>
       ELSE /\ Standing(fs, es, cs)
            /\ Stands(m, Last(fs), fl)
            /\ Balanced(Last(fs), Last(es).scopes, fl)

\* The facts about the top of the tower, for citing.
LEMMA StandingParts ==
    ASSUME NEW fs, NEW es, NEW cs, Standing(fs, es, cs)
    PROVE  /\ ClosuresFit(cs) /\ Len(cs) \in Nat
           /\ fs \in Seq(FramesOf(Len(cs))) /\ fs # <<>> /\ Last(fs) \in FramesOf(Len(cs))
           /\ es \in Seq(EnvsOf(Len(cs))) /\ es # <<>> /\ Len(es) \in Nat \ {0}
           /\ Last(es) \in EnvsOf(Len(cs)) /\ Last(es) = es[Len(es)]
           /\ Last(fs).env = Len(es) /\ Tower(fs, es, cs)
           /\ Last(es).fn \in 0..Len(cs) /\ Last(es).scopes \in Seq(ScopesOf(Len(cs)))
           /\ ScopesFit(cs, Last(es).fn, Last(es).scopes)
           /\ Len(CapturedBy(cs, Last(es).fn)) \in Nat
           /\ Last(fs).depth > Len(CapturedBy(cs, Last(es).fn)) /\ Last(fs).depth \in Nat
           /\ Last(fs).kind = "call" => CallFits(Last(fs), Last(es))
           /\ Len(Last(es).scopes) \in Nat
<1>1. /\ fs \in Seq(FramesOf(Len(cs))) /\ fs # <<>> /\ ClosuresFit(cs)
      /\ es \in Seq(EnvsOf(Len(cs))) /\ Last(fs).env = Len(es) /\ Tower(fs, es, cs)
  BY DEF Standing
<1>2. Last(fs) \in FramesOf(Len(cs)) /\ Len(fs) \in 1..Len(fs) /\ Last(fs) = fs[Len(fs)]
  <2>1. Last(fs) \in FramesOf(Len(cs)) /\ Len(fs) \in Nat \ {0} /\ Last(fs) = fs[Len(fs)]
    BY <1>1, StackParts
  <2> QED BY <2>1
<1>3. FrameFits(Last(fs), es, cs)
  BY <1>1, <1>2 DEF Tower
<1>4. Len(es) \in 1..Len(es) /\ Len(cs) \in Nat
  BY <1>1, <1>3, LenProperties DEF FrameFits, ClosuresFit
<1>5. es # <<>> /\ Len(es) \in Nat \ {0} /\ Last(es) = es[Len(es)]
  BY <1>1, <1>4, EmptySeq, LenProperties DEF Last
<1>6. /\ Last(es) \in EnvsOf(Len(cs)) /\ Last(es).fn \in 0..Len(cs)
      /\ Len(CapturedBy(cs, Last(es).fn)) \in Nat
  BY <1>1, <1>4, <1>5, FloorTyped
<1>7. Last(es).scopes \in Seq(ScopesOf(Len(cs)))
  BY <1>6 DEF EnvsOf
<1>8. ScopesFit(cs, Last(es).fn, Last(es).scopes)
  BY <1>4, <1>5 DEF Standing
<1>9. Last(fs).depth \in Nat
  BY <1>2 DEF FramesOf, AnyFrames
<1>10. Last(fs).depth > Len(CapturedBy(cs, Last(es).fn))
       /\ (Last(fs).kind = "call" => CallFits(Last(fs), Last(es)))
  BY <1>1, <1>3, <1>5 DEF FrameFits
<1>11. Len(Last(es).scopes) \in Nat
  BY <1>7, LenProperties
<1> QED BY <1>1, <1>2, <1>4, <1>5, <1>6, <1>7, <1>8, <1>9, <1>10, <1>11

\* New values in the last Env.
LEMMA StandEnv ==
    ASSUME NEW fs, NEW es, NEW cs, Standing(fs, es, cs), NEW e \in EnvsOf(Len(cs)),
           NEW ds, ds = [es EXCEPT ![Len(es)] = e],
           e.fn = Last(es).fn, ScopesFit(cs, e.fn, e.scopes), KeepDefers(Last(es), e),
           Last(fs).kind = "call" => e.defers = Last(es).defers
    PROVE  Standing(fs, ds, cs) /\ Last(ds) = e /\ Len(ds) = Len(es)
<1>1. /\ es \in Seq(EnvsOf(Len(cs))) /\ es # <<>> /\ Len(es) \in Nat \ {0}
      /\ fs \in Seq(FramesOf(Len(cs))) /\ fs # <<>> /\ Last(fs).env = Len(es)
      /\ Tower(fs, es, cs) /\ ClosuresFit(cs)
  BY StandingParts
<1>2. /\ ds \in Seq(EnvsOf(Len(cs))) /\ Len(ds) = Len(es)
      /\ \A j \in 1..Len(es) : ds[j] = IF j = Len(es) THEN e ELSE es[j]
  <2>1. Len(es) \in 1..Len(es)
    BY <1>1
  <2> QED BY <1>1, <2>1, ExceptSeq
<1>3. Len(es) \in 1..Len(es) /\ Last(ds) = e
  BY <1>1, <1>2 DEF Last
<1>4. Differ(es, ds)
  <2>1. \A k \in 1..(Len(es) - 1) : k \in 1..Len(es) /\ k # Len(es)
    BY <1>1
  <2> QED BY <1>2, <1>3, <2>1 DEF Differ
<1>5. Tower(fs, ds, cs)
  BY <1>1, <1>2, <1>3, <1>4, TowerEnv
<1>6. \A k \in 1..Len(ds) : ScopesFit(cs, ds[k].fn, ds[k].scopes)
  <2> TAKE k \in 1..Len(ds)
  <2>1. CASE k = Len(es)
    BY <1>2, <2>1
  <2>2. CASE k # Len(es)
    <3>1. k \in 1..Len(es) /\ ds[k] = es[k]
      BY <1>2, <2>2
    <3> QED BY <3>1 DEF Standing
  <2> QED BY <2>1, <2>2
<1> QED BY <1>1, <1>2, <1>3, <1>5, <1>6 DEF Standing

\* What SetScopes does.
Rescoped(es, s) == [es EXCEPT ![Len(es)].scopes = s]

\* New scopes in the last Env.
LEMMA StandScopes ==
    ASSUME NEW fs, NEW es, NEW cs, Standing(fs, es, cs),
           NEW s, ScopesFit(cs, Last(es).fn, s),
           NEW ds, ds = Rescoped(es, s)
    PROVE  /\ Standing(fs, ds, cs) /\ Len(ds) = Len(es)
           /\ Last(ds) = [Last(es) EXCEPT !.scopes = s] /\ Last(ds).scopes = s
           /\ Last(ds).fn = Last(es).fn
<1>1. Last(es) \in EnvsOf(Len(cs)) /\ Last(es) = es[Len(es)]
      /\ es \in Seq(EnvsOf(Len(cs))) /\ Len(es) \in Nat \ {0}
  BY StandingParts
<1>2. s \in Seq(ScopesOf(Len(cs)))
  BY DEF ScopesFit
<1> DEFINE new == [Last(es) EXCEPT !.scopes = s]
<1>0. /\ new \in EnvsOf(Len(cs)) /\ new.fn = Last(es).fn /\ new.scopes = s
      /\ new.open = Last(es).open /\ new.ran = Last(es).ran /\ new.defers = Last(es).defers
  BY <1>1, <1>2 DEF EnvsOf
<1> HIDE DEF new
<1>3. PICK e \in EnvsOf(Len(cs)) :
         /\ e = new /\ e.fn = Last(es).fn /\ e.scopes = s
         /\ e.open = Last(es).open /\ e.ran = Last(es).ran /\ e.defers = Last(es).defers
  BY <1>0
<1>4. ds = [es EXCEPT ![Len(es)] = e]
  BY <1>1, <1>3 DEF new, Rescoped
<1>5. KeepDefers(Last(es), e) /\ ScopesFit(cs, e.fn, e.scopes)
  BY <1>3 DEF KeepDefers
<1>6. Last(fs).kind = "call" => e.defers = Last(es).defers
  BY <1>3
<1>7. Standing(fs, ds, cs) /\ Len(ds) = Len(es)
  <2>1. Standing(fs, ds, cs)
    BY <1>3, <1>4, <1>5, <1>6, StandEnv
  <2>2. Len(ds) = Len(es)
    BY <1>1, <1>4
  <2> QED BY <2>1, <2>2
<1>8. Last(ds) = e
  BY <1>1, <1>3, <1>4, <1>7 DEF Last
<1> QED BY <1>3, <1>7, <1>8 DEF new

\* The innermost form is taken off.
LEMMA StandPop ==
    ASSUME NEW fs, NEW es, NEW cs, Standing(fs, es, cs), Last(fs).kind # "call"
    PROVE  /\ Standing(ButLast(fs), es, cs)
           /\ Under(Last(ButLast(fs)), Last(fs), Last(es))
           /\ Last(ButLast(fs)).env = Len(es)
<1>1. /\ es \in Seq(EnvsOf(Len(cs))) /\ Last(es) = es[Len(es)]
      /\ fs \in Seq(FramesOf(Len(cs))) /\ fs # <<>> /\ Last(fs).env = Len(es)
      /\ Tower(fs, es, cs) /\ ClosuresFit(cs)
  BY StandingParts
<1>2. /\ Tower(ButLast(fs), es, cs) /\ ButLast(fs) # <<>>
      /\ Under(Last(ButLast(fs)), Last(fs), es[Last(ButLast(fs)).env])
  BY <1>1, TowerPop
<1>3. ButLast(fs) \in Seq(FramesOf(Len(cs)))
  BY <1>1, StackParts
<1>4. Last(ButLast(fs)).env = Len(es)
  BY <1>1, <1>2 DEF Under
<1> QED BY <1>1, <1>2, <1>3, <1>4 DEF Standing

\* A form is begun inside the innermost one.
LEMMA StandPush ==
    ASSUME NEW fs, NEW es, NEW cs, Standing(fs, es, cs), NEW g \in FramesOf(Len(cs)),
           g.kind # "call", Under(Last(fs), g, Last(es))
    PROVE  Standing(Append(fs, g), es, cs) /\ Last(Append(fs, g)) = g
<1>1. /\ es \in Seq(EnvsOf(Len(cs))) /\ Last(es) = es[Len(es)]
      /\ fs \in Seq(FramesOf(Len(cs))) /\ fs # <<>> /\ Last(fs).env = Len(es)
      /\ Tower(fs, es, cs) /\ ClosuresFit(cs)
  BY StandingParts
<1>2. Tower(Append(fs, g), es, cs)
  BY <1>1, TowerPush
<1>3. /\ Append(fs, g) \in Seq(FramesOf(Len(cs))) /\ Append(fs, g) # <<>>
      /\ Last(Append(fs, g)) = g
  BY <1>1, Pushed
<1>4. g.env = Len(es)
  BY <1>1 DEF Under
<1> QED BY <1>1, <1>2, <1>3, <1>4 DEF Standing

\* The innermost form goes on at another place.
LEMMA StandTop ==
    ASSUME NEW fs, NEW es, NEW cs, Standing(fs, es, cs), NEW g \in FramesOf(Len(cs)),
           g.kind = Last(fs).kind, g.env = Last(fs).env, g.depth = Last(fs).depth,
           g.kind # "call", g.kind = "value" => (g.use = "guard" <=> Last(fs).use = "guard")
    PROVE  Standing(Append(ButLast(fs), g), es, cs) /\ Last(Append(ButLast(fs), g)) = g
<1>1. Standing(ButLast(fs), es, cs) /\ Under(Last(ButLast(fs)), Last(fs), Last(es))
  BY StandPop
<1>2. Under(Last(ButLast(fs)), g, Last(es))
  BY <1>1 DEF Under
<1> QED BY <1>1, <1>2, StandPush

\* The call on top goes on to the next part of invoke_value.
LEMMA StandCall ==
    ASSUME NEW fs, NEW es, NEW cs, Standing(fs, es, cs), Last(fs).kind = "call",
           NEW e \in EnvsOf(Len(cs)), NEW ds, ds = [es EXCEPT ![Len(es)] = e],
           e.fn = Last(es).fn, ScopesFit(cs, e.fn, e.scopes),
           NEW g \in FramesOf(Len(cs)), g.kind = "call", g.env = Last(fs).env,
           g.depth = Last(fs).depth, CallFits(g, e)
    PROVE  /\ Standing(Append(ButLast(fs), g), ds, cs) /\ Last(Append(ButLast(fs), g)) = g
           /\ Last(ds) = e /\ Len(ds) = Len(es)
<1>1. /\ es \in Seq(EnvsOf(Len(cs))) /\ es # <<>> /\ Len(es) \in Nat \ {0}
      /\ fs \in Seq(FramesOf(Len(cs))) /\ fs # <<>> /\ Last(fs).env = Len(es)
      /\ Tower(fs, es, cs) /\ ClosuresFit(cs)
  BY StandingParts
<1>2. /\ ds \in Seq(EnvsOf(Len(cs))) /\ Len(ds) = Len(es)
      /\ \A j \in 1..Len(es) : ds[j] = IF j = Len(es) THEN e ELSE es[j]
  <2>1. Len(es) \in 1..Len(es)
    BY <1>1
  <2> QED BY <1>1, <2>1, ExceptSeq
<1>3. Len(es) \in 1..Len(es) /\ Last(ds) = e
  BY <1>1, <1>2 DEF Last
<1>4. Differ(es, ds)
  <2>1. \A k \in 1..(Len(es) - 1) : k \in 1..Len(es) /\ k # Len(es)
    BY <1>1
  <2> QED BY <1>2, <1>3, <2>1 DEF Differ
<1>5. Tower(Append(ButLast(fs), g), ds, cs)
  BY <1>1, <1>2, <1>3, <1>4, TowerTop
<1>6. \A k \in 1..Len(ds) : ScopesFit(cs, ds[k].fn, ds[k].scopes)
  <2> TAKE k \in 1..Len(ds)
  <2>1. CASE k = Len(es)
    BY <1>2, <2>1
  <2>2. CASE k # Len(es)
    <3>1. k \in 1..Len(es) /\ ds[k] = es[k]
      BY <1>2, <2>2
    <3> QED BY <3>1 DEF Standing
  <2> QED BY <2>1, <2>2
<1>7. /\ Append(ButLast(fs), g) \in Seq(FramesOf(Len(cs))) /\ Append(ButLast(fs), g) # <<>>
      /\ Last(Append(ButLast(fs), g)) = g
  <2>1. ButLast(fs) \in Seq(FramesOf(Len(cs)))
    BY <1>1, StackParts
  <2> QED BY <2>1, Pushed
<1> QED BY <1>1, <1>2, <1>3, <1>5, <1>6, <1>7 DEF Standing

-----------------------------------------------------------------------------
(* What the steps of eval.rs do to the frames and the scopes.              *)

\* A frame that takes another form inside.
Takes(f) == f.kind # "deferred" /\ (f.kind = "call" => f.use = "body")
            /\ (f.kind = "match" => f.use = "body")

\* A form inside one that takes forms.
LEMMA PushForm ==
    ASSUME NEW fs, NEW es, NEW cs, Standing(fs, es, cs),
           Takes(Last(fs)) \/ Last(fs).kind = "deferred", NEW g \in FramesOf(Len(cs)),
           g.kind \notin {"call", "deferred"}, g.env = Len(es), g.depth = Depth(Last(fs)),
           g.kind = "value" => g.use # "guard", Last(fs).kind = "call" => g.kind = "block"
    PROVE  Standing(Append(fs, g), es, cs) /\ Last(Append(fs, g)) = g
<1>1. Last(fs).env = Len(es) /\ Depth(Last(fs)) \in Nat
  BY StandingParts, DepthTyped
<1>2. Under(Last(fs), g, Last(es))
  BY <1>1 DEF Under, Takes, Draining
<1> QED BY <1>2, StandPush

\* The frame under one of an operand or a form takes forms.
LEMMA TakesBelow ==
    ASSUME NEW fs, NEW es, NEW cs, Standing(fs, es, cs),
           Last(fs).kind \notin {"call", "deferred"},
           Last(fs).kind = "value" => Last(fs).use # "guard"
    PROVE  /\ Standing(ButLast(fs), es, cs) /\ Last(ButLast(fs)).env = Len(es)
           /\ Takes(Last(ButLast(fs))) \/ Last(ButLast(fs)).kind = "deferred"
           /\ Depth(Last(ButLast(fs))) = Last(fs).depth
           /\ Last(fs).kind # "block" => Last(ButLast(fs)).kind # "call"
<1>1. /\ Standing(ButLast(fs), es, cs) /\ Last(ButLast(fs)).env = Len(es)
      /\ Under(Last(ButLast(fs)), Last(fs), Last(es))
  BY StandPop
<1> QED BY <1>1 DEF Under, Takes, Draining

\* Another form takes the place of the one on top.
LEMMA ReplaceForm ==
    ASSUME NEW fs, NEW es, NEW cs, Standing(fs, es, cs),
           Last(fs).kind \notin {"call", "deferred", "block"},
           Last(fs).kind = "value" => Last(fs).use # "guard",
           NEW g \in FramesOf(Len(cs)),
           g.kind \notin {"call", "deferred"}, g.env = Len(es), g.depth = Last(fs).depth,
           g.kind = "value" => g.use # "guard"
    PROVE  Standing(Append(ButLast(fs), g), es, cs) /\ Last(Append(ButLast(fs), g)) = g
<1>1. /\ Standing(ButLast(fs), es, cs)
      /\ Takes(Last(ButLast(fs))) \/ Last(ButLast(fs)).kind = "deferred"
      /\ Depth(Last(ButLast(fs))) = Last(fs).depth
      /\ Last(ButLast(fs)).kind # "call"
  BY TakesBelow
<1> QED BY <1>1, PushForm

\* Give(Below, ..).
LEMMA GiveBelow ==
    ASSUME NEW fs, NEW es, NEW cs, Standing(fs, es, cs),
           Last(fs).kind \notin {"call", "deferred"}, NEW fl \in FlowsOf(Len(cs)),
           Last(fs).kind = "value" /\ Last(fs).use = "guard" => IsError(fl),
           Len(Last(es).scopes) >= Last(fs).depth,
           ~ IsError(fl) => Len(Last(es).scopes) = Last(fs).depth
    PROVE  Sound(ButLast(fs), es, cs, "give", fl)
<1> DEFINE b == Last(ButLast(fs))
<1>1. Standing(ButLast(fs), es, cs) /\ Under(b, Last(fs), Last(es)) /\ ClosuresFit(cs)
  BY StandPop DEF Standing
<1>2. Stands("give", b, fl)
  BY <1>1 DEF Under, Stands, Draining
<1>3. Balanced(b, Last(es).scopes, fl)
  BY <1>1 DEF Under, Balanced
<1> QED BY <1>1, <1>2, <1>3 DEF Sound

\* PopBlock: the scope of the form on top goes, and the form with it.
LEMMA PopScope ==
    ASSUME NEW fs, NEW es, NEW cs, Standing(fs, es, cs),
           Last(fs).kind \notin {"call", "deferred", "value"}, Own(Last(fs)) = 1,
           NEW fl \in FlowsOf(Len(cs)), Len(Last(es).scopes) >= Depth(Last(fs)),
           ~ IsError(fl) => Len(Last(es).scopes) = Depth(Last(fs)),
           NEW ds, ds = Rescoped(es, ButLast(Last(es).scopes))
    PROVE  Sound(ButLast(fs), ds, cs, "give", fl) /\ Len(ds) = Len(es)
<1> DEFINE s == Last(es).scopes
           f == Last(fs)
<1>1. /\ ScopesFit(cs, Last(es).fn, s) /\ Len(CapturedBy(cs, Last(es).fn)) \in Nat
      /\ f.depth > Len(CapturedBy(cs, Last(es).fn)) /\ f.depth \in Nat /\ Len(s) \in Nat
  BY StandingParts
<1>2. Depth(f) = f.depth + 1
  BY DEF Depth
<1>3. Len(s) > Len(CapturedBy(cs, Last(es).fn)) + 1
  BY <1>1, <1>2
<1>4. ScopesFit(cs, Last(es).fn, ButLast(s)) /\ Len(ButLast(s)) = Len(s) - 1
  BY <1>1, <1>3, FitsDrop
<1>5. Standing(fs, ds, cs) /\ Last(ds).scopes = ButLast(s) /\ Len(ds) = Len(es)
  BY <1>4, StandScopes
<1>6. /\ Len(Last(ds).scopes) >= f.depth
      /\ ~ IsError(fl) => Len(Last(ds).scopes) = f.depth
  BY <1>1, <1>2, <1>4, <1>5
<1>7. Sound(ButLast(fs), ds, cs, "give", fl)
  BY <1>5, <1>6, GiveBelow
<1> QED BY <1>5, <1>7

\* Enter: a block, with a scope of its own on the scopes s.
LEMMA Entered ==
    ASSUME NEW fs, NEW es, NEW cs, Standing(fs, es, cs),
           Takes(Last(fs)) \/ Last(fs).kind = "deferred",
           NEW s, ScopesFit(cs, Last(es).fn, s), Len(s) = Depth(Last(fs)),
           NEW g \in FramesOf(Len(cs)), g.kind = "block", g.use = "stmt", g.env = Len(es),
           g.depth = Len(s), NEW ds, ds = Rescoped(es, Push(s))
    PROVE  Sound(Append(fs, g), ds, cs, "step", NoFlow) /\ Len(ds) = Len(es)
<1>1. ClosuresFit(cs) /\ Len(CapturedBy(cs, Last(es).fn)) \in Nat
  BY StandingParts
<1>2. ScopesFit(cs, Last(es).fn, Push(s)) /\ Len(Push(s)) = Len(s) + 1
  BY <1>1, FitsPush
<1>3. Standing(fs, ds, cs) /\ Last(ds).scopes = Push(s) /\ Len(ds) = Len(es)
  BY <1>2, StandScopes
<1>4. Standing(Append(fs, g), ds, cs) /\ Last(Append(fs, g)) = g
  BY <1>3, PushForm
<1>5. Depth(g) = Len(s) + 1
  BY DEF Depth, Own
<1>6. Len(s) \in Nat
  BY LenProperties DEF ScopesFit
<1>7. Balanced(g, Last(ds).scopes, NoFlow)
  BY <1>2, <1>3, <1>5, <1>6 DEF Balanced
<1>8. Stands("step", g, NoFlow) /\ NoFlow \in FlowsOf(Len(cs))
  BY DEF Stands, FlowsOf, NoFlow, Flow, Signals, ValuesOf
<1> QED BY <1>1, <1>3, <1>4, <1>7, <1>8 DEF Sound

\* Eval and Step: on goes the frame on top.
LEMMA GoesOn ==
    ASSUME NEW fs, NEW es, NEW cs, Standing(fs, es, cs), NEW m \in {"expr", "step"},
           Stands(m, Last(fs), NoFlow), Len(Last(es).scopes) = Depth(Last(fs))
    PROVE  Sound(fs, es, cs, m, NoFlow)
<1>1. NoFlow \in FlowsOf(Len(cs)) /\ ClosuresFit(cs)
  BY DEF FlowsOf, NoFlow, Flow, Signals, ValuesOf, Standing
<1>2. Depth(Last(fs)) \in Nat
  BY StandingParts, DepthTyped
<1>3. Balanced(Last(fs), Last(es).scopes, NoFlow)
  BY <1>2 DEF Balanced
<1> QED BY <1>1, <1>3 DEF Sound

-----------------------------------------------------------------------------
(* The inductive invariant.                                                *)

N == Len(closures)
Walk == Sound(frames, envs, closures, mode, flow)

\* No deferred body is disturbed, nor anything that it stands on.
Covers(fs, gs) ==
    \A k \in 1..Len(fs) : fs[k].kind = "deferred" =>
        k <= Len(gs) /\ \A j \in 1..k : gs[j] = fs[j]

\* A step that is not one of a call that ends: no Env goes, deferred bodies go on,
\* and a violation passes on to the frame below.
Quiet ==
    /\ Len(envs') >= Len(envs)
    /\ Covers(frames, frames')
    /\ ~ (mode = "step" /\ Draining(Top))
    /\ fatal' = fatal
    /\ mode = "give" /\ flow = Violated => mode' = "give" /\ flow' = Violated /\ frames' = Below

Kept == Walk' /\ Quiet

\* The shapes that a step gives the frames leave deferred bodies alone.
LEMMA CoversShapes ==
    ASSUME NEW n, NEW fs \in Seq(FramesOf(n)), fs # <<>>,
           NEW g \in FramesOf(n), NEW h \in FramesOf(n)
    PROVE  /\ Covers(fs, fs) /\ Covers(fs, Append(fs, g)) /\ Covers(fs, Append(Append(fs, g), h))
           /\ Last(fs).kind # "deferred" => /\ Covers(fs, ButLast(fs))
                                            /\ Covers(fs, Append(ButLast(fs), g))
                                            /\ Covers(fs, Append(Append(ButLast(fs), g), h))
<1> DEFINE k == Len(fs)
           b == ButLast(fs)
           t == Append(fs, g)
           u == Append(t, h)
           v == Append(b, g)
           w == Append(v, h)
<1>1. /\ k \in Nat \ {0} /\ Last(fs) = fs[k] /\ b \in Seq(FramesOf(n))
      /\ Len(b) = k - 1 /\ \A i \in 1..(k - 1) : b[i] = fs[i]
  BY StackParts
<1>2. /\ t \in Seq(FramesOf(n)) /\ Len(t) = k + 1 /\ \A i \in 1..k : t[i] = fs[i]
  BY Pushed
<1>3. /\ Len(u) = Len(t) + 1 /\ \A i \in 1..Len(t) : u[i] = t[i]
  BY <1>2, Pushed
<1>4. /\ v \in Seq(FramesOf(n)) /\ Len(v) = Len(b) + 1 /\ \A i \in 1..Len(b) : v[i] = b[i]
  BY <1>1, Pushed
<1>5. /\ Len(w) = Len(v) + 1 /\ \A i \in 1..Len(v) : w[i] = v[i]
  BY <1>4, Pushed
<1> HIDE DEF k, b, t, u, v, w
<1>6. Covers(fs, fs)
  BY <1>1 DEF Covers, k
<1>7. Covers(fs, t) /\ Covers(fs, u)
  <2>1. \A i \in 1..k : i <= Len(t) /\ i <= Len(u)
                        /\ \A j \in 1..i : t[j] = fs[j] /\ u[j] = fs[j]
    BY <1>1, <1>2, <1>3
  <2> QED BY <2>1 DEF Covers, k
<1>8. Last(fs).kind # "deferred" => Covers(fs, b) /\ Covers(fs, v) /\ Covers(fs, w)
  <2>1. \A i \in 1..(k - 1) : i <= Len(b) /\ i <= Len(v) /\ i <= Len(w)
                        /\ \A j \in 1..i : b[j] = fs[j] /\ v[j] = fs[j] /\ w[j] = fs[j]
    BY <1>1, <1>4, <1>5
  <2>2. \A i \in 1..k : Last(fs).kind # "deferred" /\ fs[i].kind = "deferred" => i \in 1..(k - 1)
    BY <1>1
  <2> QED BY <2>1, <2>2 DEF Covers, k
<1> QED BY <1>6, <1>7, <1>8 DEF b, t, u, v, w

\* What is at hand where the walk goes on.
LEMMA AtHand ==
    ASSUME Walk, mode # "done"
    PROVE  /\ Standing(frames, envs, closures) /\ Stands(mode, Top, flow)
           /\ ClosuresFit(closures) /\ N \in Nat /\ flow \in FlowsOf(N) /\ flow.val \in ValuesOf(N)
           /\ frames \in Seq(FramesOf(N)) /\ frames # <<>> /\ Top \in FramesOf(N)
           /\ envs \in Seq(EnvsOf(N)) /\ Len(envs) \in Nat \ {0} /\ Env \in EnvsOf(N)
           /\ Top.env = Len(envs) /\ ScopesFit(closures, Env.fn, Scopes)
           /\ Scopes \in Seq(ScopesOf(N)) /\ Len(Scopes) \in Nat
           /\ Len(CapturedBy(closures, Env.fn)) \in Nat
           /\ Top.depth \in Nat /\ Depth(Top) \in Nat
           /\ Len(Scopes) >= Depth(Top)
           /\ ~ IsError(flow) /\ ~ Draining(Top) => Len(Scopes) = Depth(Top)
           /\ mode \in {"expr", "step"} => flow = NoFlow /\ ~ IsError(flow)
<1>1. /\ Standing(frames, envs, closures) /\ Stands(mode, Top, flow)
      /\ ClosuresFit(closures) /\ flow \in FlowsOf(N) /\ Balanced(Top, Scopes, flow)
      /\ mode \in {"expr", "step"} => flow = NoFlow
  BY DEF Walk, Sound, N, Top, Env, Scopes
<1>2. flow.val \in ValuesOf(N)
  BY <1>1 DEF FlowsOf
<1>3. ~ IsError(NoFlow)
  BY DEF IsError, NoFlow, Flow
<1>4. /\ frames \in Seq(FramesOf(N)) /\ frames # <<>> /\ Top \in FramesOf(N) /\ N \in Nat
      /\ envs \in Seq(EnvsOf(N)) /\ Len(envs) \in Nat \ {0} /\ Env \in EnvsOf(N)
      /\ Top.env = Len(envs) /\ ScopesFit(closures, Env.fn, Scopes)
      /\ Scopes \in Seq(ScopesOf(N)) /\ Len(Scopes) \in Nat
      /\ Len(CapturedBy(closures, Env.fn)) \in Nat /\ Top.depth \in Nat
  BY <1>1, StandingParts DEF N, Top, Env, Scopes
<1>5. Depth(Top) \in Nat
  BY <1>4, DepthTyped
<1> QED BY <1>1, <1>2, <1>3, <1>4, <1>5 DEF Balanced

\* The flows that the actions write.
LEMMA FlowTyped ==
    ASSUME NEW n \in Nat
    PROVE  /\ NoFlow \in FlowsOf(n) /\ Failed \in FlowsOf(n) /\ Raised \in FlowsOf(n)
           /\ Violated \in FlowsOf(n)
           /\ \A k \in {"break", "continue", "return"} : Flow(k, Plain) \in FlowsOf(n)
           /\ \A v \in ValuesOf(n) : ValueFlow(v) \in FlowsOf(n) /\ Flow("return", v) \in FlowsOf(n)
           /\ Plain \in ValuesOf(n) /\ OkVal \in ValuesOf(n) /\ ErrVal \in ValuesOf(n)
           /\ IsError(Failed) /\ IsError(Raised) /\ IsError(Violated)
           /\ \A v : ~ IsError(ValueFlow(v)) /\ IsValue(ValueFlow(v))
           /\ ~ IsError(NoFlow) /\ ~ IsValue(Violated) /\ ~ IsError(Flow("return", Plain))
BY DEF FlowsOf, NoFlow, Failed, Raised, Violated, ValueFlow, Flow, Signals, ValuesOf,
       IsError, IsValue

\* A new frame.
LEMMA FrameTyped ==
    ASSUME NEW n \in Nat, Len(envs) \in Nat, NEW k \in Kinds, NEW u \in Uses, NEW d \in Nat,
           k # "bind", k = "value" => u \notin {"items", "catch"}, k = "loop" => u # "for",
           k = "match" => u # "guard"
    PROVE  /\ Frame(k, u, d) \in FramesOf(n)
           /\ Frame(k, u, d).kind = k /\ Frame(k, u, d).use = u
           /\ Frame(k, u, d).env = Len(envs) /\ Frame(k, u, d).depth = d
<1>1. NoFlow \in FlowsOf(n)
  BY FlowTyped
<1> QED BY <1>1 DEF Frame, FramesOf, AnyFrames, Binds

\* A new frame that keeps a name.
LEMMA FrameNamed ==
    ASSUME NEW n \in Nat, Len(envs) \in Nat, NEW k \in Kinds, NEW u \in Uses, NEW d \in Nat,
           NEW x \in Vars \union {NoName}, NEW l \in Nat, NEW b \in BOOLEAN,
           k = "bind" \/ (k = "value" /\ u \in {"items", "catch"}) \/ (k = "loop" /\ u = "for")
               => x \in Vars, k # "match"
    PROVE  /\ [Frame(k, u, d) EXCEPT !.name = x, !.mut = b] \in FramesOf(n)
           /\ [Frame(k, u, d) EXCEPT !.name = x, !.left = l] \in FramesOf(n)
           /\ [Frame(k, u, d) EXCEPT !.left = l, !.name = x] \in FramesOf(n)
           /\ [Frame(k, u, d) EXCEPT !.name = x, !.seen = b] \in FramesOf(n)
<1>1. NoFlow \in FlowsOf(n)
  BY FlowTyped
<1> QED BY <1>1 DEF Frame, FramesOf, AnyFrames, Binds

\* What a step owes: the walk is sound, and deferred bodies and violations stay.
LEMMA KeptBy ==
    ASSUME Sound(frames', envs', closures, mode', flow'), closures' = closures, fatal' = fatal,
           Len(envs') >= Len(envs), Covers(frames, frames'), ~ (mode = "step" /\ Draining(Top)),
           mode = "give" /\ flow = Violated =>
               mode' = "give" /\ flow' = Violated /\ frames' = Below
    PROVE  Kept
BY DEF Kept, Quiet, Walk

\* A form ends with no scope of its own open.
LEMMA Gives ==
    ASSUME Walk, mode # "done", Top.kind \notin {"call", "deferred"},
           Top.kind = "value" /\ Top.use = "guard" => IsError(flow'),
           Len(Scopes) >= Top.depth, ~ IsError(flow') => Len(Scopes) = Top.depth,
           Give(Below, flow'), flow' \in FlowsOf(N),
           mode = "give" /\ flow = Violated => flow' = Violated,
           envs' = envs, closures' = closures, fatal' = fatal
    PROVE  Kept
<1>1. frames' = Below /\ mode' = "give" /\ ~ Draining(Top)
  BY DEF Give, Draining
<1>2. Sound(Below, envs, closures, "give", flow')
  BY AtHand, GiveBelow DEF Top, Below, Env, Scopes, N
<1>3. Covers(frames, Below)
  BY AtHand, CoversShapes DEF Top, Below
<1> QED BY <1>1, <1>2, <1>3, AtHand, KeptBy

\* A form ends, and its scope goes.
LEMMA Pops ==
    ASSUME Walk, mode # "done", Top.kind \notin {"call", "deferred", "value"}, Own(Top) = 1,
           ~ IsError(flow') => ~ IsError(flow),
           Give(Below, flow'), flow' \in FlowsOf(N),
           mode = "give" /\ flow = Violated => flow' = Violated,
           SetScopes(ButLast(Scopes)), closures' = closures, fatal' = fatal
    PROVE  Kept
<1>1. frames' = Below /\ mode' = "give" /\ ~ Draining(Top)
      /\ envs' = Rescoped(envs, ButLast(Scopes))
  BY DEF Give, Draining, SetScopes, Rescoped
<1>2. Sound(Below, envs', closures, "give", flow') /\ Len(envs') = Len(envs)
  BY <1>1, AtHand, PopScope DEF Top, Below, Env, Scopes, N
<1>3. Covers(frames, Below)
  BY AtHand, CoversShapes DEF Top, Below
<1> QED BY <1>1, <1>2, <1>3, AtHand, KeptBy

\* A form without a scope takes another one inside, which is evaluated next.
LEMMA Pushes ==
    ASSUME Walk, mode # "done", Takes(Top) \/ Top.kind = "deferred", ~ IsError(flow),
           NEW k \in {"value", "bind", "interp"}, NEW g \in FramesOf(N), g.kind = k,
           g.env = Len(envs), g.depth = Len(Scopes), g.use # "guard", Top.kind # "call",
           Eval(Append(frames, g)), envs' = envs, closures' = closures, fatal' = fatal
    PROVE  Kept
<1>1. frames' = Append(frames, g) /\ mode' = "expr" /\ flow' = NoFlow /\ ~ Draining(Top)
      /\ g.depth = Depth(Top) /\ Depth(g) = g.depth
  <2>1. ~ Draining(Top)
    BY DEF Draining
  <2>2. g.depth = Depth(Top) /\ g.depth \in Nat
    BY <2>1, AtHand
  <2>3. Depth(g) = g.depth
    BY <2>2 DEF Depth, Own
  <2> QED BY <2>1, <2>2, <2>3 DEF Eval
<1>2. Standing(Append(frames, g), envs, closures) /\ Last(Append(frames, g)) = g
  BY <1>1, AtHand, PushForm DEF Top, Below, N
<1>3. Stands("expr", g, NoFlow)
  BY DEF Stands
<1>4. Sound(Append(frames, g), envs, closures, "expr", NoFlow)
  BY <1>1, <1>2, <1>3, GoesOn DEF Scopes, Env
<1>5. Covers(frames, Append(frames, g))
  BY AtHand, CoversShapes
<1>6. flow # Violated
  BY DEF Violated, Flow, IsError
<1> QED BY <1>1, <1>4, <1>5, <1>6, AtHand, KeptBy

-----------------------------------------------------------------------------
(* eval_block and eval_stmt.                                               *)

\* EndBlock pops the scope of the block.
LEMMA EndBlockKept ==
    ASSUME Walk, EndBlock
    PROVE  Kept
<1>1. /\ mode = "step" /\ Top.kind = "block" /\ flow' = ValueFlow(Plain) /\ Give(Below, flow')
      /\ SetScopes(ButLast(Scopes)) /\ closures' = closures /\ fatal' = fatal
  BY DEF EndBlock, InBlock, PopBlock, Give, Same
<1>2. ValueFlow(Plain) \in FlowsOf(N) /\ Own(Top) = 1 /\ ~ IsError(flow)
  BY <1>1, AtHand, FlowTyped DEF Own
<1> QED BY <1>1, <1>2, Pops

\* ExprStmt goes on in the same block.
LEMMA ExprStmtKept ==
    ASSUME Walk, NEW u \in {"stmt", "tail"}, ExprStmt(u)
    PROVE  Kept
<1> DEFINE g == [Top EXCEPT !.use = u]
<1>1. /\ mode = "step" /\ Top.kind = "block" /\ frames' = Append(Below, g) /\ mode' = "expr"
      /\ flow' = NoFlow /\ envs' = envs /\ closures' = closures /\ fatal' = fatal
  BY DEF ExprStmt, InBlock, Eval, WithTop, SameEnv, Same
<1>2. g \in FramesOf(N) /\ g.kind = "block" /\ g.env = Top.env /\ g.depth = Top.depth
  BY <1>1, AtHand DEF FramesOf, AnyFrames, Binds, Uses
<1>3. ~ Draining(Top) /\ Depth(g) = Depth(Top)
  BY <1>1, <1>2 DEF Draining, Depth, Own
<1> HIDE DEF g
<1>4. Standing(Append(Below, g), envs, closures) /\ Last(Append(Below, g)) = g
  BY <1>1, <1>2, AtHand, StandTop DEF Top, Below, N
<1>5. Sound(Append(Below, g), envs, closures, "expr", NoFlow)
  <2>1. Stands("expr", g, NoFlow) /\ Len(Scopes) = Depth(g)
    BY <1>1, <1>2, <1>3, AtHand DEF Stands
  <2> QED BY <1>4, <2>1, GoesOn DEF Scopes, Env
<1>6. Covers(frames, Append(Below, g))
  BY <1>1, <1>2, AtHand, CoversShapes DEF Top, Below
<1> QED BY <1>1, <1>3, <1>5, <1>6, AtHand, KeptBy

\* LetStmt opens no scope.
LEMMA LetStmtKept ==
    ASSUME Walk, NEW x \in Locals, NEW m \in BOOLEAN, LetStmt(x, m)
    PROVE  Kept
<1> DEFINE g == [Frame("bind", "", Len(Scopes)) EXCEPT !.name = x, !.mut = m]
<1>1. /\ mode = "step" /\ Top.kind = "block" /\ Eval(Append(frames, g))
      /\ envs' = envs /\ closures' = closures /\ fatal' = fatal
  BY DEF LetStmt, InBlock, Chosen
<1>2. /\ "bind" \in Kinds /\ "" \in Uses /\ x \in Vars
      /\ N \in Nat /\ Len(envs) \in Nat /\ Len(Scopes) \in Nat
  BY <1>1, AtHand, NamesAssumption DEF Kinds, Uses
<1>3. g \in FramesOf(N)
  BY <1>2, FrameNamed
<1>5. g.kind = "bind" /\ g.use = "" /\ g.env = Len(envs) /\ g.depth = Len(Scopes)
  BY DEF Frame
<1> HIDE DEF g
<1>4. Takes(Top) /\ ~ IsError(flow)
  BY <1>1, AtHand DEF Takes
<1> QED BY <1>1, <1>3, <1>4, <1>5, Pushes

\* An operand opens no scope.
LEMMA OperandTyped ==
    ASSUME Walk, mode # "done", NEW u \in Uses \ {"guard"}, NEW x \in Vars \union {NoName},
           u \in {"items", "catch"} => x \in Vars,
           Takes(Top) \/ Top.kind = "deferred", Top.kind # "call", ~ IsError(flow),
           Operand(u, x, 0), envs' = envs, closures' = closures, fatal' = fatal
    PROVE  Kept
<1> DEFINE g == [Frame("value", u, Len(Scopes)) EXCEPT !.name = x, !.left = 0]
<1>1. Eval(Append(frames, g))
  BY DEF Operand
<1>2. "value" \in Kinds /\ N \in Nat /\ Len(envs) \in Nat /\ Len(Scopes) \in Nat
  BY AtHand DEF Kinds
<1>3. g \in FramesOf(N)
  BY <1>2, FrameNamed
<1>4. g.kind = "value" /\ g.use = u /\ g.env = Len(envs) /\ g.depth = Len(Scopes)
  BY DEF Frame
<1> HIDE DEF g
<1> QED BY <1>1, <1>3, <1>4, Pushes

\* LoopStmt begins with an operand.
LEMMA LoopStmtKept ==
    ASSUME Walk, NEW u \in {"items", "cond"}, NEW x \in Locals, LoopStmt(u, x)
    PROVE  Kept
<1>1. /\ mode = "step" /\ Top.kind = "block" /\ Operand(u, x, 0)
      /\ envs' = envs /\ closures' = closures /\ fatal' = fatal
  BY DEF LoopStmt, InBlock, Chosen
<1>2. Takes(Top) /\ ~ IsError(flow) /\ u \in Uses \ {"guard"} /\ x \in Vars
  BY <1>1, AtHand, NamesAssumption DEF Takes, Uses
<1> QED BY <1>1, <1>2, OperandTyped

\* DeferStmt changes what the call will run only while its defer frame is there.
LEMMA DeferStmtKept ==
    ASSUME Walk, NEW x \in Vars \union {NoName}, DeferStmt(x)
    PROVE  Kept
<1> DEFINE d == [name |-> x, seen |-> Visible(Scopes, x)]
           e == [Env EXCEPT !.defers = Append(@, d)]
<1>1. /\ mode = "step" /\ Top.kind = "block" /\ frames' = frames /\ mode' = "step"
      /\ flow' = NoFlow /\ closures' = closures /\ fatal' = fatal
      /\ envs' = IF Env.open THEN [envs EXCEPT ![Len(envs)] = e] ELSE envs
  <2>1. [envs EXCEPT ![Len(envs)].defers = Append(@, d)] = [envs EXCEPT ![Len(envs)] = e]
    BY AtHand DEF Env, Last
  <2> QED BY <2>1 DEF DeferStmt, InBlock, Chosen, Step
<1>2. Standing(frames, envs', closures) /\ Last(envs').scopes = Scopes /\ Len(envs') = Len(envs)
  <2>1. CASE Env.open
    <3>1. d \in Registered
      BY DEF Registered, Visible
    <3>2. Append(Env.defers, d) \in Seq(Registered)
      BY <1>1, <3>1, AtHand, AppendProperties DEF EnvsOf
    <3>3. /\ e \in EnvsOf(N) /\ e.fn = Env.fn /\ e.scopes = Scopes /\ e.open = Env.open
          /\ e.ran = Env.ran
      BY <1>1, <3>2, AtHand DEF EnvsOf, Scopes
    <3> HIDE DEF e, d
    <3>4. KeepDefers(Env, e) /\ ScopesFit(closures, e.fn, e.scopes)
      BY <1>1, <2>1, <3>3, AtHand DEF KeepDefers
    <3>5. Top.kind # "call"
      BY <1>1
    <3>6. envs' = [envs EXCEPT ![Len(envs)] = e]
      BY <1>1, <2>1
    <3>7. Standing(frames, envs', closures)
      BY <1>1, <3>3, <3>4, <3>5, <3>6, AtHand, StandEnv DEF Env, Top, N
    <3>8. Len(envs') = Len(envs) /\ Last(envs') = e
      BY <1>1, <3>3, <3>6, AtHand, ExceptSeq DEF Last
    <3> QED BY <3>3, <3>7, <3>8
  <2>2. CASE ~ Env.open
    BY <1>1, <2>2, AtHand DEF Env, Scopes
  <2> QED BY <2>1, <2>2
<1>3. Sound(frames, envs', closures, "step", NoFlow)
  <2>1. Stands("step", Top, NoFlow) /\ Len(Scopes) = Depth(Top)
    BY <1>1, AtHand DEF Stands, Draining
  <2> QED BY <1>2, <2>1, GoesOn DEF Top
<1>4. Covers(frames, frames) /\ ~ Draining(Top)
  BY <1>1, AtHand, CoversShapes DEF Draining
<1> QED BY <1>1, <1>2, <1>3, <1>4, AtHand, KeptBy

\* All statements.
LEMMA StatementKept ==
    ASSUME Walk, Statement
    PROVE  Kept
BY EndBlockKept, ExprStmtKept, LetStmtKept, DeferStmtKept, LoopStmtKept DEF Statement

-----------------------------------------------------------------------------
(* eval_expr.                                                              *)

\* What is known while an expression is to be evaluated.
LEMMA Expecting ==
    ASSUME Walk, Waiting
    PROVE  /\ mode = "expr" /\ Top.kind # "call" /\ ~ Draining(Top) /\ ~ IsError(flow)
           /\ Takes(Top) \/ Top.kind = "deferred"
           /\ Len(Scopes) = Depth(Top)
           /\ ~(mode = "give" /\ flow = Violated)
<1>1. mode = "expr" /\ Stands("expr", Top, flow)
  BY AtHand DEF Waiting
<1>2. Top.kind # "call" /\ ~ Draining(Top) /\ (Takes(Top) \/ Top.kind = "deferred")
  BY <1>1 DEF Stands, Draining, Takes
<1> QED BY <1>1, <1>2, AtHand

\* An expression without a form inside.
LEMMA GivesHere ==
    ASSUME Walk, Waiting, Give(frames, flow'), flow' \in FlowsOf(N),
           envs' = envs, closures' = closures
    PROVE  Walk' /\ Covers(frames, frames') /\ Len(envs') >= Len(envs)
<1>1. frames' = frames /\ mode' = "give"
  BY DEF Give
<1>2. Stands("give", Top, flow')
  <2>1. Stands("expr", Top, flow)
    BY AtHand DEF Waiting
  <2> QED BY <2>1 DEF Stands
<1>3. Balanced(Top, Scopes, flow') /\ ClosuresFit(closures) /\ Standing(frames, envs, closures)
  BY Expecting, AtHand DEF Balanced
<1>4. Sound(frames, envs, closures, "give", flow')
  BY <1>2, <1>3 DEF Sound, N, Top, Env, Scopes
<1>5. Covers(frames, frames) /\ Len(envs) \in Nat
  BY Expecting, AtHand, CoversShapes
<1> QED BY <1>1, <1>4, <1>5 DEF Walk

\* An expression that opens no form ends.
LEMMA GivesHereKept ==
    ASSUME Walk, Waiting, Give(frames, flow'), flow' \in FlowsOf(N),
           envs' = envs, closures' = closures, fatal' = fatal
    PROVE  Kept
BY GivesHere, Expecting DEF Kept, Quiet

\* Literal.
LEMMA LiteralKept ==
    ASSUME Walk, NEW v \in {Plain, OkVal, ErrVal}, Literal(v)
    PROVE  Kept
<1>1. Waiting /\ Give(frames, flow') /\ flow' = ValueFlow(v) /\ envs' = envs
      /\ closures' = closures /\ fatal' = fatal
  BY DEF Literal, Give, SameEnv, Same
<1>2. ValueFlow(v) \in FlowsOf(N)
  BY <1>1, Expecting, AtHand, FlowTyped
<1> QED BY <1>1, <1>2, GivesHereKept

\* Ident: what a name holds is a value.
LEMMA IdentKept ==
    ASSUME Walk, NEW x \in Vars, Ident(x)
    PROVE  Kept
<1>1. Waiting /\ Give(frames, flow') /\ flow' = Lookup(Scopes, x) /\ envs' = envs
      /\ closures' = closures /\ fatal' = fatal
  BY DEF Ident, Give, Chosen
<1>2. Lookup(Scopes, x) \in FlowsOf(N)
  BY <1>1, Expecting, AtHand, LookupTyped
<1> QED BY <1>1, <1>2, GivesHereKept

\* Fail and Jump.
LEMMA FailKept ==
    ASSUME Walk, Fail \/ \E k \in {"break", "continue", "return"} : Jump(k)
    PROVE  Kept
<1>1. /\ Waiting /\ Give(frames, flow') /\ envs' = envs /\ closures' = closures /\ fatal' = fatal
      /\ flow' = Failed \/ \E k \in {"break", "continue", "return"} : flow' = Flow(k, Plain)
  BY DEF Fail, Jump, Give, Chosen
<1>2. flow' \in FlowsOf(N)
  BY <1>1, Expecting, AtHand, FlowTyped
<1> QED BY <1>1, <1>2, GivesHereKept

\* BlockExpr enters a block.
LEMMA BlockExprKept ==
    ASSUME Walk, BlockExpr
    PROVE  Kept
<1> DEFINE g == Frame("block", "stmt", Len(Scopes))
<1>1. /\ Waiting /\ envs' = Rescoped(envs, Push(Scopes)) /\ frames' = Append(frames, g)
      /\ mode' = "step" /\ flow' = NoFlow /\ closures' = closures /\ fatal' = fatal
  BY DEF BlockExpr, Enter, SetScopes, Step, Chosen, Rescoped
<1>2. g \in FramesOf(N) /\ g.kind = "block" /\ g.use = "stmt" /\ g.env = Len(envs)
      /\ g.depth = Len(Scopes)
  <2>1. N \in Nat /\ Len(envs) \in Nat /\ Len(Scopes) \in Nat
    BY <1>1, Expecting, AtHand
  <2>2. "block" \in Kinds /\ "stmt" \in Uses
    BY DEF Kinds, Uses
  <2> QED BY <2>1, <2>2, FrameTyped
<1> HIDE DEF g
<1>3. Sound(Append(frames, g), envs', closures, "step", NoFlow) /\ Len(envs') = Len(envs)
  BY <1>1, <1>2, Expecting, AtHand, Entered DEF Top, Env, Scopes, N
<1>4. Covers(frames, Append(frames, g))
  BY <1>1, <1>2, Expecting, AtHand, CoversShapes
<1> QED BY <1>1, <1>3, <1>4, Expecting, AtHand, KeptBy

\* Interpolate is a frame without a scope.
LEMMA InterpolateKept ==
    ASSUME Walk, Interpolate
    PROVE  Kept
<1> DEFINE g == Frame("interp", "", Len(Scopes))
<1>1. /\ Waiting /\ Eval(Append(frames, g)) /\ envs' = envs
      /\ closures' = closures /\ fatal' = fatal
  BY DEF Interpolate, Chosen
<1>2. g \in FramesOf(N) /\ g.kind = "interp" /\ g.use = "" /\ g.env = Len(envs)
      /\ g.depth = Len(Scopes)
  <2>1. N \in Nat /\ Len(envs) \in Nat /\ Len(Scopes) \in Nat
    BY <1>1, Expecting, AtHand
  <2>2. "interp" \in Kinds /\ "" \in Uses
    BY DEF Kinds, Uses
  <2>3. g \in FramesOf(N)
    BY <2>1, <2>2, FrameTyped
  <2> QED BY <2>3 DEF Frame
<1> HIDE DEF g
<1> QED BY <1>1, <1>2, Expecting, Pushes

\* Spawn enters a block inside a scope of its own.
LEMMA SpawnKept ==
    ASSUME Walk, Spawn
    PROVE  Kept
<1> DEFINE g == Frame("spawn", "body", Len(Scopes))
           fs == Append(frames, g)
           s == Push(Scopes)
           h == Frame("block", "stmt", Len(s))
<1>1. /\ Waiting /\ envs' = Rescoped(envs, Push(s)) /\ frames' = Append(fs, h)
      /\ mode' = "step" /\ flow' = NoFlow /\ closures' = closures /\ fatal' = fatal
  BY DEF Spawn, Enter, SetScopes, Step, Chosen, Rescoped
<1>2. ScopesFit(closures, Env.fn, s) /\ Len(s) = Len(Scopes) + 1 /\ Len(s) \in Nat
  BY <1>1, Expecting, AtHand, FitsPush
<1>3. g \in FramesOf(N) /\ g.kind = "spawn" /\ g.use = "body" /\ g.env = Len(envs)
      /\ g.depth = Len(Scopes)
  <2>1. N \in Nat /\ Len(envs) \in Nat /\ Len(Scopes) \in Nat
    BY <1>1, Expecting, AtHand
  <2>2. "spawn" \in Kinds /\ "body" \in Uses
    BY DEF Kinds, Uses
  <2> QED BY <2>1, <2>2, FrameTyped
<1>4. h \in FramesOf(N) /\ h.kind = "block" /\ h.use = "stmt" /\ h.env = Len(envs)
      /\ h.depth = Len(s)
  <2>1. N \in Nat /\ Len(envs) \in Nat /\ Len(s) \in Nat
    BY <1>1, <1>2, Expecting, AtHand
  <2>2. "block" \in Kinds /\ "stmt" \in Uses
    BY DEF Kinds, Uses
  <2> QED BY <2>1, <2>2, FrameTyped
<1>5. Depth(g) = Len(s) /\ Takes(g)
  BY <1>2, <1>3 DEF Depth, Own, Takes
<1> HIDE DEF g, h, s
<1>6. Standing(fs, envs, closures) /\ Last(fs) = g
  BY <1>1, <1>3, Expecting, AtHand, PushForm DEF Top, N
<1>7. Covers(frames, Append(fs, h))
  BY <1>1, <1>3, <1>4, Expecting, AtHand, CoversShapes
<1> HIDE DEF fs
<1>8. Sound(Append(fs, h), envs', closures, "step", NoFlow) /\ Len(envs') = Len(envs)
  BY <1>1, <1>2, <1>4, <1>5, <1>6, Entered DEF Env, N
<1> QED BY <1>1, <1>7, <1>8, Expecting, AtHand, KeptBy

\* The forms that begin with an operand.
LEMMA OperandExprKept ==
    ASSUME Walk, \/ \E u \in OperandForms : OperandExpr(u)
                 \/ \E u \in NamedForms, x \in Locals : NamedExpr(u, x)
    PROVE  Kept
<1>1. PICK u \in OperandForms \union NamedForms, x \in Locals \union {NoName} :
         /\ u \in NamedForms => x \in Locals
         /\ Waiting /\ Operand(u, x, 0)
         /\ envs' = envs /\ closures' = closures /\ fatal' = fatal
  BY DEF OperandExpr, NamedExpr, Chosen, OperandForms, NamedForms
<1>2. u \in Uses \ {"guard"} /\ x \in Vars \union {NoName}
      /\ (u \in {"items", "catch"} => x \in Vars)
  BY <1>1, NamesAssumption DEF Uses, OperandForms, NamedForms
<1> QED BY <1>1, <1>2, Expecting, OperandTyped

\* More closures: what stood still stands.
LEMMA StandMore ==
    ASSUME NEW fs, NEW es, NEW cs, Standing(fs, es, cs),
           NEW snap \in Seq(SnapshotsOf(Len(cs)))
    PROVE  Standing(fs, es, Append(cs, snap))
<1> DEFINE ds == Append(cs, snap)
<1>1. /\ fs \in Seq(FramesOf(Len(cs))) /\ fs # <<>> /\ ClosuresFit(cs)
      /\ es \in Seq(EnvsOf(Len(cs))) /\ Last(fs).env = Len(es) /\ Tower(fs, es, cs)
      /\ \A k \in 1..Len(es) : ScopesFit(cs, es[k].fn, es[k].scopes)
  BY DEF Standing
<1>2. /\ ClosuresFit(ds) /\ Len(cs) \in Nat /\ Len(ds) = Len(cs) + 1
      /\ \A c \in 0..Len(cs) : CapturedBy(ds, c) = CapturedBy(cs, c)
      /\ \A c \in 0..Len(cs) : \A s : ScopesFit(cs, c, s) => ScopesFit(ds, c, s)
  BY <1>1, ClosureAdded
<1> HIDE DEF ds
<1>3. FramesOf(Len(cs)) \subseteq FramesOf(Len(ds)) /\ EnvsOf(Len(cs)) \subseteq EnvsOf(Len(ds))
  BY <1>2, MoreValues
<1>4. fs \in Seq(FramesOf(Len(ds))) /\ es \in Seq(EnvsOf(Len(ds)))
  BY <1>1, <1>3, SeqMonotonic
<1>5. \A k \in 1..Len(es) : es[k].fn \in 0..Len(cs)
  BY <1>1, FloorTyped
<1>6. \A i \in 1..Len(fs) : FrameFits(fs[i], es, ds)
  <2> TAKE i \in 1..Len(fs)
  <2>1. FrameFits(fs[i], es, cs)
    BY <1>1 DEF Tower
  <2> QED BY <1>2, <1>5, <2>1 DEF FrameFits
<1>7. Tower(fs, es, ds)
  BY <1>1, <1>6 DEF Tower
<1>8. \A k \in 1..Len(es) : ScopesFit(ds, es[k].fn, es[k].scopes)
  BY <1>1, <1>2, <1>5
<1>9. Standing(fs, es, ds)
  BY <1>1, <1>2, <1>4, <1>7, <1>8 DEF Standing
<1> QED BY <1>9 DEF ds

\* Lambda adds a closure: what the others captured stays.
LEMMA LambdaKept ==
    ASSUME Walk, Lambda
    PROVE  Kept
<1> DEFINE snap == Snapshot(Scopes)
<1>1. /\ Waiting /\ closures' = Append(closures, snap) /\ frames' = frames /\ mode' = "give"
      /\ flow' = ValueFlow(ClosureVal(Len(closures'))) /\ envs' = envs /\ fatal' = fatal
  BY DEF Lambda, Chosen, Give
<1>2. snap \in Seq(SnapshotsOf(N)) /\ Standing(frames, envs, closures)
  BY <1>1, Expecting, AtHand, SnapshotTyped
<1>3. /\ Standing(frames, envs, closures') /\ ClosuresFit(closures')
      /\ Len(closures') = N + 1 /\ N \in Nat
  BY <1>1, <1>2, StandMore, ClosureAdded, Expecting, AtHand DEF N
<1>4. flow' \in FlowsOf(Len(closures'))
  <2>1. ClosureVal(Len(closures')) \in ValuesOf(Len(closures')) /\ Len(closures') \in Nat
    BY <1>3 DEF ValuesOf
  <2> QED BY <1>1, <2>1, FlowTyped
<1>5. Stands("give", Top, flow')
  <2>1. Stands("expr", Top, flow)
    BY <1>1, Expecting, AtHand
  <2> QED BY <2>1 DEF Stands
<1>6. Balanced(Top, Scopes, flow')
  BY Expecting, AtHand, <1>1 DEF Balanced
<1>7. Sound(frames, envs, closures', "give", flow')
  BY <1>3, <1>4, <1>5, <1>6 DEF Sound, Top, Env, Scopes
<1>8. Covers(frames, frames) /\ Len(envs) \in Nat
  BY <1>1, Expecting, AtHand, CoversShapes
<1>9. Walk'
  BY <1>1, <1>7 DEF Walk
<1> QED BY <1>1, <1>8, <1>9, Expecting DEF Kept, Quiet

\* Every expression but the one that violates a contract.
LEMMA ExpressionKept ==
    ASSUME Walk, Expression
    PROVE  Kept \/ WhereFails
BY LiteralKept, IdentKept, FailKept, InterpolateKept, BlockExprKept, SpawnKept, LambdaKept,
   OperandExprKept DEF Expression

-----------------------------------------------------------------------------
(* How a form ends or goes on in other scopes.                             *)

\* A form ends, with the scopes s.
LEMMA GivesWith ==
    ASSUME Walk, mode # "done", Top.kind \notin {"call", "deferred"},
           Top.kind = "value" /\ Top.use = "guard" => IsError(flow'),
           NEW s, ScopesFit(closures, Env.fn, s), SetScopes(s),
           Len(s) >= Top.depth, ~ IsError(flow') => Len(s) = Top.depth,
           Give(Below, flow'), flow' \in FlowsOf(N),
           mode = "give" /\ flow = Violated => flow' = Violated,
           closures' = closures, fatal' = fatal
    PROVE  Kept
<1>1. frames' = Below /\ mode' = "give" /\ ~ Draining(Top) /\ envs' = Rescoped(envs, s)
  BY DEF Give, Draining, SetScopes, Rescoped
<1>2. /\ Standing(frames, envs', closures) /\ Len(envs') = Len(envs)
      /\ Last(envs').scopes = s
  BY <1>1, AtHand, StandScopes DEF Env, N
<1>3. Sound(Below, envs', closures, "give", flow')
  BY <1>1, <1>2, GiveBelow DEF Top, Below, N
<1>4. Covers(frames, Below)
  BY AtHand, CoversShapes DEF Top, Below
<1> QED BY <1>1, <1>2, <1>3, <1>4, AtHand, KeptBy

\* The form on top takes a block inside.
LEMMA EntersHere ==
    ASSUME Walk, mode # "done", Takes(Top) \/ Top.kind = "deferred", Top.kind # "call",
           Enter(frames, Scopes), Len(Scopes) = Depth(Top), ~ (mode = "give" /\ flow = Violated),
           closures' = closures, fatal' = fatal
    PROVE  Kept
<1> DEFINE g == Frame("block", "stmt", Len(Scopes))
<1>1. /\ envs' = Rescoped(envs, Push(Scopes)) /\ frames' = Append(frames, g)
      /\ mode' = "step" /\ flow' = NoFlow
  BY DEF Enter, SetScopes, Step, Rescoped
<1>2. g \in FramesOf(N) /\ g.kind = "block" /\ g.use = "stmt" /\ g.env = Len(envs)
      /\ g.depth = Len(Scopes)
  <2>1. "block" \in Kinds /\ "stmt" \in Uses
    BY DEF Kinds, Uses
  <2>2. N \in Nat /\ Len(envs) \in Nat /\ Len(Scopes) \in Nat
    BY AtHand
  <2> QED BY <2>1, <2>2, FrameTyped
<1> HIDE DEF g
<1>3. Sound(Append(frames, g), envs', closures, "step", NoFlow) /\ Len(envs') = Len(envs)
  BY <1>1, <1>2, AtHand, Entered DEF Top, Env, Scopes, N
<1>4. Covers(frames, Append(frames, g)) /\ ~ Draining(Top)
  BY <1>1, <1>2, AtHand, CoversShapes DEF Draining
<1> QED BY <1>1, <1>3, <1>4, AtHand, KeptBy

\* A block takes the place of the form on top.
LEMMA EntersBelow ==
    ASSUME Walk, mode # "done", Top.kind \notin {"call", "deferred", "block"},
           Top.kind = "value" => Top.use # "guard",
           Enter(Below, Scopes), Len(Scopes) = Top.depth, ~ (mode = "give" /\ flow = Violated),
           closures' = closures, fatal' = fatal
    PROVE  Kept
<1> DEFINE g == Frame("block", "stmt", Len(Scopes))
<1>1. /\ envs' = Rescoped(envs, Push(Scopes)) /\ frames' = Append(Below, g)
      /\ mode' = "step" /\ flow' = NoFlow
  BY DEF Enter, SetScopes, Step, Rescoped
<1>2. g \in FramesOf(N) /\ g.kind = "block" /\ g.use = "stmt" /\ g.env = Len(envs)
      /\ g.depth = Len(Scopes)
  <2>1. "block" \in Kinds /\ "stmt" \in Uses
    BY DEF Kinds, Uses
  <2>2. N \in Nat /\ Len(envs) \in Nat /\ Len(Scopes) \in Nat
    BY AtHand
  <2> QED BY <2>1, <2>2, FrameTyped
<1> HIDE DEF g
<1>3. /\ Standing(Below, envs, closures)
      /\ Takes(Last(Below)) \/ Last(Below).kind = "deferred"
      /\ Len(Scopes) = Depth(Last(Below))
  BY AtHand, TakesBelow DEF Top, Below
<1>4. Sound(Append(Below, g), envs', closures, "step", NoFlow) /\ Len(envs') = Len(envs)
  BY <1>1, <1>2, <1>3, AtHand, Entered DEF Env, Scopes, N
<1>5. Covers(frames, Append(Below, g)) /\ ~ Draining(Top)
  BY <1>1, <1>2, AtHand, CoversShapes DEF Draining, Top, Below
<1> QED BY <1>1, <1>4, <1>5, AtHand, KeptBy

\* The form f takes the place of the one on top, and a block inside.
LEMMA EntersWithin ==
    ASSUME Walk, mode # "done", Top.kind \notin {"call", "deferred", "block"},
           Top.kind = "value" => Top.use # "guard",
           NEW f \in FramesOf(N), f.kind \notin {"call", "deferred", "value", "match"},
           f.env = Len(envs), f.depth = Top.depth,
           NEW s, ScopesFit(closures, Env.fn, s), Len(s) = Depth(f),
           Enter(Append(Below, f), s), ~ (mode = "give" /\ flow = Violated),
           closures' = closures, fatal' = fatal
    PROVE  Kept
<1> DEFINE g == Frame("block", "stmt", Len(s))
           fs == Append(Below, f)
<1>1. /\ envs' = Rescoped(envs, Push(s)) /\ frames' = Append(fs, g)
      /\ mode' = "step" /\ flow' = NoFlow
  BY DEF Enter, SetScopes, Step, Rescoped
<1>2. g \in FramesOf(N) /\ g.kind = "block" /\ g.use = "stmt" /\ g.env = Len(envs)
      /\ g.depth = Len(s)
  <2>1. "block" \in Kinds /\ "stmt" \in Uses
    BY DEF Kinds, Uses
  <2>2. Len(s) \in Nat
    BY LenProperties DEF ScopesFit
  <2>3. N \in Nat /\ Len(envs) \in Nat
    BY AtHand
  <2> QED BY <2>1, <2>2, <2>3, FrameTyped
<1> HIDE DEF g
<1>3. Covers(frames, Append(fs, g)) /\ ~ Draining(Top)
  BY <1>1, <1>2, AtHand, CoversShapes DEF Draining, Top, Below
<1>4. Standing(fs, envs, closures) /\ Last(fs) = f
  BY AtHand, ReplaceForm DEF Top, Below, N
<1> HIDE DEF fs
<1>5. Takes(f)
  BY DEF Takes
<1>6. Sound(Append(fs, g), envs', closures, "step", NoFlow) /\ Len(envs') = Len(envs)
  BY <1>1, <1>2, <1>4, <1>5, AtHand, Entered DEF Env, N
<1> QED BY <1>1, <1>3, <1>6, AtHand, KeptBy

\* Scopes that bind the name of a pattern, an error or an item.
LEMMA BoundFits ==
    ASSUME Walk, mode # "done", NEW s, ScopesFit(closures, Env.fn, s), NEW x \in Vars
    PROVE  /\ ScopesFit(closures, Env.fn, Bind(Push(s), x, Slot(Plain, FALSE)))
           /\ Len(Bind(Push(s), x, Slot(Plain, FALSE))) = Len(s) + 1
           /\ Len(s) \in Nat
<1>1. /\ ClosuresFit(closures) /\ Len(CapturedBy(closures, Env.fn)) \in Nat
  BY AtHand
<1>2. Slot(Plain, FALSE) \in SlotsOf(N)
  BY DEF SlotsOf, Slot, ValuesOf
<1>3. ScopesFit(closures, Env.fn, Push(s)) /\ Len(Push(s)) = Len(s) + 1
  BY <1>1, FitsPush
<1>4. Len(s) \in Nat
  BY LenProperties DEF ScopesFit
<1>5. /\ ScopesFit(closures, Env.fn, Bind(Push(s), x, Slot(Plain, FALSE)))
      /\ Len(Bind(Push(s), x, Slot(Plain, FALSE))) = Len(Push(s))
  <2> DEFINE t == Push(s)
             slot == Slot(Plain, FALSE)
  <2>1. slot \in SlotsOf(Len(closures)) /\ ScopesFit(closures, Env.fn, t)
    BY <1>2, <1>3 DEF N
  <2> HIDE DEF t, slot
  <2>2. ScopesFit(closures, Env.fn, Bind(t, x, slot)) /\ Len(Bind(t, x, slot)) = Len(t)
    BY <1>1, <2>1, FitsBind
  <2> QED BY <2>2 DEF t, slot
<1> QED BY <1>3, <1>4, <1>5

\* The form on top goes on at another place, u, of its code.
LEMMA GoesOnAt ==
    ASSUME Walk, mode # "done", Top.kind \notin {"call", "deferred"},
           NEW g \in FramesOf(N), g.kind = Top.kind, g.env = Top.env, g.depth = Top.depth,
           g.kind = "value" => (g.use = "guard" <=> Top.use = "guard"),
           NEW s, ScopesFit(closures, Env.fn, s), Len(s) = Depth(g),
           envs' = Rescoped(envs, s) \/ (envs' = envs /\ s = Scopes),
           frames' = WithTop(g), NEW m \in {"expr", "step"}, mode' = m, flow' = NoFlow,
           Stands(m, g, NoFlow), ~ (mode = "give" /\ flow = Violated),
           closures' = closures, fatal' = fatal
    PROVE  Kept
<1>1. frames' = Append(Below, g) /\ ~ Draining(Top)
  BY DEF WithTop, Draining
<1>2. Standing(frames, envs', closures) /\ Len(envs') = Len(envs) /\ Last(envs').scopes = s
  <2>1. CASE envs' = Rescoped(envs, s)
    BY <2>1, AtHand, StandScopes DEF Env
  <2>2. CASE envs' = envs /\ s = Scopes
    BY <2>2, AtHand DEF Env, Scopes
  <2> QED BY <2>1, <2>2
<1>3. Standing(Append(Below, g), envs', closures) /\ Last(Append(Below, g)) = g
  BY <1>2, StandTop DEF Top, Below, N
<1>4. Sound(Append(Below, g), envs', closures, m, NoFlow)
  BY <1>2, <1>3, GoesOn
<1>5. Covers(frames, Append(Below, g))
  BY AtHand, CoversShapes DEF Top, Below
<1> QED BY <1>1, <1>2, <1>4, <1>5, AtHand, KeptBy

-----------------------------------------------------------------------------
(* What a form does with its operand.                                      *)

\* What holds where an operand has its value.
LEMMA Ready ==
    ASSUME Walk, NEW u, HasOperand(u)
    PROVE  /\ mode = "give" /\ Top.kind = "value" /\ Top.use = u /\ IsValue(flow)
           /\ ~ IsError(flow) /\ flow # Violated /\ Len(Scopes) = Top.depth
           /\ Depth(Top) = Top.depth /\ ~ Draining(Top) /\ flow.val \in ValuesOf(N)
<1>1. mode = "give" /\ Top.kind = "value" /\ Top.use = u /\ IsValue(flow)
  BY DEF HasOperand, Given
<1>2. ~ IsError(flow) /\ flow # Violated /\ ~ Draining(Top)
  BY <1>1 DEF IsValue, IsError, Violated, Flow, Draining
<1>3. Depth(Top) = Top.depth
  BY <1>1, AtHand DEF Depth, Own
<1> QED BY <1>1, <1>2, <1>3, AtHand

\* A form that is over once its operand is there.
LEMMA OperandGives ==
    ASSUME Walk, NEW u, u # "guard", HasOperand(u), Give(Below, flow'), flow' \in FlowsOf(N),
           envs' = envs, closures' = closures, fatal' = fatal
    PROVE  Kept
BY Ready, AtHand, Gives

\* OperandFails passes the error on.
LEMMA OperandFailsKept ==
    ASSUME Walk, OperandFails
    PROVE  Kept
<1>1. /\ mode = "give" /\ Top.kind = "value" /\ ~ IsValue(flow) /\ Give(Below, flow')
      /\ flow' = IntoValue(flow) /\ envs' = envs /\ closures' = closures /\ fatal' = fatal
  BY DEF OperandFails, Given, Give, SameEnv, Same
<1>2. flow' \in FlowsOf(N) /\ IsError(flow') /\ (flow = Violated => flow' = Violated)
  BY <1>1, AtHand, FlowTyped DEF IntoValue
<1>3. Depth(Top) = Top.depth
  BY <1>1, AtHand DEF Depth, Own
<1> QED BY <1>1, <1>2, <1>3, AtHand, Gives

\* Try, Raise, Return and Use.
LEMMA TryKept ==
    ASSUME Walk, Try \/ Raise \/ Return \/ Use
    PROVE  Kept
<1>1. /\ \E u \in {"try", "raise", "return", "use"} : HasOperand(u)
      /\ Give(Below, flow') /\ envs' = envs /\ closures' = closures /\ fatal' = fatal
      /\ flow' \in {ValueFlow(Plain), Raised, Failed, Flow("return", flow.val)}
  BY DEF Try, Raise, Return, Use, Give, SameEnv, Same
<1>2. flow' \in FlowsOf(N)
  BY <1>1, Ready, AtHand, FlowTyped
<1> QED BY <1>1, <1>2, OperandGives

\* Assign reaches a slot of the last Env, and no captured one.
LEMMA AssignKept ==
    ASSUME Walk, Assign
    PROVE  Kept
<1>1. /\ HasOperand("assign") /\ Give(Below, flow') /\ closures' = closures /\ fatal' = fatal
      /\ flow' \in {ValueFlow(Plain), Failed}
  BY DEF Assign, Give, Same
<1>2. flow' \in FlowsOf(N)
  BY <1>1, Ready, AtHand, FlowTyped
<1>3. CASE CanAssign(Scopes, Top.name)
  <2> DEFINE s == Assigned(Scopes, Top.name, flow.val)
  <2>1. SetScopes(s)
    BY <1>3 DEF Assign
  <2>2. ScopesFit(closures, Env.fn, s) /\ Len(s) = Len(Scopes)
    BY <1>1, <1>3, Ready, AtHand, FitsAssign DEF N
  <2> HIDE DEF s
  <2> QED BY <1>1, <1>2, <2>1, <2>2, Ready, AtHand, GivesWith
<1>4. CASE ~ CanAssign(Scopes, Top.name)
  <2>1. envs' = envs
    BY <1>4 DEF Assign
  <2> QED BY <1>1, <1>2, <2>1, OperandGives
<1> QED BY <1>3, <1>4

\* IfCond enters the block, or ends.
LEMMA IfCondKept ==
    ASSUME Walk, IfCond
    PROVE  Kept
<1>1. HasOperand("if") /\ closures' = closures /\ fatal' = fatal
  BY DEF IfCond, Same
<1>2. CASE Enter(Below, Scopes)
  BY <1>1, <1>2, Ready, EntersBelow
<1>3. CASE envs' = envs /\ Give(Below, flow') /\ flow' \in {ValueFlow(Plain), Failed}
  <2>1. flow' \in FlowsOf(N)
    BY <1>1, <1>3, Ready, AtHand, FlowTyped
  <2> QED BY <1>1, <1>3, <2>1, OperandGives
<1> QED BY <1>2, <1>3 DEF IfCond, Give

\* Catch enters the handler in a scope that binds the error.
LEMMA CatchKept ==
    ASSUME Walk, Catch
    PROVE  Kept
<1>1. HasOperand("catch") /\ closures' = closures /\ fatal' = fatal
  BY DEF Catch, Same
<1>2. CASE flow.val = ErrVal
  <2> DEFINE f == Frame("handler", "body", Len(Scopes))
             s == Bind(Push(Scopes), Top.name, Slot(Plain, FALSE))
  <2>1. Enter(Append(Below, f), s)
    BY <1>2 DEF Catch
  <2>2. f \in FramesOf(N) /\ f.kind = "handler" /\ f.env = Len(envs) /\ f.depth = Len(Scopes)
    <3>1. "handler" \in Kinds /\ "body" \in Uses
      BY DEF Kinds, Uses
    <3>2. N \in Nat /\ Len(envs) \in Nat /\ Len(Scopes) \in Nat
      BY <1>1, Ready, AtHand
    <3> QED BY <3>1, <3>2, FrameTyped
  <2>3. Top.name \in Vars
    BY <1>1, Ready, AtHand DEF FramesOf, Binds
  <2>4. ScopesFit(closures, Env.fn, s) /\ Len(s) = Len(Scopes) + 1
    BY <1>1, <2>3, Ready, AtHand, BoundFits
  <2>5. Depth(f) = Len(s)
    BY <2>2, <2>4 DEF Depth, Own
  <2> HIDE DEF f, s
  <2> QED BY <1>1, <2>1, <2>2, <2>4, <2>5, Ready, EntersWithin
<1>3. CASE flow.val # ErrVal
  <2>1. envs' = envs /\ Give(Below, flow') /\ flow' \in {ValueFlow(Plain), Failed}
    BY <1>3 DEF Catch, Give
  <2>2. flow' \in FlowsOf(N)
    BY <1>1, <2>1, Ready, AtHand, FlowTyped
  <2> QED BY <1>1, <2>1, <2>2, OperandGives
<1> QED BY <1>2, <1>3

\* Callee goes on with the argument.
LEMMA CalleeKept ==
    ASSUME Walk, Callee
    PROVE  Kept
<1> DEFINE g == [Top EXCEPT !.use = "arg", !.ret = flow]
<1>1. /\ HasOperand("callee") /\ frames' = WithTop(g) /\ mode' = "expr" /\ flow' = NoFlow
      /\ envs' = envs /\ closures' = closures /\ fatal' = fatal
  BY DEF Callee, Eval, SameEnv, Same
<1>2. g \in FramesOf(N) /\ g.kind = Top.kind /\ g.env = Top.env /\ g.depth = Top.depth /\ g.use = "arg"
  BY <1>1, Ready, AtHand DEF FramesOf, AnyFrames, Binds, Uses
<1> HIDE DEF g
<1>3. Depth(g) = Len(Scopes) /\ Stands("expr", g, NoFlow)
  BY <1>1, <1>2, Ready, AtHand DEF Depth, Own, Stands
<1> QED BY <1>1, <1>2, <1>3, Ready, AtHand, GoesOnAt

\* Match goes on with its arms.
LEMMA MatchKept ==
    ASSUME Walk, Match
    PROVE  Kept
<1>1. PICK n \in 0..MaxTries :
         frames' = Append(Below, [Frame("match", "arms", Len(Scopes)) EXCEPT !.left = n])
  BY DEF Match, Step
<1> DEFINE g == [Frame("match", "arms", Len(Scopes)) EXCEPT !.left = n]
<1>2. /\ HasOperand("match") /\ mode' = "step" /\ flow' = NoFlow
      /\ envs' = envs /\ closures' = closures /\ fatal' = fatal
  BY DEF Match, Step, SameEnv, Same
<1>3. n \in Nat
  BY BoundsAssumption
<1>4. g \in FramesOf(N) /\ g.kind = "match" /\ g.use = "arms" /\ g.env = Len(envs)
      /\ g.depth = Len(Scopes)
  <2>1. "match" \in Kinds /\ "arms" \in Uses
    BY DEF Kinds, Uses
  <2>2. N \in Nat /\ Len(envs) \in Nat /\ Len(Scopes) \in Nat
    BY <1>2, Ready, AtHand
  <2>3. NoFlow \in FlowsOf(N)
    BY <2>2, FlowTyped
  <2> QED BY <1>3, <2>1, <2>2, <2>3 DEF Frame, FramesOf, AnyFrames, Binds
<1> HIDE DEF g
<1>5. Standing(Append(Below, g), envs, closures) /\ Last(Append(Below, g)) = g
  BY <1>2, <1>4, Ready, AtHand, ReplaceForm DEF Top, Below, N
<1>6. Depth(g) = Len(Scopes) /\ Stands("step", g, NoFlow)
  BY <1>2, <1>4, Ready, AtHand DEF Depth, Own, Stands
<1>7. Sound(Append(Below, g), envs, closures, "step", NoFlow)
  BY <1>5, <1>6, GoesOn DEF Env, Scopes
<1>8. Covers(frames, Append(Below, g))
  BY <1>2, <1>4, Ready, AtHand, CoversShapes DEF Top, Below
<1> QED BY <1>1, <1>2, <1>7, <1>8, Ready, AtHand, KeptBy DEF g

\* invoke_value: a call more, in an Env of its own.
LEMMA InvokeKept ==
    ASSUME Walk, Invoke
    PROVE  Kept
<1>1. HasOperand("arg") /\ closures' = closures /\ fatal' = fatal
  BY DEF Invoke, Same
<1>2. CASE Top.ret.val.tag = "closure"
  <2> DEFINE c == Top.ret.val.id
             e == CallEnv(c, flow.val)
             g == [Frame("call", "requires", Len(e.scopes)) EXCEPT !.env = @ + 1]
  <2>1. /\ envs' = Append(envs, e) /\ frames' = Append(Below, g) /\ mode' = "step"
        /\ flow' = NoFlow
    BY <1>2 DEF Invoke, Step
  <2>2. c \in 0..N
    <3>1. Top.ret.val \in ValuesOf(N)
      BY <1>1, Ready, AtHand DEF FramesOf, AnyFrames, FlowsOf
    <3> QED BY <1>2, <3>1 DEF ValuesOf, Plain, OkVal, ErrVal, ClosureVal
  <2>3. /\ e \in EnvsOf(N) /\ ScopesFit(closures, c, e.scopes) /\ Len(e.scopes) \in Nat
        /\ e.fn = c /\ e.open /\ e.ran = <<>> /\ e.defers = <<>>
    BY <1>1, <2>2, Ready, AtHand, CallEnvFits, NamesAssumption DEF N
  <2>4. Len(e.scopes) > Len(CapturedBy(closures, c))
    BY <2>3 DEF ScopesFit
  <2> HIDE DEF e, c
  <2>5. /\ g \in FramesOf(N) /\ g.kind = "call" /\ g.use = "requires"
        /\ g.env = Len(envs) + 1 /\ g.depth = Len(e.scopes)
    <3>1. "call" \in Kinds /\ "requires" \in Uses
      BY DEF Kinds, Uses
    <3>2. N \in Nat /\ Len(envs) \in Nat
      BY <1>1, Ready, AtHand
    <3> DEFINE l == Len(e.scopes)
    <3>3. l \in Nat
      BY <2>3
    <3>4. g = [Frame("call", "requires", l) EXCEPT !.env = @ + 1]
      OBVIOUS
    <3> HIDE DEF g, l
    <3>5. Frame("call", "requires", l) \in FramesOf(N)
      BY <3>1, <3>2, <3>3, FrameTyped
    <3>6. g \in FramesOf(N)
      <4> DEFINE f == Frame("call", "requires", l)
      <4>1. f \in FramesOf(N) /\ f.kind = "call" /\ g = [f EXCEPT !.env = f.env + 1]
        BY <3>4, <3>5 DEF Frame
      <4> HIDE DEF f
      <4> QED BY <4>1 DEF FramesOf, AnyFrames, Binds
    <3>7. g.kind = "call" /\ g.use = "requires" /\ g.env = Len(envs) + 1 /\ g.depth = l
      BY <3>4 DEF Frame
    <3> QED BY <3>6, <3>7 DEF l
  <2> HIDE DEF g
  <2>6. /\ Standing(Below, envs, closures) /\ Last(Below).env = Len(envs)
        /\ Takes(Last(Below)) \/ Last(Below).kind = "deferred"
        /\ Depth(Last(Below)) = Len(Scopes) /\ Last(Below).kind # "call"
    <3>1. /\ Top.kind = "value" /\ Top.use # "guard" /\ Len(Scopes) = Top.depth
          /\ Standing(frames, envs, closures)
      BY <1>1, Ready, AtHand
    <3> QED BY <3>1, TakesBelow DEF Top, Below
  <2>7. Under(Last(Below), g, Env)
    BY <2>5, <2>6 DEF Under, Takes, Draining, Scopes
  <2>8. CallFits(g, e)
    BY <2>3, <2>5 DEF CallFits, Draining
  <2>9. /\ Below \in Seq(FramesOf(N)) /\ Below # <<>> /\ Tower(Below, envs, closures)
        /\ ClosuresFit(closures) /\ envs \in Seq(EnvsOf(N))
        /\ \A k \in 1..Len(envs) : ScopesFit(closures, envs[k].fn, envs[k].scopes)
    BY <2>6 DEF Standing, N
  <2>10. Tower(Append(Below, g), Append(envs, e), closures)
    BY <2>3, <2>4, <2>5, <2>6, <2>7, <2>8, <2>9, TowerCall DEF N, Env
  <2>11. /\ Append(envs, e) \in Seq(EnvsOf(N)) /\ Len(envs) \in Nat
         /\ Len(Append(envs, e)) = Len(envs) + 1
         /\ Append(envs, e)[Len(envs) + 1] = e /\ Last(Append(envs, e)) = e
         /\ \A k \in 1..Len(envs) : Append(envs, e)[k] = envs[k]
    BY <2>3, <2>9, Pushed
  <2>12. /\ Append(Below, g) \in Seq(FramesOf(N)) /\ Append(Below, g) # <<>>
         /\ Last(Append(Below, g)) = g
    BY <2>5, <2>9, Pushed
  <2>13. ASSUME NEW k \in 1..Len(Append(envs, e))
         PROVE  ScopesFit(closures, Append(envs, e)[k].fn, Append(envs, e)[k].scopes)
    <3>1. CASE k = Len(envs) + 1
      BY <2>3, <2>11, <3>1
    <3>2. CASE k # Len(envs) + 1
      <4>1. k \in 1..Len(envs)
        BY <2>11, <3>2
      <4> QED BY <2>9, <2>11, <4>1
    <3> QED BY <3>1, <3>2
  <2>14. Standing(Append(Below, g), Append(envs, e), closures)
    BY <2>5, <2>9, <2>10, <2>11, <2>12, <2>13 DEF Standing, N
  <2>15. Stands("step", g, NoFlow) /\ Len(e.scopes) = Depth(g)
    BY <2>3, <2>5 DEF Stands, Depth, Own
  <2>16. Sound(Append(Below, g), Append(envs, e), closures, "step", NoFlow)
    BY <2>11, <2>12, <2>14, <2>15, GoesOn
  <2>17. Covers(frames, Append(Below, g))
    BY <1>1, <2>5, Ready, AtHand, CoversShapes DEF Top, Below
  <2> QED BY <1>1, <2>1, <2>11, <2>16, <2>17, Ready, KeptBy
<1>3. CASE Top.ret.val.tag # "closure"
  <2>1. envs' = envs /\ Give(Below, flow') /\ flow' = Failed
    BY <1>3 DEF Invoke, Give
  <2>2. flow' \in FlowsOf(N)
    BY <1>1, <2>1, Ready, AtHand, FlowTyped
  <2> QED BY <1>1, <2>1, <2>2, OperandGives
<1> QED BY <1>2, <1>3

\* Retry enters its body, or fails.
LEMMA RetryKept ==
    ASSUME Walk, Retry
    PROVE  Kept
<1>1. HasOperand("retry") /\ closures' = closures /\ fatal' = fatal
  BY DEF Retry, Same
<1>2. CASE envs' = envs /\ Give(Below, flow') /\ flow' = Failed
  <2>1. flow' \in FlowsOf(N)
    BY <1>1, <1>2, Ready, AtHand, FlowTyped
  <2> QED BY <1>1, <1>2, <2>1, OperandGives
<1>3. ASSUME NEW n \in 1..MaxTries,
             Enter(Append(Below, [Frame("retry", "body", Len(Scopes)) EXCEPT !.left = n - 1]), Scopes)
      PROVE  Kept
  <2> DEFINE g == [Frame("retry", "body", Len(Scopes)) EXCEPT !.left = n - 1]
  <2>1. n - 1 \in Nat
    BY BoundsAssumption
  <2>2. g \in FramesOf(N) /\ g.kind = "retry" /\ g.env = Len(envs) /\ g.depth = Len(Scopes)
    <3>1. "retry" \in Kinds /\ "body" \in Uses
      BY DEF Kinds, Uses
    <3>2. N \in Nat /\ Len(envs) \in Nat /\ Len(Scopes) \in Nat
      BY <1>1, Ready, AtHand
    <3>3. NoFlow \in FlowsOf(N)
      BY <3>2, FlowTyped
    <3> QED BY <2>1, <3>1, <3>2, <3>3 DEF Frame, FramesOf, AnyFrames, Binds
  <2>3. Enter(Append(Below, g), Scopes)
    BY <1>3
  <2> HIDE DEF g
  <2>4. Len(Scopes) = Depth(g) /\ ScopesFit(closures, Env.fn, Scopes)
    BY <1>1, <2>2, Ready, AtHand DEF Depth, Own
  <2> QED BY <1>1, <2>2, <2>3, <2>4, Ready, EntersWithin
<1> QED BY <1>2, <1>3 DEF Retry, Give

\* The body of a loop that has no scope of its own.
LEMMA LoopEnters ==
    ASSUME Walk, NEW u, HasOperand(u), u # "guard", NEW v \in {"every", "while"},
           Enter(Append(Below, Frame("loop", v, Len(Scopes))), Scopes),
           closures' = closures, fatal' = fatal
    PROVE  Kept
<1> DEFINE g == Frame("loop", v, Len(Scopes))
<1>1. g \in FramesOf(N) /\ g.kind = "loop" /\ g.use = v /\ g.env = Len(envs)
      /\ g.depth = Len(Scopes)
  <2>1. "loop" \in Kinds /\ v \in Uses
    BY DEF Kinds, Uses, OperandForms
  <2>2. N \in Nat /\ Len(envs) \in Nat /\ Len(Scopes) \in Nat
    BY Ready, AtHand
  <2> QED BY <2>1, <2>2, FrameTyped
<1>2. Enter(Append(Below, g), Scopes)
  OBVIOUS
<1> HIDE DEF g
<1>3. Len(Scopes) = Depth(g) /\ ScopesFit(closures, Env.fn, Scopes)
  BY <1>1, Ready, AtHand DEF Depth, Own
<1> QED BY <1>1, <1>2, <1>3, Ready, EntersWithin

\* Every and While.
LEMMA EveryKept ==
    ASSUME Walk, Every \/ While
    PROVE  Kept
<1>1. closures' = closures /\ fatal' = fatal
  BY DEF Every, While, Same
<1>2. PICK u \in {"every", "cond"} : HasOperand(u)
  BY DEF Every, While
<1>3. CASE envs' = envs /\ Give(Below, flow') /\ flow' \in {Failed, ValueFlow(Plain)}
  <2>1. flow' \in FlowsOf(N)
    BY <1>2, <1>3, Ready, AtHand, FlowTyped
  <2> QED BY <1>1, <1>2, <1>3, <2>1, OperandGives
<1>4. ASSUME NEW v \in {"every", "while"},
             Enter(Append(Below, Frame("loop", v, Len(Scopes))), Scopes)
      PROVE  Kept
  BY <1>1, <1>2, <1>4, LoopEnters
<1> QED BY <1>3, <1>4 DEF Every, While, Give

\* A for: an item more, or the end of the loop.
LEMMA NextItemKept ==
    ASSUME Walk, mode = "give", Top.kind \in {"value", "loop"},
           Top.kind = "value" => Top.use # "guard", flow # Violated,
           NEW loop \in FramesOf(N), loop.kind = "loop", loop.use = "for",
           loop.env = Len(envs), loop.depth = Top.depth,
           NEW s, ScopesFit(closures, Env.fn, s), Len(s) = Top.depth,
           NextItem(loop, s), closures' = closures, fatal' = fatal
    PROVE  Kept
<1>1. CASE loop.left = 0
  <2>1. Give(Below, flow') /\ flow' = ValueFlow(Plain) /\ SetScopes(s)
    BY <1>1 DEF NextItem, Give
  <2>2. flow' \in FlowsOf(N) /\ Len(s) >= Top.depth
    BY <2>1, AtHand, FlowTyped
  <2> QED BY <2>1, <2>2, GivesWith
<1>2. CASE loop.left # 0
  <2> DEFINE g == [loop EXCEPT !.left = @ - 1]
             t == Bind(Push(s), loop.name, Slot(Plain, FALSE))
  <2>1. Enter(Append(Below, g), t)
    BY <1>2 DEF NextItem
  <2>2. loop.name \in Vars /\ loop.left \in Nat
    BY DEF FramesOf, AnyFrames, Binds
  <2>3. g \in FramesOf(N) /\ g.kind = "loop" /\ g.use = "for" /\ g.env = loop.env
        /\ g.depth = loop.depth
    BY <1>2, <2>2 DEF FramesOf, AnyFrames, Binds
  <2>4. ScopesFit(closures, Env.fn, t) /\ Len(t) = Len(s) + 1
    BY <2>2, BoundFits
  <2> HIDE DEF g, t
  <2>5. Len(t) = Depth(g)
    BY <2>3, <2>4 DEF Depth, Own
  <2> QED BY <2>1, <2>3, <2>4, <2>5, EntersWithin
<1> QED BY <1>1, <1>2

\* For binds the first item, if there is one.
LEMMA ForKept ==
    ASSUME Walk, For
    PROVE  Kept
<1>1. HasOperand("items") /\ closures' = closures /\ fatal' = fatal
  BY DEF For, Same
<1>2. CASE envs' = envs /\ Give(Below, flow') /\ flow' = Failed
  <2>1. flow' \in FlowsOf(N)
    BY <1>1, <1>2, Ready, AtHand, FlowTyped
  <2> QED BY <1>1, <1>2, <2>1, OperandGives
<1>3. ASSUME NEW n \in 0..MaxTries,
             NextItem([Frame("loop", "for", Len(Scopes)) EXCEPT !.left = n, !.name = Top.name], Scopes)
      PROVE  Kept
  <2> DEFINE g == [Frame("loop", "for", Len(Scopes)) EXCEPT !.left = n, !.name = Top.name]
  <2>1. n \in Nat
    BY BoundsAssumption
  <2>2. g \in FramesOf(N)
    <3>1. "loop" \in Kinds /\ "for" \in Uses
      BY DEF Kinds, Uses
    <3>2. N \in Nat /\ Len(envs) \in Nat /\ Len(Scopes) \in Nat /\ Top.name \in Vars
      BY <1>1, Ready, AtHand DEF FramesOf, Binds
    <3> QED BY <2>1, <3>1, <3>2, FrameNamed
  <2>3. g.kind = "loop" /\ g.use = "for" /\ g.env = Len(envs) /\ g.depth = Len(Scopes)
    BY DEF Frame
  <2>4. NextItem(g, Scopes)
    BY <1>3
  <2> HIDE DEF g
  <2>5. ScopesFit(closures, Env.fn, Scopes)
    BY <1>1, Ready, AtHand
  <2> QED BY <1>1, <2>2, <2>3, <2>4, <2>5, Ready, NextItemKept
<1> QED BY <1>2, <1>3 DEF For, Give

-----------------------------------------------------------------------------
(* eval_match.                                                             *)

\* What two changes leave alone, both leave alone.
LEMMA CoversTwice ==
    ASSUME NEW n, NEW fs \in Seq(FramesOf(n)), NEW gs \in Seq(FramesOf(n)),
           NEW hs \in Seq(FramesOf(n)), Covers(fs, gs), Covers(gs, hs)
    PROVE  Covers(fs, hs)
<1> SUFFICES ASSUME NEW k \in 1..Len(fs), fs[k].kind = "deferred"
             PROVE  k <= Len(hs) /\ \A j \in 1..k : hs[j] = fs[j]
  BY DEF Covers
<1>1. Len(fs) \in Nat /\ Len(gs) \in Nat
  BY LenProperties
<1>2. k \in 1..Len(gs) /\ \A j \in 1..k : gs[j] = fs[j]
  BY <1>1 DEF Covers
<1>3. k \in 1..k
  BY <1>1
<1>4. gs[k].kind = "deferred"
  BY <1>2, <1>3
<1>5. k <= Len(hs) /\ \A j \in 1..k : hs[j] = gs[j]
  BY <1>2, <1>4 DEF Covers
<1> QED BY <1>2, <1>5

\* Guard pops the scope of the arm, unless the body is next.
LEMMA GuardKept ==
    ASSUME Walk, Guard
    PROVE  Kept
<1> DEFINE arm == Last(Below)
           outer == ButLast(Below)
<1>1. HasOperand("guard") /\ closures' = closures /\ fatal' = fatal
  BY DEF Guard, Same
<1>2. /\ Standing(Below, envs, closures) /\ Under(arm, Top, Env) /\ arm.env = Len(envs)
      /\ Below \in Seq(FramesOf(N)) /\ Below # <<>>
  <2>1. Top.kind # "call" /\ Standing(frames, envs, closures)
    BY <1>1, Ready, AtHand
  <2>2. Standing(Below, envs, closures) /\ Under(arm, Top, Env) /\ arm.env = Len(envs)
    BY <2>1, StandPop DEF Top, Below, Env
  <2> QED BY <2>2 DEF Standing, N
<1>3. arm \in FramesOf(N) /\ outer \in Seq(FramesOf(N)) /\ arm.depth \in Nat
  <2>1. arm \in FramesOf(N) /\ outer \in Seq(FramesOf(N))
    BY <1>2, StackParts
  <2> QED BY <2>1 DEF FramesOf, AnyFrames
<1>4. arm.kind = "match" /\ arm.use = "guard" /\ Len(Scopes) = arm.depth + 1
  <2>1. arm.kind = "match" /\ arm.use = "guard" /\ Top.depth = Depth(arm)
    BY <1>1, <1>2, Ready DEF Under
  <2> QED BY <1>1, <2>1, Ready DEF Depth, Own
<1>5. Covers(frames, Below) /\ Covers(Below, outer)
      /\ \A g \in FramesOf(N) : Covers(Below, Append(outer, g))
  <2>1. Top.kind # "deferred" /\ frames \in Seq(FramesOf(N)) /\ frames # <<>>
        /\ Top \in FramesOf(N)
    BY <1>1, Ready, AtHand
  <2>2. Covers(frames, Below)
    BY <2>1, CoversShapes DEF Top, Below
  <2>3. Covers(Below, outer) /\ \A g \in FramesOf(N) : Covers(Below, Append(outer, g))
    BY <1>2, <1>3, <1>4, CoversShapes
  <2> QED BY <2>2, <2>3
<1>6. /\ frames \in Seq(FramesOf(N)) /\ ScopesFit(closures, Env.fn, Scopes) /\ Len(Scopes) \in Nat
      /\ Len(CapturedBy(closures, Env.fn)) \in Nat /\ Len(envs) \in Nat /\ N \in Nat
      /\ mode = "give" /\ flow # Violated
  BY <1>1, Ready, AtHand
<1>7. /\ ScopesFit(closures, Env.fn, ButLast(Scopes))
      /\ Len(ButLast(Scopes)) = arm.depth
  <2>1. arm.depth > Len(CapturedBy(closures, Env.fn))
    BY <1>2, StandingParts DEF Env
  <2>2. Len(Scopes) > Len(CapturedBy(closures, Env.fn)) + 1
    BY <1>3, <1>4, <1>6, <2>1
  <2>3. ScopesFit(closures, Env.fn, ButLast(Scopes)) /\ Len(ButLast(Scopes)) = Len(Scopes) - 1
    BY <1>6, <2>2, FitsDrop
  <2> QED BY <1>3, <1>4, <2>3
<1> HIDE DEF arm, outer
<1>8. ASSUME NEW ds, ds = Rescoped(envs, ButLast(Scopes))
      PROVE  /\ Standing(Below, ds, closures) /\ Len(ds) = Len(envs)
             /\ Last(ds).scopes = ButLast(Scopes)
  BY <1>2, <1>7, <1>8, StandScopes DEF Env
<1>9. CASE frames' = Append(outer, [arm EXCEPT !.use = "body"]) /\ envs' = envs
           /\ mode' = "expr" /\ flow' = NoFlow
  <2> DEFINE g == [arm EXCEPT !.use = "body"]
  <2>1. /\ g \in FramesOf(N) /\ g.kind = arm.kind /\ g.env = arm.env /\ g.depth = arm.depth
        /\ g.use = "body"
    BY <1>3, <1>4 DEF FramesOf, AnyFrames, Binds, Uses
  <2>2. frames' = Append(outer, g)
    BY <1>9
  <2> HIDE DEF g
  <2>3. Standing(Append(outer, g), envs, closures) /\ Last(Append(outer, g)) = g
    BY <1>2, <1>4, <2>1, StandTop DEF arm, outer, N
  <2>4. Stands("expr", g, NoFlow) /\ Len(Scopes) = Depth(g)
    BY <1>4, <2>1 DEF Stands, Depth, Own
  <2>5. Sound(Append(outer, g), envs, closures, "expr", NoFlow)
    BY <2>3, <2>4, GoesOn DEF Env, Scopes
  <2>6. Append(outer, g) \in Seq(FramesOf(N))
    BY <1>3, <2>1, Pushed
  <2>7. Covers(frames, Append(outer, g))
    BY <1>2, <1>5, <1>6, <2>1, <2>6, CoversTwice
  <2> QED BY <1>1, <1>6, <1>9, <2>2, <2>5, <2>7, KeptBy
<1>10. CASE frames' = Append(outer, [arm EXCEPT !.use = "arms", !.left = @ - 1])
            /\ SetScopes(ButLast(Scopes)) /\ mode' = "step" /\ flow' = NoFlow
  <2> DEFINE g == [arm EXCEPT !.use = "arms", !.left = @ - 1]
  <2>0. arm.left > 0
    BY <1>3, <1>4 DEF FramesOf
  <2>1. /\ g \in FramesOf(N) /\ g.kind = arm.kind /\ g.env = arm.env /\ g.depth = arm.depth
        /\ g.use = "arms"
    <3>1. arm.left - 1 \in Nat /\ "arms" \in Uses /\ arm \in AnyFrames(N)
      <4>1. arm \in AnyFrames(N) /\ arm.left \in Nat
        BY <1>3 DEF FramesOf, AnyFrames
      <4>2. arm.left - 1 \in Nat
        BY <2>0, <4>1
      <4> QED BY <4>1, <4>2 DEF Uses
    <3>2. g = [arm EXCEPT !.use = "arms", !.left = arm.left - 1]
      OBVIOUS
    <3> HIDE DEF g
    <3>3. /\ g \in AnyFrames(N) /\ g.kind = arm.kind /\ g.env = arm.env /\ g.depth = arm.depth
          /\ g.use = "arms"
      BY <3>1, <3>2 DEF AnyFrames
    <3> QED BY <1>4, <3>3 DEF FramesOf, Binds
  <2>2. frames' = Append(outer, g) /\ envs' = Rescoped(envs, ButLast(Scopes))
    BY <1>10 DEF SetScopes, Rescoped
  <2> HIDE DEF g
  <2>3. /\ Standing(Below, envs', closures) /\ Len(envs') = Len(envs)
        /\ Last(envs').scopes = ButLast(Scopes)
    BY <1>8, <2>2
  <2>4. Standing(Append(outer, g), envs', closures) /\ Last(Append(outer, g)) = g
    BY <1>2, <1>4, <2>1, <2>3, StandTop DEF arm, outer, N
  <2>5. Stands("step", g, NoFlow) /\ Len(ButLast(Scopes)) = Depth(g)
    BY <1>3, <1>4, <1>7, <2>1 DEF Stands, Depth, Own
  <2>6. Sound(Append(outer, g), envs', closures, "step", NoFlow)
    BY <2>3, <2>4, <2>5, GoesOn
  <2>7. Append(outer, g) \in Seq(FramesOf(N))
    BY <1>3, <2>1, Pushed
  <2>8. Covers(frames, Append(outer, g))
    BY <1>2, <1>5, <1>6, <2>1, <2>7, CoversTwice
  <2> QED BY <1>1, <1>6, <1>10, <2>2, <2>3, <2>6, <2>8, KeptBy
<1>11. CASE Give(outer, Failed) /\ SetScopes(ButLast(Scopes))
  <2>1. /\ frames' = outer /\ mode' = "give" /\ flow' = Failed
        /\ envs' = Rescoped(envs, ButLast(Scopes))
    BY <1>11 DEF Give, SetScopes, Rescoped
  <2>2. /\ Standing(Below, envs', closures) /\ Len(envs') = Len(envs)
        /\ Last(envs').scopes = ButLast(Scopes)
    BY <1>8, <2>1
  <2>3. Failed \in FlowsOf(N) /\ IsError(Failed)
    BY <1>6, FlowTyped
  <2>4. Sound(outer, envs', closures, "give", Failed)
    BY <1>3, <1>4, <1>7, <2>2, <2>3, GiveBelow DEF arm, outer, N
  <2>5. Covers(frames, outer)
    BY <1>2, <1>3, <1>5, <1>6, CoversTwice
  <2> QED BY <1>1, <1>6, <2>1, <2>2, <2>4, <2>5, KeptBy
<1> QED BY <1>9, <1>10, <1>11 DEF Guard, Eval, Step, arm, outer

\* What holds where an arm is tried.
LEMMA InMatch ==
    ASSUME Walk, Matching
    PROVE  /\ mode = "step" /\ Top.kind = "match" /\ Top.use = "arms" /\ ~ IsError(flow)
           /\ Len(Scopes) = Top.depth /\ Top.left \in Nat
<1>1. mode = "step" /\ Top.kind = "match"
  BY DEF Matching
<1>2. Top.use = "arms" /\ ~ Draining(Top)
  BY <1>1, AtHand DEF Stands, Draining
<1>3. Depth(Top) = Top.depth
  BY <1>1, <1>2, AtHand DEF Depth, Own
<1>4. Top.left \in Nat
  BY <1>1, AtHand DEF FramesOf, AnyFrames
<1> QED BY <1>1, <1>2, <1>3, <1>4, AtHand

\* NoArm and ArmMisses.
LEMMA NoArmKept ==
    ASSUME Walk, NoArm \/ ArmMisses
    PROVE  Kept
<1>1. Matching /\ envs' = envs /\ closures' = closures /\ fatal' = fatal
  BY DEF NoArm, ArmMisses, SameEnv, Same
<1>2. CASE Give(Below, flow') /\ flow' = Failed
  <2>1. flow' \in FlowsOf(N)
    BY <1>1, <1>2, InMatch, AtHand, FlowTyped
  <2> QED BY <1>1, <1>2, <2>1, InMatch, AtHand, Gives
<1>3. CASE ArmMisses
  <2> DEFINE g == [Top EXCEPT !.left = @ - 1]
  <2>1. frames' = WithTop(g) /\ mode' = "step" /\ flow' = NoFlow
    BY <1>3 DEF ArmMisses, Step
  <2>2. Top.left - 1 \in Nat /\ Top \in FramesOf(N)
    BY <1>1, <1>3, InMatch, AtHand DEF ArmMisses
  <2>3. g \in FramesOf(N) /\ g.kind = Top.kind /\ g.use = Top.use /\ g.env = Top.env
        /\ g.depth = Top.depth
    BY <1>1, <2>2, InMatch DEF FramesOf, AnyFrames, Binds
  <2> HIDE DEF g
  <2>4. Stands("step", g, NoFlow) /\ Len(Scopes) = Depth(g)
    BY <1>1, <2>3, InMatch, AtHand DEF Stands, Depth, Own
  <2>5. ScopesFit(closures, Env.fn, Scopes)
    BY <1>1, InMatch, AtHand
  <2> QED BY <1>1, <2>1, <2>3, <2>4, <2>5, InMatch, GoesOnAt
<1> QED BY <1>2, <1>3 DEF NoArm, Give

\* ArmFails leaves the scope of the arm, with an error on its way out.
LEMMA ArmFailsKept ==
    ASSUME Walk, ArmFails
    PROVE  Kept
<1>1. /\ Matching /\ closures' = closures /\ fatal' = fatal
      /\ SetScopes(Push(Scopes)) /\ Give(Below, flow') /\ flow' = Failed
  BY DEF ArmFails, Same, Give
<1>2. ScopesFit(closures, Env.fn, Push(Scopes)) /\ Len(Push(Scopes)) = Len(Scopes) + 1
  BY <1>1, InMatch, AtHand, FitsPush
<1>3. flow' \in FlowsOf(N) /\ IsError(flow')
  BY <1>1, InMatch, AtHand, FlowTyped
<1>4. Len(Push(Scopes)) >= Top.depth /\ mode = "step"
  BY <1>1, <1>2, InMatch, AtHand
<1> QED BY <1>1, <1>2, <1>3, <1>4, InMatch, AtHand, GivesWith

\* ArmMatches goes on with the body, in the scope of the arm.
LEMMA ArmMatchesKept ==
    ASSUME Walk, NEW x \in Locals, ArmMatches(x)
    PROVE  Kept
<1> DEFINE g == [Top EXCEPT !.use = "body"]
           s == Bind(Push(Scopes), x, Slot(Plain, FALSE))
<1>1. /\ Matching /\ closures' = closures /\ fatal' = fatal /\ envs' = Rescoped(envs, s)
      /\ frames' = WithTop(g) /\ mode' = "expr" /\ flow' = NoFlow
  BY DEF ArmMatches, Same, SetScopes, Rescoped, Eval
<1>2. ScopesFit(closures, Env.fn, s) /\ Len(s) = Len(Scopes) + 1
  <2>1. x \in Vars /\ ScopesFit(closures, Env.fn, Scopes) /\ mode # "done"
    BY <1>1, InMatch, AtHand, NamesAssumption
  <2> QED BY <2>1, BoundFits
<1>3. g \in FramesOf(N) /\ g.kind = Top.kind /\ g.use = "body" /\ g.env = Top.env
      /\ g.depth = Top.depth
  <2>1. Top \in FramesOf(N) /\ Top.kind = "match"
    BY <1>1, InMatch, AtHand
  <2> QED BY <2>1 DEF FramesOf, AnyFrames, Binds, Uses
<1> HIDE DEF g, s
<1>4. Stands("expr", g, NoFlow) /\ Len(s) = Depth(g)
  BY <1>1, <1>2, <1>3, InMatch DEF Stands, Depth, Own
<1> QED BY <1>1, <1>2, <1>3, <1>4, InMatch, GoesOnAt

\* The guard is an operand on the frame of the match.
LEMMA ArmGuardedKept ==
    ASSUME Walk, NEW x \in Locals, ArmGuarded(x)
    PROVE  Kept
<1> DEFINE g == [Top EXCEPT !.use = "guard"]
           s == Bind(Push(Scopes), x, Slot(Plain, FALSE))
           h == Frame("value", "guard", Len(Scopes) + 1)
           fs == Append(Below, g)
<1>1. /\ Matching /\ closures' = closures /\ fatal' = fatal /\ envs' = Rescoped(envs, s)
      /\ frames' = Append(fs, h) /\ mode' = "expr" /\ flow' = NoFlow /\ Top.left > 0
  BY DEF ArmGuarded, Same, SetScopes, Rescoped, Eval, WithTop
<1>2. ScopesFit(closures, Env.fn, s) /\ Len(s) = Len(Scopes) + 1
  <2>1. x \in Vars /\ ScopesFit(closures, Env.fn, Scopes) /\ mode # "done"
    BY <1>1, InMatch, AtHand, NamesAssumption
  <2> QED BY <2>1, BoundFits
<1>3. g \in FramesOf(N) /\ g.kind = "match" /\ g.use = "guard" /\ g.env = Top.env
      /\ g.depth = Top.depth
  <2>1. Top \in FramesOf(N) /\ Top.kind = "match"
    BY <1>1, InMatch, AtHand
  <2> QED BY <1>1, <2>1 DEF FramesOf, AnyFrames, Binds, Uses
<1>4. h \in FramesOf(N) /\ h.kind = "value" /\ h.use = "guard" /\ h.env = Len(envs)
      /\ h.depth = Len(Scopes) + 1
  <2>1. "value" \in Kinds /\ "guard" \in Uses
    BY DEF Kinds, Uses
  <2>2. N \in Nat /\ Len(envs) \in Nat /\ Len(Scopes) + 1 \in Nat
    BY <1>1, InMatch, AtHand
  <2> QED BY <2>1, <2>2, FrameTyped
<1> HIDE DEF g, s, h
<1>5. Covers(frames, Append(fs, h))
  BY <1>1, <1>3, <1>4, InMatch, AtHand, CoversShapes DEF Top, Below
<1>6. Standing(frames, envs', closures) /\ Len(envs') = Len(envs) /\ Last(envs').scopes = s
  BY <1>1, <1>2, InMatch, AtHand, StandScopes DEF Env
<1>7. Standing(fs, envs', closures) /\ Last(fs) = g
  BY <1>1, <1>3, <1>6, InMatch, StandTop DEF Top, Below, N
<1> HIDE DEF fs
<1>8. Under(g, h, Last(envs'))
  <2>1. Top.env = Len(envs) /\ Depth(g) = h.depth /\ h.depth \in Nat
    BY <1>1, <1>3, <1>4, InMatch, AtHand DEF Depth, Own
  <2> QED BY <1>3, <1>4, <2>1 DEF Under, Draining
<1>9. Standing(Append(fs, h), envs', closures) /\ Last(Append(fs, h)) = h
  BY <1>4, <1>7, <1>8, StandPush DEF N
<1>10. Stands("expr", h, NoFlow) /\ Len(s) = Depth(h)
  BY <1>1, <1>2, <1>4, InMatch, AtHand DEF Stands, Depth, Own
<1>11. Sound(Append(fs, h), envs', closures, "expr", NoFlow)
  BY <1>6, <1>9, <1>10, GoesOn
<1> QED BY <1>1, <1>5, <1>6, <1>11, InMatch, AtHand, KeptBy DEF Draining

-----------------------------------------------------------------------------
(* What a form does when the one inside it has ended.                      *)

\* EndMatch pops the scope of the arm, which a guard that fails leaves.
LEMMA EndMatchKept ==
    ASSUME Walk, EndMatch
    PROVE  Kept
<1>1. /\ mode = "give" /\ Top.kind = "match" /\ closures' = closures /\ fatal' = fatal
      /\ Give(Below, flow') /\ flow' = flow
      /\ IF Top.use = "guard" THEN envs' = envs ELSE SetScopes(ButLast(Scopes))
  BY DEF EndMatch, Given, Same, Give
<1>2. flow \in FlowsOf(N) /\ Stands("give", Top, flow)
  BY <1>1, AtHand
<1>3. CASE Top.use = "guard"
  <2>1. IsError(flow) /\ Len(Scopes) >= Depth(Top) /\ Depth(Top) >= Top.depth
        /\ Depth(Top) \in Nat /\ Top.depth \in Nat /\ Len(Scopes) \in Nat
    BY <1>1, <1>2, <1>3, AtHand, DepthTyped DEF Stands
  <2>2. Len(Scopes) >= Top.depth
    BY <2>1
  <2> QED BY <1>1, <1>2, <1>3, <2>1, <2>2, Gives
<1>4. CASE Top.use # "guard"
  <2>1. Top.use = "body" /\ Own(Top) = 1
    BY <1>1, <1>2, <1>4 DEF Stands, Own
  <2> QED BY <1>1, <1>2, <1>4, <2>1, Pops
<1> QED BY <1>3, <1>4

\* What is known of a form of kind k that is given something.
LEMMA InForm ==
    ASSUME Walk, NEW k \in {"block", "bind", "interp", "spawn", "handler", "retry", "loop"}, Given(k)
    PROVE  /\ mode = "give" /\ Top.kind = k /\ ~ Draining(Top) /\ flow \in FlowsOf(N)
           /\ Len(Scopes) >= Depth(Top) /\ (~ IsError(flow) => Len(Scopes) = Depth(Top))
           /\ k \in {"bind", "interp", "retry"} => Depth(Top) = Top.depth
           /\ k \in {"block", "spawn", "handler"} => Own(Top) = 1
<1>1. mode = "give" /\ Top.kind = k /\ ~ Draining(Top)
  BY DEF Given, Draining
<1>2. k \in {"block", "spawn", "handler"} => Own(Top) = 1
  BY <1>1 DEF Own
<1>3. k \in {"bind", "interp", "retry"} => Depth(Top) = Top.depth
  BY <1>1, AtHand DEF Depth, Own
<1> QED BY <1>1, <1>2, <1>3, AtHand

\* EndAttempt enters the body anew, or ends.
LEMMA EndAttemptKept ==
    ASSUME Walk, EndAttempt
    PROVE  Kept
<1>1. Given("retry") /\ closures' = closures /\ fatal' = fatal
  BY DEF EndAttempt, Same
<1>2. /\ mode = "give" /\ Top.kind = "retry" /\ flow \in FlowsOf(N)
      /\ Len(Scopes) >= Top.depth /\ (~ IsError(flow) => Len(Scopes) = Top.depth)
  BY <1>1, InForm
<1>3. CASE RetryAgain
  <2> DEFINE g == [Top EXCEPT !.left = @ - 1]
  <2>1. Enter(Append(Below, g), Scopes) /\ flow = ValueFlow(ErrVal) /\ Top.left > 0
    BY <1>3 DEF EndAttempt, WithTop, RetryAgain
  <2>2. ~ IsError(flow) /\ flow # Violated
    BY <2>1 DEF IsError, ValueFlow, Flow, Violated
  <2>3. g \in FramesOf(N) /\ g.kind = "retry" /\ g.env = Top.env /\ g.depth = Top.depth
    <3>1. Top \in FramesOf(N) /\ Top.left \in Nat
      BY <1>2, AtHand DEF FramesOf, AnyFrames
    <3>2. Top.left - 1 \in Nat
      BY <2>1, <3>1
    <3> QED BY <1>2, <3>1, <3>2 DEF FramesOf, AnyFrames, Binds
  <2> HIDE DEF g
  <2>4. Len(Scopes) = Depth(g) /\ ScopesFit(closures, Env.fn, Scopes) /\ g.env = Len(envs)
    BY <1>2, <2>2, <2>3, AtHand DEF Depth, Own
  <2> QED BY <1>1, <1>2, <2>1, <2>2, <2>3, <2>4, EntersWithin
<1>4. CASE ~ RetryAgain
  <2>1. envs' = envs /\ Give(Below, flow') /\ (flow' = flow \/ (IsValue(flow) /\ flow' = Failed))
    BY <1>4 DEF EndAttempt, Give
  <2>2. flow' \in FlowsOf(N) /\ (~ IsError(flow') => ~ IsError(flow))
    BY <1>2, <2>1, AtHand, FlowTyped
  <2>3. flow = Violated => flow' = Violated
    BY <2>1 DEF IsValue, Violated, Flow
  <2> QED BY <1>1, <1>2, <2>1, <2>2, <2>3, Gives
<1> QED BY <1>3, <1>4

\* EndStmt: the next statement, or the scope of the block goes.
LEMMA EndStmtKept ==
    ASSUME Walk, EndStmt
    PROVE  Kept
<1>1. Given("block") /\ closures' = closures /\ fatal' = fatal
  BY DEF EndStmt, Same
<1>2. /\ mode = "give" /\ Top.kind = "block" /\ flow \in FlowsOf(N) /\ Own(Top) = 1
      /\ (~ IsError(flow) => Len(Scopes) = Depth(Top)) /\ ~ Draining(Top)
  BY <1>1, InForm
<1>3. CASE IsValue(flow) /\ Top.use = "stmt"
  <2>1. frames' = frames /\ mode' = "step" /\ flow' = NoFlow /\ envs' = envs
    BY <1>3 DEF EndStmt, Step
  <2>2. ~ IsError(flow) /\ flow # Violated
    BY <1>3 DEF IsError, IsValue, Violated, Flow
  <2>3. Stands("step", Top, NoFlow) /\ Len(Scopes) = Depth(Top)
    BY <1>2, <2>2 DEF Stands
  <2>4. Sound(frames, envs, closures, "step", NoFlow)
    BY <1>2, <2>3, AtHand, GoesOn DEF Top, Env, Scopes
  <2>5. Covers(frames, frames)
    BY <1>2, AtHand, CoversShapes
  <2> QED BY <1>1, <1>2, <2>1, <2>2, <2>4, <2>5, AtHand, KeptBy
<1>4. CASE ~ (IsValue(flow) /\ Top.use = "stmt")
  <2>1. SetScopes(ButLast(Scopes)) /\ Give(Below, flow') /\ flow' = flow
    BY <1>4 DEF EndStmt, PopBlock, Give
  <2> QED BY <1>1, <1>2, <2>1, Pops
<1> QED BY <1>3, <1>4

\* EndLet binds in the innermost scope.
LEMMA EndLetKept ==
    ASSUME Walk, EndLet
    PROVE  Kept
<1>1. Given("bind") /\ closures' = closures /\ fatal' = fatal
  BY DEF EndLet, Same
<1>2. /\ mode = "give" /\ Top.kind = "bind" /\ flow \in FlowsOf(N)
      /\ Len(Scopes) >= Top.depth /\ (~ IsError(flow) => Len(Scopes) = Top.depth)
  BY <1>1, InForm
<1>3. CASE IsValue(flow)
  <2> DEFINE slot == Slot(flow.val, Top.mut)
             s == Bind(Scopes, Top.name, slot)
  <2>1. SetScopes(s) /\ Give(Below, flow') /\ flow' = ValueFlow(Plain)
    BY <1>3 DEF EndLet, Give
  <2>2. ~ IsError(flow) /\ flow # Violated
    BY <1>3 DEF IsError, IsValue, Violated, Flow
  <2>3. slot \in SlotsOf(Len(closures)) /\ Top.name \in Vars
    BY <1>2, AtHand DEF SlotsOf, Slot, FramesOf, AnyFrames, Binds, N
  <2> HIDE DEF slot
  <2>4. ScopesFit(closures, Env.fn, s) /\ Len(s) = Len(Scopes)
    BY <1>2, <2>3, AtHand, FitsBind
  <2>5. flow' \in FlowsOf(N)
    BY <1>2, <2>1, AtHand, FlowTyped
  <2> HIDE DEF s
  <2> QED BY <1>1, <1>2, <2>1, <2>2, <2>4, <2>5, AtHand, GivesWith
<1>4. CASE ~ IsValue(flow)
  <2>1. envs' = envs /\ Give(Below, flow') /\ flow' = flow
    BY <1>4 DEF EndLet, Give
  <2> QED BY <1>1, <1>2, <2>1, Gives
<1> QED BY <1>3, <1>4

\* EndInterp.
LEMMA EndInterpKept ==
    ASSUME Walk, EndInterp
    PROVE  Kept
<1>1. /\ Given("interp") /\ envs' = envs /\ closures' = closures /\ fatal' = fatal
      /\ Give(Below, flow') /\ (flow' = flow \/ (IsValue(flow) /\ flow' = ValueFlow(Plain)))
  BY DEF EndInterp, SameEnv, Same, Give
<1>2. /\ mode = "give" /\ Top.kind = "interp" /\ flow \in FlowsOf(N)
      /\ Len(Scopes) >= Top.depth /\ (~ IsError(flow) => Len(Scopes) = Top.depth)
  BY <1>1, InForm
<1>3. flow' \in FlowsOf(N)
  BY <1>1, <1>2, AtHand, FlowTyped
<1>4. (~ IsError(flow') => ~ IsError(flow)) /\ (flow = Violated => flow' = Violated)
  BY <1>1 DEF IsError, IsValue, Violated, Flow
<1> QED BY <1>1, <1>2, <1>3, <1>4, Gives

\* EndHandler and EndSpawn pop the scope that they own.
LEMMA EndHandlerKept ==
    ASSUME Walk, EndHandler \/ EndSpawn
    PROVE  Kept
<1>1. /\ Given("handler") \/ Given("spawn")
      /\ SetScopes(ButLast(Scopes)) /\ Give(Below, flow') /\ closures' = closures /\ fatal' = fatal
      /\ flow' = flow \/ (~ IsError(flow) /\ flow' = ValueFlow(Plain))
  BY DEF EndHandler, EndSpawn, PopBlock, Give, Same
<1>2. /\ mode = "give" /\ Top.kind \in {"handler", "spawn"} /\ flow \in FlowsOf(N) /\ Own(Top) = 1
  BY <1>1, InForm
<1>3. flow' \in FlowsOf(N)
  BY <1>1, <1>2, AtHand, FlowTyped
<1>4. (~ IsError(flow') => ~ IsError(flow)) /\ (flow = Violated => flow' = Violated)
  BY <1>1 DEF IsError, Violated, Flow
<1> QED BY <1>1, <1>2, <1>3, <1>4, Pops

\* EndIteration pops the scope of an item and goes on, or leaves.
LEMMA EndIterationKept ==
    ASSUME Walk, EndIteration
    PROVE  Kept
<1> DEFINE outside == IF Top.use = "for" THEN ButLast(Scopes) ELSE Scopes
<1>1. Given("loop") /\ closures' = closures /\ fatal' = fatal
  BY DEF EndIteration, Same
<1>2. /\ mode = "give" /\ Top.kind = "loop" /\ flow \in FlowsOf(N) /\ ~ Draining(Top)
      /\ Len(Scopes) >= Depth(Top) /\ (~ IsError(flow) => Len(Scopes) = Depth(Top))
  BY <1>1, InForm
<1>3. /\ ScopesFit(closures, Env.fn, outside) /\ Len(outside) >= Top.depth
      /\ ~ IsError(flow) => Len(outside) = Top.depth
  <2>1. /\ Len(Scopes) \in Nat /\ Top.depth \in Nat /\ Len(CapturedBy(closures, Env.fn)) \in Nat
        /\ Top.depth > Len(CapturedBy(closures, Env.fn))
        /\ ScopesFit(closures, Env.fn, Scopes)
    <3>1. Top.depth > Len(CapturedBy(closures, Env.fn))
      BY <1>2, AtHand, StandingParts DEF Top, Env
    <3> QED BY <1>2, <3>1, AtHand
  <2>2. CASE Top.use = "for"
    <3>1. Depth(Top) = Top.depth + 1
      BY <1>2, <2>2 DEF Depth, Own
    <3>2. Len(Scopes) > Len(CapturedBy(closures, Env.fn)) + 1
      BY <1>2, <2>1, <3>1
    <3>3. ScopesFit(closures, Env.fn, ButLast(Scopes)) /\ Len(ButLast(Scopes)) = Len(Scopes) - 1
      BY <2>1, <3>2, FitsDrop
    <3> QED BY <1>2, <2>1, <2>2, <3>1, <3>3
  <2>3. CASE Top.use # "for"
    <3>1. Depth(Top) = Top.depth
      BY <1>2, <2>1, <2>3 DEF Depth, Own
    <3> QED BY <1>2, <2>1, <2>3, <3>1
  <2> QED BY <2>2, <2>3
<1>4. CASE flow.kind \notin {"value", "continue"}
  <2>1. /\ SetScopes(outside) /\ Give(Below, flow')
        /\ flow' = flow \/ (flow.kind = "break" /\ flow' = ValueFlow(Plain))
    BY <1>4 DEF EndIteration, Give
  <2>2. flow' \in FlowsOf(N)
    BY <1>2, <2>1, AtHand, FlowTyped
  <2>3. (~ IsError(flow') => ~ IsError(flow)) /\ (flow = Violated => flow' = Violated)
    BY <2>1 DEF IsError, Violated, Flow
  <2> HIDE DEF outside
  <2> QED BY <1>1, <1>2, <1>3, <2>1, <2>2, <2>3, GivesWith
<1>5. CASE flow.kind \in {"value", "continue"}
  <2>1. ~ IsError(flow) /\ flow # Violated
    BY <1>5 DEF IsError, Violated, Flow
  <2>2. CASE Top.use = "for"
    <3>1. NextItem(Top, outside)
      BY <1>5, <2>2 DEF EndIteration
    <3>2. Top \in FramesOf(N) /\ Top.env = Len(envs)
      BY <1>2, AtHand
    <3> HIDE DEF outside
    <3> QED BY <1>1, <1>2, <1>3, <2>1, <2>2, <3>1, <3>2, NextItemKept
  <2>3. CASE Top.use = "every"
    <3>1. Enter(frames, Scopes)
      BY <1>5, <2>3 DEF EndIteration
    <3>2. Takes(Top) /\ Len(Scopes) = Depth(Top)
      BY <1>2, <2>1 DEF Takes
    <3> QED BY <1>1, <1>2, <2>1, <3>1, <3>2, EntersHere
  <2>4. CASE Top.use \notin {"for", "every"}
    <3> DEFINE g == Frame("value", "cond", Top.depth)
    <3>1. /\ frames' = Append(Below, g) /\ mode' = "expr" /\ flow' = NoFlow /\ envs' = envs
      BY <1>5, <2>4 DEF EndIteration, Eval, WithTop
    <3>2. g \in FramesOf(N) /\ g.kind = "value" /\ g.use = "cond" /\ g.env = Len(envs)
          /\ g.depth = Top.depth
      <4>1. "value" \in Kinds /\ "cond" \in Uses
        BY DEF Kinds, Uses
      <4>2. N \in Nat /\ Len(envs) \in Nat /\ Top.depth \in Nat
        BY <1>2, AtHand
      <4> QED BY <4>1, <4>2, FrameTyped
    <3> HIDE DEF g
    <3>3. Standing(Append(Below, g), envs, closures) /\ Last(Append(Below, g)) = g
      BY <1>2, <3>2, AtHand, ReplaceForm DEF Top, Below, N
    <3>4. Stands("expr", g, NoFlow) /\ Len(Scopes) = Depth(g)
      <4>1. Depth(g) = Top.depth
        BY <1>2, <3>2, AtHand DEF Depth, Own
      <4>2. Len(Scopes) = Top.depth
        BY <1>3, <2>1, <2>4
      <4> QED BY <3>2, <4>1, <4>2 DEF Stands
    <3>5. Sound(Append(Below, g), envs, closures, "expr", NoFlow)
      BY <3>3, <3>4, GoesOn DEF Env, Scopes
    <3>6. Covers(frames, Append(Below, g))
      BY <1>2, <3>2, AtHand, CoversShapes DEF Top, Below
    <3> QED BY <1>1, <1>2, <2>1, <3>1, <3>5, <3>6, AtHand, KeptBy
  <2> QED BY <2>2, <2>3, <2>4
<1> QED BY <1>4, <1>5

\* All steps of a form that has its operand.
LEMMA OperandDoneKept ==
    ASSUME Walk, OperandDone
    PROVE  Kept
BY OperandFailsKept, TryKept, AssignKept, IfCondKept, CatchKept, CalleeKept, InvokeKept,
   MatchKept, GuardKept, RetryKept, EveryKept, ForKept DEF OperandDone

\* All steps of a form in which another has ended.
LEMMA FormDoneKept ==
    ASSUME Walk, FormDone
    PROVE  Kept
BY NoArmKept, ArmFailsKept, ArmMatchesKept, ArmGuardedKept, EndMatchKept, EndAttemptKept,
   EndIterationKept, EndStmtKept, EndLetKept, EndInterpKept, EndHandlerKept DEF FormDone

-----------------------------------------------------------------------------
(* invoke_value.                                                           *)

\* What holds where the innermost frame is a call.
LEMMA InCall ==
    ASSUME Walk, mode # "done", Top.kind = "call"
    PROVE  /\ CallFits(Top, Env) /\ Depth(Top) = Top.depth /\ Covers(frames, Below)
           /\ \A g \in FramesOf(N) : Covers(frames, WithTop(g))
           /\ \A g, h \in FramesOf(N) : Covers(frames, Append(WithTop(g), h))
           /\ mode = "step" => Top.use \in {"requires", "ensures", "drain"}
           /\ mode = "give" => Top.use = "body"
           /\ Top.ret \in FlowsOf(N) /\ Top.left \in Nat
           /\ Env.defers \in Seq(Registered) /\ Env.ran \in Seq(Nat)
           /\ Len(Env.defers) \in Nat
<1>1. CallFits(Top, Env)
  BY AtHand, StandingParts DEF Top, Env
<1>2. Depth(Top) = Top.depth
  BY AtHand DEF Depth, Own
<1>3. /\ Covers(frames, Below) /\ \A g \in FramesOf(N) : Covers(frames, WithTop(g))
      /\ \A g, h \in FramesOf(N) : Covers(frames, Append(WithTop(g), h))
  BY AtHand, CoversShapes DEF Top, Below, WithTop
<1>4. /\ mode = "step" => Top.use \in {"requires", "ensures", "drain"}
      /\ mode = "give" => Top.use = "body"
  BY AtHand DEF Stands
<1>5. Top.ret \in FlowsOf(N) /\ Top.left \in Nat
  BY AtHand DEF FramesOf, AnyFrames
<1>6. Env.defers \in Seq(Registered) /\ Env.ran \in Seq(Nat)
  BY AtHand DEF EnvsOf
<1>7. Len(Env.defers) \in Nat
  BY <1>6, LenProperties
<1> QED BY <1>1, <1>2, <1>3, <1>4, <1>5, <1>6, <1>7

\* The call goes on at another place of invoke_value, g, in the Env e.
LEMMA CallGoesOn ==
    ASSUME Walk, mode # "done", Top.kind = "call",
           NEW g \in FramesOf(N), g.kind = "call", g.env = Top.env, g.depth = Top.depth,
           NEW e \in EnvsOf(N), e.fn = Env.fn, ScopesFit(closures, e.fn, e.scopes),
           CallFits(g, e), envs' = [envs EXCEPT ![Len(envs)] = e]
    PROVE  /\ Standing(WithTop(g), envs', closures) /\ Last(WithTop(g)) = g
           /\ Last(envs') = e /\ Len(envs') = Len(envs) /\ Depth(g) = Depth(Top)
<1>0. /\ frames \in Seq(FramesOf(N)) /\ frames # <<>> /\ Standing(frames, envs, closures)
      /\ envs \in Seq(EnvsOf(N)) /\ Len(envs) \in Nat \ {0}
  BY AtHand
<1>1. Standing(WithTop(g), envs', closures)
  BY <1>0, StandCall DEF Top, Env, Below, WithTop, N
<1>2. Last(WithTop(g)) = g
  <2>1. Below \in Seq(FramesOf(N))
    BY <1>0, StackParts DEF Below
  <2> QED BY <2>1, Pushed DEF WithTop
<1>3. Last(envs') = e /\ Len(envs') = Len(envs)
  <2>1. Len(envs') = Len(envs) /\ envs'[Len(envs)] = e
    BY <1>0, ExceptSeq
  <2> QED BY <2>1 DEF Last
<1>4. Depth(g) = Depth(Top)
  BY DEF Depth, Own
<1> QED BY <1>1, <1>2, <1>3, <1>4

\* A call without an Env that changes.
LEMMA SameEnvs ==
    ASSUME Walk, mode # "done"
    PROVE  envs = [envs EXCEPT ![Len(envs)] = Env]
BY AtHand DEF Env, Last

\* The call has its defer frame taken off, and ends with f.
LEMMA DrainSound ==
    ASSUME Walk, mode # "done", Top.kind = "call", ~ Draining(Top), NEW f \in FlowsOf(N),
           NEW s, ScopesFit(closures, Env.fn, s), Len(s) = Len(Scopes),
           Step(WithTop([Top EXCEPT !.use = "drain", !.ret = f, !.left = Len(Env.defers)])),
           envs' = [envs EXCEPT ![Len(envs)] = [Env EXCEPT !.open = FALSE, !.scopes = s]],
           closures' = closures
    PROVE  Walk' /\ Len(envs') = Len(envs)
<1> DEFINE g == [Top EXCEPT !.use = "drain", !.ret = f, !.left = Len(Env.defers)]
           e == [Env EXCEPT !.open = FALSE, !.scopes = s]
<1>1. frames' = WithTop(g) /\ mode' = "step" /\ flow' = NoFlow
  BY DEF Step
<1>2. /\ g \in FramesOf(N) /\ g.kind = "call" /\ g.use = "drain" /\ g.env = Top.env
      /\ g.depth = Top.depth /\ g.left = Len(Env.defers)
  <2>1. Top \in FramesOf(N) /\ Len(Env.defers) \in Nat
    BY AtHand, InCall
  <2> QED BY <2>1 DEF FramesOf, AnyFrames, Binds, Uses
<1>3. /\ e \in EnvsOf(N) /\ e.fn = Env.fn /\ e.scopes = s /\ ~ e.open
      /\ e.ran = Env.ran /\ e.defers = Env.defers
  <2>1. Env \in EnvsOf(N) /\ s \in Seq(ScopesOf(N))
    BY AtHand DEF ScopesFit, N
  <2> QED BY <2>1 DEF EnvsOf
<1>4. envs' = [envs EXCEPT ![Len(envs)] = e]
  OBVIOUS
<1> HIDE DEF g, e
<1>5. CallFits(g, e)
  <2>1. Env.ran = <<>> /\ Len(Env.defers) \in Nat
    BY InCall DEF CallFits
  <2>2. e.ran = [i \in 1..(Len(e.defers) - g.left) |-> Len(e.defers) + 1 - i]
    <3>1. 1..(Len(e.defers) - g.left) = {}
      BY <1>2, <1>3, <2>1
    <3>2. \A F : <<>> = [i \in {} |-> F]
      OBVIOUS
    <3> QED BY <1>3, <2>1, <3>1, <3>2
  <2> QED BY <1>2, <1>3, <2>1, <2>2 DEF CallFits, Draining
<1>6. /\ Standing(WithTop(g), envs', closures) /\ Last(WithTop(g)) = g
      /\ Last(envs') = e /\ Len(envs') = Len(envs) /\ Depth(g) = Depth(Top)
  BY <1>2, <1>3, <1>4, <1>5, CallGoesOn
<1>7. Balanced(g, Last(envs').scopes, NoFlow)
  BY <1>2, <1>3, <1>6, AtHand DEF Balanced, Draining
<1>8. Stands("step", g, NoFlow) /\ NoFlow \in FlowsOf(N) /\ ClosuresFit(closures)
  BY <1>2, AtHand, FlowTyped DEF Stands
<1>9. Sound(WithTop(g), envs', closures, "step", NoFlow)
  BY <1>6, <1>7, <1>8 DEF Sound, N
<1> QED BY <1>1, <1>6, <1>9 DEF Walk

\* Drain: the defer frame is taken off and the scopes stay.
LEMMA DrainKeepsScopes ==
    ASSUME Walk, mode # "done", Top.kind = "call", ~ Draining(Top), NEW f \in FlowsOf(N),
           Drain(f), closures' = closures
    PROVE  Walk' /\ Len(envs') = Len(envs)
<1>1. [envs EXCEPT ![Len(envs)].open = FALSE]
         = [envs EXCEPT ![Len(envs)] = [Env EXCEPT !.open = FALSE, !.scopes = Scopes]]
  <2>1. [Env EXCEPT !.open = FALSE] = [Env EXCEPT !.open = FALSE, !.scopes = Scopes]
    BY AtHand DEF EnvsOf, Scopes
  <2>2. [envs EXCEPT ![Len(envs)].open = FALSE]
           = [envs EXCEPT ![Len(envs)] = [Env EXCEPT !.open = FALSE]]
    BY AtHand DEF Env, Last
  <2> QED BY <2>1, <2>2
<1>2. /\ Step(WithTop([Top EXCEPT !.use = "drain", !.ret = f, !.left = Len(Env.defers)]))
      /\ envs' = [envs EXCEPT ![Len(envs)] = [Env EXCEPT !.open = FALSE, !.scopes = Scopes]]
  BY <1>1 DEF Drain
<1> QED BY <1>2, AtHand, DrainSound

\* Requires enters the body in the Env of the call, or drains.
LEMMA RequiresSound ==
    ASSUME Walk, Requires
    PROVE  Walk' /\ Len(envs') = Len(envs)
<1>1. mode = "step" /\ Top.kind = "call" /\ Top.use = "requires"
  BY DEF Requires, Calling
<1>2. ~ Draining(Top) /\ closures' = closures
  BY <1>1 DEF Draining, Requires, Same, Clause
<1>3. CASE Enter(WithTop([Top EXCEPT !.use = "body"]), Scopes)
  <2> DEFINE g == [Top EXCEPT !.use = "body"]
             h == Frame("block", "stmt", Len(Scopes))
  <2>1. /\ envs' = Rescoped(envs, Push(Scopes)) /\ frames' = Append(WithTop(g), h)
        /\ mode' = "step" /\ flow' = NoFlow
    BY <1>3 DEF Enter, SetScopes, Step, Rescoped
  <2>2. /\ g \in FramesOf(N) /\ g.kind = "call" /\ g.use = "body" /\ g.env = Top.env
        /\ g.depth = Top.depth
    <3>1. Top \in FramesOf(N)
      BY <1>1, AtHand
    <3> QED BY <1>1, <3>1 DEF FramesOf, AnyFrames, Binds, Uses
  <2>3. h \in FramesOf(N) /\ h.kind = "block" /\ h.use = "stmt" /\ h.env = Len(envs)
        /\ h.depth = Len(Scopes)
    <3>1. "block" \in Kinds /\ "stmt" \in Uses
      BY DEF Kinds, Uses
    <3>2. N \in Nat /\ Len(envs) \in Nat /\ Len(Scopes) \in Nat
      BY <1>1, AtHand
    <3> QED BY <3>1, <3>2, FrameTyped
  <2> HIDE DEF g, h
  <2>4. CallFits(g, Env) /\ Takes(g)
    BY <1>1, <1>2, <2>2, InCall DEF CallFits, Draining, Takes
  <2>5. /\ Env \in EnvsOf(N) /\ ScopesFit(closures, Env.fn, Env.scopes)
        /\ envs = [envs EXCEPT ![Len(envs)] = Env]
    BY <1>1, AtHand, SameEnvs DEF Scopes
  <2>6. Standing(WithTop(g), envs, closures) /\ Last(WithTop(g)) = g /\ Depth(g) = Depth(Top)
    <3>1. /\ frames \in Seq(FramesOf(N)) /\ frames # <<>> /\ Standing(frames, envs, closures)
      BY <1>1, AtHand
    <3>2. Standing(Append(ButLast(frames), g), envs, closures)
      BY <1>1, <2>2, <2>4, <2>5, <3>1, StandCall DEF Top, Env, N
    <3>3. Below \in Seq(FramesOf(N))
      BY <3>1, StackParts DEF Below
    <3>4. Last(WithTop(g)) = g
      BY <2>2, <3>3, Pushed DEF WithTop
    <3>5. Depth(g) = Depth(Top)
      BY <1>1, <2>2 DEF Depth, Own
    <3> QED BY <3>2, <3>4, <3>5 DEF WithTop, Below
  <2>7. Len(Scopes) = Depth(g) /\ ScopesFit(closures, Env.fn, Scopes)
    BY <1>1, <1>2, <2>6, AtHand
  <2>8. Sound(Append(WithTop(g), h), envs', closures, "step", NoFlow) /\ Len(envs') = Len(envs)
    BY <2>1, <2>3, <2>4, <2>6, <2>7, Entered DEF Env, N
  <2> QED BY <1>2, <2>1, <2>8 DEF Walk
<1>4. CASE \E f \in {Violated, Failed} : Drain(f)
  <2>1. {Violated, Failed} \subseteq FlowsOf(N)
    BY <1>1, AtHand, FlowTyped
  <2> QED BY <1>1, <1>2, <1>4, <2>1, DrainKeepsScopes
<1> QED BY <1>3, <1>4 DEF Requires

\* EndBody: what the body leaves open is kept for the deferred bodies.
LEMMA EndBodySound ==
    ASSUME Walk, EndBody
    PROVE  Walk' /\ Len(envs') = Len(envs)
<1>1. mode = "give" /\ Top.kind = "call" /\ closures' = closures
  BY DEF EndBody, Given, Same
<1>2. ~ Draining(Top) /\ flow.val \in ValuesOf(N) /\ flow \in FlowsOf(N)
  BY <1>1, AtHand, InCall DEF Draining
<1>3. CASE flow.kind \in {"value", "return"}
  <2> DEFINE g == [Top EXCEPT !.use = "ensures", !.ret = ValueFlow(flow.val)]
  <2>1. frames' = WithTop(g) /\ mode' = "step" /\ flow' = NoFlow /\ envs' = envs
    BY <1>3 DEF EndBody, Step
  <2>2. /\ g \in FramesOf(N) /\ g.kind = "call" /\ g.use = "ensures" /\ g.env = Top.env
        /\ g.depth = Top.depth
    <3>1. Top \in FramesOf(N) /\ ValueFlow(flow.val) \in FlowsOf(N)
      BY <1>1, <1>2, AtHand, FlowTyped
    <3> QED BY <1>1, <3>1 DEF FramesOf, AnyFrames, Binds, Uses
  <2> HIDE DEF g
  <2>3. CallFits(g, Env)
    BY <1>1, <1>2, <2>2, InCall DEF CallFits, Draining
  <2>4. /\ Env \in EnvsOf(N) /\ ScopesFit(closures, Env.fn, Env.scopes)
        /\ envs' = [envs EXCEPT ![Len(envs)] = Env]
    BY <1>1, <2>1, AtHand, SameEnvs DEF Scopes
  <2>5. /\ Standing(WithTop(g), envs', closures) /\ Last(WithTop(g)) = g /\ Depth(g) = Depth(Top)
    BY <1>1, <2>2, <2>3, <2>4, CallGoesOn
  <2>6. ~ IsError(flow)
    BY <1>3 DEF IsError
  <2>7. Stands("step", g, NoFlow) /\ Len(Scopes) = Depth(g)
    BY <1>1, <1>2, <2>2, <2>5, <2>6, AtHand DEF Stands
  <2>8. Sound(WithTop(g), envs', closures, "step", NoFlow)
    BY <2>1, <2>5, <2>7, GoesOn DEF Env, Scopes
  <2> QED BY <1>1, <2>1, <2>8 DEF Walk
<1>4. CASE flow.kind \notin {"value", "return"}
  <2>1. \E f \in {flow, Failed} : Drain(f)
    BY <1>4 DEF EndBody
  <2>2. {flow, Failed} \subseteq FlowsOf(N)
    BY <1>1, <1>2, AtHand, FlowTyped
  <2> QED BY <1>1, <1>2, <2>1, <2>2, DrainKeepsScopes
<1> QED BY <1>3, <1>4

\* Ensures binds the result in the scope of the parameter.
LEMMA EnsuresSound ==
    ASSUME Walk, Ensures
    PROVE  Walk' /\ Len(envs') = Len(envs)
<1>1. mode = "step" /\ Top.kind = "call" /\ Top.use = "ensures"
  BY DEF Ensures, Calling
<1>2. ~ Draining(Top) /\ closures' = closures /\ Top.ret \in FlowsOf(N) /\ Top.ret.val \in ValuesOf(N)
  <2>1. closures' = closures
    BY DEF Ensures, Same, Clause
  <2>2. Top.ret \in FlowsOf(N)
    BY <1>1, InCall
  <2> QED BY <1>1, <2>1, <2>2 DEF Draining, FlowsOf
<1>3. CASE Drain(Top.ret)
  BY <1>1, <1>2, <1>3, DrainKeepsScopes
<1>4. ASSUME NEW f \in {Top.ret, Violated, Failed},
             Step(WithTop([Top EXCEPT !.use = "drain", !.ret = f, !.left = Len(Env.defers)])),
             envs' = [envs EXCEPT ![Len(envs)].open = FALSE,
                                  ![Len(envs)].scopes = Bind(@, Result, Slot(Top.ret.val, FALSE))]
      PROVE  Walk' /\ Len(envs') = Len(envs)
  <2> DEFINE slot == Slot(Top.ret.val, FALSE)
             s == Bind(Scopes, Result, slot)
  <2>1. slot \in SlotsOf(Len(closures)) /\ Result \in Vars
    BY <1>2, NamesAssumption DEF SlotsOf, Slot, N
  <2>2. envs' = [envs EXCEPT ![Len(envs)] = [Env EXCEPT !.open = FALSE, !.scopes = s]]
    <3>1. Env = envs[Len(envs)] /\ Env \in EnvsOf(N) /\ Len(envs) \in 1..Len(envs)
          /\ envs \in Seq(EnvsOf(N))
      BY <1>1, AtHand DEF Env, Last
    <3> QED BY <1>4, <3>1 DEF Scopes, EnvsOf
  <2> HIDE DEF slot
  <2>3. ScopesFit(closures, Env.fn, s) /\ Len(s) = Len(Scopes)
    BY <1>1, <2>1, AtHand, FitsBind
  <2>4. f \in FlowsOf(N)
    BY <1>1, <1>2, AtHand, FlowTyped
  <2> HIDE DEF s
  <2> QED BY <1>1, <1>2, <1>4, <2>2, <2>3, <2>4, DrainSound
<1> QED BY <1>3, <1>4 DEF Ensures

\* One deferred body more has run: the bodies that a call has run are those it
\* registered, the last one first.
LEMMA RanMore ==
    ASSUME NEW f, NEW g, NEW e, NEW d, CallFits(f, e), Draining(f), Draining(g),
           f.left \in Nat, f.left > 0, Len(e.defers) \in Nat, g.left = f.left - 1,
           ~ d.open, d.defers = e.defers, d.ran = Append(e.ran, f.left)
    PROVE  CallFits(g, d)
<1> DEFINE l == Len(e.defers)
           k == l - f.left
           ran == [i \in 1..k |-> l + 1 - i]
           more == [i \in 1..(k + 1) |-> l + 1 - i]
<1>1. f.left <= l /\ e.ran = ran
  BY DEF CallFits
<1>2. l \in Nat /\ k \in Nat /\ l - g.left = k + 1 /\ g.left <= l
  BY <1>1
<1>3. Append(ran, f.left) = more
  <2>1. /\ ran \in Seq(Int) /\ Len(ran) = k /\ \A i \in 1..k : ran[i] = l + 1 - i
    BY <1>2, IsASeq
  <2>2. /\ more \in Seq(Int) /\ Len(more) = k + 1 /\ \A i \in 1..(k + 1) : more[i] = l + 1 - i
    <3> DEFINE m == k + 1
    <3>1. m \in Nat /\ \A i \in 1..m : l + 1 - i \in Int
      BY <1>2
    <3> HIDE DEF m
    <3>2. [i \in 1..m |-> l + 1 - i] \in [1..m -> Int]
      BY <3>1
    <3>3. [i \in 1..m |-> l + 1 - i] \in Seq(Int)
      BY <3>1, <3>2, SeqDef
    <3>4. Len([i \in 1..m |-> l + 1 - i]) = m
      BY <3>1, <3>3, LenProperties
    <3> QED BY <3>1, <3>3, <3>4 DEF m
  <2> HIDE DEF ran, more
  <2> DEFINE t == Append(ran, f.left)
  <2>3. /\ t \in Seq(Int) /\ Len(t) = k + 1 /\ t[k + 1] = f.left /\ \A i \in 1..k : t[i] = ran[i]
    BY <1>2, <2>1, Pushed
  <2> HIDE DEF t
  <2>4. \A i \in 1..(k + 1) : t[i] = more[i]
    <3> TAKE i \in 1..(k + 1)
    <3>1. CASE i = k + 1
      <4>1. l + 1 - i = f.left
        BY <1>2, <3>1
      <4> QED BY <2>2, <2>3, <3>1, <4>1
    <3>2. CASE i # k + 1
      <4>1. i \in 1..k
        BY <1>2, <3>2
      <4> QED BY <2>1, <2>2, <2>3, <4>1
    <3> QED BY <3>1, <3>2
  <2>5. t = more
    BY <2>2, <2>3, <2>4, SeqEqual
  <2> QED BY <2>5 DEF t
<1> QED BY <1>1, <1>2, <1>3 DEF CallFits

\* RunDeferred counts the body and evaluates it in the scopes that are there.
LEMMA RunDeferredSound ==
    ASSUME Walk, RunDeferred
    PROVE  /\ Walk' /\ Len(envs') = Len(envs) /\ mode' \in {"expr", "give"}
           /\ \E g, h \in FramesOf(N) :
                 /\ frames' = Append(WithTop(g), h) /\ h.kind = "deferred"
                 /\ Draining(g) /\ g.ret = Top.ret
<1> DEFINE d == Env.defers[Top.left]
           g == [Top EXCEPT !.left = @ - 1]
           h == [Frame("deferred", "body", Len(Scopes)) EXCEPT !.name = d.name, !.seen = d.seen]
           e == [Env EXCEPT !.ran = Append(@, Top.left)]
           fs == Append(WithTop(g), h)
<1>1. /\ mode = "step" /\ Top.kind = "call" /\ Top.use = "drain" /\ Top.left > 0
      /\ closures' = closures
  BY DEF RunDeferred, Calling, Same
<1>2. /\ Draining(Top) /\ CallFits(Top, Env) /\ Top.left \in Nat /\ Len(Env.defers) \in Nat
      /\ Env.defers \in Seq(Registered) /\ Env.ran \in Seq(Nat) /\ Top.ret \in FlowsOf(N)
      /\ Depth(Top) = Top.depth
  BY <1>1, InCall DEF Draining
<1>3. d \in Registered /\ ~ Env.open
  <2>1. ~ Env.open /\ Top.left \in 1..Len(Env.defers)
    BY <1>1, <1>2 DEF CallFits
  <2> QED BY <1>2, <2>1, ElementOfSeq
<1>4. /\ g \in FramesOf(N) /\ g.kind = "call" /\ g.use = "drain" /\ g.env = Top.env
      /\ g.depth = Top.depth /\ g.left = Top.left - 1 /\ g.ret = Top.ret
  <2>1. Top \in FramesOf(N) /\ Top.left - 1 \in Nat
    BY <1>1, <1>2, AtHand
  <2>2. g = [Top EXCEPT !.left = Top.left - 1]
    OBVIOUS
  <2> HIDE DEF g
  <2> QED BY <1>1, <2>1, <2>2 DEF FramesOf, AnyFrames, Binds
<1>5. /\ h \in FramesOf(N) /\ h.kind = "deferred" /\ h.env = Len(envs) /\ h.depth = Len(Scopes)
  <2>1. "deferred" \in Kinds /\ "body" \in Uses
    BY DEF Kinds, Uses
  <2>2. N \in Nat /\ Len(envs) \in Nat /\ Len(Scopes) \in Nat
    BY <1>1, AtHand
  <2>3. d.name \in Vars \union {NoName} /\ d.seen \in BOOLEAN
    BY <1>3 DEF Registered
  <2> HIDE DEF d
  <2>4. h \in FramesOf(N)
    BY <2>1, <2>2, <2>3, FrameNamed
  <2>5. h.kind = "deferred" /\ h.env = Len(envs) /\ h.depth = Len(Scopes)
    BY DEF Frame
  <2> QED BY <2>4, <2>5
<1>6. /\ e \in EnvsOf(N) /\ e.fn = Env.fn /\ e.scopes = Scopes /\ e.open = Env.open
      /\ e.defers = Env.defers /\ e.ran = Append(Env.ran, Top.left)
  <2>1. Env \in EnvsOf(N) /\ Append(Env.ran, Top.left) \in Seq(Nat)
    BY <1>1, <1>2, AtHand, AppendProperties
  <2> QED BY <2>1 DEF EnvsOf, Scopes
<1>7. envs' = [envs EXCEPT ![Len(envs)] = e]
  BY <1>1, AtHand DEF RunDeferred, Env, Last
<1>8. /\ frames' = fs
      /\ IF d.name = NoName THEN mode' = "expr" /\ flow' = NoFlow
         ELSE mode' = "give" /\ flow' = Lookup(Scopes, d.name)
  BY DEF RunDeferred, Eval, Give
<1> HIDE DEF d, g, h, e
<1>9. CallFits(g, e)
  BY <1>1, <1>2, <1>3, <1>4, <1>6, RanMore DEF Draining
<1>10. /\ Standing(WithTop(g), envs', closures) /\ Last(WithTop(g)) = g
       /\ Last(envs') = e /\ Len(envs') = Len(envs) /\ Depth(g) = Depth(Top)
  BY <1>1, <1>4, <1>6, <1>7, <1>9, AtHand, CallGoesOn
<1>11. Under(g, h, e)
  <2>1. /\ g.env = Len(envs) /\ h.depth >= Depth(g)
    BY <1>1, <1>4, <1>5, <1>10, AtHand
  <2>2. Draining(g)
    BY <1>4 DEF Draining
  <2> QED BY <1>4, <1>5, <2>1, <2>2 DEF Under
<1>12. Standing(fs, envs', closures) /\ Last(fs) = h
  BY <1>5, <1>10, <1>11, StandPush DEF N
<1> HIDE DEF fs
<1>13. /\ mode' \in {"expr", "give"} /\ flow' \in FlowsOf(N)
       /\ mode' \in {"expr", "step"} => flow' = NoFlow
  <2>1. NoFlow \in FlowsOf(N) /\ Lookup(Scopes, d.name) \in FlowsOf(N)
    BY <1>1, AtHand, FlowTyped, LookupTyped
  <2> QED BY <1>8, <2>1
<1>14. Stands(mode', h, flow')
  BY <1>5, <1>13 DEF Stands
<1>15. Balanced(h, Last(envs').scopes, flow')
  <2>1. Depth(h) = h.depth /\ Len(Scopes) \in Nat
    BY <1>1, <1>5, AtHand DEF Depth, Own
  <2> QED BY <1>5, <1>6, <1>10, <2>1 DEF Balanced
<1>16. Sound(fs, envs', closures, mode', flow')
  BY <1>1, <1>12, <1>13, <1>14, <1>15, AtHand DEF Sound, N
<1>17. Walk'
  BY <1>1, <1>8, <1>16 DEF Walk
<1>18. Draining(g)
  BY <1>4 DEF Draining
<1> QED BY <1>4, <1>5, <1>8, <1>10, <1>13, <1>17, <1>18 DEF fs

\* EndDeferred goes back to the call.
LEMMA EndDeferredSound ==
    ASSUME Walk, EndDeferred
    PROVE  Walk' /\ envs' = envs /\ frames' = Below /\ mode' = "step" /\ Top.kind = "deferred"
<1>1. /\ mode = "give" /\ Top.kind = "deferred" /\ frames' = Below /\ mode' = "step"
      /\ flow' = NoFlow /\ envs' = envs /\ closures' = closures
  BY DEF EndDeferred, Given, Step, SameEnv, Same
<1>2. Standing(Below, envs, closures) /\ Under(Last(Below), Top, Env)
  BY <1>1, AtHand, StandPop DEF Top, Below, Env
<1>3. Draining(Last(Below)) /\ Top.depth >= Depth(Last(Below))
  BY <1>1, <1>2 DEF Under
<1>4. Stands("step", Last(Below), NoFlow)
  BY <1>3 DEF Stands, Draining
<1>5. Balanced(Last(Below), Scopes, NoFlow)
  <2>1. Depth(Top) = Top.depth
    BY <1>1, AtHand DEF Depth, Own
  <2>2. Depth(Last(Below)) \in Nat
    BY <1>2, StandingParts, DepthTyped
  <2>3. Len(Scopes) >= Depth(Last(Below))
    BY <1>1, <1>3, <2>1, <2>2, AtHand
  <2> QED BY <1>3, <2>3 DEF Balanced
<1>6. Sound(Below, envs, closures, "step", NoFlow)
  BY <1>1, <1>2, <1>4, <1>5, AtHand, FlowTyped DEF Sound, Env, Scopes, N
<1> QED BY <1>1, <1>6 DEF Walk

\* Returns: the caller finds its Env as it left it.
LEMMA ReturnsSound ==
    ASSUME Walk, Returns
    PROVE  /\ Walk' /\ frames' = Below /\ flow' = Top.ret
           /\ mode' = IF Below = <<>> THEN "done" ELSE "give"
<1>1. /\ mode = "step" /\ Top.kind = "call" /\ Top.use = "drain" /\ Top.left = 0
      /\ frames' = Below /\ envs' = ButLast(envs) /\ flow' = Top.ret /\ closures' = closures
      /\ mode' = IF Below = <<>> THEN "done" ELSE "give"
  BY DEF Returns, Calling, Same
<1>2. /\ frames \in Seq(FramesOf(N)) /\ frames # <<>> /\ envs \in Seq(EnvsOf(N))
      /\ Top.env = Len(envs) /\ ClosuresFit(closures) /\ Tower(frames, envs, closures)
      /\ Len(envs) \in Nat \ {0} /\ Top.ret \in FlowsOf(N)
  BY <1>1, AtHand, InCall DEF Standing
<1>3. /\ Tower(Below, ButLast(envs), closures)
      /\ Below = <<>> => ButLast(envs) = <<>>
      /\ Below # <<>> => /\ Last(Below).env = Len(ButLast(envs))
                         /\ ButLast(envs) # <<>>
                         /\ Last(ButLast(envs)) = envs[Last(Below).env]
  BY <1>1, <1>2, TowerReturn DEF Top, Below, N
<1>4. Below # <<>> => Under(Last(Below), Top, envs[Last(Below).env])
  BY <1>2, TowerPop DEF Top, Below
<1>5. CASE Below = <<>>
  BY <1>1, <1>2, <1>3, <1>5 DEF Walk, Sound, N
<1>6. CASE Below # <<>>
  <2> DEFINE b == Last(Below)
             ds == ButLast(envs)
  <2>1. Below \in Seq(FramesOf(N)) /\ ds \in Seq(EnvsOf(N)) /\ Len(ds) = Len(envs) - 1
        /\ \A k \in 1..(Len(envs) - 1) : ds[k] = envs[k]
    <3>1. envs # <<>>
      BY <1>2, EmptySeq
    <3> QED BY <1>2, <3>1, StackParts DEF Below
  <2>2. \A k \in 1..Len(ds) : ScopesFit(closures, ds[k].fn, ds[k].scopes)
    <3> TAKE k \in 1..Len(ds)
    <3>1. k \in 1..Len(envs) /\ ds[k] = envs[k]
      BY <1>2, <2>1
    <3>2. \A j \in 1..Len(envs) : ScopesFit(closures, envs[j].fn, envs[j].scopes)
      BY <1>1, AtHand DEF Standing
    <3> QED BY <3>1, <3>2
  <2>3. Standing(Below, ds, closures)
    BY <1>2, <1>3, <1>6, <2>1, <2>2 DEF Standing, N
  <2>4. Under(b, Top, Last(ds))
    BY <1>3, <1>4, <1>6
  <2>5. b.kind # "call" /\ Len(Last(ds).scopes) = Depth(b)
    BY <1>1, <2>4 DEF Under
  <2>6. Stands("give", b, Top.ret)
    BY <1>1, <2>4, <2>5 DEF Under, Stands
  <2>7. Depth(b) \in Nat
    BY <2>3, StandingParts, DepthTyped
  <2>8. Balanced(b, Last(ds).scopes, Top.ret)
    BY <2>5, <2>7 DEF Balanced
  <2>9. Sound(Below, ds, closures, "give", Top.ret)
    BY <1>2, <2>3, <2>6, <2>8 DEF Sound, N
  <2> QED BY <1>1, <1>6, <2>9 DEF Walk
<1> QED BY <1>1, <1>5, <1>6

-----------------------------------------------------------------------------
(* A violated contract is on its way out.                                  *)

\* The call of frame i leaves with the violation, and runs its deferred bodies.
LeavingAt(fs, i) ==
    /\ i \in 1..Len(fs) /\ Draining(fs[i]) /\ fs[i].ret = Violated
    /\ \A j \in 1..i : fs[j].kind # "deferred"
    /\ i < Len(fs) => fs[i + 1].kind = "deferred"
NoDeferred(fs) == \A j \in 1..Len(fs) : fs[j].kind # "deferred"
Carried(m, fs, fl) ==
    \/ m \in {"done", "give"} /\ fl = Violated /\ NoDeferred(fs)
    \/ m # "done" /\ \E i \in 1..Len(fs) : LeavingAt(fs, i)
FatalHeld == fatal => Carried(mode, frames, flow)

\* The frames are those of a stack, at the end too.
LEMMA StackedBy ==
    ASSUME NEW fs, NEW es, NEW cs, NEW m, NEW fl, Sound(fs, es, cs, m, fl)
    PROVE  /\ fs \in Seq(FramesOf(Len(cs))) /\ Len(fs) \in Nat /\ DOMAIN fs = 1..Len(fs)
           /\ m = "done" <=> fs = <<>>
           /\ m = "done" <=> Len(fs) = 0
           /\ es \in Seq(EnvsOf(Len(cs))) /\ Len(es) \in Nat
<1>1. fs \in Seq(FramesOf(Len(cs))) /\ es \in Seq(EnvsOf(Len(cs)))
  <2>1. <<>> \in Seq(FramesOf(Len(cs))) /\ <<>> \in Seq(EnvsOf(Len(cs)))
    BY EmptySeq
  <2> QED BY <2>1 DEF Sound, Standing
<1>2. m = "done" <=> fs = <<>>
  BY DEF Sound, Standing
<1>3. Len(fs) = 0 <=> fs = <<>>
  BY <1>1, EmptySeq
<1> QED BY <1>1, <1>2, <1>3, LenProperties

\* The same of the walk.
LEMMA Stacked ==
    ASSUME Walk
    PROVE  /\ frames \in Seq(FramesOf(N)) /\ Len(frames) \in Nat
           /\ DOMAIN frames = 1..Len(frames)
           /\ mode = "done" <=> frames = <<>>
           /\ mode = "done" <=> Len(frames) = 0
           /\ envs \in Seq(EnvsOf(N)) /\ Len(envs) \in Nat
BY StackedBy DEF Walk, N

\* The same of the next state.
LEMMA StackedNext ==
    ASSUME Walk'
    PROVE  Len(frames') \in Nat /\ (mode' = "done" <=> Len(frames') = 0)
BY StackedBy DEF Walk

\* NoDeferred is the negation of the operator of the model.
LEMMA DeferredNowhere ==
    ASSUME Walk
    PROVE  NoDeferred(frames) <=> ~ InDeferred
BY Stacked DEF NoDeferred, InDeferred

\* A call that drains is not waiting for anything.
LEMMA NotDrainingGiven ==
    ASSUME Walk, mode \in {"give", "expr"}
    PROVE  ~ Draining(Top)
BY AtHand DEF Stands, Draining

\* The property of the run, and the form in which it is kept.
LEMMA FatalForm ==
    ASSUME Walk
    PROVE  ContractIsFatal <=> FatalHeld
<1> DEFINE Left == \E i \in DOMAIN frames :
                /\ Draining(frames[i]) /\ frames[i].ret = Violated
                /\ \A j \in 1..i : frames[j].kind # "deferred"
                /\ i < Len(frames) => frames[i + 1].kind = "deferred"
<1>1. Left <=> \E i \in 1..Len(frames) : LeavingAt(frames, i)
  BY Stacked DEF LeavingAt
<1>2. CASE mode = "done"
  <2>1. NoDeferred(frames)
    BY <1>2, Stacked DEF NoDeferred
  <2> QED BY <1>2, <2>1 DEF ContractIsFatal, FatalHeld, Carried
<1>3. CASE mode = "give" /\ ~ InDeferred
  <2>1. NoDeferred(frames)
    BY <1>3, DeferredNowhere
  <2>2. ASSUME NEW i \in 1..Len(frames), LeavingAt(frames, i)
        PROVE  FALSE
    <3>1. ~ Draining(Top) /\ Top = frames[Len(frames)] /\ Len(frames) \in Nat
      BY <1>3, NotDrainingGiven, Stacked DEF Top, Last
    <3>2. i # Len(frames)
      BY <2>2, <3>1 DEF LeavingAt
    <3>3. i + 1 \in 1..Len(frames) /\ i < Len(frames)
      BY <3>1, <3>2
    <3> QED BY <2>1, <2>2, <3>3 DEF LeavingAt, NoDeferred
  <2> QED BY <1>3, <2>1, <2>2 DEF ContractIsFatal, FatalHeld, Carried
<1>4. CASE mode # "done" /\ ~ (mode = "give" /\ ~ InDeferred)
  <2>1. ContractIsFatal <=> (fatal => Left)
    BY <1>4 DEF ContractIsFatal
  <2> HIDE DEF Left
  <2>2. mode = "give" => ~ NoDeferred(frames)
    BY <1>4, DeferredNowhere
  <2>3. Carried(mode, frames, flow) <=> Left
    BY <1>1, <1>4, <2>2 DEF Carried
  <2> QED BY <2>1, <2>3 DEF FatalHeld
<1> QED BY <1>2, <1>3, <1>4

\* The frame above that of the call stays there as long as it is deferred.
LEMMA LeavingStays ==
    ASSUME NEW fs, NEW gs, Len(fs) \in Nat, Len(gs) \in Nat,
           NEW i \in 1..Len(fs), LeavingAt(fs, i), i < Len(fs), Covers(fs, gs)
    PROVE  i \in 1..Len(gs) /\ LeavingAt(gs, i) /\ ~ NoDeferred(gs) /\ Len(gs) # 0
<1>1. Len(fs) \in Nat /\ Len(gs) \in Nat
  OBVIOUS
<1>2. i + 1 \in 1..Len(fs) /\ fs[i + 1].kind = "deferred"
  BY <1>1 DEF LeavingAt
<1>3. i + 1 <= Len(gs) /\ \A j \in 1..(i + 1) : gs[j] = fs[j]
  BY <1>2 DEF Covers
<1>4. i + 1 \in 1..Len(gs) /\ i \in 1..Len(gs) /\ gs[i + 1] = fs[i + 1] /\ gs[i] = fs[i]
      /\ \A j \in 1..i : gs[j] = fs[j]
  BY <1>1, <1>2, <1>3
<1> QED BY <1>1, <1>2, <1>4 DEF LeavingAt, NoDeferred

\* The frame of the call that leaves is not the one taken off.
LEMMA LeavingDropped ==
    ASSUME NEW n, NEW fs \in Seq(FramesOf(n)), NEW i \in 1..Len(fs), LeavingAt(fs, i), i < Len(fs)
    PROVE  i \in 1..Len(ButLast(fs)) /\ LeavingAt(ButLast(fs), i)
<1> DEFINE b == ButLast(fs)
<1>1. Len(fs) \in Nat /\ fs # <<>>
  BY LenProperties, EmptySeq
<1>2. Len(b) = Len(fs) - 1 /\ \A j \in 1..(Len(fs) - 1) : b[j] = fs[j]
  BY <1>1, StackParts
<1> HIDE DEF b
<1>3. i \in 1..Len(b) /\ b[i] = fs[i] /\ \A j \in 1..i : b[j] = fs[j]
  BY <1>1, <1>2
<1>4. i < Len(b) => b[i + 1] = fs[i + 1]
  BY <1>1, <1>2
<1> QED BY <1>3, <1>4 DEF LeavingAt, b

\* Without a deferred body there is none below the innermost form.
LEMMA NoneBelow ==
    ASSUME NEW n, NEW fs \in Seq(FramesOf(n)), fs # <<>>
    PROVE  /\ NoDeferred(fs) => NoDeferred(ButLast(fs))
           /\ LeavingAt(fs, Len(fs)) => NoDeferred(fs)
<1>1. Len(fs) \in Nat /\ Len(ButLast(fs)) = Len(fs) - 1
      /\ \A j \in 1..(Len(fs) - 1) : ButLast(fs)[j] = fs[j]
  BY StackParts
<1> QED BY <1>1 DEF NoDeferred, LeavingAt

\* No step of a form or an operand takes a violation off its way.
LEMMA QuietFatal ==
    ASSUME Walk, mode # "done", Kept, FatalHeld
    PROVE  FatalHeld'
<1> SUFFICES ASSUME fatal' PROVE Carried(mode, frames, flow)'
  BY DEF FatalHeld
<1>1. fatal /\ Carried(mode, frames, flow)
  BY DEF FatalHeld, Kept, Quiet
<1>2. CASE mode = "give" /\ flow = Violated /\ NoDeferred(frames)
  <2>1. mode' = "give" /\ flow' = Violated /\ frames' = Below
    BY <1>2 DEF Kept, Quiet
  <2>2. NoDeferred(Below)
    BY <1>2, AtHand, NoneBelow DEF Below
  <2> QED BY <2>1, <2>2 DEF Carried
<1>3. ASSUME NEW i \in 1..Len(frames), LeavingAt(frames, i)
      PROVE  Carried(mode, frames, flow)'
  <2>1. ~ Draining(Top)
    <3>1. mode \in {"give", "expr", "step"}
      BY AtHand DEF Stands
    <3> QED BY <3>1, NotDrainingGiven DEF Kept, Quiet
  <2>2. i < Len(frames)
    <3>1. Top = frames[Len(frames)] /\ Len(frames) \in Nat
      BY Stacked DEF Top, Last
    <3> QED BY <1>3, <2>1, <3>1 DEF LeavingAt
  <2>3. Len(frames) \in Nat /\ Len(frames') \in Nat /\ (mode' = "done" <=> Len(frames') = 0)
        /\ Covers(frames, frames')
    BY Stacked, StackedNext DEF Kept, Quiet
  <2>4. i \in 1..Len(frames') /\ LeavingAt(frames', i) /\ Len(frames') # 0
    BY <1>3, <2>2, <2>3, LeavingStays
  <2> QED BY <2>3, <2>4 DEF Carried
<1> QED BY <1>1, <1>2, <1>3 DEF Carried

\* The steps of a call and a where clause that does not hold: the violation is there
\* at once, or an earlier one stays.
LEMMA LeavesOn ==
    ASSUME Walk, Walk', mode # "done", FatalHeld, Covers(frames, frames'), fatal,
           mode = "give" => ~ NoDeferred(frames), ~ Draining(Top)
    PROVE  Carried(mode, frames, flow)'
<1>1. Len(frames) \in Nat /\ Len(frames') \in Nat /\ (mode' = "done" <=> Len(frames') = 0)
  BY Stacked, StackedNext
<1>2. PICK i \in 1..Len(frames) : LeavingAt(frames, i)
  BY DEF FatalHeld, Carried
<1>3. i < Len(frames)
  <2>1. Top = frames[Len(frames)]
    BY DEF Top, Last
  <2> QED BY <1>1, <1>2, <2>1 DEF LeavingAt
<1>4. i \in 1..Len(frames') /\ LeavingAt(frames', i) /\ Len(frames') # 0
  BY <1>1, <1>2, <1>3, LeavingStays
<1> QED BY <1>1, <1>4 DEF Carried

\* A where clause that does not hold.
LEMMA WhereFailsFatal ==
    ASSUME Walk, FatalHeld, WhereFails
    PROVE  Walk' /\ FatalHeld' /\ Len(envs') >= Len(envs)
<1>1. /\ Waiting /\ mode = "expr" /\ Give(frames, Violated) /\ fatal' = (fatal \/ ~ InDeferred)
      /\ mode' = "give" /\ flow' = Violated /\ frames' = frames
      /\ envs' = envs /\ closures' = closures
  BY DEF WhereFails, Waiting, Give
<1>2. flow' \in FlowsOf(N) /\ Give(frames, flow')
  BY <1>1, AtHand, FlowTyped
<1>3. Walk' /\ Covers(frames, frames') /\ Len(envs') >= Len(envs)
  BY <1>1, <1>2, GivesHere
<1>4. CASE ~ InDeferred
  <2>1. NoDeferred(frames)
    BY <1>4, DeferredNowhere
  <2> QED BY <1>1, <1>3, <2>1 DEF FatalHeld, Carried
<1>5. CASE InDeferred
  <2>1. fatal' => fatal
    BY <1>1, <1>5
  <2>2. ~ Draining(Top) /\ mode # "done"
    BY <1>1, NotDrainingGiven
  <2>3. fatal => Carried(mode, frames, flow)'
    BY <1>1, <1>3, <2>2, LeavesOn
  <2> QED BY <1>3, <2>1, <2>3 DEF FatalHeld
<1> QED BY <1>4, <1>5

\* The call of the innermost frame begins to leave with the violation.
LEMMA BeginsToLeave ==
    ASSUME Walk, mode # "done", NoDeferred(frames),
           NEW g \in FramesOf(N), g.kind = "call", Draining(g), g.ret = Violated,
           frames' = WithTop(g), mode' = "step"
    PROVE  Carried(mode, frames, flow)'
<1> DEFINE k == Len(frames)
           fs == WithTop(g)
<1>1. /\ k \in Nat \ {0} /\ Below \in Seq(FramesOf(N)) /\ Len(Below) = k - 1
      /\ \A j \in 1..(k - 1) : Below[j] = frames[j]
  BY AtHand, StackParts DEF Below
<1>2. /\ Len(fs) = Len(Below) + 1 /\ fs[Len(Below) + 1] = g
      /\ \A j \in 1..Len(Below) : fs[j] = Below[j]
  BY <1>1, Pushed DEF WithTop
<1> HIDE DEF k, fs
<1>3. Len(fs) = k /\ fs[k] = g /\ k \in 1..k /\ \A j \in 1..(k - 1) : fs[j] = frames[j]
  BY <1>1, <1>2
<1>4. \A j \in 1..k : fs[j].kind # "deferred"
  BY <1>1, <1>3 DEF NoDeferred, k
<1>5. k \in 1..Len(fs) /\ LeavingAt(fs, k)
  BY <1>1, <1>3, <1>4 DEF LeavingAt
<1> QED BY <1>5 DEF Carried, fs

\* A call goes on, and a violation of this step is what it leaves with.
LEMMA CallFatal ==
    ASSUME Walk, Walk', mode # "done", FatalHeld, Top.kind = "call", ~ Draining(Top),
           Covers(frames, frames'),
           fatal' /\ ~ fatal => ~ InDeferred,
           \/ fatal' /\ ~ fatal
           \/ mode = "give" /\ flow = Violated
           => \E g \in FramesOf(N) : /\ g.kind = "call" /\ Draining(g) /\ g.ret = Violated
                                     /\ frames' = WithTop(g) /\ mode' = "step"
    PROVE  FatalHeld'
<1> SUFFICES ASSUME fatal' PROVE Carried(mode, frames, flow)'
  BY DEF FatalHeld
<1>1. CASE ~ fatal
  <2>1. NoDeferred(frames)
    BY <1>1, DeferredNowhere
  <2> QED BY <1>1, <2>1, BeginsToLeave
<1>2. CASE fatal /\ mode = "give" /\ NoDeferred(frames)
  <2>1. ASSUME NEW i \in 1..Len(frames), LeavingAt(frames, i)
        PROVE  FALSE
    <3>1. Top = frames[Len(frames)] /\ Len(frames) \in Nat
      BY Stacked DEF Top, Last
    <3>2. i < Len(frames)
      BY <2>1, <3>1 DEF LeavingAt
    <3>3. i + 1 \in 1..Len(frames)
      BY <3>1, <3>2
    <3> QED BY <1>2, <2>1, <3>2, <3>3 DEF LeavingAt, NoDeferred
  <2>2. flow = Violated
    BY <1>2, <2>1 DEF FatalHeld, Carried
  <2> QED BY <1>2, <2>2, BeginsToLeave
<1>3. CASE fatal /\ ~ (mode = "give" /\ NoDeferred(frames))
  BY <1>3, LeavesOn
<1> QED BY <1>1, <1>2, <1>3

\* The frame of a call of which the defer frame is taken off.
LEMMA DrainsWith ==
    ASSUME Walk, mode # "done", Top.kind = "call", NEW f \in FlowsOf(N)
    PROVE  LET g == [Top EXCEPT !.use = "drain", !.ret = f, !.left = Len(Env.defers)] IN
           g \in FramesOf(N) /\ g.kind = "call" /\ Draining(g) /\ g.ret = f
<1>1. Top \in FramesOf(N) /\ Len(Env.defers) \in Nat
  BY AtHand, InCall
<1> QED BY <1>1 DEF FramesOf, AnyFrames, Binds, Uses, Draining

\* A call that begins to drain with a violation leaves with it.
LEMMA DrainFatal ==
    ASSUME Walk, mode # "done", Top.kind = "call", NEW f \in FlowsOf(N),
           Step(WithTop([Top EXCEPT !.use = "drain", !.ret = f, !.left = Len(Env.defers)]))
    PROVE  /\ Covers(frames, frames')
           /\ f = Violated =>
                \E g \in FramesOf(N) : /\ g.kind = "call" /\ Draining(g) /\ g.ret = Violated
                                       /\ frames' = WithTop(g) /\ mode' = "step"
<1> DEFINE g == [Top EXCEPT !.use = "drain", !.ret = f, !.left = Len(Env.defers)]
<1>1. g \in FramesOf(N) /\ g.kind = "call" /\ Draining(g) /\ g.ret = f
  BY DrainsWith
<1>2. frames' = WithTop(g) /\ mode' = "step"
  BY DEF Step
<1> HIDE DEF g
<1>3. Covers(frames, frames')
  BY <1>1, <1>2, InCall
<1> QED BY <1>1, <1>2, <1>3

\* A requires clause that does not hold.
LEMMA RequiresFatal ==
    ASSUME Walk, FatalHeld, Requires
    PROVE  FatalHeld'
<1>1. mode = "step" /\ Top.kind = "call" /\ ~ Draining(Top)
  BY DEF Requires, Calling, Draining
<1>2. Walk'
  BY RequiresSound
<1>3. CASE Enter(WithTop([Top EXCEPT !.use = "body"]), Scopes) /\ Same
  <2> DEFINE g == [Top EXCEPT !.use = "body"]
             h == Frame("block", "stmt", Len(Scopes))
  <2>1. frames' = Append(WithTop(g), h) /\ fatal' = fatal
    BY <1>3 DEF Enter, Step, Same
  <2>2. g \in FramesOf(N)
    <3>1. Top \in FramesOf(N)
      BY <1>1, AtHand
    <3> QED BY <1>1, <3>1 DEF FramesOf, AnyFrames, Binds, Uses
  <2>3. h \in FramesOf(N)
    <3>1. "block" \in Kinds /\ "stmt" \in Uses
      BY DEF Kinds, Uses
    <3>2. N \in Nat /\ Len(envs) \in Nat /\ Len(Scopes) \in Nat
      BY <1>1, AtHand
    <3> QED BY <3>1, <3>2, FrameTyped
  <2> HIDE DEF g, h
  <2>4. Covers(frames, frames')
    BY <1>1, <2>1, <2>2, <2>3, InCall
  <2> QED BY <1>1, <1>2, <2>1, <2>4, CallFatal
<1>4. ASSUME NEW f \in {Violated, Failed}, Drain(f), Clause(f)
      PROVE  FatalHeld'
  <2>1. f \in FlowsOf(N)
    BY <1>1, AtHand, FlowTyped
  <2>2. Step(WithTop([Top EXCEPT !.use = "drain", !.ret = f, !.left = Len(Env.defers)]))
    BY <1>4 DEF Drain
  <2>3. fatal' /\ ~ fatal => f = Violated /\ ~ InDeferred
    BY <1>4 DEF Clause
  <2> QED BY <1>1, <1>2, <2>1, <2>2, <2>3, DrainFatal, CallFatal
<1> QED BY <1>3, <1>4 DEF Requires

\* An ensures clause that does not hold; the violation replaces the result.
LEMMA EnsuresFatal ==
    ASSUME Walk, FatalHeld, Ensures
    PROVE  FatalHeld'
<1>1. mode = "step" /\ Top.kind = "call" /\ ~ Draining(Top) /\ Top.ret \in FlowsOf(N)
  BY InCall DEF Ensures, Calling, Draining
<1>2. Walk'
  BY EnsuresSound
<1>3. PICK f \in {Top.ret, Violated, Failed} :
         /\ Step(WithTop([Top EXCEPT !.use = "drain", !.ret = f, !.left = Len(Env.defers)]))
         /\ fatal' /\ ~ fatal => f = Violated /\ ~ InDeferred
  <2>1. CASE Drain(Top.ret) /\ Same
    BY <2>1 DEF Drain, Same
  <2>2. CASE \E f \in {Top.ret, Violated, Failed} :
                /\ Step(WithTop([Top EXCEPT !.use = "drain", !.ret = f, !.left = Len(Env.defers)]))
                /\ Clause(f)
    BY <2>2 DEF Clause
  <2> QED BY <2>1, <2>2 DEF Ensures
<1>4. f \in FlowsOf(N)
  BY <1>1, AtHand, FlowTyped
<1> QED BY <1>1, <1>2, <1>3, <1>4, DrainFatal, CallFatal

\* The body ends with a violation: ensures clauses are not evaluated.
LEMMA EndBodyFatal ==
    ASSUME Walk, FatalHeld, EndBody
    PROVE  FatalHeld'
<1>1. mode = "give" /\ Top.kind = "call" /\ ~ Draining(Top) /\ flow \in FlowsOf(N) /\ fatal' = fatal
  BY NotDrainingGiven, AtHand DEF EndBody, Given, Same
<1>2. Walk'
  BY EndBodySound
<1>3. CASE flow.kind \in {"value", "return"}
  <2> DEFINE g == [Top EXCEPT !.use = "ensures", !.ret = ValueFlow(flow.val)]
  <2>1. frames' = WithTop(g) /\ flow # Violated
    BY <1>3 DEF EndBody, Step, Violated, Flow
  <2>2. g \in FramesOf(N)
    <3>1. Top \in FramesOf(N) /\ ValueFlow(flow.val) \in FlowsOf(N)
      BY <1>1, AtHand, FlowTyped
    <3> QED BY <1>1, <3>1 DEF FramesOf, AnyFrames, Binds, Uses
  <2> HIDE DEF g
  <2>3. Covers(frames, frames')
    BY <1>1, <2>1, <2>2, InCall
  <2> QED BY <1>1, <1>2, <2>1, <2>3, CallFatal
<1>4. CASE flow.kind \notin {"value", "return"}
  <2> DEFINE f == IF IsError(flow) THEN flow ELSE Failed
  <2>1. f \in FlowsOf(N) /\ (flow = Violated => f = Violated)
    BY <1>1, AtHand, FlowTyped
  <2>2. Step(WithTop([Top EXCEPT !.use = "drain", !.ret = f, !.left = Len(Env.defers)]))
    BY <1>4 DEF EndBody, Drain
  <2> HIDE DEF f
  <2> QED BY <1>1, <1>2, <2>1, <2>2, DrainFatal, CallFatal
<1> QED BY <1>3, <1>4

\* Deferred bodies, and the return of the call.
LEMMA RunDeferredFatal ==
    ASSUME Walk, FatalHeld, RunDeferred
    PROVE  FatalHeld'
<1> SUFFICES ASSUME fatal' PROVE Carried(mode, frames, flow)'
  BY DEF FatalHeld
<1>1. mode = "step" /\ Top.kind = "call" /\ fatal
  BY DEF RunDeferred, Calling, Same
<1>2. Walk' /\ mode' \in {"expr", "give"}
  BY RunDeferredSound
<1>3. PICK g, h \in FramesOf(N) :
         /\ frames' = Append(WithTop(g), h) /\ h.kind = "deferred"
         /\ Draining(g) /\ g.ret = Top.ret
  BY RunDeferredSound
<1>4. PICK i \in 1..Len(frames) : LeavingAt(frames, i)
  BY <1>1 DEF FatalHeld, Carried
<1>5. Covers(frames, frames')
  BY <1>1, <1>3, InCall
<1>6. Len(frames) \in Nat /\ Len(frames') \in Nat
  BY <1>2, Stacked, StackedNext
<1>7. CASE i < Len(frames)
  <2>1. i \in 1..Len(frames') /\ LeavingAt(frames', i)
    BY <1>4, <1>5, <1>6, <1>7, LeavingStays
  <2> QED BY <1>2, <2>1 DEF Carried
<1>8. CASE i = Len(frames)
  <2> DEFINE k == Len(frames)
             v == WithTop(g)
             w == Append(v, h)
  <2>1. /\ k \in Nat \ {0} /\ Below \in Seq(FramesOf(N)) /\ Len(Below) = k - 1
        /\ \A j \in 1..(k - 1) : Below[j] = frames[j]
    BY <1>1, AtHand, StackParts DEF Below
  <2>2. /\ v \in Seq(FramesOf(N)) /\ Len(v) = Len(Below) + 1 /\ v[Len(Below) + 1] = g
        /\ \A j \in 1..Len(Below) : v[j] = Below[j]
    BY <2>1, Pushed DEF WithTop
  <2>3. /\ Len(w) = Len(v) + 1 /\ w[Len(v) + 1] = h /\ \A j \in 1..Len(v) : w[j] = v[j]
    BY <2>2, Pushed
  <2>4. Top = frames[k] /\ Top.ret = Violated /\ \A j \in 1..k : frames[j].kind # "deferred"
    BY <1>4, <1>8 DEF LeavingAt, Top, Last
  <2>5. g.kind = "call"
    BY <1>3 DEF Draining
  <2> HIDE DEF k, v, w
  <2>6. /\ k \in 1..Len(w) /\ w[k] = g /\ w[k + 1] = h
        /\ \A j \in 1..(k - 1) : w[j] = frames[j]
    BY <2>1, <2>2, <2>3
  <2>7. \A j \in 1..k : w[j].kind # "deferred"
    BY <2>1, <2>4, <2>5, <2>6
  <2>8. LeavingAt(w, k)
    BY <1>3, <2>4, <2>6, <2>7 DEF LeavingAt
  <2>9. frames' = w
    BY <1>3 DEF w, v
  <2> QED BY <1>2, <2>6, <2>8, <2>9 DEF Carried
<1> QED BY <1>6, <1>7, <1>8

\* What a deferred body ends with is dropped, also a violation.
LEMMA EndDeferredFatal ==
    ASSUME Walk, FatalHeld, EndDeferred
    PROVE  FatalHeld'
<1> SUFFICES ASSUME fatal' PROVE Carried(mode, frames, flow)'
  BY DEF FatalHeld
<1>1. mode = "give" /\ fatal /\ Top.kind = "deferred" /\ frames' = Below /\ mode' = "step"
  BY DEF EndDeferred, Given, Step, SameEnv, Same
<1>2. Len(frames) \in Nat \ {0} /\ Top = frames[Len(frames)] /\ frames \in Seq(FramesOf(N))
  BY <1>1, AtHand, EmptySeq DEF Top, Last
<1>3. ~ NoDeferred(frames)
  BY <1>1, <1>2 DEF NoDeferred
<1>4. PICK i \in 1..Len(frames) : LeavingAt(frames, i)
  BY <1>1, <1>3 DEF FatalHeld, Carried
<1>5. i < Len(frames)
  BY <1>1, <1>2, <1>4 DEF LeavingAt
<1>6. i \in 1..Len(Below) /\ LeavingAt(Below, i)
  BY <1>2, <1>4, <1>5, LeavingDropped DEF Below
<1> QED BY <1>1, <1>6 DEF Carried

\* The violation goes on to the caller.
LEMMA ReturnsFatal ==
    ASSUME Walk, FatalHeld, Returns
    PROVE  FatalHeld'
<1> SUFFICES ASSUME fatal' PROVE Carried(mode, frames, flow)'
  BY DEF FatalHeld
<1>1. /\ mode = "step" /\ fatal /\ Top.kind = "call" /\ frames' = Below /\ flow' = Top.ret
      /\ mode' = IF Below = <<>> THEN "done" ELSE "give"
  BY DEF Returns, Calling, Same
<1>2. /\ Len(frames) \in Nat /\ Top = frames[Len(frames)] /\ frames \in Seq(FramesOf(N))
      /\ frames # <<>> /\ Below \in Seq(FramesOf(N))
  BY <1>1, AtHand, EmptySeq, StackParts DEF Top, Last, Below
<1>3. PICK i \in 1..Len(frames) : LeavingAt(frames, i)
  BY <1>1 DEF FatalHeld, Carried
<1>4. CASE i < Len(frames)
  <2>1. i \in 1..Len(Below) /\ LeavingAt(Below, i)
    BY <1>2, <1>3, <1>4, LeavingDropped DEF Below
  <2>2. Below # <<>>
    BY <2>1, EmptySeq
  <2> QED BY <1>1, <2>1, <2>2 DEF Carried
<1>5. CASE i = Len(frames)
  <2>1. NoDeferred(Below) /\ Top.ret = Violated
    BY <1>2, <1>3, <1>5, NoneBelow DEF Below, LeavingAt
  <2> QED BY <1>1, <2>1 DEF Carried
<1> QED BY <1>2, <1>4, <1>5

-----------------------------------------------------------------------------
(* The invariant.                                                          *)

\* What the program may still evaluate.
Program == choices \in Nat /\ \E m \in Families : forms = m.forms /\ choices <= m.choices
Inductive == Walk /\ FatalHeld /\ fatal \in BOOLEAN /\ Program

Spent == /\ forms' = forms
         /\ choices' = choices \/ (choices > 0 /\ choices' = choices - 1)

\* A statement is one of the choices of the program.
LEMMA StatementSpends ==
    ASSUME Statement
    PROVE  Spent
<1>1. ASSUME EndBlock \/ \E u \in {"stmt", "tail"} : ExprStmt(u)
      PROVE  Spent
  BY <1>1 DEF Spent, EndBlock, ExprStmt, SameEnv, Same
<1>2. ASSUME \/ \E x \in Locals, m \in BOOLEAN : LetStmt(x, m)
             \/ \E n \in Vars \union {NoName} : DeferStmt(n)
             \/ \E u \in {"items", "cond"}, x \in Locals : LoopStmt(u, x)
      PROVE  Spent
  BY <1>2 DEF Spent, LetStmt, DeferStmt, LoopStmt, Chosen
<1> QED BY <1>1, <1>2 DEF Statement

\* So is an expression.
LEMMA ExpressionSpends ==
    ASSUME Expression
    PROVE  Spent
<1>1. ASSUME \E v \in {Plain, OkVal, ErrVal} : Literal(v)
      PROVE  Spent
  BY <1>1 DEF Spent, Literal, SameEnv, Same
<1>2. ASSUME \/ \E x \in Vars : Ident(x)
             \/ Fail
             \/ \E k \in {"break", "continue", "return"} : Jump(k)
             \/ \E u \in OperandForms : OperandExpr(u)
             \/ \E u \in NamedForms, x \in Locals : NamedExpr(u, x)
      PROVE  Spent
  BY <1>2 DEF Spent, Ident, Fail, Jump, OperandExpr, NamedExpr, Chosen
<1>3. ASSUME WhereFails \/ Interpolate \/ BlockExpr \/ Spawn \/ Lambda
      PROVE  Spent
  BY <1>3 DEF Spent, WhereFails, Interpolate, BlockExpr, Spawn, Lambda, Chosen
<1> QED BY <1>1, <1>2, <1>3 DEF Expression

\* What a form does with its parts is not.
LEMMA FormsSpend ==
    ASSUME OperandDone \/ FormDone
    PROVE  Spent
<1>1. ASSUME OperandDone
      PROVE  Spent
  BY <1>1 DEF Spent, OperandDone, OperandFails, Try, Raise, Return, Use, Assign, IfCond, Catch,
              Callee, Invoke, Match, Guard, Retry, Every, While, For, SameEnv, Same
<1>2. ASSUME FormDone
      PROVE  Spent
  BY <1>2 DEF Spent, FormDone, NoArm, ArmMisses, ArmFails, EndMatch, ArmMatches, ArmGuarded,
              EndAttempt, EndIteration, EndStmt, EndLet, EndInterp, EndHandler, EndSpawn,
              SameEnv, Same
<1> QED BY <1>1, <1>2

\* Nor are the steps of a call, which may only add a violation.
LEMMA CallSpends ==
    ASSUME CallStep
    PROVE  Spent /\ (fatal \in BOOLEAN => fatal' \in BOOLEAN)
<1>1. ASSUME Requires \/ Ensures
      PROVE  Spent /\ (fatal \in BOOLEAN => fatal' \in BOOLEAN)
  BY <1>1 DEF Spent, Requires, Ensures, Clause, Same
<1>2. ASSUME EndBody \/ RunDeferred \/ EndDeferred \/ Returns
      PROVE  Spent /\ (fatal \in BOOLEAN => fatal' \in BOOLEAN)
  BY <1>2 DEF Spent, EndBody, RunDeferred, EndDeferred, Returns, SameEnv, Same
<1> QED BY <1>1, <1>2 DEF CallStep

\* The program does not change, and runs out of choices.
LEMMA ProgramKept ==
    ASSUME Program, Spent
    PROVE  Program'
<1>1. PICK m \in Families : forms = m.forms /\ choices <= m.choices
  BY DEF Program
<1>2. m.choices \in Nat
  BY BoundsAssumption
<1>3. choices' \in Nat /\ choices' <= m.choices /\ forms' = m.forms
  BY <1>1, <1>2 DEF Program, Spent
<1> QED BY <1>3 DEF Program

\* The walk is over only when nothing can be evaluated.
LEMMA NotOver ==
    ASSUME Statement \/ Expression \/ OperandDone \/ FormDone
    PROVE  mode # "done"
<1>1. Statement => mode # "done"
  BY DEF Statement, EndBlock, ExprStmt, LetStmt, DeferStmt, LoopStmt, InBlock
<1>2. Expression => mode # "done"
  BY DEF Expression, Literal, Ident, Fail, WhereFails, Interpolate, Jump, BlockExpr, Spawn,
         Lambda, OperandExpr, NamedExpr, Waiting
<1>3. OperandDone => mode # "done"
  BY DEF OperandDone, OperandFails, Try, Raise, Return, Use, Assign, IfCond, Catch, Callee,
         Invoke, Match, Guard, Retry, Every, While, For, HasOperand, Given
<1>4. FormDone => mode # "done"
  BY DEF FormDone, NoArm, ArmMisses, ArmFails, EndMatch, ArmMatches, ArmGuarded, EndAttempt,
         EndIteration, EndStmt, EndLet, EndInterp, EndHandler, EndSpawn, Matching, Given
<1> QED BY <1>1, <1>2, <1>3, <1>4

\* Every step keeps the invariant, and no Env goes but by the return of its call.
LEMMA InductiveKept ==
    ASSUME Inductive, Next
    PROVE  Inductive' /\ (Len(envs') < Len(envs) => Returns)
<1> USE DEF Inductive
<1>1. ASSUME Kept, mode # "done", Spent
      PROVE  Inductive' /\ (Len(envs') < Len(envs) => Returns)
  <2>1. Walk' /\ FatalHeld' /\ fatal' \in BOOLEAN
    BY <1>1, QuietFatal DEF Kept, Quiet
  <2>2. Program'
    BY <1>1, ProgramKept
  <2>3. ~ (Len(envs') < Len(envs))
    <3>1. Len(envs) \in Nat /\ Len(envs') \in Nat
      <4>1. Len(envs') \in Nat
        BY <2>1, StackedBy DEF Walk
      <4> QED BY <4>1, Stacked
    <3> QED BY <1>1, <3>1 DEF Kept, Quiet
  <2> QED BY <2>1, <2>2, <2>3
<1>2. CASE Statement
  BY <1>1, <1>2, StatementKept, StatementSpends, NotOver
<1>3. CASE Expression
  <2>1. CASE Kept
    BY <1>1, <1>3, <2>1, ExpressionSpends, NotOver
  <2>2. CASE WhereFails
    <3>1. Walk' /\ FatalHeld' /\ Len(envs') >= Len(envs)
      BY <2>2, WhereFailsFatal
    <3>2. fatal' \in BOOLEAN /\ envs' = envs
      BY <2>2 DEF WhereFails
    <3>3. Program'
      BY <1>3, ExpressionSpends, ProgramKept
    <3>4. Len(envs) \in Nat
      BY Stacked
    <3> QED BY <3>1, <3>2, <3>3, <3>4
  <2> QED BY <1>3, <2>1, <2>2, ExpressionKept
<1>4. CASE OperandDone
  BY <1>1, <1>4, OperandDoneKept, FormsSpend, NotOver
<1>5. CASE FormDone
  BY <1>1, <1>5, FormDoneKept, FormsSpend, NotOver
<1>6. CASE CallStep
  <2>1. Program' /\ fatal' \in BOOLEAN
    BY <1>6, CallSpends, ProgramKept
  <2>2. Len(envs) \in Nat
    BY Stacked
  <2>3. CASE Requires
    BY <2>1, <2>2, <2>3, RequiresSound, RequiresFatal
  <2>4. CASE EndBody
    BY <2>1, <2>2, <2>4, EndBodySound, EndBodyFatal
  <2>5. CASE Ensures
    BY <2>1, <2>2, <2>5, EnsuresSound, EnsuresFatal
  <2>6. CASE RunDeferred
    BY <2>1, <2>2, <2>6, RunDeferredSound, RunDeferredFatal
  <2>7. CASE EndDeferred
    BY <2>1, <2>2, <2>7, EndDeferredSound, EndDeferredFatal
  <2>8. CASE Returns
    BY <2>1, <2>8, ReturnsSound, ReturnsFatal
  <2> QED BY <1>6, <2>3, <2>4, <2>5, <2>6, <2>7, <2>8 DEF CallStep
<1>7. CASE Ended
  <2>1. UNCHANGED vars
    BY <1>7 DEF Ended
  <2>2. Len(envs) \in Nat
    BY Stacked
  <2> QED BY <2>1, <2>2 DEF vars, Walk, FatalHeld, Program
<1> QED BY <1>2, <1>3, <1>4, <1>5, <1>6, <1>7 DEF Next

\* The first call: the function of the module, in its own Env.
LEMMA FirstEnv ==
    ASSUME closures = <<>>
    PROVE  /\ ClosuresFit(closures) /\ Len(closures) = 0
           /\ CallEnv(0, Plain) \in EnvsOf(0)
           /\ ScopesFit(closures, 0, CallEnv(0, Plain).scopes)
           /\ Len(CallEnv(0, Plain).scopes) = 2
           /\ CallEnv(0, Plain).fn = 0 /\ CallEnv(0, Plain).open
           /\ CallEnv(0, Plain).ran = <<>>
<1>1. ClosuresFit(closures) /\ Len(closures) = 0
  BY EmptySeq DEF ClosuresFit
<1>2. Param \in Vars
  BY NamesAssumption
<1>3. Plain \in ValuesOf(0) /\ 0 \in 0..0
  BY DEF ValuesOf
<1>4. /\ CallEnv(0, Plain) \in EnvsOf(0)
      /\ ScopesFit(closures, 0, CallEnv(0, Plain).scopes)
      /\ CallEnv(0, Plain).fn = 0 /\ CallEnv(0, Plain).open
      /\ CallEnv(0, Plain).ran = <<>>
  BY <1>1, <1>2, <1>3, CallEnvFits
<1> DEFINE s == Append(<<NoSlots>>, NoSlots)
           slot == Slot(Plain, FALSE)
<1>5. CallEnv(0, Plain).scopes = Bind(s, Param, slot)
  BY DEF CallEnv, Captured, FromSnapshot
<1>6. NoSlots \in ScopesOf(0) /\ slot \in SlotsOf(0)
  <2>1. NoSlots \in [{} -> SlotsOf(0)]
    BY DEF NoSlots
  <2>2. {} \in SUBSET Vars
    OBVIOUS
  <2>3. slot \in SlotsOf(0)
    BY <1>3 DEF SlotsOf, Slot
  <2> QED BY <2>1, <2>2, <2>3 DEF ScopesOf
<1>7. s \in Seq(ScopesOf(0)) /\ Len(s) = 2
  BY <1>6
<1> HIDE DEF s, slot
<1>8. ScopesFit(closures, 0, s) /\ Len(CapturedBy(closures, 0)) = 0
  BY <1>1, <1>7, EmptySeq DEF ScopesFit, CapturedBy
<1>9. Len(Bind(s, Param, slot)) = 2
  BY <1>1, <1>2, <1>6, <1>7, <1>8, FitsBind
<1> QED BY <1>1, <1>4, <1>5, <1>9

\* The invariant holds at first.
LEMMA InductiveInit ==
    ASSUME Init
    PROVE  Inductive
<1> DEFINE e == CallEnv(0, Plain)
           f == Frame("call", "requires", 2)
<1>1. /\ closures = <<>> /\ envs = <<e>> /\ frames = <<f>> /\ mode = "step" /\ flow = NoFlow
      /\ fatal = FALSE
  BY DEF Init
<1>2. /\ ClosuresFit(closures) /\ Len(closures) = 0 /\ e \in EnvsOf(0)
      /\ ScopesFit(closures, 0, e.scopes) /\ Len(e.scopes) = 2
      /\ e.fn = 0 /\ e.open /\ e.ran = <<>>
  BY <1>1, FirstEnv
<1> HIDE DEF e
<1>3. /\ envs \in Seq(EnvsOf(0)) /\ Len(envs) = 1 /\ envs[1] = e /\ Last(envs) = e
  BY <1>1, <1>2 DEF Last
<1>4. /\ f \in FramesOf(0) /\ f.kind = "call" /\ f.use = "requires" /\ f.env = 1 /\ f.depth = 2
  <2>1. "call" \in Kinds /\ "requires" \in Uses
    BY DEF Kinds, Uses
  <2> QED BY <1>3, <2>1, FrameTyped
<1> HIDE DEF f
<1>5. /\ frames \in Seq(FramesOf(0)) /\ frames # <<>> /\ Len(frames) = 1 /\ frames[1] = f
      /\ Last(frames) = f
  BY <1>1, <1>4 DEF Last
<1>6. Tower(frames, envs, closures)
  <2>1. Cardinality(Calls(frames)) = 1
    <3>1. Calls(frames) = {1}
      BY <1>4, <1>5 DEF Calls
    <3> QED BY <3>1, FS_Singleton
  <2>2. Len(CapturedBy(closures, 0)) = 0
    BY EmptySeq DEF CapturedBy
  <2>3. FrameFits(f, envs, closures)
    BY <1>2, <1>3, <1>4, <2>2 DEF FrameFits, CallFits, Draining
  <2>4. \A i, j \in 1..Len(frames) : ~ (i < j)
    BY <1>5
  <2> QED BY <1>4, <1>5, <2>1, <2>3, <2>4 DEF Tower
<1>7. Standing(frames, envs, closures)
  <2>1. \A k \in 1..Len(envs) : ScopesFit(closures, envs[k].fn, envs[k].scopes)
    BY <1>2, <1>3
  <2> QED BY <1>2, <1>3, <1>4, <1>5, <1>6, <2>1 DEF Standing
<1>8. Stands("step", f, NoFlow) /\ Balanced(f, e.scopes, NoFlow)
  BY <1>2, <1>4 DEF Stands, Balanced, Depth, Own
<1>9. NoFlow \in FlowsOf(0)
  BY FlowTyped
<1>10. Walk
  BY <1>1, <1>2, <1>3, <1>5, <1>7, <1>8, <1>9 DEF Walk, Sound
<1>11. Program
  <2>1. PICK m \in Families : forms = m.forms /\ choices = m.choices
    BY DEF Init
  <2>2. m.choices \in Nat
    BY BoundsAssumption
  <2> QED BY <2>1, <2>2 DEF Program
<1> QED BY <1>1, <1>10, <1>11 DEF Inductive, FatalHeld

-----------------------------------------------------------------------------
(* The theorems.                                                           *)

\* What is proved of every state below.
THEOREM InductiveHolds == Spec => []Inductive
<1>1. Init => Inductive
  BY InductiveInit
<1>2. Inductive /\ [Next]_vars => Inductive'
  <2> SUFFICES ASSUME Inductive, [Next]_vars PROVE Inductive'
    OBVIOUS
  <2>1. CASE Next
    BY <2>1, InductiveKept
  <2>2. CASE UNCHANGED vars
    BY <2>2 DEF Inductive, vars, Walk, FatalHeld, Program
  <2> QED BY <2>1, <2>2
<1> QED BY <1>1, <1>2, PTL DEF Spec

\* The types, with one Env for every call that is under way.
THEOREM TypeCorrect == Spec => []TypeOK
<1>1. Inductive => TypeOK
  <2> SUFFICES ASSUME Inductive PROVE TypeOK
    OBVIOUS
  <2>1. /\ Walk /\ fatal \in BOOLEAN /\ Program
        /\ frames \in Seq(FramesOf(N)) /\ Len(frames) \in Nat /\ DOMAIN frames = 1..Len(frames)
        /\ (mode = "done" <=> frames = <<>>)
        /\ envs \in Seq(EnvsOf(N)) /\ Len(envs) \in Nat
    BY Stacked DEF Inductive
  <2>2. mode \in {"step", "expr", "give", "done"} /\ flow \in Flows
    <3>1. flow \in FlowsOf(N)
      BY <2>1 DEF Walk, Sound, N
    <3>2. mode \in {"step", "expr", "give", "done"}
      BY <2>1, AtHand DEF Stands
    <3> QED BY <3>1, <3>2 DEF Flows, FlowsOf, Values, ValuesOf, N
  <2>3. \A i \in DOMAIN frames : LET f == frames[i] IN
          /\ f.kind \in Kinds /\ f.env \in 1..Len(envs) /\ f.depth \in Nat /\ f.left \in Nat
          /\ f.name \in Vars \union {NoName} /\ f.mut \in BOOLEAN /\ f.ret \in Flows
    <3> TAKE i \in DOMAIN frames
    <3>1. frames[i] \in FramesOf(N) /\ i \in 1..Len(frames)
      BY <2>1, ElementOfSeq
    <3>2. mode # "done"
      BY <2>1, <3>1, EmptySeq
    <3>3. frames[i].env \in 1..Len(envs)
      BY <2>1, <3>1, <3>2, AtHand DEF Standing, Tower, FrameFits
    <3> QED BY <3>1, <3>3 DEF FramesOf, AnyFrames, Flows, FlowsOf, Values, ValuesOf, N
  <2>4. \A k \in DOMAIN envs : LET e == envs[k] IN
          /\ e.fn \in 0..Len(closures) /\ e.open \in BOOLEAN
          /\ \A i \in DOMAIN e.scopes : DOMAIN e.scopes[i] \subseteq Vars
    <3> TAKE k \in DOMAIN envs
    <3>1. envs[k] \in EnvsOf(N)
      BY <2>1, ElementOfSeq, LenProperties
    <3>2. envs[k].fn \in 0..N /\ envs[k].open \in BOOLEAN /\ envs[k].scopes \in Seq(ScopesOf(N))
      BY <3>1 DEF EnvsOf
    <3>3. \A i \in DOMAIN envs[k].scopes : envs[k].scopes[i] \in ScopesOf(N)
      BY <3>2, ElementOfSeq, LenProperties
    <3> QED BY <3>2, <3>3 DEF ScopesOf, N
  <2>5. Cardinality(CallFrames) = Len(envs)
    <3>1. CallFrames = Calls(frames)
      BY <2>1 DEF CallFrames, Calls
    <3>2. CASE mode = "done"
      <4>1. envs = <<>> /\ CallFrames = {}
        BY <2>1, <3>2, <3>1, EmptySeq DEF Walk, Sound, Calls
      <4> QED BY <4>1, EmptySeq, FS_EmptySet
    <3>3. CASE mode # "done"
      BY <2>1, <3>1, <3>3, AtHand DEF Standing, Tower, Top, Last
    <3> QED BY <3>2, <3>3
  <2>6. choices \in Nat /\ \E m \in Families : forms = m.forms /\ choices <= m.choices
    BY <2>1 DEF Program
  <2> QED BY <2>1, <2>2, <2>3, <2>4, <2>5, <2>6 DEF TypeOK
<1> QED BY <1>1, InductiveHolds, PTL

\* A form leaves as many scopes as it found, in every program: eval_block, for, catch,
\* spawn and the arms of a match push and pop by hand.
THEOREM BalancedWalk == Spec => []ScopesBalanced
<1>1. Inductive => ScopesBalanced
  <2> SUFFICES ASSUME Inductive, frames # <<>>
               PROVE  /\ Len(Scopes) >= Depth(Top)
                      /\ ~ Draining(ThisCall) /\ ~ IsError(flow) => Len(Scopes) = Depth(Top)
    BY DEF ScopesBalanced
  <2>1. Walk /\ mode # "done"
    BY Stacked DEF Inductive
  <2>2. Draining(Top) => ThisCall = Top
    <3> DEFINE k == Len(frames)
    <3>1. k \in Nat \ {0} /\ DOMAIN frames = 1..k /\ Top = frames[k]
      BY <2>1, Stacked, EmptySeq DEF Top, Last
    <3> HIDE DEF k
    <3> SUFFICES ASSUME Draining(Top) PROVE ThisCall = Top
      OBVIOUS
    <3>2. k \in CallFrames /\ \A j \in CallFrames : j <= k /\ j \in Nat
      BY <3>1 DEF CallFrames, Draining
    <3>3. \A i \in CallFrames : (\A j \in CallFrames : j <= i) => i = k
      BY <3>1, <3>2
    <3>4. (CHOOSE i \in CallFrames : \A j \in CallFrames : j <= i) = k
      BY <3>2, <3>3
    <3> QED BY <3>1, <3>4 DEF ThisCall
  <2> QED BY <2>1, <2>2, AtHand
<1> QED BY <1>1, InductiveHolds, PTL

\* A contract that is violated outside a deferred body ends the run: no construct of a
\* program takes the violation off its way out.
THEOREM ViolationIsFatal == Spec => []ContractIsFatal
<1>1. Inductive => ContractIsFatal
  BY FatalForm DEF Inductive
<1> QED BY <1>1, InductiveHolds, PTL

\* A call that hands over its outcome has run the deferred bodies that it registered,
\* each once and the last one first, whatever invoke_value ended with.
THEOREM DefersInReverse == Spec => DefersRunInReverse
<1>1. Inductive /\ [Next]_vars =>
        [Len(envs') < Len(envs) =>
            Env.ran = [i \in DOMAIN Env.defers |-> Len(Env.defers) + 1 - i]]_vars
  <2> SUFFICES ASSUME Inductive, [Next]_vars, ~ UNCHANGED vars, Len(envs') < Len(envs)
               PROVE  Env.ran = [i \in DOMAIN Env.defers |-> Len(Env.defers) + 1 - i]
    OBVIOUS
  <2>1. Returns
    BY InductiveKept
  <2>2. mode = "step" /\ Top.kind = "call" /\ Top.use = "drain" /\ Top.left = 0 /\ Walk
    BY <2>1 DEF Returns, Calling, Inductive
  <2>3. CallFits(Top, Env) /\ Len(Env.defers) \in Nat /\ Env.defers \in Seq(Registered)
    BY <2>2, InCall
  <2>4. DOMAIN Env.defers = 1..Len(Env.defers)
    BY <2>3, LenProperties
  <2>5. 1..(Len(Env.defers) - Top.left) = 1..Len(Env.defers)
    BY <2>2, <2>3
  <2> QED BY <2>2, <2>3, <2>4, <2>5 DEF CallFits, Draining
<1> QED BY <1>1, InductiveHolds, PTL DEF Spec, DefersRunInReverse

\* What a closure captured has the same values in each of its calls, for as long as the
\* call lasts: from_snapshot makes the slots immutable, and an assignment reaches no other.
THEOREM CapturesStay == Spec => []CapturedIsReadOnly
<1>1. Inductive => CapturedIsReadOnly
  <2> SUFFICES ASSUME Inductive, NEW k \in DOMAIN envs, NEW i \in DOMAIN Captured(envs[k].fn)
               PROVE  [x \in DOMAIN envs[k].scopes[i] |-> envs[k].scopes[i][x].val]
                          = Captured(envs[k].fn)[i]
    BY DEF CapturedIsReadOnly
  <2> DEFINE c == Captured(envs[k].fn)
             s == envs[k].scopes
  <2>1. Walk /\ k \in 1..Len(envs) /\ Len(envs) \in Nat /\ envs \in Seq(EnvsOf(N))
    BY Stacked, LenProperties DEF Inductive
  <2>2. mode # "done"
    <3>1. mode = "done" => envs = <<>>
      BY <2>1 DEF Walk, Sound
    <3> QED BY <2>1, <3>1, EmptySeq
  <2>3. Standing(frames, envs, closures) /\ ClosuresFit(closures)
    BY <2>1, <2>2, AtHand
  <2>4. ScopesFit(closures, envs[k].fn, s) /\ envs[k].fn \in 0..N
    BY <2>1, <2>3, FloorTyped DEF Standing, N
  <2>5. c = CapturedBy(closures, envs[k].fn)
    BY DEF Captured, CapturedBy
  <2>6. c \in Seq(SnapshotsOf(N))
    BY <2>3, <2>4, <2>5, CapturedTyped DEF N
  <2>7. i \in 1..Len(c) /\ c[i] \in SnapshotsOf(N)
    BY <2>6, LenProperties, ElementOfSeq
  <2>8. /\ DOMAIN s[i] = DOMAIN c[i]
        /\ \A x \in DOMAIN s[i] : s[i][x] = Slot(c[i][x], FALSE)
    BY <2>4, <2>5, <2>7 DEF ScopesFit
  <2>9. c[i] = [x \in DOMAIN c[i] |-> c[i][x]]
    BY <2>7 DEF SnapshotsOf
  <2> HIDE DEF c, s
  <2>10. \A x \in DOMAIN s[i] : s[i][x].val = c[i][x]
    <3> TAKE x \in DOMAIN s[i]
    <3>1. s[i][x] = Slot(c[i][x], FALSE)
      BY <2>8
    <3>2. \A v : Slot(v, FALSE).val = v
      BY DEF Slot
    <3> QED BY <3>1, <3>2
  <2>11. [x \in DOMAIN s[i] |-> s[i][x].val] = [x \in DOMAIN c[i] |-> c[i][x]]
    BY <2>8, <2>10
  <2> QED BY <2>9, <2>11 DEF c, s
<1> QED BY <1>1, InductiveHolds, PTL
=============================================================================
