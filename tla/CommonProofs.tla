---------------------------- MODULE CommonProofs ----------------------------
(***************************************************************************)
(* What the other proofs share: least positions and induction up to n,     *)
(* which stand in for induction over sequences; what Selected returns;     *)
(* what the operators of TraceStack keep, for stacks of any size; and why  *)
(* what lowers a rank cannot go on for ever.                               *)
(***************************************************************************)
EXTENDS TraceStack, Selection, FiniteSetTheorems, SequenceTheorems, TLAPS

\* A non-empty set of positions has a least one.  (The initial segments it spans
\* are ordered by strict inclusion, which is well founded.)
LEMMA LeastPosition ==
    ASSUME NEW n \in Nat, NEW M \in SUBSET (1..n), M # {}
    PROVE  \E i \in M : \A j \in M : i <= j
<1> DEFINE Segments == {1..i : i \in M}
           R == StrictSubsetOrdering(1..n)
<1>1. IsWellFoundedOn(R, SUBSET (1..n))
  <2>1. IsFiniteSet(1..n)
    BY FS_Interval
  <2> QED BY <2>1, FS_StrictSubsetOrderingWellFounded, FS_FiniteSubsetsOfFinite
<1>2. Segments \subseteq SUBSET (1..n) /\ Segments # {}
  <2>1. \A i \in M : 1..i \in SUBSET (1..n)
    OBVIOUS
  <2> QED BY <2>1
<1>3. PICK X \in Segments : \A Y \in Segments : ~(<<Y, X>> \in R)
  <2> HIDE DEF Segments, R
  <2> QED BY <1>1, <1>2, WFMin
<1>4. PICK i \in M : X = 1..i
  BY <1>3
<1>5. ASSUME NEW j \in M, ~(i <= j)
      PROVE  FALSE
  <2>1. 1..j \subseteq 1..i /\ i \in 1..i /\ i \notin 1..j
    BY <1>5
  <2>2. 1..j \in SUBSET (1..n) /\ 1..i \in SUBSET (1..n)
    OBVIOUS
  <2>3. <<1..j, 1..i>> \in R
    BY <2>1, <2>2 DEF StrictSubsetOrdering
  <2> QED BY <2>3, <1>3, <1>4
<1> QED BY <1>5

\* Induction up to n.
LEMMA CountUp ==
    ASSUME NEW n \in Nat, NEW S, 0 \in S, \A j \in 1..n : j - 1 \in S => j \in S
    PROVE  0..n \subseteq S
<1> DEFINE M == {j \in 1..n : j \notin S}
<1>1. M \in SUBSET (1..n)
  OBVIOUS
<1>2. CASE M = {}
  <2> SUFFICES ASSUME NEW k \in 0..n PROVE k \in S
    OBVIOUS
  <2>1. k = 0 \/ k \in 1..n
    OBVIOUS
  <2> QED BY <1>2, <2>1
<1>3. CASE M # {}
  <2>1. PICK t \in M : \A l \in M : t <= l
    <3> HIDE DEF M
    <3> QED BY <1>1, <1>3, LeastPosition
  <2>2. t \in 1..n /\ t \notin S /\ t - 1 \notin S
    BY <2>1
  <2>3. t - 1 # 0 /\ t - 1 \in 1..n /\ t - 1 \in M
    BY <2>2
  <2>4. ~(t <= t - 1)
    BY <2>2
  <2> QED BY <2>1, <2>3, <2>4
<1> QED BY <1>2, <1>3

-----------------------------------------------------------------------------
(* Selections.                                                             *)

\* What is selected from the first k elements, for k up to n.
Selecting(s, P, u, n) ==
    /\ u[0] = <<>>
    /\ \A k \in 1..n : u[k] = IF k \in P THEN Append(u[k - 1], s[k]) ELSE u[k - 1]

SelectsUpTo(s, P, u, n) ==
    u = [k \in 0..n |-> IF k = 0 THEN <<>>
                        ELSE IF k \in P THEN Append(u[k - 1], s[k]) ELSE u[k - 1]]

\* There is such a function for every n.
LEMMA SelectingExists ==
    ASSUME NEW s, NEW P, NEW n \in Nat
    PROVE  \E u : SelectsUpTo(s, P, u, n)
<1> DEFINE Fits(u, j) == SelectsUpTo(s, P, u, j)
           Good == {j \in 0..n : \E u : Fits(u, j)}
<1>1. 0 \in Good
  <2>1. Fits([k \in 0..0 |-> <<>>], 0)
    BY DEF SelectsUpTo
  <2> HIDE DEF Fits
  <2> QED BY <2>1
<1>2. ASSUME NEW j \in 1..n, j - 1 \in Good PROVE j \in Good
  <2>1. PICK g : Fits(g, j - 1)
    BY <1>2
  <2> DEFINE h == [k \in 0..j |-> IF k = j THEN IF j \in P THEN Append(g[j - 1], s[j]) ELSE g[j - 1]
                                  ELSE g[k]]
  <2>2. \A k \in 0..j : h[k] = IF k = 0 THEN <<>>
                               ELSE IF k \in P THEN Append(h[k - 1], s[k]) ELSE h[k - 1]
    <3> TAKE k \in 0..j
    <3>1. CASE k = j
      <4>1. k # 0 /\ k - 1 \in 0..j /\ k - 1 # j
        BY <3>1
      <4> QED BY <3>1, <4>1
    <3>2. CASE k # j /\ k = 0
      BY <2>1, <3>2 DEF SelectsUpTo
    <3>3. CASE k # j /\ k # 0
      <4>1. k \in 0..(j - 1) /\ k - 1 \in 0..j /\ k - 1 # j
        BY <3>3
      <4>2. g[k] = IF k \in P THEN Append(g[k - 1], s[k]) ELSE g[k - 1]
        BY <2>1, <3>3, <4>1 DEF SelectsUpTo
      <4> QED BY <3>3, <4>1, <4>2
    <3> QED BY <3>1, <3>2, <3>3
  <2>3. h = [k \in 0..j |-> h[k]]
    OBVIOUS
  <2> HIDE DEF h
  <2>4. Fits(h, j)
    BY <2>2, <2>3 DEF SelectsUpTo
  <2> HIDE DEF Fits
  <2> QED BY <2>4
<1>3. n \in Good
  <2> HIDE DEF Good
  <2>1. n \in 0..n
    OBVIOUS
  <2> QED BY <1>1, <1>2, <2>1, CountUp
<1> QED BY <1>3

LEMMA SelectedUpTo ==
    ASSUME NEW s, NEW P, Len(s) \in Nat
    PROVE  \E u : Selecting(s, P, u, Len(s)) /\ Selected(s, P) = u[Len(s)]
<1> DEFINE n == Len(s)
           f == CHOOSE u : SelectsUpTo(s, P, u, n)
<1>1. Selected(s, P) = f[n]
  BY DEF Selected, SelectsUpTo
<1>2. n \in Nat
  OBVIOUS
<1> HIDE DEF n
<1>3. SelectsUpTo(s, P, f, n)
  BY <1>2, SelectingExists, Zenon
<1>4. Selecting(s, P, f, n)
  <2> HIDE DEF f
  <2>1. 0 \in 0..n /\ \A k \in 1..n : k \in 0..n /\ k # 0
    BY <1>2
  <2> QED BY <1>3, <2>1 DEF Selecting, SelectsUpTo
<1> QED BY <1>1, <1>4, Zenon DEF n

\* Two selections that take the same steps are the same.
LEMMA SelectingSame ==
    ASSUME NEW n \in Nat, NEW s, NEW P, NEW t, NEW Q, NEW u, NEW v,
           Selecting(s, P, u, n), Selecting(t, Q, v, n),
           \A k \in 1..n : (k \in P <=> k \in Q) /\ (k \in P => s[k] = t[k]),
           NEW k \in 0..n
    PROVE  u[k] = v[k]
<1> DEFINE Good == {j \in 0..n : u[j] = v[j]}
<1>1. 0 \in Good
  BY DEF Selecting
<1>2. ASSUME NEW j \in 1..n, j - 1 \in Good PROVE j \in Good
  <2>1. /\ u[j] = IF j \in P THEN Append(u[j - 1], s[j]) ELSE u[j - 1]
        /\ v[j] = IF j \in Q THEN Append(v[j - 1], t[j]) ELSE v[j - 1]
    BY DEF Selecting
  <2>2. j \in 0..n /\ u[j - 1] = v[j - 1]
    BY <1>2
  <2> QED BY <2>1, <2>2
<1>3. k \in Good
  <2> HIDE DEF Good
  <2> QED BY <1>1, <1>2, CountUp
<1> QED BY <1>3

\* Of a longer sequence what was selected before, and the new element if it is meant.
LEMMA SelectedAppend ==
    ASSUME NEW S, NEW s \in Seq(S), NEW e \in S, NEW P
    PROVE  Selected(Append(s, e), P) =
               IF Len(s) + 1 \in P THEN Append(Selected(s, P), e) ELSE Selected(s, P)
<1> DEFINE n == Len(s)
           t == Append(s, e)
<1>1. /\ n \in Nat /\ Len(t) = n + 1 /\ t[n + 1] = e
      /\ \A k \in 1..n : s[k] = t[k]
  BY AppendProperties
<1>2. Len(s) \in Nat /\ Len(t) \in Nat
  BY <1>1
<1>3. PICK u : Selecting(s, P, u, n) /\ Selected(s, P) = u[n]
  BY <1>2, SelectedUpTo
<1>4. PICK v : Selecting(t, P, v, Len(t)) /\ Selected(t, P) = v[Len(t)]
  <2> HIDE DEF t
  <2> QED BY <1>2, SelectedUpTo
<1> HIDE DEF n, t
<1>5. Selecting(t, P, v, n) /\ v[n + 1] = IF n + 1 \in P THEN Append(v[n], t[n + 1]) ELSE v[n]
  <2>1. Selecting(t, P, v, n + 1)
    BY <1>1, <1>4
  <2>2. n + 1 \in 1..(n + 1) /\ (n + 1) - 1 = n /\ 1..n \subseteq 1..(n + 1)
    BY <1>1
  <2> QED BY <2>1, <2>2 DEF Selecting
<1>6. u[n] = v[n]
  <2>1. n \in 0..n
    BY <1>1
  <2> QED BY <1>1, <1>3, <1>5, <2>1, SelectingSame
<1> QED BY <1>1, <1>3, <1>4, <1>5, <1>6 DEF n, t

LEMMA SelectedSame ==
    ASSUME NEW n \in Nat, NEW s, NEW P, NEW t, NEW Q, Len(s) = n, Len(t) = n,
           \A k \in 1..n : (k \in P <=> k \in Q) /\ (k \in P => s[k] = t[k])
    PROVE  Selected(s, P) = Selected(t, Q)
<1>1. PICK u : Selecting(s, P, u, n) /\ Selected(s, P) = u[n]
  BY SelectedUpTo
<1>2. PICK v : Selecting(t, Q, v, n) /\ Selected(t, Q) = v[n]
  BY SelectedUpTo
<1>3. n \in 0..n
  OBVIOUS
<1> QED BY <1>1, <1>2, <1>3, SelectingSame

\* The same where the two selections agree on what was there before.
LEMMA SelectedOneMore ==
    ASSUME NEW S, NEW s \in Seq(S), NEW e \in S, NEW P, NEW Q,
           \A k \in 1..Len(s) : k \in Q <=> k \in P
    PROVE  Selected(Append(s, e), Q) =
               IF Len(s) + 1 \in Q THEN Append(Selected(s, P), e) ELSE Selected(s, P)
<1> DEFINE n == Len(s)
<1>1. n \in Nat /\ Len(s) = n /\ \A k \in 1..n : (k \in Q <=> k \in P)
  BY LenProperties
<1> HIDE DEF n
<1>2. Selected(s, Q) = Selected(s, P)
  BY <1>1, SelectedSame
<1> QED BY <1>2, SelectedAppend

LEMMA SelectedTyped ==
    ASSUME NEW S, NEW s \in Seq(S), NEW P
    PROVE  Selected(s, P) \in Seq(S)
<1> DEFINE n == Len(s)
<1>1. n \in Nat /\ \A k \in 1..n : s[k] \in S
  BY ElementOfSeq, LenProperties
<1>2. PICK u : Selecting(s, P, u, n) /\ Selected(s, P) = u[n]
  <2>1. Len(s) \in Nat
    BY <1>1
  <2> QED BY <2>1, SelectedUpTo
<1> HIDE DEF n
<1> DEFINE Good == {j \in 0..n : u[j] \in Seq(S)}
<1>3. 0 \in Good
  <2>1. u[0] = <<>>
    BY <1>2 DEF Selecting
  <2>2. <<>> \in Seq(S)
    BY EmptySeq
  <2>3. 0 \in 0..n
    BY <1>1
  <2> QED BY <2>1, <2>2, <2>3
<1>4. ASSUME NEW j \in 1..n, j - 1 \in Good PROVE j \in Good
  <2>1. u[j - 1] \in Seq(S) /\ s[j] \in S /\ j \in 0..n
    BY <1>1, <1>4
  <2>2. Append(u[j - 1], s[j]) \in Seq(S)
    BY <2>1, AppendProperties
  <2> QED BY <1>2, <2>1, <2>2 DEF Selecting
<1>5. n \in Good
  <2> HIDE DEF Good
  <2>1. n \in 0..n
    BY <1>1
  <2> QED BY <1>1, <1>3, <1>4, <2>1, CountUp
<1> QED BY <1>2, <1>5

\* Of the first elements alone, the selection is the beginning of the sequence.
LEMMA SelectedBeginning ==
    ASSUME NEW S, NEW s \in Seq(S), NEW n \in Nat, Len(s) = n, NEW m \in 0..n, NEW P,
           \A k \in 1..n : k \in P <=> k <= m
    PROVE  Len(Selected(s, P)) = m /\ \A i \in 1..m : Selected(s, P)[i] = s[i]
<1>1. PICK u : Selecting(s, P, u, n) /\ Selected(s, P) = u[n]
  BY SelectedUpTo
<1> DEFINE size(k) == IF k <= m THEN k ELSE m
           Cut(v, k) == v \in Seq(S) /\ Len(v) = size(k) /\ \A i \in 1..size(k) : v[i] = s[i]
           C == {k \in 0..n : Cut(u[k], k)}
<1>2. 0 \in C
  <2>1. u[0] = <<>>
    BY <1>1 DEF Selecting
  <2>2. Cut(<<>>, 0)
    OBVIOUS
  <2>3. Cut(u[0], 0)
    BY <2>1, <2>2
  <2> QED BY <2>3
<1>3. ASSUME NEW k \in 1..n, k - 1 \in C PROVE k \in C
  <2>1. u[k] = IF k \in P THEN Append(u[k - 1], s[k]) ELSE u[k - 1]
    BY <1>1, <1>3 DEF Selecting
  <2>2. Cut(u[k - 1], k - 1)
    BY <1>3
  <2> DEFINE v == u[k - 1]
  <2>3. Cut(v, k - 1)
    BY <2>2
  <2> HIDE DEF v
  <2>4. s[k] \in S
    BY <1>3, ElementOfSeq
  <2>5. CASE k <= m
    <3>1. u[k] = Append(v, s[k])
      BY <1>3, <2>1, <2>5 DEF v
    <3>2. size(k) = k /\ size(k - 1) = k - 1
      BY <1>3, <2>5
    <3>3. v \in Seq(S) /\ Len(v) = k - 1 /\ \A i \in 1..(k - 1) : v[i] = s[i]
      BY <2>3, <3>2
    <3>4. /\ Append(v, s[k]) \in Seq(S) /\ Len(Append(v, s[k])) = k
          /\ Append(v, s[k])[k] = s[k]
          /\ \A i \in 1..(k - 1) : Append(v, s[k])[i] = v[i]
      BY <1>3, <2>4, <3>3, AppendProperties
    <3>5. \A i \in 1..k : i = k \/ i \in 1..(k - 1)
      BY <1>3
    <3> DEFINE w == Append(v, s[k])
    <3>6. w \in Seq(S) /\ Len(w) = k /\ w[k] = s[k] /\ \A i \in 1..(k - 1) : w[i] = s[i]
      BY <3>3, <3>4
    <3> HIDE DEF w
    <3>7. Cut(w, k)
      BY <3>2, <3>5, <3>6
    <3>8. u[k] = w
      BY <3>1 DEF w
    <3> HIDE DEF Cut
    <3>9. Cut(u[k], k)
      BY <3>7, <3>8
    <3>10. k \in 0..n
      BY <1>3
    <3> QED BY <3>9, <3>10, Zenon
  <2>6. CASE ~(k <= m)
    <3>1. u[k] = v /\ size(k) = m /\ size(k - 1) = m
      BY <1>3, <2>1, <2>6 DEF v
    <3>2. Cut(v, k)
      BY <2>3, <3>1
    <3> HIDE DEF Cut
    <3>3. Cut(u[k], k)
      BY <3>1, <3>2
    <3>4. k \in 0..n
      BY <1>3
    <3> QED BY <3>3, <3>4, Zenon
  <2> QED BY <2>5, <2>6
<1>4. n \in C
  <2> HIDE DEF C
  <2> QED BY <1>2, <1>3, CountUp
<1>5. Cut(u[n], n) /\ size(n) = m
  BY <1>4
<1> QED BY <1>1, <1>5

LEMMA SelectedEmpty == \A P : Selected(<<>>, P) = <<>>
<1> SUFFICES ASSUME NEW P PROVE Selected(<<>>, P) = <<>>
  OBVIOUS
<1>1. Len(<<>>) = 0 /\ 0 \in Nat
  BY EmptySeq
<1>2. PICK u : Selecting(<<>>, P, u, 0) /\ Selected(<<>>, P) = u[0]
  BY <1>1, SelectedUpTo
<1> QED BY <1>2 DEF Selecting

-----------------------------------------------------------------------------
(* Selections from a sequence in which two neighbours change places.       *)

\* Two sequences that differ in the order of a and b, which are neighbours, at the
\* o-th place and the next.
SwappedAt(S, x, y, o, a, b) ==
    /\ x \in Seq(S) /\ y \in Seq(S) /\ Len(x) = Len(y) /\ o \in 1..(Len(x) - 1)
    /\ x[o] = a /\ x[o + 1] = b /\ y[o] = b /\ y[o + 1] = a
    /\ \A i \in 1..Len(x) : i \notin {o, o + 1} => x[i] = y[i]

LEMMA SwapStarts ==
    ASSUME NEW S, NEW z \in Seq(S), NEW a \in S, NEW b \in S
    PROVE  SwappedAt(S, Append(Append(z, a), b), Append(Append(z, b), a), Len(z) + 1, a, b)
<1> DEFINE n == Len(z)
           za == Append(z, a)
           zb == Append(z, b)
           x == Append(za, b)
           y == Append(zb, a)
<1>1. /\ n \in Nat
      /\ za \in Seq(S) /\ Len(za) = n + 1 /\ za[n + 1] = a /\ \A i \in 1..n : za[i] = z[i]
      /\ zb \in Seq(S) /\ Len(zb) = n + 1 /\ zb[n + 1] = b /\ \A i \in 1..n : zb[i] = z[i]
  BY AppendProperties, LenProperties
<1> HIDE DEF n, za, zb
<1>2. /\ x \in Seq(S) /\ Len(x) = n + 2 /\ x[n + 2] = b /\ \A i \in 1..(n + 1) : x[i] = za[i]
      /\ y \in Seq(S) /\ Len(y) = n + 2 /\ y[n + 2] = a /\ \A i \in 1..(n + 1) : y[i] = zb[i]
  BY <1>1, AppendProperties
<1> HIDE DEF x, y
<1>3. n + 1 \in 1..(n + 1) /\ n + 1 \in 1..((n + 2) - 1) /\ (n + 1) + 1 = n + 2
      /\ \A i \in 1..(n + 2) : i \notin {n + 1, n + 2} => i \in 1..n /\ i \in 1..(n + 1)
  BY <1>1
<1>4. SwappedAt(S, x, y, n + 1, a, b)
  BY <1>1, <1>2, <1>3 DEF SwappedAt
<1> QED BY <1>4 DEF n, za, zb, x, y

LEMMA SwapGoesOn ==
    ASSUME NEW S, NEW x, NEW y, NEW o, NEW a, NEW b, SwappedAt(S, x, y, o, a, b), NEW e \in S
    PROVE  SwappedAt(S, Append(x, e), Append(y, e), o, a, b)
<1> DEFINE n == Len(x)
           xe == Append(x, e)
           ye == Append(y, e)
<1>1. /\ n \in Nat /\ Len(y) = n /\ x \in Seq(S) /\ y \in Seq(S) /\ o \in 1..(n - 1)
  BY LenProperties DEF SwappedAt
<1>2. /\ xe \in Seq(S) /\ Len(xe) = n + 1 /\ xe[n + 1] = e /\ \A i \in 1..n : xe[i] = x[i]
      /\ ye \in Seq(S) /\ Len(ye) = n + 1 /\ ye[n + 1] = e /\ \A i \in 1..n : ye[i] = y[i]
  BY <1>1, AppendProperties
<1>3. /\ o \in 1..n /\ o + 1 \in 1..n /\ o \in 1..((n + 1) - 1)
      /\ \A i \in 1..(n + 1) : i \in 1..n \/ i = n + 1
  BY <1>1
<1>4. /\ x[o] = a /\ x[o + 1] = b /\ y[o] = b /\ y[o + 1] = a
      /\ \A i \in 1..n : i \notin {o, o + 1} => x[i] = y[i]
  BY DEF SwappedAt
<1> HIDE DEF n, xe, ye
<1>5. SwappedAt(S, xe, ye, o, a, b)
  BY <1>2, <1>3, <1>4 DEF SwappedAt
<1> QED BY <1>5 DEF xe, ye

\* The two selections of what is left in its place from the k-th element on.
LEMMA SelectingFrom ==
    ASSUME NEW n \in Nat, NEW m \in 0..n, NEW s, NEW P, NEW t, NEW Q, NEW u, NEW v,
           Selecting(s, P, u, n), Selecting(t, Q, v, n), u[m] = v[m],
           \A k \in (m + 1)..n : (k \in P <=> k \in Q) /\ (k \in P => s[k] = t[k])
    PROVE  u[n] = v[n]
<1> DEFINE Good == {j \in 0..n : j >= m => u[j] = v[j]}
<1>1. 0 \in Good
  <2>1. 0 \in 0..n /\ (0 >= m => m = 0)
    OBVIOUS
  <2> QED BY <2>1
<1>2. ASSUME NEW j \in 1..n, j - 1 \in Good PROVE j \in Good
  <2>1. /\ u[j] = IF j \in P THEN Append(u[j - 1], s[j]) ELSE u[j - 1]
        /\ v[j] = IF j \in Q THEN Append(v[j - 1], t[j]) ELSE v[j - 1]
    BY DEF Selecting
  <2>2. j \in 0..n
    OBVIOUS
  <2>3. CASE j > m
    <3>1. u[j - 1] = v[j - 1] /\ j \in (m + 1)..n
      BY <1>2, <2>3
    <3> QED BY <2>1, <2>2, <3>1
  <2>4. CASE ~(j > m)
    <3>1. j >= m => j = m
      BY <2>4
    <3> QED BY <2>2, <3>1
  <2> QED BY <2>3, <2>4
<1>3. n \in Good
  <2> HIDE DEF Good
  <2>1. n \in 0..n
    OBVIOUS
  <2> QED BY <1>1, <1>2, <2>1, CountUp
<1> QED BY <1>3

LEMMA SelectingPrefix ==
    ASSUME NEW n \in Nat, NEW m \in 0..n, NEW s, NEW P, NEW u, Selecting(s, P, u, n)
    PROVE  Selecting(s, P, u, m)
<1>1. 1..m \subseteq 1..n
  OBVIOUS
<1> QED BY <1>1 DEF Selecting

LEMMA SelectingTyped ==
    ASSUME NEW S, NEW n \in Nat, NEW s, \A k \in 1..n : s[k] \in S, NEW P, NEW u,
           Selecting(s, P, u, n), NEW m \in 0..n
    PROVE  u[m] \in Seq(S)
<1> DEFINE Good == {j \in 0..n : u[j] \in Seq(S)}
<1>1. 0 \in Good
  <2>1. u[0] = <<>>
    BY DEF Selecting
  <2>2. <<>> \in Seq(S)
    BY EmptySeq
  <2>3. 0 \in 0..n
    OBVIOUS
  <2> QED BY <2>1, <2>2, <2>3
<1>2. ASSUME NEW j \in 1..n, j - 1 \in Good PROVE j \in Good
  <2>1. u[j - 1] \in Seq(S) /\ s[j] \in S /\ j \in 0..n
    BY <1>2
  <2>2. Append(u[j - 1], s[j]) \in Seq(S)
    BY <2>1, AppendProperties
  <2> QED BY <2>1, <2>2 DEF Selecting
<1>3. m \in Good
  <2> HIDE DEF Good
  <2> QED BY <1>1, <1>2, CountUp
<1> QED BY <1>3

\* Neighbours k and k + 1 change places.
Exchanged(s, t, k, n) ==
    /\ t[k] = s[k + 1] /\ t[k + 1] = s[k]
    /\ \A j \in 1..n : j \notin {k, k + 1} => t[j] = s[j]

ExchangedIn(P, Q, k, n) ==
    /\ k \in Q <=> k + 1 \in P
    /\ k + 1 \in Q <=> k \in P
    /\ \A j \in 1..n : j \notin {k, k + 1} => (j \in P <=> j \in Q)

LEMMA SwapUnseen ==
    ASSUME NEW n \in Nat, NEW k \in 1..(n - 1), NEW s, NEW P, NEW t, NEW Q, NEW u, NEW v,
           Selecting(s, P, u, n), Selecting(t, Q, v, n),
           Exchanged(s, t, k, n), ExchangedIn(P, Q, k, n), ~(k \in P /\ k + 1 \in P)
    PROVE  u[n] = v[n]
<1>1. /\ k \in 0..n /\ k - 1 \in 0..n /\ k + 1 \in 0..n /\ k \in 1..n /\ k + 1 \in 1..n
      /\ (k + 1) - 1 = k /\ k - 1 \in Nat
  OBVIOUS
<1>2. Selecting(s, P, u, k - 1) /\ Selecting(t, Q, v, k - 1)
  BY <1>1, SelectingPrefix
<1>3. u[k - 1] = v[k - 1]
  <2>1. \A j \in 1..(k - 1) : (j \in P <=> j \in Q) /\ (j \in P => s[j] = t[j])
    <3>1. \A j \in 1..(k - 1) : j \in 1..n /\ j \notin {k, k + 1}
      OBVIOUS
    <3> QED BY <3>1 DEF Exchanged, ExchangedIn
  <2>2. k - 1 \in 0..(k - 1)
    OBVIOUS
  <2> QED BY <1>1, <1>2, <2>1, <2>2, SelectingSame
<1>4. /\ u[k] = IF k \in P THEN Append(u[k - 1], s[k]) ELSE u[k - 1]
      /\ u[k + 1] = IF k + 1 \in P THEN Append(u[k], s[k + 1]) ELSE u[k]
      /\ v[k] = IF k \in Q THEN Append(v[k - 1], t[k]) ELSE v[k - 1]
      /\ v[k + 1] = IF k + 1 \in Q THEN Append(v[k], t[k + 1]) ELSE v[k]
  BY <1>1 DEF Selecting
<1>5. u[k + 1] = v[k + 1]
  BY <1>3, <1>4 DEF Exchanged, ExchangedIn
<1>6. \A j \in ((k + 1) + 1)..n : (j \in P <=> j \in Q) /\ (j \in P => s[j] = t[j])
  <2>1. \A j \in ((k + 1) + 1)..n : j \in 1..n /\ j \notin {k, k + 1}
    OBVIOUS
  <2> QED BY <2>1 DEF Exchanged, ExchangedIn
<1> DEFINE m == k + 1
<1>7. m \in 0..n /\ u[m] = v[m] /\ \A j \in (m + 1)..n : (j \in P <=> j \in Q) /\ (j \in P => s[j] = t[j])
  BY <1>1, <1>5, <1>6
<1> HIDE DEF m
<1> QED BY <1>7, SelectingFrom

LEMMA SwapSelected ==
    ASSUME NEW S, NEW n \in Nat, NEW k \in 1..(n - 1), NEW s, NEW P, NEW t, NEW Q, NEW u, NEW v,
           Selecting(s, P, u, n), Selecting(t, Q, v, n), \A j \in 1..n : s[j] \in S,
           Exchanged(s, t, k, n), ExchangedIn(P, Q, k, n), k \in P, k + 1 \in P
    PROVE  \E o : SwappedAt(S, u[n], v[n], o, s[k], s[k + 1])
<1>1. /\ k \in 0..n /\ k - 1 \in 0..n /\ k + 1 \in 0..n /\ k \in 1..n /\ k + 1 \in 1..n
      /\ (k + 1) - 1 = k /\ k - 1 \in Nat
  OBVIOUS
<1>2. Selecting(s, P, u, k - 1) /\ Selecting(t, Q, v, k - 1)
  BY <1>1, SelectingPrefix
<1>3. u[k - 1] = v[k - 1]
  <2>1. \A j \in 1..(k - 1) : (j \in P <=> j \in Q) /\ (j \in P => s[j] = t[j])
    <3>1. \A j \in 1..(k - 1) : j \in 1..n /\ j \notin {k, k + 1}
      OBVIOUS
    <3> QED BY <3>1 DEF Exchanged, ExchangedIn
  <2>2. k - 1 \in 0..(k - 1)
    OBVIOUS
  <2> QED BY <1>1, <1>2, <2>1, <2>2, SelectingSame
<1>4. u[k - 1] \in Seq(S)
  BY <1>1, SelectingTyped
<1>5. /\ u[k + 1] = Append(Append(u[k - 1], s[k]), s[k + 1])
      /\ v[k + 1] = Append(Append(u[k - 1], s[k + 1]), s[k])
  <2>1. /\ u[k] = IF k \in P THEN Append(u[k - 1], s[k]) ELSE u[k - 1]
        /\ u[k + 1] = IF k + 1 \in P THEN Append(u[k], s[k + 1]) ELSE u[k]
        /\ v[k] = IF k \in Q THEN Append(v[k - 1], t[k]) ELSE v[k - 1]
        /\ v[k + 1] = IF k + 1 \in Q THEN Append(v[k], t[k + 1]) ELSE v[k]
    BY <1>1 DEF Selecting
  <2> QED BY <1>3, <2>1 DEF Exchanged, ExchangedIn
<1> DEFINE o == Len(u[k - 1]) + 1
           a == s[k]
           b == s[k + 1]
           Good == {j \in 0..n : j >= k + 1 => SwappedAt(S, u[j], v[j], o, a, b)}
<1>6. a \in S /\ b \in S
  BY <1>1
<1>7. SwappedAt(S, u[k + 1], v[k + 1], o, a, b)
  BY <1>4, <1>5, <1>6, SwapStarts
<1> HIDE DEF o, a, b
<1>8. 0 \in Good
  BY <1>1
<1>9. ASSUME NEW j \in 1..n, j - 1 \in Good PROVE j \in Good
  <2>1. CASE j < k + 1
    BY <2>1
  <2>2. CASE j = k + 1
    BY <1>1, <1>7, <2>2
  <2>3. CASE j > k + 1
    <3>1. j - 1 >= k + 1 /\ j \notin {k, k + 1} /\ j \in 0..n
      BY <2>3
    <3>2. SwappedAt(S, u[j - 1], v[j - 1], o, a, b)
      BY <1>9, <3>1
    <3>3. /\ u[j] = IF j \in P THEN Append(u[j - 1], s[j]) ELSE u[j - 1]
          /\ v[j] = IF j \in Q THEN Append(v[j - 1], t[j]) ELSE v[j - 1]
      BY DEF Selecting
    <3>4. (j \in P <=> j \in Q) /\ t[j] = s[j] /\ s[j] \in S
      BY <3>1 DEF Exchanged, ExchangedIn
    <3>5. SwappedAt(S, Append(u[j - 1], s[j]), Append(v[j - 1], s[j]), o, a, b)
      BY <3>2, <3>4, SwapGoesOn
    <3>6. SwappedAt(S, u[j], v[j], o, a, b)
      BY <3>2, <3>3, <3>4, <3>5
    <3> QED BY <3>1, <3>6
  <2> QED BY <2>1, <2>2, <2>3
<1>10. n \in Good
  <2> HIDE DEF Good
  <2>1. n \in 0..n
    OBVIOUS
  <2> QED BY <1>8, <1>9, <2>1, CountUp
<1>11. SwappedAt(S, u[n], v[n], o, a, b)
  <2>1. n >= k + 1
    OBVIOUS
  <2> QED BY <1>10, <2>1
<1> QED BY <1>11 DEF a, b

-----------------------------------------------------------------------------
(* Stacks.                                                                 *)

\* Stacks of intents I and scopes C.
StacksOf(I, C) == [intents : Seq(I), scopes : Seq(C)]

\* Vec::pop leaves a sequence of the same kind.
LEMMA PoppedType ==
    ASSUME NEW S, NEW s \in Seq(S)
    PROVE  Popped(s) \in Seq(S)
<1>1. CASE s = <<>>
  BY <1>1 DEF Popped
<1>2. CASE s # <<>>
  <2>1. Len(s) \in Nat \ {0}
    BY <1>2, EmptySeq
  <2>2. \A i \in 1..(Len(s) - 1) : s[i] \in S
    BY <2>1
  <2> QED BY <1>2, <2>1, <2>2, SubSeqProperties DEF Popped
<1> QED BY <1>1, <1>2

\* What was pushed is popped, and a stack is what it was before its last element
\* with that element on top.
LEMMA PoppedAppend ==
    ASSUME NEW S, NEW s \in Seq(S), NEW e \in S
    PROVE  Popped(Append(s, e)) = s /\ Append(s, e) # <<>>
<1>1. /\ Len(Append(s, e)) = Len(s) + 1 /\ Append(s, e) # <<>> /\ Len(s) \in Nat
  BY AppendProperties, LenProperties
<1>2. SubSeq(Append(s, e), 1, Len(s)) = s
  <2> DEFINE n == Len(s)
             t == Append(s, e)
             r == SubSeq(t, 1, n)
  <2>1. n \in Nat /\ t \in Seq(S) /\ Len(t) = n + 1 /\ \A k \in 1..n : t[k] = s[k]
    BY AppendProperties, LenProperties
  <2>2. \A k \in 1..n : t[k] \in S
    BY <2>1, ElementOfSeq
  <2> HIDE DEF t, n
  <2>3. r \in Seq(S) /\ Len(r) = n /\ \A k \in 1..n : r[k] = t[k]
    BY <2>1, <2>2, SubSeqProperties
  <2> HIDE DEF r
  <2>4. r \in Seq(S) /\ Len(r) = Len(s) /\ \A k \in 1..Len(r) : r[k] = s[k]
    BY <2>1, <2>3 DEF n
  <2>5. r = s
    BY <2>4, SeqEqual
  <2> QED BY <2>5 DEF r, t, n
<1> DEFINE t == Append(s, e)
<1>3. t # <<>> /\ Len(t) - 1 = Len(s)
  BY <1>1
<1>4. Popped(t) = SubSeq(t, 1, Len(t) - 1)
  BY <1>3 DEF Popped
<1> QED BY <1>2, <1>3, <1>4

LEMMA LastApart ==
    ASSUME NEW S, NEW s \in Seq(S), s # <<>>
    PROVE  /\ Popped(s) \in Seq(S) /\ s[Len(s)] \in S
           /\ s = Append(Popped(s), s[Len(s)])
<1>1. /\ Popped(s) \in Seq(S) /\ Len(s) \in Nat \ {0} /\ s[Len(s)] \in S
  BY PoppedType, EmptySeq, LenProperties, ElementOfSeq
<1>2. /\ Len(Popped(s)) = Len(s) - 1
      /\ \A i \in 1..(Len(s) - 1) : Popped(s)[i] = s[i]
  <2> DEFINE n == Len(s)
  <2>1. n \in Nat \ {0} /\ n - 1 \in 0..n /\ Popped(s) = SubSeq(s, 1, n - 1)
    BY <1>1 DEF Popped
  <2>2. 1 \in 1..n /\ (n - 1) - 1 + 1 = n - 1
    BY <2>1
  <2>3. Len(SubSeq(s, 1, n - 1)) = n - 1 /\ \A i \in 1..(n - 1) : SubSeq(s, 1, n - 1)[i] = s[i]
    BY <2>1, <2>2
  <2> QED BY <2>1, <2>3
<1> DEFINE t == Append(Popped(s), s[Len(s)])
<1>3. /\ t \in Seq(S) /\ Len(t) = Len(s) /\ t[Len(s)] = s[Len(s)]
      /\ \A i \in 1..(Len(s) - 1) : t[i] = s[i]
  BY <1>1, <1>2, AppendProperties
<1> HIDE DEF t
<1>4. \A i \in 1..Len(s) : t[i] = s[i]
  BY <1>1, <1>3
<1>5. t = s
  BY <1>3, <1>4, SeqEqual
<1> QED BY <1>1, <1>5 DEF t

\* intent_enter with a scope leaves the new intent on top.
LEMMA EnterScoped ==
    ASSUME NEW I, NEW C, NEW st \in StacksOf(I, C), NEW i \in I, NEW c \in C,
           c # NoScope
    PROVE  /\ IntentEnter(st, i, c) \in StacksOf(I, C)
           /\ IntentEnter(st, i, c).intents # <<>>
           /\ ActiveIntent(IntentEnter(st, i, c)) = i
<1> DEFINE new == IntentEnter(st, i, c)
<1>1. st.intents \in Seq(I) /\ st.scopes \in Seq(C)
  BY DEF StacksOf
<1>2. /\ Append(st.intents, i) \in Seq(I)
      /\ Append(st.intents, i) # <<>>
      /\ Len(Append(st.intents, i)) = Len(st.intents) + 1
      /\ Append(st.intents, i)[Len(st.intents) + 1] = i
  BY <1>1, AppendProperties
<1>3. Append(st.scopes, c) \in Seq(C)
  BY <1>1, AppendProperties
<1>4. new = [intents |-> Append(st.intents, i), scopes |-> Append(st.scopes, c)]
  BY DEF IntentEnter
<1>5. new \in StacksOf(I, C)
  <2>1. [intents |-> Append(st.intents, i), scopes |-> Append(st.scopes, c)]
           \in [intents : Seq(I), scopes : Seq(C)]
    BY <1>2, <1>3, Zenon
  <2> QED BY <1>4, <2>1 DEF StacksOf
<1>6. new.intents = Append(st.intents, i)
  BY <1>4
<1> QED BY <1>2, <1>5, <1>6 DEF ActiveIntent

\* intent_exit keeps the stacks well formed.
LEMMA ExitTyped ==
    ASSUME NEW I, NEW C, NEW st \in StacksOf(I, C)
    PROVE  IntentExit(st) \in StacksOf(I, C)
<1>1. st.intents \in Seq(I) /\ st.scopes \in Seq(C)
  BY DEF StacksOf
<1>2. Popped(st.intents) \in Seq(I) /\ Popped(st.scopes) \in Seq(C)
  BY <1>1, PoppedType
<1>3. [intents |-> Popped(st.intents), scopes |-> Popped(st.scopes)]
         \in [intents : Seq(I), scopes : Seq(C)]
  BY <1>2, Zenon
<1> QED BY <1>3 DEF IntentExit, StacksOf

\* intent_enter without a scope pushes the intent alone.
LEMMA EnterBare ==
    ASSUME NEW I, NEW C, NEW st \in StacksOf(I, C), NEW i \in I
    PROVE  /\ IntentEnter(st, i, NoScope) \in StacksOf(I, C)
           /\ IntentEnter(st, i, NoScope)
                 = [intents |-> Append(st.intents, i), scopes |-> st.scopes]
           /\ ActiveIntent(IntentEnter(st, i, NoScope)) = i
<1>1. st.intents \in Seq(I) /\ st.scopes \in Seq(C)
  BY DEF StacksOf
<1>2. /\ Append(st.intents, i) \in Seq(I)
      /\ Append(st.intents, i) # <<>>
      /\ Len(Append(st.intents, i)) = Len(st.intents) + 1
      /\ Append(st.intents, i)[Len(st.intents) + 1] = i
  BY <1>1, AppendProperties
<1>3. IntentEnter(st, i, NoScope)
         = [intents |-> Append(st.intents, i), scopes |-> st.scopes]
  BY DEF IntentEnter
<1>4. [intents |-> Append(st.intents, i), scopes |-> st.scopes]
         \in [intents : Seq(I), scopes : Seq(C)]
  BY <1>1, <1>2, Zenon
<1> QED BY <1>2, <1>3, <1>4 DEF StacksOf, ActiveIntent

\* The intent of an event is one of the stack, or none.
LEMMA ActiveTyped ==
    ASSUME NEW I, NEW C, NEW st \in StacksOf(I, C)
    PROVE  ActiveIntent(st) \in I \union {NoIntent}
<1>1. st.intents \in Seq(I)
  BY DEF StacksOf
<1>2. CASE st.intents = <<>>
  BY <1>2 DEF ActiveIntent
<1>3. CASE st.intents # <<>>
  <2>1. Len(st.intents) \in 1..Len(st.intents)
    BY <1>1, <1>3, EmptySeq, LenProperties
  <2>2. st.intents[Len(st.intents)] \in I
    BY <1>1, <2>1, ElementOfSeq
  <2> QED BY <1>3, <2>2 DEF ActiveIntent
<1> QED BY <1>2, <1>3

\* An intent block, which has no scope, leaves the intents as it found them.  (It
\* does not leave the scopes so.)
LEMMA BlockKeepsIntents ==
    ASSUME NEW I, NEW C, NEW st \in StacksOf(I, C), NEW i \in I
    PROVE  /\ IntentExit(IntentEnter(st, i, NoScope)) \in StacksOf(I, C)
           /\ IntentExit(IntentEnter(st, i, NoScope)).intents = st.intents
<1> DEFINE in == IntentEnter(st, i, NoScope)
<1>1. st.intents \in Seq(I) /\ in \in StacksOf(I, C)
      /\ in = [intents |-> Append(st.intents, i), scopes |-> st.scopes]
  <2>1. st.intents \in Seq(I)
    BY DEF StacksOf
  <2> QED BY <2>1, EnterBare
<1> HIDE DEF in
<1>2. IntentExit(in) \in StacksOf(I, C)
  BY <1>1, ExitTyped
<1>3. /\ Len(Append(st.intents, i)) = Len(st.intents) + 1
      /\ Append(st.intents, i) # <<>>
  BY <1>1, AppendProperties
<1>4. IntentExit(in).intents = SubSeq(Append(st.intents, i), 1, Len(st.intents))
  <2>1. IntentExit(in).intents = Popped(Append(st.intents, i))
    BY <1>1 DEF IntentExit
  <2>2. Len(st.intents) \in Nat
    BY <1>1, LenProperties
  <2> QED BY <1>3, <2>1, <2>2 DEF Popped
<1>5. SubSeq(Append(st.intents, i), 1, Len(st.intents)) = st.intents
  BY <1>1
<1> QED BY <1>2, <1>4, <1>5 DEF in
-----------------------------------------------------------------------------
(* Ranks: what a loop has still to do, as three numbers.                   *)

Ranks == Nat \X Nat \X Nat

\* a is below b: it is less at the first position where they differ.
Lower(a, b) == \E k \in 1..3 : a[k] < b[k] /\ \A j \in 1..(k - 1) : a[j] = b[j]

LEMMA LowerTriple ==
    ASSUME NEW a1, NEW a2, NEW a3, NEW b1, NEW b2, NEW b3,
           \/ a1 < b1
           \/ a1 = b1 /\ a2 < b2
           \/ a1 = b1 /\ a2 = b2 /\ a3 < b3
    PROVE  Lower(<<a1, a2, a3>>, <<b1, b2, b3>>)
<1> DEFINE a == <<a1, a2, a3>>
           b == <<b1, b2, b3>>
<1>1. /\ a[1] = a1 /\ a[2] = a2 /\ a[3] = a3
      /\ b[1] = b1 /\ b[2] = b2 /\ b[3] = b3
  OBVIOUS
<1> HIDE DEF a, b
<1>2. CASE a1 < b1
  <2>1. a[1] < b[1] /\ \A j \in 1..(1 - 1) : a[j] = b[j]
    BY <1>1, <1>2
  <2> QED BY <2>1 DEF Lower, a, b
<1>3. CASE a1 = b1 /\ a2 < b2
  <2>1. a[2] < b[2] /\ \A j \in 1..(2 - 1) : a[j] = b[j]
    BY <1>1, <1>3
  <2> QED BY <2>1 DEF Lower, a, b
<1>4. CASE a1 = b1 /\ a2 = b2 /\ a3 < b3
  <2>1. a[3] < b[3] /\ \A j \in 1..(3 - 1) : a[j] = b[j]
    BY <1>1, <1>4
  <2> QED BY <2>1 DEF Lower, a, b
<1> QED BY <1>2, <1>3, <1>4

LEMMA LeastNumber ==
    ASSUME NEW M \in SUBSET Nat, M # {}
    PROVE  \E m \in M : \A x \in M : m <= x
<1>1. PICK n \in M : TRUE
  OBVIOUS
<1> DEFINE K == {k \in 1..(n + 1) : k - 1 \in M}
<1>2. n + 1 \in K /\ K \in SUBSET (1..(n + 1)) /\ n + 1 \in Nat
  <2>1. n \in Nat /\ n + 1 \in 1..(n + 1) /\ (n + 1) - 1 = n
    BY <1>1
  <2> QED BY <2>1
<1> HIDE DEF K
<1>3. PICK k \in K : \A j \in K : k <= j
  BY <1>2, LeastPosition
<1> USE DEF K
<1>4. k - 1 \in M /\ k \in 1..(n + 1)
  BY <1>3
<1>5. ASSUME NEW x \in M PROVE k - 1 <= x
  <2>1. x \in Nat /\ n \in Nat /\ (x + 1) - 1 = x
    OBVIOUS
  <2>2. CASE x <= n
    <3>1. x + 1 \in K
      BY <2>1, <2>2
    <3> QED BY <1>3, <1>4, <2>1, <3>1
  <2>3. CASE ~(x <= n)
    BY <1>4, <2>1, <2>3
  <2> QED BY <2>2, <2>3
<1> QED BY <1>4, <1>5

\* Among any ranks there is one that none of them is below.
LEMMA LowestRank ==
    ASSUME NEW R \in SUBSET Ranks, R # {}
    PROVE  \E r \in R : \A q \in R : ~Lower(q, r)
<1>1. \A r \in R : r[1] \in Nat /\ r[2] \in Nat /\ r[3] \in Nat
  BY DEF Ranks
<1> DEFINE A == {r[1] : r \in R}
<1>2. PICK a \in A : \A x \in A : a <= x
  <2>1. A \in SUBSET Nat /\ A # {}
    BY <1>1
  <2> HIDE DEF A
  <2> QED BY <2>1, LeastNumber
<1> DEFINE B == {r[2] : r \in {q \in R : q[1] = a}}
<1>3. PICK b \in B : \A x \in B : b <= x
  <2>1. B \in SUBSET Nat /\ B # {}
    BY <1>1, <1>2
  <2> HIDE DEF B
  <2> QED BY <2>1, LeastNumber
<1> DEFINE C == {r[3] : r \in {q \in R : q[1] = a /\ q[2] = b}}
<1>4. PICK c \in C : \A x \in C : c <= x
  <2>1. C \in SUBSET Nat /\ C # {}
    BY <1>1, <1>3
  <2> HIDE DEF C
  <2> QED BY <2>1, LeastNumber
<1>5. PICK r \in R : r[1] = a /\ r[2] = b /\ r[3] = c
  BY <1>4
<1>6. ASSUME NEW q \in R, Lower(q, r) PROVE FALSE
  <2>1. PICK k \in 1..3 : q[k] < r[k] /\ \A j \in 1..(k - 1) : q[j] = r[j]
    BY <1>6 DEF Lower
  <2>2. CASE k = 1
    <3>1. q[1] \in A
      OBVIOUS
    <3> HIDE DEF A
    <3> QED BY <1>1, <1>2, <1>5, <2>1, <2>2, <3>1
  <2>3. CASE k = 2
    <3>1. q[1] = a
      BY <1>5, <2>1, <2>3
    <3>2. q[2] \in B
      BY <3>1
    <3> HIDE DEF A, B
    <3> QED BY <1>1, <1>3, <1>5, <2>1, <2>3, <3>2
  <2>4. CASE k = 3
    <3>1. q[1] = a /\ q[2] = b
      BY <1>5, <2>1, <2>4
    <3>2. q[3] \in C
      BY <3>1
    <3> HIDE DEF A, B, C
    <3> QED BY <1>1, <1>4, <1>5, <2>1, <2>4, <3>2
  <2> QED BY <2>1, <2>2, <2>3, <2>4
<1> QED BY <1>6

\* No ranks go down for ever.
LEMMA RanksEnd == ~ \E f \in [Nat -> Ranks] : \A n \in Nat : Lower(f[n + 1], f[n])
<1> SUFFICES ASSUME NEW f \in [Nat -> Ranks], \A n \in Nat : Lower(f[n + 1], f[n])
             PROVE  FALSE
  OBVIOUS
<1> DEFINE R == {f[n] : n \in Nat}
<1>1. PICK r \in R : \A q \in R : ~Lower(q, r)
  <2>1. R \in SUBSET Ranks /\ f[0] \in R
    OBVIOUS
  <2> HIDE DEF R
  <2> QED BY <2>1, LowestRank
<1>2. PICK n \in Nat : r = f[n]
  BY <1>1
<1>3. n + 1 \in Nat /\ f[n + 1] \in R
  OBVIOUS
<1> QED BY <1>1, <1>2, <1>3
=============================================================================
