--------------------------- MODULE TaskStoreProofs ---------------------------
(***************************************************************************)
(* Theorems about TaskStore, for any retention limits and any sets of      *)
(* threads, owners and approvals: the stored events are the log without    *)
(* its oldest events, a replay completes what its reader has, a cleanup    *)
(* spares recent threads, and the tables implement the replay log.         *)
(*                                                                         *)
(* Bytes is a sum by recursion.  What it is of a longer sequence is shown  *)
(* by least counterexamples: a set of naturals that is not empty has a     *)
(* least member (LeastNatural).                                            *)
(***************************************************************************)
EXTENDS TaskStore, FiniteSetTheorems, SequenceTheorems, TLAPS

-----------------------------------------------------------------------------
(* Sequences of events.                                                     *)

\* A set of naturals that is not empty has a least member.
LEMMA LeastNatural ==
  ASSUME NEW S \in SUBSET Nat, S # {}
  PROVE  \E n \in S : \A m \in S : n <= m
  <1> DEFINE Less == {p \in Nat \X Nat : p[1] < p[2]}
  <1>1. IsWellFoundedOn(Less, Nat)
    BY NatLessThanWellFounded DEF OpToRel
  <1> HIDE DEF Less
  <1>2. PICK n \in S : \A m \in S : ~ (<<m, n>> \in Less)
    BY <1>1, WFMin
  <1>3. \A m \in S : m < n => <<m, n>> \in Less
    BY DEF Less
  <1>4. \A m \in S : ~ (m < n)
    BY <1>2, <1>3
  <1>5. \A m \in S : m \in Nat /\ n \in Nat
    OBVIOUS
  <1>6. QED
    BY <1>4, <1>5

\* What From leaves of a sequence.
LEMMA FromProperties ==
  ASSUME NEW S, NEW s \in Seq(S), NEW i \in 1 .. Len(s) + 1
  PROVE  /\ From(s, i) \in Seq(S)
         /\ Len(From(s, i)) = Len(s) - i + 1
         /\ \A j \in 1 .. Len(s) - i + 1 : From(s, i)[j] = s[i + j - 1]
  <1>1. Len(s) \in Nat /\ i \in Int
    OBVIOUS
  <1>2. \A j \in i .. Len(s) : s[j] \in S
    BY ElementOfSeq
  <1>3. /\ SubSeq(s, i, Len(s)) \in Seq(S)
        /\ Len(SubSeq(s, i, Len(s))) = IF i <= Len(s) THEN Len(s) - i + 1 ELSE 0
        /\ \A j \in 1 .. Len(s) - i + 1 : SubSeq(s, i, Len(s))[j] = s[i + j - 1]
    BY <1>1, <1>2, SubSeqProperties
  <1>4. QED
    BY <1>1, <1>3 DEF From

\* Taking from the front twice.
LEMMA FromOfFrom ==
  ASSUME NEW S, NEW s \in Seq(S), NEW i \in 1 .. Len(s) + 1,
         NEW k \in 1 .. Len(From(s, i)) + 1
  PROVE  From(From(s, i), k) = From(s, i + k - 1)
  <1> DEFINE f == From(s, i)
             m == i + k - 1
             g == From(f, k)
             h == From(s, m)
  <1>1. /\ Len(s) \in Nat /\ f \in Seq(S) /\ Len(f) = Len(s) - i + 1
        /\ \A j \in 1 .. Len(s) - i + 1 : f[j] = s[i + j - 1]
    BY FromProperties
  <1>2. m \in 1 .. Len(s) + 1
    BY <1>1
  <1>3. /\ g \in Seq(S) /\ Len(g) = Len(f) - k + 1
        /\ \A j \in 1 .. Len(f) - k + 1 : g[j] = f[k + j - 1]
    BY <1>1, FromProperties
  <1>4. /\ h \in Seq(S) /\ Len(h) = Len(s) - m + 1
        /\ \A j \in 1 .. Len(s) - m + 1 : h[j] = s[m + j - 1]
    BY <1>2, FromProperties
  <1> HIDE DEF f, g, h
  <1>5. Len(g) = Len(h) /\ Len(g) = Len(s) - m + 1 /\ Len(f) - k + 1 = Len(s) - m + 1
    BY <1>1, <1>3, <1>4
  <1>6. ASSUME NEW j \in 1 .. Len(g)
        PROVE  g[j] = h[j]
    <2>1. g[j] = f[k + j - 1] /\ h[j] = s[m + j - 1]
      BY <1>3, <1>4, <1>5
    <2>2. k + j - 1 \in 1 .. Len(s) - i + 1
      BY <1>1, <1>5
    <2>3. f[k + j - 1] = s[i + (k + j - 1) - 1]
      BY <1>1, <2>2
    <2>4. i + (k + j - 1) - 1 = m + j - 1
      BY <1>1
    <2>5. QED
      BY <2>1, <2>3, <2>4
  <1>7. g = h
    BY <1>3, <1>4, <1>5, <1>6, SeqEqual
  <1>8. QED
    BY <1>7 DEF f, g, h

\* An event goes to the end of what is left.
LEMMA FromOfAppend ==
  ASSUME NEW S, NEW s \in Seq(S), NEW e \in S, NEW i \in 1 .. Len(s) + 1
  PROVE  From(Append(s, e), i) = Append(From(s, i), e)
  <1> DEFINE a == Append(s, e)
             f == From(s, i)
             g == From(a, i)
             h == Append(f, e)
  <1>1. /\ a \in Seq(S) /\ Len(a) = Len(s) + 1 /\ a[Len(s) + 1] = e
        /\ \A j \in 1 .. Len(s) : a[j] = s[j]
    BY AppendProperties
  <1>2. /\ f \in Seq(S) /\ Len(f) = Len(s) - i + 1 /\ Len(s) \in Nat
        /\ \A j \in 1 .. Len(s) - i + 1 : f[j] = s[i + j - 1]
    BY FromProperties
  <1>3. /\ g \in Seq(S) /\ Len(g) = Len(a) - i + 1
        /\ \A j \in 1 .. Len(a) - i + 1 : g[j] = a[i + j - 1]
    <2> HIDE DEF a
    <2>1. i \in 1 .. Len(a) + 1
      BY <1>1, <1>2
    <2>2. QED
      BY <1>1, <2>1, FromProperties
  <1>4. /\ h \in Seq(S) /\ Len(h) = Len(f) + 1 /\ h[Len(f) + 1] = e
        /\ \A j \in 1 .. Len(f) : h[j] = f[j]
    <2> HIDE DEF f
    <2>1. f \in Seq(S)
      BY <1>2
    <2>2. QED
      BY <2>1, AppendProperties
  <1> HIDE DEF a, f, g, h
  <1>5. Len(g) = Len(h)
    BY <1>1, <1>2, <1>3, <1>4
  <1>6. ASSUME NEW j \in 1 .. Len(g)
        PROVE  g[j] = h[j]
    <2>1. g[j] = a[i + j - 1]
      BY <1>3
    <2>2. CASE j = Len(f) + 1
      <3>1. i + j - 1 = Len(s) + 1
        BY <1>2, <2>2
      <3>2. QED
        BY <1>1, <1>4, <2>1, <2>2, <3>1
    <2>3. CASE j # Len(f) + 1
      <3>1. Len(f) \in Nat /\ j \in 1 .. Len(f) + 1
        BY <1>2, <1>4, <1>5
      <3>2. j \in 1 .. Len(f) /\ j \in 1 .. Len(s) - i + 1 /\ i + j - 1 \in 1 .. Len(s)
        BY <1>2, <2>3, <3>1
      <3>3. QED
        BY <1>1, <1>2, <1>4, <2>1, <3>2
    <2>4. QED
      BY <2>2, <2>3
  <1>7. g = h
    BY <1>3, <1>4, <1>5, <1>6, SeqEqual
  <1>8. QED
    BY <1>7 DEF a, f, g, h

\* A sequence from its first element on, and from after its last.
LEMMA FromEnds ==
  ASSUME NEW S, NEW s \in Seq(S)
  PROVE  From(s, 1) = s /\ From(s, Len(s) + 1) = <<>>
  <1>1. Len(s) \in Nat
    OBVIOUS
  <1>2. From(s, 1) = s
    BY SubSeqFull DEF From
  <1>3. From(s, Len(s) + 1) = <<>>
    <2>1. From(s, Len(s) + 1) \in Seq(S) /\ Len(From(s, Len(s) + 1)) = 0
      <3> DEFINE i == Len(s) + 1
      <3>1. i \in 1 .. Len(s) + 1 /\ Len(s) - i + 1 = 0
        BY <1>1
      <3> HIDE DEF i
      <3>2. From(s, i) \in Seq(S) /\ Len(From(s, i)) = 0
        BY <3>1, FromProperties
      <3>3. QED
        BY <3>2 DEF i
    <2>2. QED
      BY <2>1, EmptySeq
  <1>4. QED
    BY <1>2, <1>3

-----------------------------------------------------------------------------
(* How many bytes a sequence of events has.                                 *)

\* f has the sums of the first events of s, up to n of them.
Sums(f, s, n) ==
  f = [i \in 0 .. n |-> IF i = 0 THEN 0 ELSE f[i - 1] + s[i].bytes]

\* There are such sums.
LEMMA SumsExist ==
  ASSUME NEW s, NEW n \in Nat
  PROVE  \E f : Sums(f, s, n)
  <1> DEFINE Bad == {m \in Nat : ~ \E f : Sums(f, s, m)}
  <1>1. SUFFICES ASSUME Bad # {}
                 PROVE  FALSE
    OBVIOUS
  <1>2. PICK m \in Bad : \A k \in Bad : m <= k
    BY <1>1, LeastNatural
  <1>3. CASE m = 0
    <2> DEFINE f == [i \in 0 .. 0 |-> 0]
    <2>1. \A i \in 0 .. 0 : i = 0
      OBVIOUS
    <2>2. Sums(f, s, 0)
      BY <2>1 DEF Sums
    <2>3. QED
      BY <1>2, <1>3, <2>2
  <1>4. CASE m # 0
    <2>1. m - 1 \in Nat /\ m - 1 \notin Bad /\ m \in Nat
      BY <1>2, <1>4
    <2>2. PICK f : Sums(f, s, m - 1)
      BY <2>1
    <2> DEFINE next == f[m - 1] + s[m].bytes
               g == [i \in 0 .. m |-> IF i = m THEN next ELSE f[i]]
    <2>3. ASSUME NEW i \in 0 .. m
          PROVE  g[i] = IF i = 0 THEN 0 ELSE g[i - 1] + s[i].bytes
      <3>1. \A j \in 0 .. m - 1 : f[j] = IF j = 0 THEN 0 ELSE f[j - 1] + s[j].bytes
        BY <2>2 DEF Sums
      <3>2. CASE i = m
        <4>1. i - 1 \in 0 .. m /\ i - 1 # m
          BY <1>4, <2>1, <3>2
        <4>2. g[i] = next /\ g[i - 1] = f[m - 1]
          BY <3>2, <4>1
        <4>3. QED
          BY <1>4, <3>2, <4>2
      <3>3. CASE i # m
        <4>1. i \in 0 .. m - 1 /\ (i # 0 => i - 1 \in 0 .. m /\ i - 1 # m)
          BY <2>1, <3>3
        <4>2. g[i] = f[i] /\ (i # 0 => g[i - 1] = f[i - 1])
          BY <3>3, <4>1
        <4>3. QED
          BY <3>1, <4>1, <4>2
      <3>4. QED
        BY <3>2, <3>3
    <2>4. g = [i \in 0 .. m |-> g[i]]
      OBVIOUS
    <2> HIDE DEF g
    <2>5. Sums(g, s, m)
      BY <2>3, <2>4 DEF Sums
    <2>6. QED
      BY <1>2, <2>5
  <1>5. QED
    BY <1>3, <1>4

\* Bytes is the last of them.
LEMMA BytesIsSum ==
  ASSUME NEW s, Len(s) \in Nat
  PROVE  \E f : Sums(f, s, Len(s)) /\ Bytes(s) = f[Len(s)]
  <1> DEFINE sum == CHOOSE f : Sums(f, s, Len(s))
  <1>1. Sums(sum, s, Len(s))
    BY SumsExist
  <1>2. Bytes(s) = sum[Len(s)]
    BY DEF Bytes, Sums
  <1>3. QED
    BY <1>1, <1>2

\* What each of them is.
LEMMA SumsAre ==
  ASSUME NEW s, NEW n \in Nat, NEW f, Sums(f, s, n)
  PROVE  f[0] = 0 /\ \A i \in 1 .. n : f[i] = f[i - 1] + s[i].bytes
  <1>1. \A i \in 0 .. n : f[i] = IF i = 0 THEN 0 ELSE f[i - 1] + s[i].bytes
    BY DEF Sums
  <1>2. 0 \in 0 .. n /\ \A i \in 1 .. n : i \in 0 .. n /\ i # 0
    OBVIOUS
  <1>3. QED
    BY <1>1, <1>2

\* The sizes are natural numbers, so their sums are.
LEMMA BytesType ==
  ASSUME NEW s \in Seq(Event)
  PROVE  Bytes(s) \in Nat
  <1>1. Len(s) \in Nat
    OBVIOUS
  <1>2. PICK f : Sums(f, s, Len(s)) /\ Bytes(s) = f[Len(s)]
    BY <1>1, BytesIsSum
  <1> DEFINE n == Len(s)
             Bad == {i \in Nat : i <= n /\ f[i] \notin Nat}
  <1>3. f[0] = 0 /\ \A i \in 1 .. n : f[i] = f[i - 1] + s[i].bytes
    BY <1>1, <1>2, SumsAre
  <1>4. SUFFICES ASSUME Bad # {}
                 PROVE  FALSE
    BY <1>1, <1>2
  <1>5. PICK m \in Bad : \A k \in Bad : m <= k
    BY <1>4, LeastNatural
  <1>6. m # 0
    BY <1>3, <1>5
  <1>7. m \in 1 .. n /\ m - 1 \in Nat /\ m - 1 <= n /\ m - 1 \notin Bad
    BY <1>1, <1>5, <1>6
  <1>8. f[m - 1] \in Nat
    BY <1>7
  <1>9. s[m].bytes \in Nat
    <2>1. s[m] \in Event
      BY <1>7, ElementOfSeq
    <2>2. QED
      BY <2>1, LimitsArePositive DEF Event, ValidLimits
  <1>10. QED
    BY <1>3, <1>5, <1>7, <1>8, <1>9

\* An event more is its size more.
LEMMA BytesOfAppend ==
  ASSUME NEW s \in Seq(Event), NEW e \in Event
  PROVE  Bytes(Append(s, e)) = Bytes(s) + e.bytes
  <1> DEFINE a == Append(s, e)
             n == Len(s)
  <1>1. /\ n \in Nat /\ Len(a) = n + 1 /\ a[n + 1] = e
        /\ \A i \in 1 .. n : a[i] = s[i]
    BY AppendProperties
  <1> HIDE DEF a
  <1>2. PICK f : Sums(f, s, n) /\ Bytes(s) = f[n]
    BY <1>1, BytesIsSum
  <1>3. PICK g : Sums(g, a, n + 1) /\ Bytes(a) = g[n + 1]
    BY <1>1, BytesIsSum
  <1>4. f[0] = 0 /\ \A i \in 1 .. n : f[i] = f[i - 1] + s[i].bytes
    BY <1>1, <1>2, SumsAre
  <1>5. g[0] = 0 /\ \A i \in 1 .. n + 1 : g[i] = g[i - 1] + a[i].bytes
    BY <1>1, <1>3, SumsAre
  <1> DEFINE Bad == {i \in Nat : i <= n /\ f[i] # g[i]}
  <1>6. ASSUME Bad # {}
        PROVE  FALSE
    <2>1. PICK m \in Bad : \A k \in Bad : m <= k
      BY <1>6, LeastNatural
    <2>2. m # 0
      BY <1>4, <1>5, <2>1
    <2>3. m \in 1 .. n /\ m \in 1 .. n + 1 /\ m - 1 \in Nat /\ m - 1 <= n
      BY <1>1, <2>1, <2>2
    <2>4. m - 1 \notin Bad
      BY <1>1, <2>1, <2>3
    <2>5. f[m - 1] = g[m - 1] /\ a[m] = s[m]
      BY <1>1, <2>3, <2>4
    <2>6. QED
      BY <1>4, <1>5, <2>1, <2>3, <2>5
  <1>7. f[n] = g[n]
    BY <1>1, <1>6
  <1>8. n + 1 \in 1 .. n + 1 /\ n + 1 - 1 = n
    BY <1>1
  <1>9. g[n + 1] = g[n] + a[n + 1].bytes
    BY <1>5, <1>8
  <1>10. QED
    BY <1>1, <1>2, <1>3, <1>7, <1>9 DEF a

\* No events have no bytes, and fit.
LEMMA NothingFits == Fits(<<>>)
  <1>1. Len(<<>>) = 0 /\ Len(<<>>) \in Nat
    OBVIOUS
  <1>2. PICK f : Sums(f, <<>>, 0) /\ Bytes(<<>>) = f[0]
    BY <1>1, BytesIsSum
  <1>3. Bytes(<<>>) = 0
    BY <1>2, SumsAre
  <1>4. QED
    BY <1>1, <1>3, LimitsArePositive DEF Fits, ValidLimits

\* What does not fit does not fit with an event more.
LEMMA MoreDoesNotFit ==
  ASSUME NEW s \in Seq(Event), NEW e \in Event, ~ Fits(s)
  PROVE  ~ Fits(Append(s, e))
  <1>1. Len(Append(s, e)) = Len(s) + 1 /\ Len(s) \in Nat
    BY AppendProperties
  <1>2. Bytes(Append(s, e)) = Bytes(s) + e.bytes /\ Bytes(s) \in Nat
    BY BytesOfAppend, BytesType
  <1>3. e.bytes \in Nat
    BY LimitsArePositive DEF Event, ValidLimits
  <1>4. QED
    BY <1>1, <1>2, <1>3, LimitsArePositive DEF Fits, ValidLimits

-----------------------------------------------------------------------------
(* Trimming.                                                                *)

\* _trim_events deletes as many events as it must, and not one more.
LEMMA ExcessIsLeast ==
  ASSUME NEW s \in Seq(Event)
  PROVE  /\ Excess(s) \in 0 .. Len(s)
         /\ Fits(Trim(s))
         /\ Excess(s) > 0 => ~ Fits(From(s, Excess(s)))
  <1> DEFINE leading == {i \in 1 .. Len(s) : \A j \in 1 .. i : ~ Fits(From(s, j))}
             kept == {i \in Nat : i >= 1 /\ i \notin leading}
  <1>1. Len(s) \in Nat /\ kept \in SUBSET Nat /\ Len(s) + 1 \in kept
    OBVIOUS
  <1>2. PICK m \in kept : \A i \in kept : m <= i
    BY <1>1, LeastNatural
  <1> DEFINE n == m - 1
  <1>3. n \in 0 .. Len(s) /\ m = n + 1
    BY <1>1, <1>2
  <1>4. \A i \in 1 .. n : i \in leading
    BY <1>1, <1>2, <1>3
  <1>5. Fits(From(s, n + 1))
    <2>1. CASE n = Len(s)
      BY <2>1, FromEnds, NothingFits
    <2>2. CASE n # Len(s)
      <3> SUFFICES ASSUME ~ Fits(From(s, n + 1))
                   PROVE  FALSE
        OBVIOUS
      <3>1. \A j \in 1 .. n : ~ Fits(From(s, j))
        BY <1>3, <1>4
      <3>2. \A j \in 1 .. m : ~ Fits(From(s, j))
        BY <1>3, <3>1
      <3>3. m \in leading
        BY <1>1, <1>3, <2>2, <3>2
      <3>4. QED
        BY <1>2, <3>3
    <2>3. QED
      BY <2>1, <2>2
  <1>6. n > 0 => ~ Fits(From(s, n))
    <2> SUFFICES ASSUME n > 0
                 PROVE  ~ Fits(From(s, n))
      OBVIOUS
    <2>1. n \in leading /\ n \in 1 .. n
      BY <1>3, <1>4
    <2>2. QED
      BY <2>1
  <1>7. leading = 1 .. n
    <2>1. ASSUME NEW i \in leading, i > n
          PROVE  FALSE
      <3>1. m \in 1 .. i /\ m \in 1 .. Len(s)
        BY <1>3, <2>1
      <3>2. m \in leading
        BY <3>1
      <3>3. QED
        BY <1>2, <3>2
    <2>2. QED
      BY <1>3, <1>4, <2>1
  <1>8. Excess(s) = n
    <2>1. Excess(s) = Cardinality(leading)
      BY DEF Excess
    <2> HIDE DEF n, leading
    <2>2. n \in Nat
      BY <1>1, <1>3
    <2>3. Cardinality(1 .. n) = IF 1 > n THEN 0 ELSE n - 1 + 1
      BY <2>2, FS_Interval
    <2>4. QED
      BY <1>7, <2>1, <2>2, <2>3
  <1> HIDE DEF n, leading, kept
  <1>9. QED
    BY <1>3, <1>5, <1>6, <1>8 DEF Trim

\* Events ev are log l without its d oldest events, and no more is gone than
\* had to go.
Window(ev, l, d) ==
  /\ d \in 0 .. Len(l)
  /\ ev = From(l, d + 1)
  /\ d > 0 => ~ Fits(From(l, d))

\* So it stays when an event is appended and the oldest are deleted.
LEMMA WindowMoves ==
  ASSUME NEW l \in Seq(Event), NEW ev \in Seq(Event), NEW d \in Nat,
         Window(ev, l, d), NEW e \in Event
  PROVE  /\ Excess(Append(ev, e)) \in Nat
         /\ Trim(Append(ev, e)) \in Seq(Event)
         /\ Fits(Trim(Append(ev, e)))
         /\ Window(Trim(Append(ev, e)), Append(l, e), d + Excess(Append(ev, e)))
  <1> DEFINE m == Append(l, e)
             all == Append(ev, e)
             x == Excess(all)
  <1>1. Len(l) \in Nat /\ d <= Len(l) /\ ev = From(l, d + 1) /\ d + 1 \in 1 .. Len(l) + 1
    BY DEF Window
  <1>2. m \in Seq(Event) /\ Len(m) = Len(l) + 1 /\ all \in Seq(Event)
    BY AppendProperties
  <1>3. all = From(m, d + 1)
    BY <1>1, FromOfAppend
  <1>4. d + 1 \in 1 .. Len(m) + 1
    BY <1>1, <1>2
  <1>5. Len(all) = Len(m) - d /\ Len(all) \in Nat
    <2>1. Len(From(m, d + 1)) = Len(m) - (d + 1) + 1
      BY <1>2, <1>4, FromProperties
    <2> HIDE DEF m, all
    <2>2. d \in Nat /\ d <= Len(l) /\ Len(m) = Len(l) + 1 /\ Len(l) \in Nat
      BY <1>1, <1>2
    <2>3. Len(all) = Len(m) - (d + 1) + 1
      BY <1>3, <2>1
    <2>4. QED
      BY <2>2, <2>3
  <1>6. x \in 0 .. Len(all) /\ Fits(Trim(all)) /\ (x > 0 => ~ Fits(From(all, x)))
    BY <1>2, ExcessIsLeast
  <1> HIDE DEF m, all, x
  <1>7. \A k \in 1 .. Len(all) + 1 : From(all, k) = From(m, d + k)
    <2> TAKE k \in 1 .. Len(all) + 1
    <2>1. From(From(m, d + 1), k) = From(m, (d + 1) + k - 1)
      BY <1>2, <1>3, <1>4, FromOfFrom
    <2>2. (d + 1) + k - 1 = d + k
      OBVIOUS
    <2>3. QED
      BY <1>3, <2>1, <2>2
  <1>8. Trim(all) = From(m, (d + x) + 1)
    <2>1. Trim(all) = From(all, x + 1)
      BY DEF Trim, x
    <2>2. x + 1 \in 1 .. Len(all) + 1 /\ d + (x + 1) = (d + x) + 1
      BY <1>5, <1>6
    <2>3. QED
      BY <1>7, <2>1, <2>2
  <1>9. Trim(all) \in Seq(Event)
    <2>1. (d + x) + 1 \in 1 .. Len(m) + 1
      BY <1>5, <1>6, <1>2, <1>1
    <2>2. QED
      BY <1>2, <1>8, <2>1, FromProperties
  <1>10. d + x \in 0 .. Len(m)
    BY <1>1, <1>2, <1>5, <1>6
  <1>11. d + x > 0 => ~ Fits(From(m, d + x))
    <2>1. ASSUME x > 0
          PROVE  ~ Fits(From(m, d + x))
      <3>1. x \in 1 .. Len(all) + 1
        BY <1>5, <1>6, <2>1
      <3>2. QED
        BY <1>6, <1>7, <2>1, <3>1
    <2>2. ASSUME x = 0, d > 0
          PROVE  ~ Fits(From(m, d))
      <3>1. d \in 1 .. Len(l) + 1
        BY <1>1, <2>2
      <3>2. From(l, d) \in Seq(Event)
        BY <3>1, FromProperties
      <3>3. From(m, d) = Append(From(l, d), e)
        BY <3>1, FromOfAppend DEF m
      <3>4. ~ Fits(From(l, d))
        BY <2>2 DEF Window
      <3>5. QED
        BY <3>2, <3>3, <3>4, MoreDoesNotFit
    <2>3. QED
      BY <1>6, <2>1, <2>2
  <1>12. Window(Trim(all), m, d + x)
    BY <1>8, <1>10, <1>11 DEF Window
  <1>13. QED
    BY <1>5, <1>6, <1>9, <1>12 DEF m, all, x

\* Where the rest of a window begins, when event i has seq i - 1.
LEMMA RestOfWindow ==
  ASSUME NEW l \in Seq(Event), NEW ev \in Seq(Event), NEW d \in Nat,
         Window(ev, l, d), \A i \in DOMAIN l : l[i].seq = i - 1,
         NEW a \in d - 1 .. Len(l) - 1
  PROVE  From(ev, Cardinality({i \in DOMAIN ev : ev[i].seq <= a}) + 1)
           = From(l, a + 2)
  <1> DEFINE c == a + 1 - d
             seen == {i \in DOMAIN ev : ev[i].seq <= a}
  <1>1. Len(l) \in Nat /\ DOMAIN l = 1 .. Len(l) /\ d + 1 \in 1 .. Len(l) + 1
    BY LenProperties DEF Window
  <1>2. /\ Len(ev) = Len(l) - d /\ DOMAIN ev = 1 .. Len(ev)
        /\ \A j \in 1 .. Len(ev) : ev[j] = l[d + j]
    <2>1. /\ Len(ev) = Len(l) - (d + 1) + 1
          /\ \A j \in 1 .. Len(l) - (d + 1) + 1 : ev[j] = l[d + 1 + j - 1]
      BY <1>1, FromProperties DEF Window
    <2>2. DOMAIN ev = 1 .. Len(ev)
      BY LenProperties
    <2>3. Len(l) - (d + 1) + 1 = Len(l) - d
      BY <1>1
    <2>4. \A j \in 1 .. Len(ev) : d + 1 + j - 1 = d + j
      OBVIOUS
    <2>5. QED
      BY <2>1, <2>2, <2>3, <2>4
  <1>3. \A j \in 1 .. Len(ev) : ev[j].seq = d + j - 1
    <2> TAKE j \in 1 .. Len(ev)
    <2>1. d + j \in DOMAIN l
      BY <1>1, <1>2
    <2>2. l[d + j].seq = d + j - 1
      BY <2>1
    <2>3. QED
      BY <1>2, <2>2
  <1>4. c \in 0 .. Len(ev)
    BY <1>1, <1>2
  <1>5. seen = 1 .. c
    <2>1. \A j \in 1 .. Len(ev) : ev[j].seq <= a <=> j <= c
      BY <1>3
    <2>2. QED
      BY <1>2, <1>4, <2>1
  <1>6. Cardinality(seen) = c
    <2> HIDE DEF c, seen
    <2>1. c \in Nat
      BY <1>2, <1>4
    <2>2. Cardinality(1 .. c) = IF 1 > c THEN 0 ELSE c - 1 + 1
      BY <2>1, FS_Interval
    <2>3. QED
      BY <1>5, <2>1, <2>2
  <1>7. From(ev, c + 1) = From(l, a + 2)
    <2> DEFINE k == c + 1
    <2>1. k \in 1 .. Len(ev) + 1
      BY <1>2, <1>4
    <2>2. From(From(l, d + 1), k) = From(l, (d + 1) + k - 1)
      <3> HIDE DEF k
      <3>1. QED
        BY <1>1, <2>1, FromOfFrom DEF Window
    <2>3. (d + 1) + k - 1 = a + 2
      OBVIOUS
    <2>4. QED
      BY <2>2, <2>3 DEF Window
  <1>8. QED
    BY <1>6, <1>7

-----------------------------------------------------------------------------
(* What the operations do to a row.                                         *)

\* The row is written: it keeps its owner, its
\* counters and thereby its events.
Rewritten(r, s) ==
  /\ s \in Row
  /\ s.owner = r.owner /\ s.nextSeq = r.nextSeq /\ s.dropped = r.dropped

\* create_task and reconcile_incomplete keep them,
LEMMA RestartedIsRewritten ==
  ASSUME NEW r \in Row
  PROVE  Rewritten(r, Restarted(r)) /\ Rewritten(r, Reconciled(r))
  <1>1. Rewritten(r, Restarted(r))
    BY DEF Rewritten, Restarted, Row, Statuses, Results
  <1>2. Rewritten(r, Reconciled(r))
    BY DEF Rewritten, Reconciled, Row, Statuses, Results
  <1>3. QED
    BY <1>1, <1>2

\* so does set_status,
LEMMA UpdatedIsRewritten ==
  ASSUME NEW r \in Row, NEW u \in StatusUpdates
  PROVE  Rewritten(r, Updated(r, u.status, u.result, u.approvals, None))
  <1>1. /\ u.status \in Statuses /\ u.result \in Results \cup {None}
        /\ u.approvals \in (SUBSET ApprovalIds) \cup {None}
    <2>1. CASE \E A \in SUBSET ApprovalIds :
                 u = [status |-> "waiting_for_approval", result |-> None,
                      approvals |-> A]
      BY <2>1 DEF Statuses
    <2>2. CASE u \in
            {[status |-> "started", result |-> None, approvals |-> {}],
             [status |-> "running", result |-> None, approvals |-> None],
             [status |-> "completed", result |-> "answer", approvals |-> {}],
             [status |-> "error", result |-> "failure", approvals |-> {}],
             [status |-> "interrupted", result |-> "shutdown",
              approvals |-> None]}
      <3>1. /\ u.status \in {"started", "running", "completed", "error",
                              "interrupted"}
            /\ u.result \in {None, "answer", "failure", "shutdown"}
            /\ u.approvals \in {None, {}}
        BY <2>2
      <3>2. QED
        BY <3>1 DEF Statuses, Results
    <2>3. QED
      BY <2>1, <2>2 DEF StatusUpdates
  <1>2. QED
    BY <1>1 DEF Rewritten, Updated, Row

\* and append_event, but for its counting.
LEMMA EventIsRewritten ==
  ASSUME NEW r \in Row, NEW k, NEW q \in SUBSET ApprovalIds
  PROVE  Rewritten(r, AfterEvent(r, k, q))
  BY DEF Rewritten, AfterEvent, ResumesTask, Row, Statuses, Results

\* A row of a thread that has none.
LEMMA NewRowIsRow ==
  ASSUME NEW at \in Nat, NEW o \in Owners, NEW x \in {"idle", "started"}
  PROVE  /\ NewRow(o, x, at) \in Row
         /\ NewRow(o, x, at).owner = o
         /\ NewRow(o, x, at).nextSeq = 0 /\ NewRow(o, x, at).dropped = 0
         /\ NewRow(o, x, at).updatedAt = at
  BY DEF NewRow, Row, Statuses, Results

\* A row is stamped with the time its writer read.
LEMMA StampedIsRewritten ==
  ASSUME NEW at \in Nat, NEW r, NEW s, Rewritten(r, s)
  PROVE  /\ Rewritten(r, [s EXCEPT !.updatedAt = at])
         /\ [s EXCEPT !.updatedAt = at].updatedAt = at
  <1>1. s \in Row
    BY DEF Rewritten
  <1>2. /\ [s EXCEPT !.updatedAt = at] \in Row
        /\ [s EXCEPT !.updatedAt = at].owner = s.owner
        /\ [s EXCEPT !.updatedAt = at].nextSeq = s.nextSeq
        /\ [s EXCEPT !.updatedAt = at].dropped = s.dropped
        /\ [s EXCEPT !.updatedAt = at].updatedAt = at
    BY <1>1 DEF Row
  <1>3. QED
    BY <1>2 DEF Rewritten

\* An event is counted: next_seq, dropped_events and updated_at move.
EventCounted(r, s, n) ==
  /\ s \in Row
  /\ s.owner = r.owner
  /\ s.nextSeq = r.nextSeq + 1 /\ s.dropped = r.dropped + n
  /\ s.updatedAt = now

\* append_event counts it.
LEMMA AppendCounts ==
  ASSUME now \in Nat, NEW r \in Row, NEW k, NEW q \in SUBSET ApprovalIds,
         NEW n \in Nat
  PROVE  EventCounted(r, Counted(AfterEvent(r, k, q), r.nextSeq, n), n)
  <1> DEFINE s == AfterEvent(r, k, q)
             i == r.nextSeq
  <1>1. s \in Row /\ s.owner = r.owner /\ s.dropped = r.dropped
    BY EventIsRewritten DEF Rewritten
  <1> HIDE DEF s
  <1>2. i \in Nat
    BY DEF Row
  <1> HIDE DEF i
  <1>3. i + 1 \in Nat /\ s.dropped + n \in Nat
    BY <1>1, <1>2 DEF Row
  <1>4. Counted(s, i, n) = [s EXCEPT !.nextSeq = i + 1,
                                     !.dropped = s.dropped + n,
                                     !.updatedAt = now]
    BY <1>1 DEF Counted, Row
  <1>5. /\ Counted(s, i, n) \in Row /\ Counted(s, i, n).owner = s.owner
        /\ Counted(s, i, n).nextSeq = i + 1
        /\ Counted(s, i, n).dropped = s.dropped + n
        /\ Counted(s, i, n).updatedAt = now
    BY <1>1, <1>3, <1>4 DEF Row
  <1>6. EventCounted(r, Counted(s, i, n), n)
    BY <1>1, <1>5 DEF EventCounted, i
  <1>7. QED
    BY <1>6 DEF s, i

-----------------------------------------------------------------------------
(* The invariant: the windows; a thread without a row has nothing; and no   *)
(* row is older than the last event of its thread but for a wait.           *)

NothingLeft(t) ==
  /\ events[t] = <<>> /\ log[t] = <<>>
  /\ consumed[t] = {}

\* One thread's part of it.
Kept(t) ==
  /\ \A i \in DOMAIN log[t] : log[t][i].seq = i - 1
  /\ Fits(events[t])
  /\ lastEvent[t] <= now
  /\ IF Exists(t)
     THEN /\ tasks[t].nextSeq = Len(log[t])
          /\ Window(events[t], log[t], tasks[t].dropped)
          /\ lastEvent[t] <= tasks[t].updatedAt + MaxWait
     ELSE NothingLeft(t)

StoreInv == TypeOK /\ \A t \in Threads : Kept(t)

\* A reading of the clock is a time, and not older than a wait.
LEMMA ReadingType ==
  ASSUME now \in Nat, NEW at \in Readings
  PROVE  at \in Nat /\ at <= now /\ now <= at + MaxWait /\ MaxWait \in Nat
  <1>1. MaxWait \in Nat
    BY LimitsArePositive DEF ValidLimits
  <1>2. QED
    BY <1>1 DEF Readings

\* A row that is there has its type.
LEMMA RowType ==
  ASSUME TypeOK, NEW t \in Threads, Exists(t)
  PROVE  tasks[t] \in Row
  BY DEF TypeOK, Exists

\* At the start there is nothing.
LEMMA InitStore == Init => StoreInv
  <1> SUFFICES ASSUME Init
               PROVE  StoreInv
    OBVIOUS
  <1>1. TypeOK
    BY DEF Init, TypeOK
  <1>2. ASSUME NEW t \in Threads
        PROVE  Kept(t)
    <2>1. NothingLeft(t) /\ ~ Exists(t) /\ lastEvent[t] <= now
      BY <1>2 DEF Init, NothingLeft, Exists
    <2>2. Fits(events[t])
      BY <2>1, NothingFits DEF NothingLeft
    <2>3. DOMAIN log[t] = {}
      BY <2>1 DEF NothingLeft
    <2>4. QED
      BY <2>1, <2>2, <2>3 DEF Kept
  <1>3. QED
    BY <1>1, <1>2 DEF StoreInv

\* What create_task, claim_thread, set_status and reconcile_incomplete do to
\* the rows: they insert one or write some, with the time they read.
RowsWritten ==
  /\ tasks' \in [Threads -> Row \cup {None}]
  /\ \A t \in Threads :
       \/ tasks'[t] = tasks[t]
       \/ /\ Exists(t) /\ Rewritten(tasks[t], tasks'[t])
          /\ tasks'[t].updatedAt \in Readings
       \/ /\ ~ Exists(t) /\ tasks'[t] \in Row
          /\ tasks'[t].nextSeq = 0 /\ tasks'[t].dropped = 0
          /\ tasks'[t].updatedAt \in Readings

\* Each of the four does: create_task,
LEMMA CreateWrites ==
  ASSUME TypeOK, NEW t \in Threads, NEW o \in Owners, NEW at \in Readings,
         CreateTask(t, o, at)
  PROVE  RowsWritten
  <1>1. at \in Nat /\ tasks \in [Threads -> Row \cup {None}]
    BY ReadingType DEF TypeOK
  <1>2. tasks' = [tasks EXCEPT ![t] = RowStarted(t, o, at)]
    BY DEF CreateTask
  <1>3. tasks'[t] = RowStarted(t, o, at) /\ \A u \in Threads : u # t => tasks'[u] = tasks[u]
    BY <1>1, <1>2
  <1>4. ASSUME Exists(t)
        PROVE  Rewritten(tasks[t], tasks'[t]) /\ tasks'[t].updatedAt = at
    <2>1. Rewritten(tasks[t], Restarted(tasks[t]))
      BY <1>4, RowType, RestartedIsRewritten
    <2>2. tasks'[t] = [Restarted(tasks[t]) EXCEPT !.updatedAt = at]
      BY <1>3, <1>4 DEF RowStarted
    <2>3. QED
      BY <1>1, <2>1, <2>2, StampedIsRewritten
  <1>5. ASSUME ~ Exists(t)
        PROVE  /\ tasks'[t] \in Row
               /\ tasks'[t].nextSeq = 0 /\ tasks'[t].dropped = 0
               /\ tasks'[t].updatedAt = at
    BY <1>1, <1>3, <1>5, NewRowIsRow DEF RowStarted
  <1>6. tasks'[t] \in Row
    BY <1>4, <1>5 DEF Rewritten
  <1>7. tasks' \in [Threads -> Row \cup {None}]
    BY <1>1, <1>2, <1>3, <1>6
  <1>8. QED
    BY <1>3, <1>4, <1>5, <1>7 DEF RowsWritten

\* claim_thread,
LEMMA ClaimWrites ==
  ASSUME TypeOK, NEW t \in Threads, NEW o \in Owners, NEW at \in Readings,
         ClaimThread(t, o, at)
  PROVE  RowsWritten
  <1>1. at \in Nat /\ tasks \in [Threads -> Row \cup {None}]
    BY ReadingType DEF TypeOK
  <1>2. tasks' = [tasks EXCEPT ![t] = NewRow(o, "idle", at)] /\ ~ Exists(t)
    BY DEF ClaimThread
  <1>3. /\ NewRow(o, "idle", at) \in Row
        /\ NewRow(o, "idle", at).nextSeq = 0 /\ NewRow(o, "idle", at).dropped = 0
        /\ NewRow(o, "idle", at).updatedAt = at
    BY <1>1, NewRowIsRow
  <1>4. QED
    BY <1>1, <1>2, <1>3 DEF RowsWritten

\* set_status,
LEMMA SetStatusWrites ==
  ASSUME TypeOK, NEW t \in Threads, NEW u \in StatusUpdates, NEW at \in Readings,
         SetStatus(t, u, at)
  PROVE  RowsWritten
  <1> DEFINE s == Updated(tasks[t], u.status, u.result, u.approvals, None)
             w == [s EXCEPT !.updatedAt = at]
  <1>1. at \in Nat /\ tasks \in [Threads -> Row \cup {None}] /\ Exists(t)
    BY ReadingType DEF TypeOK, SetStatus
  <1>2. Rewritten(tasks[t], s)
    BY <1>1, RowType, UpdatedIsRewritten
  <1> HIDE DEF s
  <1>3. Rewritten(tasks[t], w) /\ w.updatedAt = at
    BY <1>1, <1>2, StampedIsRewritten
  <1>4. tasks' = [tasks EXCEPT ![t] = w]
    BY DEF SetStatus, s
  <1> HIDE DEF w
  <1>5. w \in Row
    BY <1>3 DEF Rewritten
  <1>6. QED
    BY <1>1, <1>3, <1>4, <1>5 DEF RowsWritten

\* reconcile_incomplete.
LEMMA ReconcileWrites ==
  ASSUME TypeOK, NEW at \in Readings, ReconcileIncomplete(at)
  PROVE  RowsWritten
  <1> DEFINE w(t) == [Reconciled(tasks[t]) EXCEPT !.updatedAt = at]
             rewrites(t) == Exists(t) /\ tasks[t].status \in Incomplete
  <1>1. at \in Nat /\ tasks \in [Threads -> Row \cup {None}]
    BY ReadingType DEF TypeOK
  <1>2. tasks' = [t \in Threads |-> IF rewrites(t) THEN w(t) ELSE tasks[t]]
    BY DEF ReconcileIncomplete
  <1>3. ASSUME NEW t \in Threads, rewrites(t)
        PROVE  Rewritten(tasks[t], w(t)) /\ w(t).updatedAt = at /\ w(t) \in Row
    <2>1. Rewritten(tasks[t], Reconciled(tasks[t]))
      BY <1>3, RowType, RestartedIsRewritten
    <2>2. Rewritten(tasks[t], w(t)) /\ w(t).updatedAt = at
      BY <1>1, <2>1, StampedIsRewritten
    <2>3. QED
      BY <2>2 DEF Rewritten
  <1>4. \A t \in Threads : rewrites(t) => Exists(t)
    OBVIOUS
  <1> HIDE DEF w, rewrites
  <1>5. QED
    BY <1>1, <1>2, <1>3, <1>4 DEF RowsWritten

-----------------------------------------------------------------------------
(* Every operation keeps the invariant.                                     *)

\* A row that is written or inserted.
LEMMA WrittenKeeps ==
  ASSUME StoreInv, RowsWritten, UNCHANGED <<now, eventVars, consumed>>
  PROVE  StoreInv'
  <1>1. /\ now' = now /\ events' = events /\ log' = log
        /\ lastEvent' = lastEvent /\ consumed' = consumed
    BY DEF eventVars
  <1>2. TypeOK'
    BY <1>1 DEF StoreInv, TypeOK, RowsWritten
  <1>3. ASSUME NEW t \in Threads
        PROVE  Kept(t)'
    <2>1. Kept(t) /\ now \in Nat /\ lastEvent[t] \in Nat
      BY DEF StoreInv, TypeOK
    <2>2. CASE tasks'[t] = tasks[t]
      BY <1>1, <2>1, <2>2 DEF Kept, Exists, NothingLeft
    <2> DEFINE at == tasks'[t].updatedAt
    <2>6. at \in Readings => lastEvent[t] <= at + MaxWait
      <3> HIDE DEF at
      <3> SUFFICES ASSUME at \in Readings
                   PROVE  lastEvent[t] <= at + MaxWait
        OBVIOUS
      <3>1. at \in Nat /\ now <= at + MaxWait /\ MaxWait \in Nat
        BY <2>1, ReadingType
      <3>2. lastEvent[t] <= now
        BY <2>1 DEF Kept
      <3>3. QED
        BY <2>1, <3>1, <3>2
    <2>3. CASE /\ Exists(t) /\ Rewritten(tasks[t], tasks'[t])
               /\ tasks'[t].updatedAt \in Readings
      <3>1. tasks'[t] # None
        BY <2>3, NoneIsNoValue DEF Rewritten
      <3>2. /\ tasks'[t].nextSeq = tasks[t].nextSeq
            /\ tasks'[t].dropped = tasks[t].dropped
        BY <2>3 DEF Rewritten
      <3>3. QED
        BY <1>1, <2>1, <2>3, <2>6, <3>1, <3>2 DEF Kept, Exists
    <2>4. CASE /\ ~ Exists(t) /\ tasks'[t] \in Row
               /\ tasks'[t].nextSeq = 0 /\ tasks'[t].dropped = 0
               /\ tasks'[t].updatedAt \in Readings
      <3>1. tasks'[t] # None
        BY <2>4, NoneIsNoValue
      <3>2. events[t] = <<>> /\ log[t] = <<>>
        BY <2>1, <2>4 DEF Kept, NothingLeft
      <3>3. Len(<<>>) = 0 /\ <<>> \in Seq(Event)
        BY EmptySeq
      <3>4. From(<<>>, 1) = <<>>
        BY <3>3, FromEnds
      <3>5. Window(events[t], log[t], 0)
        BY <3>2, <3>3, <3>4 DEF Window
      <3>6. QED
        BY <1>1, <2>1, <2>4, <2>6, <3>1, <3>2, <3>3, <3>5 DEF Kept, Exists
    <2>5. QED
      BY <2>2, <2>3, <2>4 DEF RowsWritten
  <1>4. QED
    BY <1>2, <1>3 DEF StoreInv

\* What append_event does to its thread.
LEMMA AppendFacts ==
  ASSUME StoreInv, NEW t \in Threads, NEW k \in Kinds, NEW b \in Sizes,
         NEW q \in SUBSET ApprovalIds, AppendEvent(t, k, q, b),
         NEW e, e = [kind |-> k, approvals |-> q, bytes |-> b,
                     seq |-> tasks[t].nextSeq],
         NEW x, x = Excess(Append(events[t], e))
  PROVE  /\ tasks[t] \in Row /\ e \in Event /\ x \in Nat
         /\ tasks'[t] \in Row
         /\ tasks'[t].owner = tasks[t].owner
         /\ tasks'[t].nextSeq = tasks[t].nextSeq + 1
         /\ tasks'[t].dropped = tasks[t].dropped + x
         /\ tasks'[t].updatedAt = now
         /\ \A u \in Threads : u # t => tasks'[u] = tasks[u]
         /\ log' = [log EXCEPT ![t] = Append(@, e)]
         /\ events' = [events EXCEPT ![t] = Trim(Append(events[t], e))]
         /\ Trim(Append(events[t], e)) \in Seq(Event)
         /\ Fits(Trim(Append(events[t], e)))
         /\ Window(Trim(Append(events[t], e)), Append(log[t], e),
                   tasks[t].dropped + x)
         /\ tasks' \in [Threads -> Row \cup {None}]
  <1>1. Exists(t) /\ TypeOK /\ Kept(t) /\ tasks[t] \in Row
    BY RowType DEF AppendEvent, StoreInv
  <1>2. now \in Nat /\ tasks[t].nextSeq \in Nat /\ tasks[t].dropped \in Nat
    BY <1>1 DEF TypeOK, Row
  <1>3. e \in Event
    BY <1>2 DEF Event
  <1>4. log[t] \in Seq(Event) /\ events[t] \in Seq(Event)
    BY <1>1 DEF TypeOK
  <1>5. Window(events[t], log[t], tasks[t].dropped)
    BY <1>1 DEF Kept
  <1>6. /\ x \in Nat
        /\ Trim(Append(events[t], e)) \in Seq(Event)
        /\ Fits(Trim(Append(events[t], e)))
        /\ Window(Trim(Append(events[t], e)), Append(log[t], e),
                  tasks[t].dropped + x)
    BY <1>2, <1>3, <1>4, <1>5, WindowMoves
  <1> DEFINE c == Counted(AfterEvent(tasks[t], k, q), tasks[t].nextSeq, x)
  <1>7. EventCounted(tasks[t], c, x)
    BY <1>1, <1>2, <1>6, AppendCounts
  <1>8. /\ tasks' = [tasks EXCEPT ![t] = c]
        /\ log' = [log EXCEPT ![t] = Append(@, e)]
        /\ events' = [events EXCEPT ![t] = Trim(Append(events[t], e))]
    BY DEF AppendEvent
  <1> HIDE DEF c
  <1>9. /\ c \in Row /\ c.owner = tasks[t].owner
        /\ c.nextSeq = tasks[t].nextSeq + 1
        /\ c.dropped = tasks[t].dropped + x /\ c.updatedAt = now
    BY <1>7 DEF EventCounted
  <1>10. tasks \in [Threads -> Row \cup {None}]
    BY <1>1 DEF TypeOK
  <1>11. /\ tasks' \in [Threads -> Row \cup {None}] /\ tasks'[t] = c
         /\ \A u \in Threads : u # t => tasks'[u] = tasks[u]
    BY <1>8, <1>9, <1>10
  <1>12. QED
    BY <1>1, <1>3, <1>6, <1>8, <1>9, <1>11

\* append_event keeps the window.
LEMMA AppendKeeps ==
  ASSUME StoreInv, NEW t \in Threads, NEW k \in Kinds, NEW b \in Sizes,
         NEW q \in SUBSET ApprovalIds, AppendEvent(t, k, q, b)
  PROVE  StoreInv'
  <1> DEFINE e == [kind |-> k, approvals |-> q, bytes |-> b,
                   seq |-> tasks[t].nextSeq]
             rest == Trim(Append(events[t], e))
             x == Excess(Append(events[t], e))
  <1>1. /\ tasks[t] \in Row /\ e \in Event /\ x \in Nat
        /\ tasks'[t] \in Row
        /\ tasks'[t].nextSeq = tasks[t].nextSeq + 1
        /\ tasks'[t].dropped = tasks[t].dropped + x
        /\ tasks'[t].updatedAt = now
        /\ \A u \in Threads : u # t => tasks'[u] = tasks[u]
        /\ log' = [log EXCEPT ![t] = Append(@, e)]
        /\ events' = [events EXCEPT ![t] = rest]
        /\ rest \in Seq(Event) /\ Fits(rest)
        /\ Window(rest, Append(log[t], e), tasks[t].dropped + x)
        /\ tasks' \in [Threads -> Row \cup {None}]
    BY AppendFacts
  <1>2. e.seq = tasks[t].nextSeq
    OBVIOUS
  <1>3. /\ now' = now /\ consumed' = consumed
        /\ lastEvent' = [lastEvent EXCEPT ![t] = now] /\ Exists(t)
    BY DEF AppendEvent
  <1> HIDE DEF e, rest, x
  <1>4. TypeOK /\ Kept(t) /\ log[t] \in Seq(Event)
    BY DEF StoreInv, TypeOK
  <1> DEFINE m == Append(log[t], e)
  <1>5. /\ m \in Seq(Event) /\ Len(m) = Len(log[t]) + 1
        /\ m[Len(log[t]) + 1] = e /\ DOMAIN m = 1 .. Len(m)
        /\ DOMAIN log[t] = 1 .. Len(log[t]) /\ Len(log[t]) \in Nat
        /\ \A i \in 1 .. Len(log[t]) : m[i] = log[t][i]
    BY <1>1, <1>4, AppendProperties, LenProperties
  <1> HIDE DEF m
  <1>6. /\ log' = [log EXCEPT ![t] = m]
        /\ Window(rest, m, tasks[t].dropped + x)
    BY <1>1 DEF m
  <1>7. TypeOK'
    BY <1>1, <1>3, <1>4, <1>5, <1>6 DEF TypeOK
  <1>8. /\ log'[t] = m /\ events'[t] = rest /\ lastEvent'[t] = now
        /\ \A u \in Threads : u # t =>
             log'[u] = log[u] /\ events'[u] = events[u] /\ lastEvent'[u] = lastEvent[u]
    BY <1>1, <1>3, <1>4, <1>6 DEF TypeOK
  <1>9. Kept(t)'
    <2>1. tasks[t].nextSeq = Len(log[t])
      BY <1>3, <1>4 DEF Kept
    <2>2. \A i \in DOMAIN m : m[i].seq = i - 1
      <3> TAKE i \in DOMAIN m
      <3>1. CASE i = Len(log[t]) + 1
        BY <1>2, <1>5, <2>1, <3>1
      <3>2. CASE i # Len(log[t]) + 1
        <4>1. i \in DOMAIN log[t]
          BY <1>5, <3>2
        <4>2. QED
          BY <1>4, <1>5, <4>1 DEF Kept
      <3>3. QED
        BY <3>1, <3>2
    <2>3. now' = now /\ now \in Nat /\ tasks'[t] # None
      BY <1>1, <1>3, <1>4, NoneIsNoValue DEF TypeOK
    <2>4. tasks'[t].nextSeq = Len(m)
      BY <1>1, <1>5, <2>1
    <2>5. Window(events'[t], log'[t], tasks'[t].dropped) /\ Fits(events'[t])
      BY <1>1, <1>6, <1>8
    <2>6. \A i \in DOMAIN log'[t] : log'[t][i].seq = i - 1
      BY <1>8, <2>2
    <2>7. /\ lastEvent'[t] <= now'
          /\ lastEvent'[t] <= tasks'[t].updatedAt + MaxWait
          /\ tasks'[t].nextSeq = Len(log'[t])
      BY <1>1, <1>8, <2>3, <2>4, LimitsArePositive DEF ValidLimits
    <2>8. QED
      BY <2>3, <2>5, <2>6, <2>7 DEF Kept, Exists
  <1>10. ASSUME NEW u \in Threads, u # t
         PROVE  Kept(u)'
    <2>1. Kept(u) /\ tasks'[u] = tasks[u]
      BY <1>1, <1>10 DEF StoreInv
    <2>2. QED
      BY <1>3, <1>8, <1>10, <2>1 DEF Kept, Exists, NothingLeft
  <1>11. QED
    BY <1>7, <1>9, <1>10 DEF StoreInv

\* Deleting rows.
LEMMA DeleteKeeps ==
  ASSUME StoreInv, NEW T \in SUBSET Threads, Delete(T)
  PROVE  StoreInv'
  <1>1. TypeOK'
    BY DEF StoreInv, TypeOK, Delete
  <1>2. ASSUME NEW t \in Threads, t \in T
        PROVE  Kept(t)'
    <2>1. NothingLeft(t)' /\ ~ Exists(t)' /\ lastEvent'[t] = 0 /\ now' = now
      BY <1>2 DEF Delete, NothingLeft, Exists
    <2>2. Fits(events'[t]) /\ DOMAIN log'[t] = {}
      BY <2>1, NothingFits DEF NothingLeft
    <2>3. lastEvent'[t] <= now'
      BY <2>1 DEF StoreInv, TypeOK
    <2>4. \A i \in DOMAIN log'[t] : log'[t][i].seq = i - 1
      BY <2>2
    <2>5. QED
      BY <2>1, <2>2, <2>3, <2>4 DEF Kept
  <1>3. ASSUME NEW t \in Threads, t \notin T
        PROVE  Kept(t)'
    <2>1. /\ tasks'[t] = tasks[t] /\ events'[t] = events[t] /\ log'[t] = log[t]
          /\ consumed'[t] = consumed[t]
          /\ lastEvent'[t] = lastEvent[t] /\ now' = now
      BY <1>3 DEF Delete
    <2>2. Kept(t)
      BY DEF StoreInv
    <2>3. QED
      BY <2>1, <2>2 DEF Kept, Exists, NothingLeft
  <1>4. QED
    BY <1>1, <1>2, <1>3 DEF StoreInv

\* consume_approval touches no events.
LEMMA ConsumeKeeps ==
  ASSUME StoreInv, NEW t \in Threads, NEW a \in ApprovalIds, ConsumeApproval(t, a)
  PROVE  StoreInv'
  <1>1. /\ Exists(t) /\ now' = now /\ tasks' = tasks /\ events' = events
        /\ log' = log /\ lastEvent' = lastEvent
        /\ consumed' = [consumed EXCEPT ![t] = @ \cup {a}]
    BY DEF ConsumeApproval, eventVars
  <1>2. consumed \in [Threads -> SUBSET ApprovalIds]
    BY DEF StoreInv, TypeOK
  <1>3. TypeOK'
    BY <1>1, <1>2 DEF StoreInv, TypeOK
  <1>4. ASSUME NEW u \in Threads
        PROVE  Kept(u)'
    <2>1. Kept(u)
      BY DEF StoreInv
    <2>2. u # t => consumed'[u] = consumed[u]
      BY <1>1, <1>2
    <2>3. QED
      BY <1>1, <2>1, <2>2 DEF Kept, Exists, NothingLeft
  <1>5. QED
    BY <1>3, <1>4 DEF StoreInv

\* The clock.
LEMMA TickKeeps ==
  ASSUME StoreInv, Tick
  PROVE  StoreInv'
  <1>1. /\ now' = now + 1 /\ tasks' = tasks /\ events' = events
        /\ log' = log /\ lastEvent' = lastEvent
        /\ consumed' = consumed
    BY DEF Tick, eventVars
  <1>2. TypeOK' /\ now \in Nat /\ lastEvent \in [Threads -> Nat]
    BY <1>1 DEF StoreInv, TypeOK
  <1>3. ASSUME NEW t \in Threads
        PROVE  Kept(t)'
    <2>1. Kept(t) /\ lastEvent[t] \in Nat
      BY <1>2 DEF StoreInv
    <2>2. lastEvent'[t] <= now'
      BY <1>1, <1>2, <2>1 DEF Kept
    <2>3. QED
      BY <1>1, <2>1, <2>2 DEF Kept, Exists, NothingLeft
  <1>4. QED
    BY <1>2, <1>3 DEF StoreInv

\* What an event carries is a set of approvals.
LEMMA CarriedType ==
  ASSUME NEW k, NEW q \in Carried(k)
  PROVE  q \in SUBSET ApprovalIds
  BY DEF Carried

\* So every step does.
LEMMA StoreStep == StoreInv /\ [Next]_vars => StoreInv'
  <1> SUFFICES ASSUME StoreInv, [Next]_vars
               PROVE  StoreInv'
    OBVIOUS
  <1>1. TypeOK
    BY DEF StoreInv
  <1>2. ASSUME NEW t \in Threads, NEW o \in Owners, NEW at \in Readings,
               CreateTask(t, o, at)
        PROVE  StoreInv'
    BY <1>1, <1>2, CreateWrites, WrittenKeeps DEF CreateTask
  <1>3. ASSUME NEW t \in Threads, NEW o \in Owners, NEW at \in Readings,
               ClaimThread(t, o, at)
        PROVE  StoreInv'
    BY <1>1, <1>3, ClaimWrites, WrittenKeeps DEF ClaimThread
  <1>4. ASSUME NEW t \in Threads, NEW u \in StatusUpdates, NEW at \in Readings,
               SetStatus(t, u, at)
        PROVE  StoreInv'
    BY <1>1, <1>4, SetStatusWrites, WrittenKeeps DEF SetStatus
  <1>5. ASSUME NEW t \in Threads, NEW k \in Kinds, NEW b \in Sizes,
               NEW q \in Carried(k), AppendEvent(t, k, q, b)
        PROVE  StoreInv'
    BY <1>5, CarriedType, AppendKeeps
  <1>6. ASSUME NEW t \in Threads, NEW a \in ApprovalIds, ConsumeApproval(t, a)
        PROVE  StoreInv'
    BY <1>6, ConsumeKeeps
  <1>7. ASSUME (\E at \in Readings : Cleanup(at)) \/ Clear
        PROVE  StoreInv'
    <2>1. PICK T \in SUBSET Threads : Delete(T)
      BY <1>7 DEF Cleanup, Clear
    <2>2. QED
      BY <2>1, DeleteKeeps
  <1>8. ASSUME NEW at \in Readings, ReconcileIncomplete(at)
        PROVE  StoreInv'
    BY <1>1, <1>8, ReconcileWrites, WrittenKeeps DEF ReconcileIncomplete
  <1>9. CASE Tick
    BY <1>9, TickKeeps
  <1>10. CASE UNCHANGED vars
    <2>1. /\ now' = now /\ tasks' = tasks /\ events' = events /\ log' = log
          /\ lastEvent' = lastEvent /\ consumed' = consumed
      BY <1>10 DEF vars
    <2>2. QED
      BY <2>1 DEF StoreInv, TypeOK, Kept, Exists, NothingLeft
  <1>11. QED
    BY <1>2, <1>3, <1>4, <1>5, <1>6, <1>7, <1>8, <1>9, <1>10 DEF Next

\* The invariant holds.
LEMMA StoreInvHolds == Spec => []StoreInv
  BY InitStore, StoreStep, PTL DEF Spec

-----------------------------------------------------------------------------
(* The theorems.                                                            *)

\* The stored events are the log without its oldest events, as many as
\* dropped_events says, within the limits and no fewer than need be
\* (append_event with _trim_events, and everything that touches the row).
THEOREM LogIsWindowIsInvariant == Spec => []LogIsWindow
  <1>1. StoreInv => LogIsWindow
    <2> SUFFICES ASSUME StoreInv
                 PROVE  LogIsWindow
      OBVIOUS
    <2>1. TypeOK /\ \A t \in Threads : Kept(t)
      BY DEF StoreInv
    <2>2. ASSUME NEW t \in Threads, Exists(t)
          PROVE  /\ tasks[t].nextSeq = Len(log[t])
                 /\ tasks[t].dropped <= Len(log[t])
                 /\ events[t] = From(log[t], tasks[t].dropped + 1)
                 /\ tasks[t].dropped > 0 => ~ Fits(From(log[t], tasks[t].dropped))
      BY <2>1, <2>2 DEF Kept, Window
    <2>3. \A t \in Threads : /\ \A i \in DOMAIN log[t] : log[t][i].seq = i - 1
                             /\ Fits(events[t])
      BY <2>1 DEF Kept
    <2>4. QED
      BY <2>1, <2>2, <2>3 DEF LogIsWindow
  <1>2. QED
    BY <1>1, StoreInvHolds, PTL

\* Replay after the last event a reader has gives it the whole log, unless
\* first_available_seq shows the reader a gap (get_task and replay).
THEOREM ReplayCompletesIsInvariant == Spec => []ReplayCompletes
  <1>1. StoreInv => ReplayCompletes
    <2> SUFFICES ASSUME StoreInv
                 PROVE  ReplayCompletes
      OBVIOUS
    <2>0. ASSUME NEW u \in Threads, Exists(u)
          PROVE  FirstAvailable(u) \in Int
      <3>1. TypeOK /\ tasks[u] \in Row
        BY <2>0, RowType DEF StoreInv
      <3>2. tasks[u].nextSeq \in Nat /\ events[u] \in Seq(Event)
        BY <3>1 DEF TypeOK, Row
      <3>3. events[u] # <<>> => events[u][1] \in Event
        <4>1. events[u] # <<>> => 1 \in 1 .. Len(events[u])
          BY <3>2, EmptySeq
        <4>2. QED
          BY <3>2, <4>1, ElementOfSeq
      <3>4. QED
        BY <3>2, <3>3 DEF FirstAvailable, Event
    <2> SUFFICES ASSUME NEW t \in Threads, Exists(t),
                        NEW a \in -1 .. tasks[t].nextSeq - 1,
                        FirstAvailable(t) <= a + 1
                 PROVE  SubSeq(log[t], 1, a + 1) \o Replay(t, a) = log[t]
      BY <2>0 DEF ReplayCompletes
    <2>1. Kept(t) /\ TypeOK /\ tasks[t] \in Row
      BY RowType DEF StoreInv
    <2> DEFINE l == log[t]
               ev == events[t]
               d == tasks[t].dropped
    <2>2. l \in Seq(Event) /\ ev \in Seq(Event) /\ d \in Nat
      BY <2>1 DEF TypeOK, Row
    <2>3. /\ Window(ev, l, d) /\ \A i \in DOMAIN l : l[i].seq = i - 1
          /\ tasks[t].nextSeq = Len(l) /\ Len(l) \in Nat
      BY <2>1, <2>2 DEF Kept
    <2>4. FirstAvailable(t) = IF ev = <<>> THEN Len(l) ELSE ev[1].seq
      BY <2>3 DEF FirstAvailable
    <2>5. Replay(t, a)
            = From(ev, Cardinality({i \in DOMAIN ev : ev[i].seq <= a}) + 1)
      BY DEF Replay
    <2> HIDE DEF l, ev, d
    <2>6. d <= a + 1
      <3>1. d <= Len(l) /\ ev = From(l, d + 1) /\ d + 1 \in 1 .. Len(l) + 1
        BY <2>2, <2>3 DEF Window
      <3>2. CASE ev = <<>>
        BY <2>2, <2>3, <2>4, <3>1, <3>2
      <3>3. CASE ev # <<>>
        <4>1. /\ Len(ev) = Len(l) - (d + 1) + 1
              /\ \A j \in 1 .. Len(l) - (d + 1) + 1 : ev[j] = l[d + 1 + j - 1]
          BY <2>2, <3>1, FromProperties
        <4>2. Len(ev) \in Nat \ {0}
          BY <2>2, <3>3, EmptySeq
        <4>3. 1 \in 1 .. Len(l) - (d + 1) + 1 /\ d + 1 + 1 - 1 = d + 1
          BY <2>2, <2>3, <4>1, <4>2
        <4>4. ev[1] = l[d + 1] /\ d + 1 \in 1 .. Len(l)
          <5>1. ev[1] = l[d + 1 + 1 - 1]
            BY <4>1, <4>3
          <5>2. QED
            BY <2>2, <2>3, <4>1, <4>2, <4>3, <5>1
        <4>5. d + 1 \in DOMAIN l
          BY <2>2, <4>4, LenProperties
        <4>6. ev[1].seq = d
          BY <2>2, <2>3, <4>4, <4>5
        <4>7. QED
          BY <2>4, <3>3, <4>6
      <3>4. QED
        BY <3>2, <3>3
    <2>7. a \in d - 1 .. Len(l) - 1
      BY <2>2, <2>3, <2>6
    <2>8. Replay(t, a) = From(l, a + 2)
      BY <2>2, <2>3, <2>5, <2>7, RestOfWindow
    <2> DEFINE k == a + 1
               n == Len(l)
    <2>9. /\ 1 \in 1 .. Len(l) + 1 /\ k \in 1 - 1 .. Len(l) /\ n \in k .. Len(l)
          /\ a + 2 = k + 1 /\ k \in Nat
      BY <2>2, <2>3, <2>7
    <2>10. SubSeq(l, 1, k) \o SubSeq(l, k + 1, n) = SubSeq(l, 1, n)
      <3> HIDE DEF k, n
      <3>1. QED
        BY <2>2, <2>9, ConcatAdjacentSubSeq
    <2>11. SubSeq(l, 1, n) = l
      BY <2>2, FromEnds DEF From
    <2>12. SubSeq(l, 1, a + 1) \o Replay(t, a) = l
      BY <2>8, <2>9, <2>10, <2>11 DEF From
    <2>13. QED
      BY <2>12 DEF l
  <1>2. QED
    BY <1>1, StoreInvHolds, PTL

\* A cleanup never takes the log of a thread with an event within the TTL,
\* but for the wait of a call that stamps the row after the event; nor one that
\* waits for an approval or has a task under way (cleanup: every append stamps
\* the row, and set_status with a time read before it took the lock).
THEOREM CleanupKeepsRecentHistory == Spec => RecentHistoryKept
  <1>1. ASSUME StoreInv, NEW at \in Readings, Cleanup(at),
               NEW t \in Threads, Exists(t), ~ Exists(t)'
        PROVE  /\ now - lastEvent[t] > TTL - MaxWait
               /\ tasks[t].status \notin Incomplete \cup {"waiting_for_approval"}
    <2>1. Stale(tasks[t], at)
      BY <1>1 DEF Cleanup, Delete, Exists
    <2>2. Kept(t) /\ TypeOK /\ tasks[t] \in Row
      BY <1>1, RowType DEF StoreInv
    <2>3. /\ now \in Nat /\ lastEvent[t] \in Nat /\ tasks[t].updatedAt \in Nat
          /\ TTL \in Nat /\ MaxWait \in Nat /\ at \in Nat /\ at <= now
      BY <1>1, <2>2, LimitsArePositive, ReadingType DEF TypeOK, Row, ValidLimits
    <2>4. /\ lastEvent[t] <= tasks[t].updatedAt + MaxWait
          /\ tasks[t].updatedAt < at - TTL
      BY <1>1, <2>1, <2>2 DEF Kept, Stale
    <2>5. tasks[t].status \in Disposable
      BY <2>1 DEF Stale
    <2>6. now - lastEvent[t] > TTL - MaxWait
      BY <2>3, <2>4
    <2>7. QED
      BY <2>5, <2>6 DEF Disposable, Incomplete
  <1> DEFINE Spared ==
        (\E at \in Readings : Cleanup(at)) => \A t \in Threads :
          Exists(t) /\ ~ Exists(t)' =>
            /\ log[t] # <<>> => now - lastEvent[t] > TTL - MaxWait
            /\ tasks[t].status \notin Incomplete \cup {"waiting_for_approval"}
  <1>2. StoreInv /\ [Next]_vars => [Spared]_vars
    BY <1>1
  <1>3. Spec => [][Spared]_vars
    <2> HIDE DEF Spared
    <2>1. QED
      BY <1>2, StoreInvHolds, PTL DEF Spec
  <1>4. QED
    BY <1>3 DEF RecentHistoryKept

-----------------------------------------------------------------------------
(* The tables implement the replay log.                                     *)

\* What it sees of the tables.
OwnerOf == [t \in Threads |-> IF Exists(t) THEN tasks[t].owner ELSE None]
FirstOf == [t \in Threads |-> IF Exists(t) THEN tasks[t].dropped ELSE 0]
seen == <<OwnerOf, log, FirstOf, consumed>>

\* A row that is written shows it nothing new.
LEMMA WrittenIsUnseen ==
  ASSUME RowsWritten, UNCHANGED <<eventVars, consumed>>,
         \A t \in Threads : Exists(t) \/ tasks'[t] = tasks[t]
  PROVE  UNCHANGED seen
  <1>1. ASSUME NEW t \in Threads
        PROVE  /\ Exists(t)' <=> Exists(t)
               /\ Exists(t) => /\ tasks'[t].owner = tasks[t].owner
                               /\ tasks'[t].dropped = tasks[t].dropped
    <2>1. CASE tasks'[t] = tasks[t]
      BY <2>1 DEF Exists
    <2>2. CASE tasks'[t] # tasks[t]
      <3>1. Exists(t) /\ Rewritten(tasks[t], tasks'[t])
        BY <2>2 DEF RowsWritten
      <3>2. QED
        BY <3>1, NoneIsNoValue DEF Rewritten, Exists
    <2>3. QED
      BY <2>1, <2>2
  <1>2. OwnerOf' = OwnerOf /\ FirstOf' = FirstOf
    BY <1>1 DEF OwnerOf, FirstOf
  <1>3. QED
    BY <1>2 DEF seen, eventVars

\* A row that is inserted claims its thread.
LEMMA InsertClaims ==
  ASSUME NEW t \in Threads, NEW o \in Owners, NEW x \in {"idle", "started"},
         NEW at \in Readings, TypeOK, ~ Exists(t),
         tasks' = [tasks EXCEPT ![t] = NewRow(o, x, at)],
         UNCHANGED <<eventVars, consumed>>
  PROVE  Replayable!Claim(t, o)
  <1>1. at \in Nat /\ tasks \in [Threads -> Row \cup {None}]
    BY ReadingType DEF TypeOK
  <1>2. /\ NewRow(o, x, at) \in Row /\ NewRow(o, x, at).owner = o
        /\ NewRow(o, x, at).dropped = 0
    BY <1>1, NewRowIsRow
  <1>3. /\ tasks'[t] # None /\ tasks'[t].owner = o /\ tasks'[t].dropped = 0
        /\ \A u \in Threads : u # t => tasks'[u] = tasks[u]
    BY <1>1, <1>2, NoneIsNoValue
  <1>4. OwnerOf[t] = None /\ FirstOf[t] = 0
    BY DEF OwnerOf, FirstOf
  <1>5. OwnerOf' = [OwnerOf EXCEPT ![t] = o]
    <2>1. \A u \in Threads :
            (IF tasks'[u] # None THEN tasks'[u].owner ELSE None)
              = IF u = t THEN o
                ELSE IF tasks[u] # None THEN tasks[u].owner ELSE None
      BY <1>3
    <2>2. OwnerOf' = [u \in Threads |->
                        IF tasks'[u] # None THEN tasks'[u].owner ELSE None]
      BY DEF OwnerOf, Exists
    <2>3. OwnerOf = [u \in Threads |->
                       IF tasks[u] # None THEN tasks[u].owner ELSE None]
      BY DEF OwnerOf, Exists
    <2>4. QED
      BY <2>1, <2>2, <2>3
  <1>6. FirstOf' = FirstOf
    BY <1>3 DEF FirstOf, Exists
  <1>7. QED
    BY <1>4, <1>5, <1>6 DEF Replayable!Claim, OwnerOf, FirstOf, eventVars

\* An event that is appended is recorded.
LEMMA AppendRecords ==
  ASSUME StoreInv, NEW t \in Threads, NEW k \in Kinds, NEW b \in Sizes,
         NEW q \in SUBSET ApprovalIds, AppendEvent(t, k, q, b),
         NEW e, e = [kind |-> k, approvals |-> q, bytes |-> b,
                     seq |-> tasks[t].nextSeq],
         NEW n, n = tasks[t].dropped + Excess(Append(events[t], e))
  PROVE  /\ e \in AllEvents /\ n \in 0 .. Len(log[t]) + 1
         /\ Replayable!Record(t, e, n)
  <1> DEFINE x == Excess(Append(events[t], e))
  <1>1. /\ tasks[t] \in Row /\ e \in Event /\ x \in Nat
        /\ tasks'[t] \in Row
        /\ tasks'[t].owner = tasks[t].owner
        /\ tasks'[t].dropped = tasks[t].dropped + x
        /\ \A u \in Threads : u # t => tasks'[u] = tasks[u]
        /\ log' = [log EXCEPT ![t] = Append(@, e)]
        /\ Window(Trim(Append(events[t], e)), Append(log[t], e),
                  tasks[t].dropped + x)
    BY AppendFacts
  <1>2. e \in AllEvents
    <2>1. tasks[t].nextSeq < MaxSeq /\ MaxSeq \in Nat /\ tasks[t].nextSeq \in Nat
      BY <1>1, LimitsArePositive DEF AppendEvent, ValidLimits, Row
    <2>2. tasks[t].nextSeq \in 0 .. MaxSeq
      BY <2>1
    <2>3. QED
      BY <2>2 DEF AllEvents
  <1>3. consumed' = consumed /\ Exists(t)
    BY DEF AppendEvent
  <1> HIDE DEF x
  <1>4. n \in 0 .. Len(log[t]) + 1 /\ tasks[t].dropped <= n
    <2>1. log[t] \in Seq(Event) /\ tasks[t].dropped \in Nat
      BY <1>1 DEF StoreInv, TypeOK, Row
    <2>2. Len(Append(log[t], e)) = Len(log[t]) + 1 /\ Len(log[t]) \in Nat
      BY <1>1, <2>1, AppendProperties
    <2>3. n = tasks[t].dropped + x /\ n \in 0 .. Len(Append(log[t], e))
      BY <1>1 DEF Window, x
    <2>4. QED
      BY <1>1, <2>1, <2>2, <2>3
  <1>5. n \in Nat /\ n <= Len(log[t]) + 1
    BY <1>4 DEF StoreInv, TypeOK
  <1>6. tasks'[t].dropped = n
    BY <1>1 DEF x
  <1>7. OwnerOf[t] # None /\ FirstOf[t] = tasks[t].dropped
    BY <1>1, <1>3, NoneIsNoValue DEF OwnerOf, FirstOf, Row
  <1>8. tasks'[t] # None
    BY <1>1, NoneIsNoValue
  <1>9. OwnerOf' = OwnerOf
    BY <1>1, <1>3, <1>8 DEF OwnerOf, Exists
  <1>10. FirstOf' = [FirstOf EXCEPT ![t] = n]
    BY <1>1, <1>6, <1>8 DEF FirstOf, Exists
  <1>11. Replayable!Record(t, e, n)
    BY <1>1, <1>3, <1>4, <1>5, <1>7, <1>9, <1>10
       DEF Replayable!Record, OwnerOf, FirstOf
  <1>12. QED
    BY <1>2, <1>4, <1>11

\* An approval that is granted is spent.
LEMMA ConsumeSpends ==
  ASSUME TypeOK, NEW t \in Threads, NEW a \in ApprovalIds, ConsumeApproval(t, a)
  PROVE  Replayable!Spend(t, a)
  <1>1. /\ a \notin consumed[t] /\ Exists(t) /\ tasks' = tasks /\ log' = log
        /\ consumed' = [consumed EXCEPT ![t] = @ \cup {a}]
    BY DEF ConsumeApproval, eventVars
  <1>2. OwnerOf[t] # None
    BY <1>1, RowType, NoneIsNoValue DEF OwnerOf, Row
  <1>3. OwnerOf' = OwnerOf /\ FirstOf' = FirstOf
    BY <1>1 DEF OwnerOf, FirstOf, Exists
  <1>4. QED
    BY <1>1, <1>2, <1>3 DEF Replayable!Spend, OwnerOf, FirstOf

\* A thread whose row is deleted is forgotten.
LEMMA DeleteForgets ==
  ASSUME NEW T \in SUBSET Threads, Delete(T)
  PROVE  Replayable!Forget(T)
  <1>1. \A t \in Threads : Exists(t)' <=> t \notin T /\ Exists(t)
    BY DEF Delete, Exists
  <1>2. \A t \in Threads : t \notin T => tasks'[t] = tasks[t]
    BY DEF Delete
  <1>3. OwnerOf' = [t \in Threads |-> IF t \in T THEN None ELSE OwnerOf[t]]
    BY <1>1, <1>2 DEF OwnerOf
  <1>4. FirstOf' = [t \in Threads |-> IF t \in T THEN 0 ELSE FirstOf[t]]
    BY <1>1, <1>2 DEF FirstOf
  <1>5. QED
    BY <1>3, <1>4 DEF Replayable!Forget, Delete, OwnerOf, FirstOf

\* Every step is one of the replay log, or shows it nothing.
LEMMA StepIsReplayable ==
  StoreInv /\ [Next]_vars => Replayable!Next \/ UNCHANGED seen
  <1> SUFFICES ASSUME StoreInv, [Next]_vars
               PROVE  Replayable!Next \/ UNCHANGED seen
    OBVIOUS
  <1>1. TypeOK
    BY DEF StoreInv
  <1>2. ASSUME NEW t \in Threads, NEW o \in Owners, NEW at \in Readings,
               CreateTask(t, o, at)
        PROVE  Replayable!Next \/ UNCHANGED seen
    <2>1. CASE Exists(t)
      <3>1. \A u \in Threads : Exists(u) \/ tasks'[u] = tasks[u]
        BY <1>1, <1>2, <2>1 DEF CreateTask, TypeOK
      <3>2. QED
        BY <1>1, <1>2, <3>1, CreateWrites, WrittenIsUnseen DEF CreateTask
    <2>2. CASE ~ Exists(t)
      <3>1. tasks' = [tasks EXCEPT ![t] = NewRow(o, "started", at)]
        BY <1>2, <2>2 DEF CreateTask, RowStarted
      <3>2. Replayable!Claim(t, o)
        BY <1>1, <1>2, <2>2, <3>1, InsertClaims DEF CreateTask
      <3>3. QED
        BY <3>2 DEF Replayable!Next
    <2>3. QED
      BY <2>1, <2>2
  <1>3. ASSUME NEW t \in Threads, NEW o \in Owners, NEW at \in Readings,
               ClaimThread(t, o, at)
        PROVE  Replayable!Next
    <2>1. Replayable!Claim(t, o)
      BY <1>1, <1>3, InsertClaims DEF ClaimThread
    <2>2. QED
      BY <2>1 DEF Replayable!Next
  <1>4. ASSUME NEW t \in Threads, NEW u \in StatusUpdates, NEW at \in Readings,
               SetStatus(t, u, at)
        PROVE  UNCHANGED seen
    <2>1. \A v \in Threads : Exists(v) \/ tasks'[v] = tasks[v]
      BY <1>1, <1>4 DEF SetStatus, TypeOK
    <2>2. QED
      BY <1>1, <1>4, <2>1, SetStatusWrites, WrittenIsUnseen DEF SetStatus
  <1>5. ASSUME NEW t \in Threads, NEW k \in Kinds, NEW b \in Sizes,
               NEW q \in Carried(k), AppendEvent(t, k, q, b)
        PROVE  Replayable!Next
    <2>1. PICK e : e = [kind |-> k, approvals |-> q, bytes |-> b,
                        seq |-> tasks[t].nextSeq]
      OBVIOUS
    <2>2. PICK n : n = tasks[t].dropped + Excess(Append(events[t], e))
      OBVIOUS
    <2>3. /\ e \in AllEvents /\ n \in 0 .. Len(log[t]) + 1
          /\ Replayable!Record(t, e, n)
      BY <1>5, <2>1, <2>2, CarriedType, AppendRecords
    <2>4. QED
      BY <2>3 DEF Replayable!Next
  <1>6. ASSUME NEW t \in Threads, NEW a \in ApprovalIds, ConsumeApproval(t, a)
        PROVE  Replayable!Next
    <2>1. Replayable!Spend(t, a)
      BY <1>1, <1>6, ConsumeSpends
    <2>2. QED
      BY <2>1 DEF Replayable!Next
  <1>7. ASSUME (\E at \in Readings : Cleanup(at)) \/ Clear
        PROVE  Replayable!Next
    <2>1. PICK T \in SUBSET Threads : Delete(T)
      BY <1>7 DEF Cleanup, Clear
    <2>2. Replayable!Forget(T)
      BY <2>1, DeleteForgets
    <2>3. QED
      BY <2>2 DEF Replayable!Next
  <1>8. ASSUME NEW at \in Readings, ReconcileIncomplete(at)
        PROVE  UNCHANGED seen
    <2>1. \A v \in Threads : Exists(v) \/ tasks'[v] = tasks[v]
      BY <1>8 DEF ReconcileIncomplete
    <2>2. QED
      BY <1>1, <1>8, <2>1, ReconcileWrites, WrittenIsUnseen DEF ReconcileIncomplete
  <1>9. CASE Tick \/ UNCHANGED vars
    <2>1. tasks' = tasks /\ log' = log /\ consumed' = consumed
      BY <1>9 DEF Tick, vars, eventVars
    <2>2. QED
      BY <2>1 DEF seen, OwnerOf, FirstOf, Exists
  <1>10. QED
    BY <1>2, <1>3, <1>4, <1>5, <1>6, <1>7, <1>8, <1>9 DEF Next

\* The tables implement the replay log: one owner per thread, an append-only
\* log of which only the oldest events become unreadable, approvals spent
\* once, and all of it forgotten together (every method of TaskStore).
THEOREM ImplementsReplayLog == Spec => IsReplayLog
  <1>1. Init => Replayable!Init
    <2> SUFFICES ASSUME Init
                 PROVE  Replayable!Init
      OBVIOUS
    <2>1. \A t \in Threads : ~ Exists(t)
      BY DEF Init, Exists
    <2>2. QED
      BY <2>1 DEF Init, Replayable!Init
  <1>2. StoreInv /\ [Next]_vars => [Replayable!Next]_(Replayable!vars)
    <2>1. seen = Replayable!vars
      BY DEF seen, OwnerOf, FirstOf, Replayable!vars
    <2>2. seen' = (Replayable!vars)'
      BY DEF seen, OwnerOf, FirstOf, Replayable!vars
    <2>3. QED
      BY <2>1, <2>2, StepIsReplayable
  <1>3. QED
    BY <1>1, <1>2, StoreInvHolds, PTL DEF Spec, IsReplayLog, Replayable!Spec
=============================================================================
