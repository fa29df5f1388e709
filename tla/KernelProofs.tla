---------------------------- MODULE KernelProofs ----------------------------
(***************************************************************************)
(* Facts about the kernel's list operations and functions, for every set   *)
(* of threads and every number of priorities.  The proofs about the        *)
(* components cite these and do not look inside the lists again.           *)
(***************************************************************************)
EXTENDS Kernel, SequenceTheorems, FiniteSetTheorems,
        WellFoundedInduction, TLAPS

-----------------------------------------------------------------------------
(* Lists.                                                                  *)

(* A non-empty set of natural numbers has the minimum the code's scans     *)
(* stop at.                                                                *)
LEMMA MinOfNat ==
    ASSUME NEW I \in SUBSET Nat, I # {}
    PROVE  Min(I) \in I /\ \A j \in I : Min(I) <= j
<1> DEFINE T == {0..x : x \in I}
<1>1. T \subseteq FiniteSubsetsOf(Nat) /\ T # {}
  <2>1. ASSUME NEW x \in I PROVE 0..x \in SUBSET Nat /\ IsFiniteSet(0..x)
    <3>1. x \in Int /\ 0 \in Int
      OBVIOUS
    <3> QED BY <3>1, FS_Interval
  <2> QED BY <2>1 DEF FiniteSubsetsOf
<1>2. PICK u \in T : \A v \in T : ~(<<v, u>> \in StrictSubsetOrdering(Nat))
  BY <1>1, WFMin, FS_StrictSubsetOrderingWellFounded
<1>3. PICK x \in I : u = 0..x
  BY <1>2
<1>4. ASSUME NEW y \in I, y < x PROVE FALSE
  <2>1. 0..y \in T /\ 0..y \subseteq u /\ 0..y \in SUBSET Nat /\ u \in SUBSET Nat
    BY <1>3, <1>4
  <2>2. x \in u /\ x \notin 0..y
    BY <1>3, <1>4
  <2>3. <<0..y, u>> \in StrictSubsetOrdering(Nat)
    BY <2>1, <2>2 DEF StrictSubsetOrdering
  <2> QED BY <1>2, <2>1, <2>3
<1>5. \E m \in I : \A y \in I : m <= y
  BY <1>4
<1> QED BY <1>5 DEF Min

(* Taking the node at position n out of a list closes the gap.             *)
LEMMA RemoveAtFacts ==
    ASSUME NEW S, NEW s \in Seq(S), NEW n \in 1..Len(s)
    PROVE  /\ RemoveAt(s, n) \in Seq(S)
           /\ Len(RemoveAt(s, n)) = Len(s) - 1
           /\ \A i \in 1..(Len(s) - 1) :
                 RemoveAt(s, n)[i] = IF i < n THEN s[i] ELSE s[i + 1]
<1> DEFINE a == SubSeq(s, 1, n - 1)
           b == SubSeq(s, n + 1, Len(s))
           w == a \o b
           l == Len(s)
<1>1. l \in Nat /\ n \in 1..l
  BY LenProperties
<1>2. /\ a \in Seq(S) /\ Len(a) = n - 1
      /\ \A i \in 1..(n - 1) : a[i] = s[i]
  BY SubSeqProperties
<1>3. /\ b \in Seq(S) /\ Len(b) = l - n
      /\ \A i \in 1..(l - n) : b[i] = s[n + i]
  BY SubSeqProperties
<1>4. RemoveAt(s, n) = w
  BY DEF RemoveAt
<1> HIDE DEF a, b, l
<1>5. /\ w \in Seq(S) /\ Len(w) = Len(a) + Len(b)
      /\ \A i \in 1..(Len(a) + Len(b)) :
             w[i] = IF i <= Len(a) THEN a[i] ELSE b[i - Len(a)]
  BY <1>2, <1>3, ConcatProperties
<1> HIDE DEF w
<1>6. Len(a) + Len(b) = l - 1
  BY <1>1, <1>2, <1>3
<1>7. ASSUME NEW i \in 1..(l - 1) PROVE w[i] = IF i < n THEN s[i] ELSE s[i + 1]
  <2>1. w[i] = IF i <= n - 1 THEN a[i] ELSE b[i - (n - 1)]
    BY <1>2, <1>5, <1>6
  <2>2. CASE i < n
    <3>1. i \in 1..(n - 1)
      BY <1>1, <2>2
    <3> QED BY <1>1, <1>2, <2>1, <2>2, <3>1
  <2>3. CASE ~(i < n)
    <3>1. i - (n - 1) \in 1..(l - n) /\ n + (i - (n - 1)) = i + 1
      BY <1>1, <2>3
    <3>2. b[i - (n - 1)] = s[i + 1]
      BY <1>3, <3>1
    <3> QED BY <1>1, <2>1, <2>3, <3>2
  <2> QED BY <2>2, <2>3
<1> QED BY <1>4, <1>5, <1>6, <1>7 DEF l

(* Linking a node before position n moves the rest of the list up.         *)
LEMMA InsertAtFacts ==
    ASSUME NEW S, NEW s \in Seq(S), NEW e \in S, NEW n \in 1..Len(s)
    PROVE  /\ InsertAt(s, n, e) \in Seq(S)
           /\ Len(InsertAt(s, n, e)) = Len(s) + 1
           /\ \A i \in 1..(Len(s) + 1) : InsertAt(s, n, e)[i] =
                 IF i < n THEN s[i] ELSE IF i = n THEN e ELSE s[i - 1]
<1> DEFINE a == SubSeq(s, 1, n - 1)
           b == SubSeq(s, n, Len(s))
           c == a \o <<e>>
           w == c \o b
           l == Len(s)
<1>1. l \in Nat /\ n \in 1..l
  BY LenProperties
<1>2. /\ a \in Seq(S) /\ Len(a) = n - 1
      /\ \A i \in 1..(n - 1) : a[i] = s[i]
  BY SubSeqProperties
<1>3. /\ b \in Seq(S) /\ Len(b) = l - n + 1
      /\ \A i \in 1..(l - n + 1) : b[i] = s[n + i - 1]
  BY SubSeqProperties
<1>4. InsertAt(s, n, e) = w
  BY DEF InsertAt
<1> HIDE DEF a, b, l
<1>5. /\ c \in Seq(S) /\ Len(c) = n
      /\ \A i \in 1..n : c[i] = IF i < n THEN a[i] ELSE e
  <2>1. <<e>> \in Seq(S) /\ Len(<<e>>) = 1 /\ <<e>>[1] = e
    OBVIOUS
  <2>2. /\ c \in Seq(S) /\ Len(c) = Len(a) + Len(<<e>>)
        /\ \A i \in 1..(Len(a) + Len(<<e>>)) :
               c[i] = IF i <= Len(a) THEN a[i] ELSE <<e>>[i - Len(a)]
    BY <1>2, <2>1, ConcatProperties
  <2> HIDE DEF c
  <2>3. ASSUME NEW i \in 1..n PROVE c[i] = IF i < n THEN a[i] ELSE e
    <3>1. c[i] = IF i <= n - 1 THEN a[i] ELSE <<e>>[i - (n - 1)]
      BY <1>1, <1>2, <2>1, <2>2
    <3>2. CASE i < n
      BY <1>1, <3>1, <3>2
    <3>3. CASE i = n
      <4>1. i - (n - 1) = 1
        BY <1>1, <3>3
      <4> QED BY <1>1, <2>1, <3>1, <3>3, <4>1
    <3> QED BY <1>1, <3>2, <3>3
  <2> QED BY <1>1, <1>2, <2>1, <2>2, <2>3
<1> HIDE DEF c
<1>6. /\ w \in Seq(S) /\ Len(w) = Len(c) + Len(b)
      /\ \A i \in 1..(Len(c) + Len(b)) :
             w[i] = IF i <= Len(c) THEN c[i] ELSE b[i - Len(c)]
  BY <1>3, <1>5, ConcatProperties
<1> HIDE DEF w
<1>7. Len(c) + Len(b) = l + 1
  BY <1>1, <1>3, <1>5
<1>8. ASSUME NEW i \in 1..(l + 1)
      PROVE  w[i] = IF i < n THEN s[i] ELSE IF i = n THEN e ELSE s[i - 1]
  <2>1. w[i] = IF i <= n THEN c[i] ELSE b[i - n]
    BY <1>5, <1>6, <1>7
  <2>2. CASE i < n
    <3>1. i \in 1..(n - 1) /\ i \in 1..n
      BY <1>1, <2>2
    <3> QED BY <1>1, <1>2, <1>5, <2>1, <2>2, <3>1
  <2>3. CASE i = n
    BY <1>1, <1>5, <2>1, <2>3
  <2>4. CASE i > n
    <3>1. i - n \in 1..(l - n + 1) /\ n + (i - n) - 1 = i - 1
      BY <1>1, <2>4
    <3>2. b[i - n] = s[i - 1]
      BY <1>3, <3>1
    <3> QED BY <1>1, <2>1, <2>4, <3>2
  <2> QED BY <1>1, <2>2, <2>3, <2>4
<1> QED BY <1>4, <1>6, <1>7, <1>8 DEF l

(* Unlinking e from a list without repetitions removes e and nothing else. *)
LEMMA WithoutFacts ==
    ASSUME NEW S, NEW s \in Seq(S), NEW e, NoRepeat(s)
    PROVE  /\ Without(s, e) \in Seq(S)
           /\ NoRepeat(Without(s, e))
           /\ \A f : Contains(Without(s, e), f) <=> Contains(s, f) /\ f # e
<1>1. CASE ~Contains(s, e)
  BY <1>1 DEF Without, Contains
<1>2. CASE Contains(s, e)
  <2> DEFINE n == CHOOSE i \in 1..Len(s) : s[i] = e
             w == RemoveAt(s, n)
             l == Len(s)
  <2>1. n \in 1..l /\ s[n] = e /\ l \in Nat
    BY <1>2, LenProperties DEF Contains
  <2>2. w = Without(s, e)
    BY <1>2 DEF Without
  <2> HIDE DEF n
  <2>3. /\ w \in Seq(S) /\ Len(w) = l - 1
        /\ \A i \in 1..(l - 1) : w[i] = IF i < n THEN s[i] ELSE s[i + 1]
    BY <2>1, RemoveAtFacts
  <2>4. DOMAIN w = 1..(l - 1)
    BY <2>1, <2>3, LenProperties
  <2>5. \A i, j \in 1..l : s[i] = s[j] => i = j
    BY LenProperties DEF NoRepeat
  <2>6. \A f : Contains(s, f) <=> \E i \in 1..l : s[i] = f
    BY DEF Contains
  <2>7. \A f : Contains(w, f) <=> \E i \in 1..(l - 1) : w[i] = f
    BY <2>3 DEF Contains
  <2> HIDE DEF w, l
  <2>8. NoRepeat(w)
    <3> SUFFICES ASSUME NEW i \in 1..(l - 1), NEW j \in 1..(l - 1), w[i] = w[j]
                 PROVE  i = j
      BY <2>4 DEF NoRepeat
    <3>1. ASSUME NEW x \in 1..(l - 1), x < n PROVE x \in 1..l /\ x < n /\ w[x] = s[x]
      BY <2>1, <2>3, <3>1
    <3>2. ASSUME NEW x \in 1..(l - 1), ~(x < n)
          PROVE  x + 1 \in 1..l /\ x + 1 > n /\ w[x] = s[x + 1]
      BY <2>1, <2>3, <3>2
    <3>3. CASE i < n /\ j < n
      BY <2>5, <3>1, <3>3
    <3>4. CASE i < n /\ ~(j < n)
      <4>1. s[i] = s[j + 1] /\ i \in 1..l /\ j + 1 \in 1..l
        BY <3>1, <3>2, <3>4
      <4>2. i = j + 1
        BY <2>5, <4>1
      <4> QED BY <2>1, <3>4, <4>2
    <3>5. CASE ~(i < n) /\ j < n
      <4>1. s[j] = s[i + 1] /\ j \in 1..l /\ i + 1 \in 1..l
        BY <3>1, <3>2, <3>5
      <4>2. j = i + 1
        BY <2>5, <4>1
      <4> QED BY <2>1, <3>5, <4>2
    <3>6. CASE ~(i < n) /\ ~(j < n)
      <4>1. s[i + 1] = s[j + 1] /\ i + 1 \in 1..l /\ j + 1 \in 1..l
        BY <3>2, <3>6
      <4>2. i + 1 = j + 1
        BY <2>5, <4>1
      <4> QED BY <2>1, <4>2
    <3> QED BY <3>3, <3>4, <3>5, <3>6
  <2>9. ASSUME NEW f, Contains(w, f) PROVE Contains(s, f) /\ f # e
    <3>1. PICK i \in 1..(l - 1) : w[i] = f
      BY <2>7, <2>9
    <3>2. CASE i < n
      <4>1. i \in 1..l /\ i # n /\ s[i] = f
        BY <2>1, <2>3, <3>1, <3>2
      <4> QED BY <2>1, <2>5, <2>6, <4>1
    <3>3. CASE ~(i < n)
      <4>1. i + 1 \in 1..l /\ i + 1 # n /\ s[i + 1] = f
        BY <2>1, <2>3, <3>1, <3>3
      <4> QED BY <2>1, <2>5, <2>6, <4>1
    <3> QED BY <3>2, <3>3
  <2>10. ASSUME NEW f, Contains(s, f), f # e PROVE Contains(w, f)
    <3>1. PICK i \in 1..l : s[i] = f
      BY <2>6, <2>10
    <3>2. CASE i < n
      <4>1. i \in 1..(l - 1) /\ w[i] = f
        BY <2>1, <2>3, <3>1, <3>2
      <4> QED BY <2>7, <4>1
    <3>3. CASE i > n
      <4>1. i - 1 \in 1..(l - 1) /\ ~(i - 1 < n) /\ (i - 1) + 1 = i
        BY <2>1, <3>3
      <4>2. w[i - 1] = f
        BY <2>3, <3>1, <4>1
      <4> QED BY <2>7, <4>1, <4>2
    <3> QED BY <2>1, <2>10, <3>1, <3>2, <3>3
  <2> QED BY <2>2, <2>3, <2>8, <2>9, <2>10
<1> QED BY <1>1, <1>2

(* Linking a new node at the tail adds it and nothing else.                *)
LEMMA AppendFacts ==
    ASSUME NEW S, NEW s \in Seq(S), NEW e \in S, NoRepeat(s), ~Contains(s, e)
    PROVE  /\ Append(s, e) \in Seq(S)
           /\ Append(s, e) # << >>
           /\ NoRepeat(Append(s, e))
           /\ \A f : Contains(Append(s, e), f) <=> Contains(s, f) \/ f = e
<1> DEFINE w == Append(s, e)
<1>1. /\ w \in Seq(S) /\ w # << >> /\ Len(w) = Len(s) + 1
      /\ \A i \in 1..Len(s) : w[i] = s[i]
      /\ w[Len(s) + 1] = e
  BY AppendProperties
<1> HIDE DEF w
<1>2. NoRepeat(w)
  BY <1>1 DEF NoRepeat, Contains
<1>3. ASSUME NEW f PROVE Contains(w, f) <=> Contains(s, f) \/ f = e
  <2>1. Contains(w, f) => Contains(s, f) \/ f = e
    BY <1>1 DEF Contains
  <2>2. Contains(s, f) => Contains(w, f)
    <3> SUFFICES ASSUME NEW i \in 1..Len(s), s[i] = f PROVE Contains(w, f)
      BY DEF Contains
    <3>1. i \in 1..Len(w) /\ w[i] = f
      BY <1>1
    <3> QED BY <3>1 DEF Contains
  <2>3. Contains(w, e)
    <3>1. Len(s) + 1 \in 1..Len(w)
      BY <1>1
    <3> QED BY <1>1, <3>1 DEF Contains
  <2> QED BY <2>1, <2>2, <2>3
<1> QED BY <1>1, <1>2, <1>3 DEF w

(* So does linking it before a node the scan stops at.                     *)
LEMMA InsertBeforeFacts ==
    ASSUME NEW S, NEW s \in Seq(S), NEW e \in S, NoRepeat(s), ~Contains(s, e),
           NEW I \in SUBSET (1..Len(s))
    PROVE  /\ InsertBefore(s, e, I) \in Seq(S)
           /\ NoRepeat(InsertBefore(s, e, I))
           /\ \A f : Contains(InsertBefore(s, e, I), f) <=> Contains(s, f) \/ f = e
<1>1. CASE I = {}
  BY <1>1, AppendFacts DEF InsertBefore
<1>2. CASE I # {}
  <2> DEFINE n == Min(I)
             w == InsertAt(s, n, e)
             l == Len(s)
  <2>1. n \in 1..l /\ l \in Nat
    <3>1. I \in SUBSET Nat
      BY LenProperties
    <3> QED BY <1>2, <3>1, MinOfNat, LenProperties
  <2>2. w = InsertBefore(s, e, I)
    BY <1>2 DEF InsertBefore
  <2> HIDE DEF n
  <2>3. /\ w \in Seq(S) /\ Len(w) = l + 1
        /\ \A i \in 1..(l + 1) :
              w[i] = IF i < n THEN s[i] ELSE IF i = n THEN e ELSE s[i - 1]
    BY <2>1, InsertAtFacts
  <2>4. DOMAIN w = 1..(l + 1)
    BY <2>1, <2>3, LenProperties
  <2>5. /\ \A i, j \in 1..l : s[i] = s[j] => i = j
        /\ \A i \in 1..l : s[i] # e
    BY LenProperties DEF NoRepeat, Contains
  <2>6. \A f : Contains(s, f) <=> \E i \in 1..l : s[i] = f
    BY DEF Contains
  <2>7. \A f : Contains(w, f) <=> \E i \in 1..(l + 1) : w[i] = f
    BY <2>3 DEF Contains
  <2> HIDE DEF w, l
  <2>8. NoRepeat(w)
    <3> SUFFICES ASSUME NEW i \in 1..(l + 1), NEW j \in 1..(l + 1), w[i] = w[j]
                 PROVE  i = j
      BY <2>4 DEF NoRepeat
    <3>1. ASSUME NEW x \in 1..(l + 1), x < n PROVE x \in 1..l /\ w[x] = s[x]
      BY <2>1, <2>3, <3>1
    <3>2. ASSUME NEW x \in 1..(l + 1), x = n PROVE w[x] = e
      BY <2>1, <2>3, <3>2
    <3>3. ASSUME NEW x \in 1..(l + 1), x > n PROVE x - 1 \in 1..l /\ w[x] = s[x - 1]
      <4>1. ~(x < n) /\ x # n /\ x - 1 \in 1..l
        BY <2>1, <3>3
      <4> QED BY <2>3, <4>1
    <3>4. CASE i = n \/ j = n
      <4>1. ASSUME NEW x \in 1..(l + 1), x # n PROVE w[x] # e
        <5>1. CASE x < n
          BY <2>5, <3>1, <5>1
        <5>2. CASE x > n
          BY <2>5, <3>3, <5>2
        <5> QED BY <2>1, <4>1, <5>1, <5>2
      <4> QED BY <3>2, <3>4, <4>1
    <3>5. CASE i < n /\ j < n
      BY <2>5, <3>1, <3>5
    <3>6. CASE i < n /\ j > n
      <4>1. s[i] = s[j - 1] /\ i \in 1..l /\ j - 1 \in 1..l
        BY <3>1, <3>3, <3>6
      <4>2. i = j - 1
        BY <2>5, <4>1
      <4> QED BY <2>1, <3>6, <4>2
    <3>7. CASE i > n /\ j < n
      <4>1. s[j] = s[i - 1] /\ j \in 1..l /\ i - 1 \in 1..l
        BY <3>1, <3>3, <3>7
      <4>2. j = i - 1
        BY <2>5, <4>1
      <4> QED BY <2>1, <3>7, <4>2
    <3>8. CASE i > n /\ j > n
      <4>1. s[i - 1] = s[j - 1] /\ i - 1 \in 1..l /\ j - 1 \in 1..l
        BY <3>3, <3>8
      <4>2. i - 1 = j - 1
        BY <2>5, <4>1
      <4> QED BY <2>1, <4>2
    <3> QED BY <2>1, <3>4, <3>5, <3>6, <3>7, <3>8
  <2>9. ASSUME NEW f, Contains(w, f) PROVE Contains(s, f) \/ f = e
    <3>1. PICK i \in 1..(l + 1) : w[i] = f
      BY <2>7, <2>9
    <3>2. CASE i < n
      <4>1. i \in 1..l /\ s[i] = f
        BY <2>1, <2>3, <3>1, <3>2
      <4> QED BY <2>6, <4>1
    <3>3. CASE i > n
      <4>1. i - 1 \in 1..l /\ s[i - 1] = f
        BY <2>1, <2>3, <3>1, <3>3
      <4> QED BY <2>6, <4>1
    <3>4. CASE i = n
      BY <2>1, <2>3, <3>1, <3>4
    <3> QED BY <2>1, <3>2, <3>3, <3>4
  <2>10. ASSUME NEW f, Contains(s, f) PROVE Contains(w, f)
    <3>1. PICK i \in 1..l : s[i] = f
      BY <2>6, <2>10
    <3>2. CASE i < n
      <4>1. i \in 1..(l + 1) /\ w[i] = f
        BY <2>1, <2>3, <3>1, <3>2
      <4> QED BY <2>7, <4>1
    <3>3. CASE ~(i < n)
      <4>1. i + 1 \in 1..(l + 1) /\ ~(i + 1 < n) /\ i + 1 # n /\ (i + 1) - 1 = i
        BY <2>1, <3>3
      <4>2. w[i + 1] = f
        BY <2>3, <3>1, <4>1
      <4> QED BY <2>7, <4>1, <4>2
    <3> QED BY <3>2, <3>3
  <2>11. Contains(w, e)
    <3>1. n \in 1..(l + 1) /\ w[n] = e
      BY <2>1, <2>3
    <3> QED BY <2>7, <3>1
  <2> QED BY <2>2, <2>3, <2>8, <2>9, <2>10, <2>11
<1> QED BY <1>1, <1>2

(* A list is empty exactly when it contains nothing.                       *)
LEMMA EmptyFacts ==
    ASSUME NEW S, NEW s \in Seq(S)
    PROVE  /\ s = << >> <=> \A f \in S : ~Contains(s, f)
           /\ s # << >> => Contains(s, Head(s)) /\ Head(s) \in S
           /\ \A f : Contains(s, f) => f \in S
<1>1. s # << >> => Len(s) \in Nat \ {0} /\ Head(s) = s[1] /\ Head(s) \in S
  BY EmptySeq, HeadTailProperties
<1>2. s # << >> => Contains(s, Head(s))
  BY <1>1 DEF Contains
<1>3. s = << >> => \A f \in S : ~Contains(s, f)
  BY DEF Contains
<1>4. \A f : Contains(s, f) => f \in S
  BY ElementOfSeq DEF Contains
<1> QED BY <1>1, <1>2, <1>3, <1>4

-----------------------------------------------------------------------------
(* The kernel's functions.                                                 *)

(* rt_list_remove takes t out of every list and leaves the rest.           *)
LEMMA UnlinkFacts ==
    ASSUME NEW k \in KernelType, ListsExact(k), NEW t
    PROVE  LET u == Unlink(k, t)
           IN  /\ u \in KernelType /\ ListsExact(u)
               /\ \A p \in Prio : \A x :
                     Contains(u.rdy[p], x) <=> Contains(k.rdy[p], x) /\ x # t
               /\ \A q \in Queue : \A x :
                     Contains(u.wait[q], x) <=> Contains(k.wait[q], x) /\ x # t
<1> DEFINE u == Unlink(k, t)
<1>1. ASSUME NEW p \in Prio
      PROVE  /\ u.rdy[p] \in Seq(Thread) /\ NoRepeat(u.rdy[p])
             /\ \A x : Contains(u.rdy[p], x) <=> Contains(k.rdy[p], x) /\ x # t
  <2>1. k.rdy[p] \in Seq(Thread) /\ NoRepeat(k.rdy[p])
    BY DEF KernelType, ListsExact
  <2>2. u.rdy[p] = Without(k.rdy[p], t)
    BY DEF Unlink, KernelType
  <2> QED BY <2>1, <2>2, WithoutFacts
<1>2. ASSUME NEW q \in Queue
      PROVE  /\ u.wait[q] \in Seq(Thread) /\ NoRepeat(u.wait[q])
             /\ \A x : Contains(u.wait[q], x) <=> Contains(k.wait[q], x) /\ x # t
  <2>1. k.wait[q] \in Seq(Thread) /\ NoRepeat(k.wait[q])
    BY DEF KernelType, ListsExact
  <2>2. u.wait[q] = Without(k.wait[q], t)
    BY DEF Unlink, KernelType
  <2> QED BY <2>1, <2>2, WithoutFacts
<1>3. u = [k EXCEPT !.rdy = u.rdy, !.wait = u.wait]
  BY DEF Unlink, KernelType
<1>4. u.rdy \in [Prio -> Seq(Thread)] /\ u.wait \in [Queue -> Seq(Thread)]
  <2>1. u.rdy = [p \in Prio |-> u.rdy[p]] /\ u.wait = [q \in Queue |-> u.wait[q]]
    BY DEF Unlink, KernelType
  <2> QED BY <1>1, <1>2, <2>1
<1>5. u \in KernelType
  BY <1>3, <1>4 DEF KernelType
<1>6. u.timers = k.timers
  BY DEF Unlink, KernelType
<1> QED BY <1>1, <1>2, <1>5, <1>6 DEF ListsExact

(* rt_schedule_remove_thread leaves a kernel in which t, whatever its      *)
(* state, is on no list; the bitmap follows.                               *)
LEMMA RemoveFacts ==
    ASSUME NEW k, NEW D, KernelInv(k, D), NEW t \in Thread,
           k.stat[t] \in {"READY", "SUSPEND"}
    PROVE  LET r == RemoveThread(k, t)
           IN  /\ KernelInv(r, D \cup {t})
               /\ r = [k EXCEPT !.rdy = r.rdy, !.wait = r.wait, !.group = r.group]
<1> DEFINE u == Unlink(k, t)
           r == RemoveThread(k, t)
<1> USE DEF KernelInv
<1>1. /\ u \in KernelType /\ ListsExact(u)
      /\ \A p \in Prio : \A x :
            Contains(u.rdy[p], x) <=> Contains(k.rdy[p], x) /\ x # t
      /\ \A q \in Queue : \A x :
            Contains(u.wait[q], x) <=> Contains(k.wait[q], x) /\ x # t
  BY UnlinkFacts
<1>2. u = [k EXCEPT !.rdy = u.rdy, !.wait = u.wait]
  BY DEF Unlink, KernelType
<1> HIDE DEF u
<1>3. r = [u EXCEPT !.group = r.group]
  BY <1>1 DEF RemoveThread, KernelType, u
<1>4. r.group = IF u.rdy[k.prio[t]] = << >> THEN k.group \ {k.prio[t]} ELSE k.group
  BY <1>1, <1>2 DEF RemoveThread, KernelType, MasksExact, u
<1>5. r.group \subseteq Prio
  BY <1>4 DEF KernelType
<1>6. r = [k EXCEPT !.rdy = r.rdy, !.wait = r.wait, !.group = r.group]
  <2> HIDE DEF r, KernelInv
  <2>1. k \in KernelType
    BY DEF KernelInv
  <2>2. r.rdy = u.rdy /\ r.wait = u.wait
    BY <1>1, <1>3 DEF KernelType
  <2>3. u = [k EXCEPT !.rdy = r.rdy, !.wait = r.wait]
    BY <1>2, <2>2
  <2> QED BY <1>3, <2>1, <2>3 DEF KernelType
<1>7. /\ r.stat = k.stat /\ r.prio = k.prio /\ r.mask = k.mask
      /\ r.timers = k.timers /\ r.rdy = u.rdy /\ r.wait = u.wait
  <2> HIDE DEF r, KernelInv
  <2>1. k \in KernelType
    BY DEF KernelInv
  <2>2. r.rdy = u.rdy /\ r.wait = u.wait
    BY <1>1, <1>3 DEF KernelType
  <2> QED BY <1>6, <2>1, <2>2 DEF KernelType
<1>8. r \in KernelType /\ ListsExact(r)
  BY <1>1, <1>3, <1>5, <1>7 DEF KernelType, ListsExact
<1> HIDE DEF r
<1>9. GroupExact(r)
  <2> SUFFICES ASSUME NEW p \in Prio PROVE p \in r.group <=> u.rdy[p] # << >>
    BY <1>7 DEF GroupExact
  <2>1. u.rdy[p] \in Seq(Thread) /\ k.rdy[p] \in Seq(Thread)
    BY <1>1 DEF KernelType
  <2>2. /\ u.rdy[p] = << >> <=> \A f \in Thread : ~Contains(u.rdy[p], f)
        /\ k.rdy[p] = << >> <=> \A f \in Thread : ~Contains(k.rdy[p], f)
    <3> HIDE DEF KernelInv
    <3> QED BY <2>1, EmptyFacts
  <2>3. CASE p = k.prio[t]
    <3>1. u.rdy[p] # << >> => k.rdy[p] # << >>
      BY <1>1, <2>2
    <3> QED BY <1>4, <2>3, <3>1 DEF GroupExact
  <2>4. CASE p # k.prio[t]
    <3>1. ~Contains(k.rdy[p], t)
      BY <2>4 DEF LinksExact
    <3>2. u.rdy[p] = << >> <=> k.rdy[p] = << >>
      BY <1>1, <2>2, <3>1
    <3> QED BY <1>4, <2>4, <3>2 DEF GroupExact
  <2> QED BY <2>3, <2>4
<1>10. LinksExact(r, D \cup {t})
  BY <1>1, <1>7 DEF LinksExact
<1>11. MasksExact(r) /\ TimersExact(r)
  BY <1>7 DEF MasksExact, TimersExact
<1> QED BY <1>6, <1>8, <1>9, <1>10, <1>11 DEF r

(* A thread off every list may change to a state that is not READY.        *)
LEMMA SetStatFacts ==
    ASSUME NEW k, NEW D, NEW t \in Thread, KernelInv(k, D \cup {t}),
           NEW s \in Stat \ {"READY"},
           s = "SUSPEND" => k.mask[t] = {k.prio[t]},
           s # "SUSPEND" => ~Contains(k.timers, t)
    PROVE  KernelInv([k EXCEPT !.stat[t] = s], D \ {t})
<1> DEFINE r == [k EXCEPT !.stat[t] = s]
<1> USE DEF KernelInv
<1>1. r \in KernelType
  BY DEF KernelType
<1>2. /\ r.prio = k.prio /\ r.mask = k.mask /\ r.group = k.group
      /\ r.timers = k.timers /\ r.rdy = k.rdy /\ r.wait = k.wait
      /\ r.stat = [k.stat EXCEPT ![t] = s]
  BY DEF KernelType
<1>3. k.stat \in [Thread -> Stat]
  BY DEF KernelType
<1> HIDE DEF r
<1>4. GroupExact(r) /\ ListsExact(r)
  BY <1>2 DEF GroupExact, ListsExact
<1>5. LinksExact(r, D \ {t})
  <2> SUFFICES ASSUME NEW x \in Thread
               PROVE  /\ \A p \in Prio : Contains(k.rdy[p], x) <=>
                            r.stat[x] = "READY" /\ k.prio[x] = p /\ x \notin D \ {t}
                      /\ \A q \in Queue : Contains(k.wait[q], x) =>
                            r.stat[x] # "READY" /\ x \notin D \ {t}
    BY <1>2 DEF LinksExact
  <2>1. CASE x = t
    BY <1>2, <1>3, <2>1 DEF LinksExact
  <2>2. CASE x # t
    <3>1. r.stat[x] = k.stat[x]
      BY <1>2, <1>3, <2>2
    <3> QED BY <2>2, <3>1 DEF LinksExact
  <2> QED BY <2>1, <2>2
<1>6. MasksExact(r) /\ TimersExact(r)
  BY <1>2, <1>3 DEF MasksExact, TimersExact
<1> QED BY <1>1, <1>4, <1>5, <1>6 DEF r

(* rt_schedule_insert_thread of a thread that is on no list.               *)
LEMMA InsertFacts ==
    ASSUME NEW k, NEW D, NEW t \in Thread, KernelInv(k, D),
           \A p \in Prio : ~Contains(k.rdy[p], t),
           \A q \in Queue : ~Contains(k.wait[q], t),
           ~Contains(k.timers, t),
           k.mask[t] = {k.prio[t]}
    PROVE  /\ KernelInv(InsertThread(k, t), D \ {t})
           /\ InsertThread(k, t).group # {}
<1> DEFINE p0 == k.prio[t]
           r == InsertThread(k, t)
<1> USE DEF KernelInv
<1>1. /\ p0 \in Prio /\ k.rdy[p0] \in Seq(Thread) /\ NoRepeat(k.rdy[p0])
      /\ k.rdy \in [Prio -> Seq(Thread)] /\ k.stat \in [Thread -> Stat]
  BY DEF KernelType, ListsExact
<1>2. /\ r.prio = k.prio /\ r.mask = k.mask /\ r.wait = k.wait
      /\ r.timers = k.timers
      /\ r.stat = [k.stat EXCEPT ![t] = "READY"]
      /\ r.rdy = [k.rdy EXCEPT ![p0] = Append(k.rdy[p0], t)]
      /\ r.group = k.group \cup {p0}
  BY DEF InsertThread, KernelType
<1>3. /\ Append(k.rdy[p0], t) \in Seq(Thread)
      /\ Append(k.rdy[p0], t) # << >>
      /\ NoRepeat(Append(k.rdy[p0], t))
      /\ \A f : Contains(Append(k.rdy[p0], t), f) <=> Contains(k.rdy[p0], f) \/ f = t
  BY <1>1, AppendFacts
<1>4. r = [k EXCEPT !.stat = [k.stat EXCEPT ![t] = "READY"],
                    !.rdy = r.rdy, !.group = r.group]
  BY DEF InsertThread, KernelType
<1>5. /\ r.rdy \in [Prio -> Seq(Thread)] /\ r.group \subseteq Prio
      /\ r.stat \in [Thread -> Stat]
  BY <1>1, <1>2, <1>3 DEF KernelType, Stat
<1>6. r \in KernelType
  BY <1>2, <1>4, <1>5 DEF KernelType
<1> HIDE DEF r
<1>7. ListsExact(r)
  BY <1>1, <1>2, <1>3 DEF ListsExact
<1>8. GroupExact(r)
  BY <1>1, <1>2, <1>3 DEF GroupExact
<1>9. LinksExact(r, D \ {t})
  <2> SUFFICES ASSUME NEW x \in Thread
               PROVE  /\ \A p \in Prio : Contains(r.rdy[p], x) <=>
                            r.stat[x] = "READY" /\ k.prio[x] = p /\ x \notin D \ {t}
                      /\ \A q \in Queue : Contains(k.wait[q], x) =>
                            r.stat[x] # "READY" /\ x \notin D \ {t}
    BY <1>2 DEF LinksExact
  <2>1. CASE x = t
    <3>1. r.stat[x] = "READY"
      BY <1>1, <1>2, <2>1
    <3>2. ASSUME NEW p \in Prio PROVE Contains(r.rdy[p], t) <=> p0 = p
      BY <1>1, <1>2, <1>3
    <3> QED BY <2>1, <3>1, <3>2
  <2>2. CASE x # t
    <3>1. r.stat[x] = k.stat[x]
      BY <1>1, <1>2, <2>2
    <3>2. ASSUME NEW p \in Prio PROVE Contains(r.rdy[p], x) <=> Contains(k.rdy[p], x)
      BY <1>1, <1>2, <1>3, <2>2
    <3> QED BY <2>2, <3>1, <3>2 DEF LinksExact
  <2> QED BY <2>1, <2>2
<1>10. MasksExact(r)
  BY <1>1, <1>2 DEF MasksExact
<1>11. TimersExact(r)
  BY <1>1, <1>2 DEF TimersExact
<1> QED BY <1>2, <1>4, <1>6, <1>7, <1>8, <1>9, <1>10, <1>11 DEF r

(* The scheduler finds a thread, and one that is linked, as soon as any    *)
(* thread is ready.                                                        *)
LEMMA HighestFacts ==
    ASSUME NEW k, NEW D, KernelInv(k, D), k.group # {}
    PROVE  /\ Min(k.group) \in k.group
           /\ \A p \in k.group : Min(k.group) <= p
           /\ k.rdy[Min(k.group)] # << >>
           /\ Highest(k) = Head(k.rdy[Min(k.group)])
           /\ Highest(k) \in Thread
           /\ k.stat[Highest(k)] = "READY" /\ Highest(k) \notin D
           /\ k.prio[Highest(k)] = Min(k.group)
<1> DEFINE p == Min(k.group)
<1>1. k.group \in SUBSET Nat /\ k.group \in SUBSET Prio
  BY DEF KernelInv, KernelType, Prio
<1>2. p \in k.group /\ \A x \in k.group : p <= x
  BY <1>1, MinOfNat
<1> HIDE DEF p
<1>3. p \in Prio /\ k.rdy[p] # << >> /\ k.rdy[p] \in Seq(Thread)
  BY <1>1, <1>2 DEF KernelInv, GroupExact, KernelType
<1>4. Contains(k.rdy[p], Head(k.rdy[p])) /\ Head(k.rdy[p]) \in Thread
  BY <1>3, EmptyFacts
<1>5. Highest(k) = Head(k.rdy[p])
  BY <1>3 DEF Highest, p
<1> QED BY <1>2, <1>3, <1>4, <1>5 DEF KernelInv, LinksExact, p

(* rt_schedule changes the running thread only.                            *)
LEMMA ScheduleFacts ==
    ASSUME NEW k, NEW D, KernelInv(k, D), k.group # {}
    PROVE  LET r == Schedule(k)
           IN  /\ KernelInv(r, D)
               /\ r = [k EXCEPT !.cur = r.cur, !.owed = r.owed]
               /\ k.nest = 0 => r.cur = Highest(k) /\ r.owed = FALSE
               /\ k.nest # 0 => r = k
<1> DEFINE r == Schedule(k)
<1> USE DEF KernelInv
<1>1. Highest(k) \in Thread
  BY HighestFacts
<1>2. /\ r = [k EXCEPT !.cur = r.cur, !.owed = r.owed]
      /\ k.nest = 0 => r.cur = Highest(k) /\ r.owed = FALSE
      /\ k.nest # 0 => r = k
  BY DEF Schedule, KernelType
<1>3. r \in KernelType
  BY <1>1 DEF Schedule, KernelType
<1>4. /\ r.stat = k.stat /\ r.prio = k.prio /\ r.mask = k.mask /\ r.rdy = k.rdy
      /\ r.group = k.group /\ r.wait = k.wait /\ r.timers = k.timers
  BY DEF Schedule, KernelType
<1> HIDE DEF r
<1>5. /\ GroupExact(r) /\ ListsExact(r) /\ LinksExact(r, D) /\ MasksExact(r)
      /\ TimersExact(r)
  BY <1>4 DEF GroupExact, ListsExact, LinksExact, MasksExact, TimersExact
<1> QED BY <1>2, <1>3, <1>5 DEF r

(* rt_timer_stop and rt_timer_detach take the thread's timer off the list. *)
LEMMA TimerStopFacts ==
    ASSUME NEW k, NEW D, KernelInv(k, D), NEW t \in Thread
    PROVE  LET r == TimerStop(k, t)
           IN  /\ KernelInv(r, D)
               /\ r = [k EXCEPT !.timers = r.timers, !.left = r.left]
               /\ \A x : Contains(r.timers, x) <=> Contains(k.timers, x) /\ x # t
<1> DEFINE r == TimerStop(k, t)
<1> USE DEF KernelInv
<1>1. k.timers \in Seq(Thread) /\ NoRepeat(k.timers)
  BY DEF KernelType, ListsExact
<1>2. r.timers = Without(k.timers, t)
  BY DEF TimerStop, KernelType
<1>3. /\ r.timers \in Seq(Thread) /\ NoRepeat(r.timers)
      /\ \A x : Contains(r.timers, x) <=> Contains(k.timers, x) /\ x # t
  BY <1>1, <1>2, WithoutFacts
<1>4. r = [k EXCEPT !.timers = r.timers, !.left = r.left]
  BY DEF TimerStop, KernelType
<1>5. r.left \in [Thread -> Nat]
  BY DEF TimerStop, KernelType
<1>6. r \in KernelType
  BY <1>3, <1>4, <1>5 DEF KernelType
<1>7. /\ r.stat = k.stat /\ r.prio = k.prio /\ r.mask = k.mask /\ r.rdy = k.rdy
      /\ r.group = k.group /\ r.wait = k.wait
  BY DEF TimerStop, KernelType
<1> HIDE DEF r
<1>8. /\ GroupExact(r) /\ ListsExact(r) /\ LinksExact(r, D) /\ MasksExact(r)
      /\ TimersExact(r)
  BY <1>3, <1>7 DEF GroupExact, ListsExact, LinksExact, MasksExact, TimersExact
<1> QED BY <1>3, <1>4, <1>6, <1>8 DEF r

(* rt_timer_start of a suspended thread's timer.                           *)
LEMMA TimerStartFacts ==
    ASSUME NEW k, NEW D, KernelInv(k, D), NEW t \in Thread, NEW d,
           d \in Nat, k.stat[t] = "SUSPEND"
    PROVE  LET r == TimerStart(k, t, d)
           IN  /\ KernelInv(r, D)
               /\ r.stat = k.stat /\ r.wait = k.wait /\ r.cur = k.cur
               /\ r.nest = k.nest
               /\ \A x : Contains(r.timers, x) <=> Contains(k.timers, x) \/ x = t
<1> DEFINE r == TimerStart(k, t, d)
<1> USE DEF KernelInv
<1>1. k.timers \in Seq(Thread) /\ NoRepeat(k.timers)
  BY DEF KernelType, ListsExact
<1>2. CASE Contains(k.timers, t)
  <2>1. r = k
    BY <1>2 DEF TimerStart
  <2> QED BY <1>2, <2>1 DEF KernelType
<1>3. CASE ~Contains(k.timers, t)
  <2> DEFINE I == {i \in 1..Len(k.timers) : k.left[k.timers[i]] > d}
  <2>1. r.timers = InsertBefore(k.timers, t, I)
    BY <1>3 DEF TimerStart, KernelType
  <2>2. /\ r.timers \in Seq(Thread) /\ NoRepeat(r.timers)
        /\ \A x : Contains(r.timers, x) <=> Contains(k.timers, x) \/ x = t
    BY <1>1, <1>3, <2>1, InsertBeforeFacts
  <2>3. r = [k EXCEPT !.timers = r.timers, !.left = r.left]
    BY <1>3 DEF TimerStart, KernelType
  <2>4. r.left \in [Thread -> Nat]
    BY <1>3 DEF TimerStart, KernelType
  <2>5. r \in KernelType
    BY <2>2, <2>3, <2>4 DEF KernelType
  <2>6. /\ r.stat = k.stat /\ r.prio = k.prio /\ r.mask = k.mask /\ r.rdy = k.rdy
        /\ r.group = k.group /\ r.wait = k.wait /\ r.cur = k.cur /\ r.nest = k.nest
    BY <2>3 DEF KernelType
  <2> HIDE DEF r
  <2>7. /\ GroupExact(r) /\ ListsExact(r) /\ LinksExact(r, D) /\ MasksExact(r)
        /\ TimersExact(r)
    BY <2>2, <2>6 DEF GroupExact, ListsExact, LinksExact, MasksExact, TimersExact
  <2> QED BY <2>2, <2>5, <2>6, <2>7 DEF r
<1> QED BY <1>2, <1>3

-----------------------------------------------------------------------------
(* What the calls are made of.                                             *)

(* Nothing but the lists and the fields that say where a thread belongs    *)
(* matters to the invariant.                                               *)
LEMMA FrameFacts ==
    ASSUME NEW k, NEW D, KernelInv(k, D), NEW r \in KernelType,
           r.stat = k.stat, r.prio = k.prio, r.mask = k.mask, r.rdy = k.rdy,
           r.group = k.group, r.wait = k.wait, r.timers = k.timers
    PROVE  KernelInv(r, D)
BY DEF KernelInv, GroupExact, ListsExact, LinksExact, MasksExact, TimersExact

(* Taking a list node off a list it is not on changes nothing.             *)
LEMMA UnlinkNothing ==
    ASSUME NEW k \in KernelType, NEW t,
           \A p \in Prio : ~Contains(k.rdy[p], t)
    PROVE  Unlink(k, t).rdy = k.rdy
<1>1. Unlink(k, t).rdy = [p \in Prio |-> Without(k.rdy[p], t)]
  BY DEF Unlink, KernelType
<1>2. \A p \in Prio : Without(k.rdy[p], t) = k.rdy[p]
  BY DEF Without
<1>3. k.rdy = [p \in Prio |-> k.rdy[p]]
  BY DEF KernelType
<1> QED BY <1>1, <1>2, <1>3

(* A thread that is not READY leaves its wait queue, if it is on one.      *)
LEMMA UnlinkWaiter ==
    ASSUME NEW k, NEW D, KernelInv(k, D), NEW t \in Thread, k.stat[t] # "READY"
    PROVE  LET u == Unlink(k, t)
           IN  /\ KernelInv(u, D)
               /\ u = [k EXCEPT !.wait = u.wait]
               /\ \A q \in Queue : \A x :
                     Contains(u.wait[q], x) <=> Contains(k.wait[q], x) /\ x # t
               /\ \A p \in Prio : ~Contains(u.rdy[p], t)
<1> DEFINE u == Unlink(k, t)
<1>1. k \in KernelType /\ ListsExact(k)
  BY DEF KernelInv
<1>2. \A p \in Prio : ~Contains(k.rdy[p], t)
  BY DEF KernelInv, LinksExact
<1>3. u.rdy = k.rdy
  BY <1>1, <1>2, UnlinkNothing
<1>4. /\ u \in KernelType /\ ListsExact(u)
      /\ \A q \in Queue : \A x :
            Contains(u.wait[q], x) <=> Contains(k.wait[q], x) /\ x # t
  BY <1>1, UnlinkFacts
<1>5. u = [k EXCEPT !.rdy = u.rdy, !.wait = u.wait]
  BY <1>1 DEF Unlink, KernelType
<1> HIDE DEF u
<1>6. u = [k EXCEPT !.wait = u.wait]
  BY <1>1, <1>3, <1>5 DEF KernelType
<1>7. /\ u.stat = k.stat /\ u.prio = k.prio /\ u.mask = k.mask
      /\ u.group = k.group /\ u.timers = k.timers
  BY <1>1, <1>6 DEF KernelType
<1>8. GroupExact(u) /\ MasksExact(u) /\ TimersExact(u)
  BY <1>3, <1>7 DEF KernelInv, GroupExact, MasksExact, TimersExact
<1>9. LinksExact(u, D)
  BY <1>3, <1>4, <1>7 DEF KernelInv, LinksExact
<1> QED BY <1>2, <1>3, <1>4, <1>6, <1>8, <1>9 DEF KernelInv, u

(* The first section of rt_thread_resume.                                  *)
LEMMA ResumeUnlinkFacts ==
    ASSUME NEW k, NEW D, KernelInv(k, D), NEW t \in Thread, k.stat[t] # "READY"
    PROVE  LET r == ResumeUnlink(k, t)
           IN  /\ KernelInv(r, D)
               /\ r = [k EXCEPT !.wait = r.wait, !.timers = r.timers, !.left = r.left]
               /\ \A q \in Queue : \A x :
                     Contains(r.wait[q], x) <=> Contains(k.wait[q], x) /\ x # t
               /\ \A x : Contains(r.timers, x) <=> Contains(k.timers, x) /\ x # t
               /\ \A p \in Prio : ~Contains(r.rdy[p], t)
<1> DEFINE u == Unlink(k, t)
           r == TimerStop(u, t)
<1>1. /\ KernelInv(u, D)
      /\ u = [k EXCEPT !.wait = u.wait]
      /\ \A q \in Queue : \A x : Contains(u.wait[q], x) <=> Contains(k.wait[q], x) /\ x # t
      /\ \A p \in Prio : ~Contains(u.rdy[p], t)
  BY UnlinkWaiter
<1> HIDE DEF u
<1>2. /\ KernelInv(r, D)
      /\ r = [u EXCEPT !.timers = r.timers, !.left = r.left]
      /\ \A x : Contains(r.timers, x) <=> Contains(u.timers, x) /\ x # t
  BY <1>1, TimerStopFacts
<1>3. r = ResumeUnlink(k, t)
  BY DEF ResumeUnlink, u
<1> HIDE DEF r
<1>4. k \in KernelType /\ u \in KernelType
  BY <1>1 DEF KernelInv
<1>5. u.timers = k.timers /\ r.rdy = u.rdy /\ r.wait = u.wait
  BY <1>1, <1>2, <1>4 DEF KernelType
<1>6. r = [k EXCEPT !.wait = r.wait, !.timers = r.timers, !.left = r.left]
  BY <1>1, <1>2, <1>4, <1>5 DEF KernelType
<1> QED BY <1>1, <1>2, <1>3, <1>5, <1>6

(* A change of priority of a thread that is on no ready list.              *)
LEMMA SetPriorityFacts ==
    ASSUME NEW k, NEW D, KernelInv(k, D), NEW t \in Thread, NEW p \in Prio,
           k.stat[t] = "READY" => t \in D
    PROVE  KernelInv(SetPriority(k, t, p), D)
<1> DEFINE r == SetPriority(k, t, p)
<1> USE DEF KernelInv
<1>1. /\ r = [k EXCEPT !.prio = r.prio, !.mask = r.mask]
      /\ r.prio = [k.prio EXCEPT ![t] = p]
      /\ r.mask = [k.mask EXCEPT ![t] = {p}]
      /\ k.prio \in [Thread -> Prio] /\ k.mask \in [Thread -> SUBSET Prio]
  BY DEF SetPriority, KernelType
<1> HIDE DEF r
<1>2. r.prio \in [Thread -> Prio] /\ r.mask \in [Thread -> SUBSET Prio]
  BY <1>1
<1>3. r \in KernelType
  BY <1>1, <1>2 DEF KernelType
<1>4. /\ r.stat = k.stat /\ r.rdy = k.rdy /\ r.group = k.group
      /\ r.wait = k.wait /\ r.timers = k.timers
  BY <1>1 DEF KernelType
<1>5. GroupExact(r) /\ ListsExact(r) /\ TimersExact(r)
  BY <1>4 DEF GroupExact, ListsExact, TimersExact
<1>6. LinksExact(r, D)
  <2> SUFFICES ASSUME NEW x \in Thread
               PROVE  /\ \A y \in Prio : Contains(k.rdy[y], x) <=>
                            k.stat[x] = "READY" /\ r.prio[x] = y /\ x \notin D
                      /\ \A q \in Queue : Contains(k.wait[q], x) =>
                            k.stat[x] # "READY" /\ x \notin D
    BY <1>4 DEF LinksExact
  <2>1. CASE x = t
    BY <2>1 DEF LinksExact
  <2>2. CASE x # t
    <3>1. r.prio[x] = k.prio[x]
      BY <1>1, <2>2
    <3> QED BY <3>1 DEF LinksExact
  <2> QED BY <2>1, <2>2
<1>7. MasksExact(r)
  BY <1>1, <1>4 DEF MasksExact
<1> QED BY <1>1, <1>3, <1>5, <1>6, <1>7 DEF r

(* rt_thread_control(CHANGE_PRIORITY) moves a READY thread to the list of  *)
(* its new priority.                                                       *)
LEMMA ChangePriorityFacts ==
    ASSUME NEW k, NEW D, KernelInv(k, D), NEW t \in Thread, t \notin D,
           NEW p \in Prio
    PROVE  LET r == ChangePriority(k, t, p)
           IN  /\ KernelInv(r, D)
               /\ r.stat = k.stat /\ r.timers = k.timers
               /\ r.cur = k.cur /\ r.nest = k.nest /\ r.isr = k.isr
               /\ r.owed = TRUE
               /\ \A q \in Queue : \A x : Contains(r.wait[q], x) <=> Contains(k.wait[q], x)
<1> DEFINE r == ChangePriority(k, t, p)
           m == RemoveThread(k, t)
           s == SetPriority(m, t, p)
           n == InsertThread(s, t)
<1>0. k \in KernelType
  BY DEF KernelInv
<1>1. CASE k.stat[t] = "READY"
  <2>1. /\ KernelInv(m, D \cup {t})
        /\ m = [k EXCEPT !.rdy = m.rdy, !.wait = m.wait, !.group = m.group]
    BY <1>1, RemoveFacts
  <2>2. m.wait = Unlink(k, t).wait
    BY <1>0 DEF RemoveThread, Unlink, KernelType
  <2>3. \A q \in Queue : \A x : Contains(m.wait[q], x) <=> Contains(k.wait[q], x)
    <3>1. \A q \in Queue : ~Contains(k.wait[q], t)
      BY <1>1 DEF KernelInv, LinksExact
    <3>2. ListsExact(k)
      BY DEF KernelInv
    <3> QED BY <1>0, <2>2, <3>1, <3>2, UnlinkFacts
  <2> HIDE DEF m
  <2>4. KernelInv(s, D \cup {t})
    BY <2>1, SetPriorityFacts
  <2>5. /\ m \in KernelType /\ s \in KernelType
        /\ s = [m EXCEPT !.prio = s.prio, !.mask = s.mask]
        /\ s.prio = [m.prio EXCEPT ![t] = p]
        /\ s.mask = [m.mask EXCEPT ![t] = {p}]
    <3>1. m \in KernelType /\ s \in KernelType
      BY <2>1, <2>4 DEF KernelInv
    <3> QED BY <3>1 DEF SetPriority, KernelType
  <2> HIDE DEF s
  <2>6. /\ s.mask[t] = {s.prio[t]}
        /\ s.stat = k.stat /\ s.timers = k.timers /\ s.wait = m.wait
        /\ s.cur = k.cur /\ s.nest = k.nest /\ s.isr = k.isr
    <3>1. /\ m.stat = k.stat /\ m.timers = k.timers
          /\ m.cur = k.cur /\ m.nest = k.nest /\ m.isr = k.isr
      BY <1>0, <2>1 DEF KernelType
    <3>2. /\ s.stat = m.stat /\ s.timers = m.timers /\ s.wait = m.wait
          /\ s.cur = m.cur /\ s.nest = m.nest /\ s.isr = m.isr
      BY <2>5 DEF KernelType
    <3>3. s.mask[t] = {p} /\ s.prio[t] = p
      BY <2>5 DEF KernelType
    <3> QED BY <3>1, <3>2, <3>3
  <2>7. /\ \A y \in Prio : ~Contains(s.rdy[y], t)
        /\ \A q \in Queue : ~Contains(s.wait[q], t)
    BY <2>4 DEF KernelInv, LinksExact
  <2>8. ~Contains(s.timers, t)
    BY <1>1, <2>6 DEF KernelInv, TimersExact
  <2>9. /\ KernelInv(n, (D \cup {t}) \ {t})
        /\ n = [s EXCEPT !.stat = [s.stat EXCEPT ![t] = "READY"],
                         !.rdy = n.rdy, !.group = n.group]
    <3>1. KernelInv(n, (D \cup {t}) \ {t})
      BY <2>4, <2>6, <2>7, <2>8, InsertFacts
    <3> QED BY <2>5, <3>1 DEF InsertThread, KernelType
  <2>10. KernelInv(n, D)
    <3>1. (D \cup {t}) \ {t} = D
      OBVIOUS
    <3> QED BY <2>9, <3>1
  <2> HIDE DEF n
  <2>11. n \in KernelType
    BY <2>10 DEF KernelInv
  <2>12. r = [n EXCEPT !.owed = TRUE]
    BY <1>1 DEF ChangePriority, m, s, n
  <2> HIDE DEF r
  <2>13. /\ r \in KernelType /\ r.owed = TRUE
         /\ r.stat = n.stat /\ r.prio = n.prio /\ r.mask = n.mask /\ r.rdy = n.rdy
         /\ r.group = n.group /\ r.wait = n.wait /\ r.timers = n.timers
         /\ r.cur = n.cur /\ r.nest = n.nest /\ r.isr = n.isr
    BY <2>11, <2>12 DEF KernelType
  <2>14. KernelInv(r, D)
    BY <2>10, <2>13, FrameFacts
  <2>15. /\ n.stat = k.stat /\ n.timers = k.timers /\ n.wait = m.wait
         /\ n.cur = k.cur /\ n.nest = k.nest /\ n.isr = k.isr
    <3>1. [k.stat EXCEPT ![t] = "READY"] = k.stat
      BY <1>0, <1>1 DEF KernelType
    <3>2. /\ n.stat = [s.stat EXCEPT ![t] = "READY"] /\ n.timers = s.timers
          /\ n.wait = s.wait /\ n.cur = s.cur /\ n.nest = s.nest /\ n.isr = s.isr
      BY <2>5, <2>9 DEF KernelType
    <3> QED BY <2>6, <3>1, <3>2
  <2> QED BY <2>3, <2>13, <2>14, <2>15 DEF r
<1>2. CASE k.stat[t] # "READY"
  <2> DEFINE w == SetPriority(k, t, p)
  <2>1. /\ KernelInv(w, D)
        /\ w = [k EXCEPT !.prio = w.prio, !.mask = w.mask]
    <3>1. KernelInv(w, D)
      BY <1>2, SetPriorityFacts
    <3> QED BY <1>0, <3>1 DEF SetPriority, KernelType
  <2>2. r = [w EXCEPT !.owed = TRUE]
    BY <1>2 DEF ChangePriority
  <2> HIDE DEF w
  <2>3. w \in KernelType
    BY <2>1 DEF KernelInv
  <2> HIDE DEF r
  <2>4. /\ r \in KernelType /\ r.owed = TRUE
        /\ r.stat = w.stat /\ r.prio = w.prio /\ r.mask = w.mask /\ r.rdy = w.rdy
        /\ r.group = w.group /\ r.wait = w.wait /\ r.timers = w.timers
        /\ r.cur = w.cur /\ r.nest = w.nest /\ r.isr = w.isr
    BY <2>2, <2>3 DEF KernelType
  <2>5. KernelInv(r, D)
    BY <2>1, <2>4, FrameFacts
  <2>6. /\ w.stat = k.stat /\ w.timers = k.timers /\ w.wait = k.wait
        /\ w.cur = k.cur /\ w.nest = k.nest /\ w.isr = k.isr
    BY <1>0, <2>1 DEF KernelType
  <2> QED BY <2>4, <2>5, <2>6 DEF r
<1> QED BY <1>1, <1>2

(* It leaves the wait queues and the errors alone.                         *)
LEMMA ChangePriorityData ==
    ASSUME NEW k, NEW D, KernelInv(k, D), NEW t \in Thread, NEW p \in Prio
    PROVE  LET r == ChangePriority(k, t, p)
           IN  /\ r.prio = [k.prio EXCEPT ![t] = p]
               /\ r.error = k.error /\ r.wait = k.wait
<1> DEFINE r == ChangePriority(k, t, p)
           m == RemoveThread(k, t)
<1>1. k \in KernelType
  BY DEF KernelInv
<1>2. CASE k.stat[t] = "READY"
  <2>1. /\ m.prio = k.prio /\ m.error = k.error
        /\ m.wait = [q \in Queue |-> Without(k.wait[q], t)]
    BY <1>1 DEF RemoveThread, Unlink, KernelType
  <2>2. \A q \in Queue : Without(k.wait[q], t) = k.wait[q]
    BY <1>2 DEF KernelInv, LinksExact, Without
  <2>3. k.wait = [q \in Queue |-> k.wait[q]]
    BY <1>1 DEF KernelType
  <2>4. r = [InsertThread(SetPriority(m, t, p), t) EXCEPT !.owed = TRUE]
    BY <1>2 DEF ChangePriority
  <2>5. m = [k EXCEPT !.rdy = m.rdy, !.wait = m.wait, !.group = m.group]
    BY <1>1 DEF RemoveThread, Unlink, KernelType
  <2> HIDE DEF m
  <2>6. r.prio = [m.prio EXCEPT ![t] = p] /\ r.error = m.error /\ r.wait = m.wait
    BY <1>1, <2>4, <2>5 DEF InsertThread, SetPriority, KernelType
  <2> QED BY <2>1, <2>2, <2>3, <2>6
<1>3. CASE k.stat[t] # "READY"
  BY <1>1, <1>3 DEF ChangePriority, SetPriority, KernelType
<1> QED BY <1>2, <1>3

LEMMA ChangePriorityNow ==
    ASSUME NEW k, KernelInv(k, {}), NEW t \in Thread, NEW p \in Prio
    PROVE  LET r == ChangePriority(k, t, p)
           IN  /\ KernelInv(r, {})
               /\ r.stat = k.stat /\ r.timers = k.timers
               /\ r.cur = k.cur /\ r.nest = k.nest /\ r.isr = k.isr
               /\ r.owed = TRUE
<1> DEFINE D == {}
<1>1. KernelInv(k, D) /\ t \notin D
  OBVIOUS
<1> HIDE DEF D
<1>2. LET r == ChangePriority(k, t, p)
      IN  /\ KernelInv(r, D)
          /\ r.stat = k.stat /\ r.timers = k.timers
          /\ r.cur = k.cur /\ r.nest = k.nest /\ r.isr = k.isr
          /\ r.owed = TRUE
          /\ \A q \in Queue : \A x : Contains(r.wait[q], x) <=> Contains(k.wait[q], x)
  BY <1>1, ChangePriorityFacts, ZenonT(30)
<1> QED BY <1>2 DEF D

(* The part of rt_thread_yield before its rt_schedule.                     *)
LEMMA YieldFacts ==
    ASSUME NEW k, NEW D, KernelInv(k, D), k.cur \in Thread, k.cur \notin D,
           MustYield(k)
    PROVE  LET r == YieldMove(k)
           IN  /\ KernelInv(r, D)
               /\ r = [k EXCEPT !.rdy = r.rdy]
<1> DEFINE t == k.cur
           p0 == k.prio[t]
           u == Unlink(k, t)
           r == YieldMove(k)
<1> USE DEF KernelInv
<1>1. /\ u \in KernelType /\ ListsExact(u)
      /\ \A p \in Prio : \A x :
            Contains(u.rdy[p], x) <=> Contains(k.rdy[p], x) /\ x # t
  BY UnlinkFacts
<1>2. k.stat[t] = "READY"
  BY DEF MustYield
<1>3. u.wait = k.wait
  <2>1. \A q \in Queue : ~Contains(k.wait[q], t)
    BY <1>2 DEF LinksExact
  <2>2. \A q \in Queue : Without(k.wait[q], t) = k.wait[q]
    BY <2>1 DEF Without
  <2>3. u.wait = [q \in Queue |-> Without(k.wait[q], t)]
    BY DEF Unlink, KernelType
  <2>4. k.wait = [q \in Queue |-> k.wait[q]]
    BY DEF KernelType
  <2> QED BY <2>2, <2>3, <2>4
<1>4. u = [k EXCEPT !.rdy = u.rdy]
  <2>1. u = [k EXCEPT !.rdy = u.rdy, !.wait = u.wait]
    BY DEF Unlink, KernelType
  <2> HIDE DEF u
  <2> QED BY <1>3, <2>1 DEF KernelType
<1>5. p0 \in Prio
  BY DEF KernelType
<1> HIDE DEF u
<1>6. /\ r = [u EXCEPT !.rdy = r.rdy]
      /\ r.rdy = [u.rdy EXCEPT ![p0] = Append(u.rdy[p0], t)]
  BY <1>1 DEF YieldMove, KernelType, u
<1> HIDE DEF r
<1>7. r = [k EXCEPT !.rdy = r.rdy]
  <2>1. k \in KernelType
    OBVIOUS
  <2> HIDE DEF p0, t, KernelInv
  <2> QED BY <1>4, <1>6, <2>1 DEF KernelType
<1>8. /\ r.stat = k.stat /\ r.prio = k.prio /\ r.mask = k.mask
      /\ r.group = k.group /\ r.wait = k.wait /\ r.timers = k.timers
  BY <1>7 DEF KernelType
<1>9. /\ u.rdy \in [Prio -> Seq(Thread)] /\ k.rdy \in [Prio -> Seq(Thread)]
      /\ u.rdy[p0] \in Seq(Thread) /\ t \in Thread
      /\ NoRepeat(u.rdy[p0]) /\ ~Contains(u.rdy[p0], t)
  BY <1>1, <1>5 DEF KernelType, ListsExact
<1>10. /\ Append(u.rdy[p0], t) \in Seq(Thread)
       /\ Append(u.rdy[p0], t) # << >>
       /\ NoRepeat(Append(u.rdy[p0], t))
       /\ \A f : Contains(Append(u.rdy[p0], t), f) <=> Contains(u.rdy[p0], f) \/ f = t
  <2> HIDE DEF p0, t, KernelInv
  <2> QED BY <1>9, AppendFacts
<1>11. /\ r.rdy \in [Prio -> Seq(Thread)]
       /\ r.rdy[p0] = Append(u.rdy[p0], t)
       /\ \A p \in Prio : p # p0 => r.rdy[p] = u.rdy[p]
  <2> HIDE DEF p0, t, KernelInv
  <2> QED BY <1>5, <1>6, <1>9, <1>10
<1>12. r \in KernelType
  <2> HIDE DEF p0, t, KernelInv
  <2>1. k \in KernelType
    BY DEF KernelInv
  <2> QED BY <1>7, <1>11, <2>1 DEF KernelType
<1>13. ListsExact(r)
  <2> HIDE DEF p0, t, KernelInv
  <2>1. \A p \in Prio : NoRepeat(u.rdy[p])
    BY <1>1 DEF ListsExact
  <2>2. \A p \in Prio : NoRepeat(r.rdy[p])
    BY <1>10, <1>11, <2>1
  <2>3. ListsExact(k)
    BY DEF KernelInv
  <2> QED BY <1>8, <2>2, <2>3 DEF ListsExact
<1>14. ASSUME NEW p \in Prio, NEW x PROVE Contains(r.rdy[p], x) <=> Contains(k.rdy[p], x)
  <2>1. Contains(k.rdy[p0], t) /\ (p # p0 => ~Contains(k.rdy[p], t))
    <3>1. LinksExact(k, D) /\ t \in Thread /\ t \notin D /\ p0 = k.prio[t]
      OBVIOUS
    <3> HIDE DEF p0, t, KernelInv
    <3> QED BY <1>2, <1>5, <3>1 DEF LinksExact
  <2> HIDE DEF p0, t, KernelInv
  <2>2. CASE p = p0
    BY <1>1, <1>5, <1>10, <1>11, <2>1, <2>2
  <2>3. CASE p # p0
    BY <1>1, <1>11, <2>1, <2>3
  <2> QED BY <2>2, <2>3
<1>15. LinksExact(r, D)
  BY <1>8, <1>14 DEF LinksExact
<1>16. GroupExact(r)
  <2> SUFFICES ASSUME NEW p \in Prio PROVE r.rdy[p] = << >> <=> k.rdy[p] = << >>
    BY <1>8 DEF GroupExact
  <2>1. r.rdy[p] \in Seq(Thread) /\ k.rdy[p] \in Seq(Thread)
    BY <1>12 DEF KernelType
  <2>2. /\ r.rdy[p] = << >> <=> \A f \in Thread : ~Contains(r.rdy[p], f)
        /\ k.rdy[p] = << >> <=> \A f \in Thread : ~Contains(k.rdy[p], f)
    <3> HIDE DEF KernelInv
    <3> QED BY <2>1, EmptyFacts
  <2> QED BY <1>14, <2>2
<1>17. MasksExact(r) /\ TimersExact(r)
  BY <1>8 DEF MasksExact, TimersExact
<1> QED BY <1>7, <1>12, <1>13, <1>15, <1>16, <1>17 DEF r

(* rt_thread_timeout, the callback of an expired thread timer: the thread  *)
(* is ready again, and the processor is given away unless the scheduler is *)
(* locked.                                                                 *)
LEMMA ExpireFacts ==
    ASSUME NEW k, NEW D, KernelInv(k, D), k.timers # << >>,
           Head(k.timers) \notin D
    PROVE  LET t == Head(k.timers)
               r == TimerExpire(k)
           IN  /\ t \in Thread /\ Contains(k.timers, t) /\ k.stat[t] = "SUSPEND"
               /\ KernelInv(r, D)
               /\ r.stat = [k.stat EXCEPT ![t] = "READY"]
               /\ \A x : Contains(r.timers, x) <=> Contains(k.timers, x) /\ x # t
               /\ \A q \in Queue : \A x :
                     Contains(r.wait[q], x) <=> Contains(k.wait[q], x) /\ x # t
               /\ r.nest = k.nest /\ r.isr = k.isr
               /\ k.nest # 0 => r.cur = k.cur /\ r.owed = k.owed
               /\ k.nest = 0 => r.cur = Highest(r) /\ r.owed = FALSE
               /\ k.nest = 0 => r.cur \in Thread \ D /\ r.stat[r.cur] = "READY"
<1> DEFINE t == Head(k.timers)
           a == TimerStop(k, t)
           b == [a EXCEPT !.error[t] = "ETIMEOUT"]
           c == Unlink(b, t)
           d == InsertThread(c, t)
           r == Schedule(d)
<1>0. k \in KernelType
  BY DEF KernelInv
<1>1. t \in Thread /\ Contains(k.timers, t) /\ k.stat[t] = "SUSPEND"
  <2>1. k.timers \in Seq(Thread)
    BY <1>0 DEF KernelType
  <2>2. t \in Thread /\ Contains(k.timers, t)
    BY <2>1, EmptyFacts
  <2> QED BY <2>2 DEF KernelInv, TimersExact
<1>2. r = TimerExpire(k)
  BY DEF TimerExpire, Timeout
<1> HIDE DEF t
<1>3. /\ KernelInv(a, D)
      /\ a = [k EXCEPT !.timers = a.timers, !.left = a.left]
      /\ \A x : Contains(a.timers, x) <=> Contains(k.timers, x) /\ x # t
  BY <1>1, TimerStopFacts
<1> HIDE DEF a
<1>4. a \in KernelType
  BY <1>3 DEF KernelInv
<1>5. /\ b \in KernelType
      /\ b.stat = a.stat /\ b.prio = a.prio /\ b.mask = a.mask /\ b.rdy = a.rdy
      /\ b.group = a.group /\ b.wait = a.wait /\ b.timers = a.timers
      /\ b.nest = a.nest /\ b.isr = a.isr /\ b.cur = a.cur /\ b.owed = a.owed
  BY <1>1, <1>4 DEF KernelType, Errno
<1> HIDE DEF b
<1>6. KernelInv(b, D)
  BY <1>3, <1>5, FrameFacts
<1>7. /\ a.stat = k.stat /\ a.wait = k.wait /\ a.nest = k.nest /\ a.isr = k.isr
      /\ a.cur = k.cur /\ a.owed = k.owed
  BY <1>0, <1>3 DEF KernelType
<1>8. b.stat[t] = "SUSPEND" /\ b.stat[t] # "READY"
  BY <1>1, <1>5, <1>7
<1>9. /\ KernelInv(c, D)
      /\ c = [b EXCEPT !.wait = c.wait]
      /\ \A q \in Queue : \A x : Contains(c.wait[q], x) <=> Contains(b.wait[q], x) /\ x # t
      /\ \A p \in Prio : ~Contains(c.rdy[p], t)
  BY <1>1, <1>6, <1>8, UnlinkWaiter
<1> HIDE DEF c
<1>10. c \in KernelType
  BY <1>9 DEF KernelInv
<1>11. /\ c.stat = k.stat /\ c.timers = a.timers /\ c.nest = k.nest
       /\ c.isr = k.isr /\ c.cur = k.cur /\ c.owed = k.owed
  <2>1. /\ c.stat = b.stat /\ c.timers = b.timers /\ c.nest = b.nest
        /\ c.isr = b.isr /\ c.cur = b.cur /\ c.owed = b.owed
    BY <1>5, <1>9 DEF KernelType
  <2> QED BY <1>5, <1>7, <2>1
<1>12. /\ \A q \in Queue : ~Contains(c.wait[q], t)
       /\ ~Contains(c.timers, t)
       /\ c.mask[t] = {c.prio[t]}
  <2>1. c.stat[t] = "SUSPEND"
    BY <1>1, <1>11
  <2> QED BY <1>1, <1>3, <1>9, <1>11, <2>1 DEF KernelInv, MasksExact
<1>13. KernelInv(d, D \ {t}) /\ d.group # {}
  BY <1>1, <1>9, <1>12, InsertFacts
<1>14. D \ {t} = D
  BY DEF t
<1>15. /\ d.stat = [c.stat EXCEPT ![t] = "READY"] /\ d.timers = c.timers
       /\ d.wait = c.wait /\ d.nest = c.nest /\ d.isr = c.isr
       /\ d.cur = c.cur /\ d.owed = c.owed
  BY <1>10 DEF InsertThread, KernelType
<1> HIDE DEF d
<1>16. KernelInv(d, D) /\ d \in KernelType
  BY <1>13, <1>14 DEF KernelInv
<1>17. /\ KernelInv(r, D)
       /\ r = [d EXCEPT !.cur = r.cur, !.owed = r.owed]
       /\ d.nest = 0 => r.cur = Highest(d) /\ r.owed = FALSE
       /\ d.nest # 0 => r = d
  BY <1>13, <1>16, ScheduleFacts
<1> HIDE DEF r
<1>18. /\ r.stat = d.stat /\ r.timers = d.timers /\ r.wait = d.wait
       /\ r.nest = d.nest /\ r.isr = d.isr /\ r.rdy = d.rdy /\ r.group = d.group
  BY <1>16, <1>17 DEF KernelType
<1>19. Highest(d) \in Thread /\ d.stat[Highest(d)] = "READY" /\ Highest(d) \notin D
  BY <1>13, <1>16, HighestFacts
<1>20. Highest(r) = Highest(d)
  BY <1>18 DEF Highest
<1>21. /\ r.nest = k.nest /\ r.isr = k.isr
       /\ r.stat = [k.stat EXCEPT ![t] = "READY"]
       /\ k.nest # 0 => r.cur = k.cur /\ r.owed = k.owed
  BY <1>11, <1>15, <1>17, <1>18
<1>22. /\ k.nest = 0 => r.cur = Highest(r) /\ r.owed = FALSE
       /\ k.nest = 0 => r.cur \in Thread \ D /\ r.stat[r.cur] = "READY"
  BY <1>11, <1>15, <1>17, <1>18, <1>19, <1>20
<1>23. /\ \A x : Contains(r.timers, x) <=> Contains(k.timers, x) /\ x # t
       /\ \A q \in Queue : \A x : Contains(r.wait[q], x) <=> Contains(k.wait[q], x) /\ x # t
  BY <1>3, <1>5, <1>7, <1>9, <1>11, <1>15, <1>18
<1> QED BY <1>1, <1>2, <1>17, <1>21, <1>22, <1>23 DEF t

(* rt_tick_increase up to rt_timer_check.                                  *)
LEMMA TickFacts ==
    ASSUME NEW k, NEW D, KernelInv(k, D), k.cur \in Thread, k.cur \notin D,
           k.group # {}
    PROVE  LET r == TickIncrease(k)
           IN  /\ KernelInv(r, D)
               /\ r.stat = k.stat /\ r.timers = k.timers /\ r.wait = k.wait
               /\ r.nest = k.nest /\ r.group = k.group
               /\ k.nest # 0 => r.cur = k.cur /\ r.owed = k.owed
               /\ k.nest = 0 =>
                     \/ r.cur = k.cur /\ r.owed = k.owed /\ r.rdy = k.rdy
                     \/ /\ r.cur = Highest(r) /\ r.owed = FALSE
                        /\ r.cur \in Thread \ D /\ r.stat[r.cur] = "READY"
<1> DEFINE used == k.slice[k.cur] = 1
           s == [k EXCEPT !.slice[k.cur] = IF used THEN Slice ELSE @ - 1,
                          !.left = [t \in Thread |->
                                      IF k.left[t] > 0 THEN k.left[t] - 1 ELSE 0],
                          !.isr = TRUE]
           y == YieldMove(s)
           r == TickIncrease(k)
<1>0. k \in KernelType
  BY DEF KernelInv
<1>1. r = IF used /\ MustYield(s) THEN Schedule(y) ELSE s
  BY DEF TickIncrease
<1>2. /\ s.stat = k.stat /\ s.prio = k.prio /\ s.mask = k.mask /\ s.rdy = k.rdy
      /\ s.group = k.group /\ s.wait = k.wait /\ s.timers = k.timers
      /\ s.nest = k.nest /\ s.cur = k.cur /\ s.owed = k.owed
  BY <1>0 DEF KernelType
<1>3. s \in KernelType
  <2> DEFINE sl == [k.slice EXCEPT ![k.cur] = IF used THEN Slice ELSE @ - 1]
             le == [t \in Thread |-> IF k.left[t] > 0 THEN k.left[t] - 1 ELSE 0]
  <2>1. sl \in [Thread -> 1..Slice]
    BY <1>0, KernelAssumption DEF KernelType
  <2>2. le \in [Thread -> Nat]
    BY <1>0 DEF KernelType
  <2> HIDE DEF sl, le
  <2>3. [k EXCEPT !.slice = sl, !.left = le, !.isr = TRUE] \in KernelType
    BY <1>0, <2>1, <2>2 DEF KernelType
  <2>4. s = [k EXCEPT !.slice = sl, !.left = le, !.isr = TRUE]
    BY <1>0 DEF KernelType, sl, le
  <2> QED BY <2>3, <2>4
<1> HIDE DEF s
<1>4. KernelInv(s, D)
  BY <1>2, <1>3, FrameFacts
<1>5. CASE ~(used /\ MustYield(s))
  BY <1>1, <1>2, <1>4, <1>5
<1>6. CASE used /\ MustYield(s)
  <2>1. r = Schedule(y)
    BY <1>1, <1>6
  <2> HIDE DEF r, used
  <2>2. KernelInv(y, D) /\ y = [s EXCEPT !.rdy = y.rdy]
    BY <1>2, <1>4, <1>6, YieldFacts
  <2> HIDE DEF y
  <2>3. y \in KernelType
    BY <2>2 DEF KernelInv
  <2>4. /\ y.stat = k.stat /\ y.timers = k.timers /\ y.wait = k.wait
        /\ y.nest = k.nest /\ y.group = k.group /\ y.cur = k.cur /\ y.owed = k.owed
    <3>1. /\ y.stat = s.stat /\ y.timers = s.timers /\ y.wait = s.wait
          /\ y.nest = s.nest /\ y.group = s.group /\ y.cur = s.cur /\ y.owed = s.owed
      BY <1>3, <2>2 DEF KernelType
    <3> QED BY <1>2, <3>1
  <2>5. y.group # {}
    BY <2>4
  <2>6. /\ KernelInv(r, D)
        /\ r = [y EXCEPT !.cur = r.cur, !.owed = r.owed]
        /\ y.nest = 0 => r.cur = Highest(y) /\ r.owed = FALSE
        /\ y.nest # 0 => r = y
    BY <2>1, <2>2, <2>5, ScheduleFacts
  <2>7. /\ r.stat = y.stat /\ r.timers = y.timers /\ r.wait = y.wait
        /\ r.nest = y.nest /\ r.group = y.group /\ r.rdy = y.rdy
    BY <2>3, <2>6 DEF KernelType
  <2>8. Highest(y) \in Thread /\ y.stat[Highest(y)] = "READY" /\ Highest(y) \notin D
    BY <2>2, <2>5, HighestFacts
  <2>9. Highest(r) = Highest(y)
    BY <2>7 DEF Highest
  <2>10. /\ r.stat = k.stat /\ r.timers = k.timers /\ r.wait = k.wait
         /\ r.nest = k.nest /\ r.group = k.group
         /\ k.nest # 0 => r.cur = k.cur /\ r.owed = k.owed
    BY <2>4, <2>6, <2>7
  <2>11. k.nest = 0 => /\ r.cur = Highest(r) /\ r.owed = FALSE
                       /\ r.cur \in Thread \ D /\ r.stat[r.cur] = "READY"
    BY <2>4, <2>6, <2>7, <2>8, <2>9
  <2> QED BY <2>6, <2>10, <2>11 DEF r
<1> QED BY <1>5, <1>6

(* Taking another thread off its list leaves the scheduler's choice.       *)
LEMMA RemoveOther ==
    ASSUME NEW k, NEW D, KernelInv(k, D), k.group # {}, NEW t \in Thread,
           k.stat[t] \in {"READY", "SUSPEND"}, Highest(k) # t
    PROVE  Highest(RemoveThread(k, t)) = Highest(k)
<1> DEFINE r == RemoveThread(k, t)
           p == Min(k.group)
           s == k.rdy[p]
           w == Without(s, t)
<1>1. KernelInv(r, D \cup {t})
  BY RemoveFacts
<1>2. /\ p \in k.group /\ s # << >> /\ Highest(k) = Head(s)
      /\ \A x \in k.group : p <= x
  BY HighestFacts
<1>3. p \in Prio /\ s \in Seq(Thread) /\ k.group \subseteq Prio
  BY <1>2 DEF KernelInv, KernelType
<1>4. /\ r.rdy[p] = w
      /\ r.group \subseteq k.group
  <2>1. k \in KernelType
    BY DEF KernelInv
  <2>2. r.rdy = [x \in Prio |-> Without(k.rdy[x], t)]
    BY <2>1 DEF RemoveThread, Unlink, KernelType
  <2>3. r.group \subseteq k.group
    BY <2>1 DEF RemoveThread, Unlink, KernelType
  <2> QED BY <1>3, <2>2, <2>3
<1> HIDE DEF r, p
<1>5. w # << >> /\ Head(w) = Head(s)
  <2>1. CASE ~Contains(s, t)
    BY <1>2, <2>1 DEF Without
  <2>2. CASE Contains(s, t)
    <3> DEFINE n == CHOOSE i \in 1..Len(s) : s[i] = t
    <3>1. n \in 1..Len(s) /\ s[n] = t /\ Len(s) \in Nat
      BY <1>3, <2>2, LenProperties DEF Contains
    <3>2. w = RemoveAt(s, n)
      BY <2>2 DEF Without
    <3>3. Head(s) = s[1]
      BY <1>2, <1>3, HeadTailProperties
    <3> HIDE DEF n, s, w
    <3>4. n > 1 /\ Len(s) > 1
      BY <1>2, <3>1, <3>3
    <3>5. /\ w \in Seq(Thread) /\ Len(w) = Len(s) - 1
          /\ \A i \in 1..(Len(s) - 1) : w[i] = IF i < n THEN s[i] ELSE s[i + 1]
      BY <1>3, <3>1, <3>2, RemoveAtFacts
    <3>6. 1 \in 1..(Len(s) - 1) /\ 1 < n
      BY <3>1, <3>4
    <3>7. w[1] = s[1]
      BY <3>5, <3>6
    <3>8. Len(w) > 0
      BY <3>1, <3>4, <3>5
    <3>9. w # << >> /\ Head(w) = w[1]
      BY <3>5, <3>8, EmptySeq, HeadTailProperties
    <3> QED BY <3>3, <3>7, <3>9
  <2> QED BY <2>1, <2>2
<1>6. p \in r.group
  BY <1>1, <1>3, <1>4, <1>5 DEF KernelInv, GroupExact
<1>7. Min(r.group) = p
  <2>1. r.group \in SUBSET Nat /\ r.group # {}
    BY <1>3, <1>4, <1>6 DEF Prio
  <2>2. Min(r.group) \in r.group /\ \A x \in r.group : Min(r.group) <= x
    BY <2>1, MinOfNat
  <2> QED BY <1>2, <1>4, <1>6, <2>1, <2>2
<1>8. Highest(r) = Head(w)
  BY <1>4, <1>5, <1>6, <1>7 DEF Highest
<1> QED BY <1>2, <1>5, <1>8 DEF r

(* Linking a new node at the head of a list.                               *)
LEMMA PrependFacts ==
    ASSUME NEW S, NEW s \in Seq(S), NEW e \in S, NoRepeat(s), ~Contains(s, e)
    PROVE  /\ <<e>> \o s \in Seq(S)
           /\ NoRepeat(<<e>> \o s)
           /\ \A f : Contains(<<e>> \o s, f) <=> Contains(s, f) \/ f = e
<1> DEFINE w == <<e>> \o s
           l == Len(s)
<1>1. l \in Nat /\ DOMAIN s = 1..l
  BY LenProperties
<1>2. /\ w \in Seq(S) /\ Len(w) = l + 1
      /\ \A i \in 1..(l + 1) : w[i] = IF i <= 1 THEN e ELSE s[i - 1]
  <2>1. <<e>> \in Seq(S) /\ Len(<<e>>) = 1 /\ <<e>>[1] = e
    OBVIOUS
  <2>2. /\ w \in Seq(S) /\ Len(w) = 1 + l
        /\ \A i \in 1..(1 + l) : w[i] = IF i <= 1 THEN <<e>>[i] ELSE s[i - 1]
    BY <2>1, ConcatProperties
  <2> QED BY <1>1, <2>1, <2>2
<1>3. DOMAIN w = 1..(l + 1)
  BY <1>1, <1>2, LenProperties
<1>4. /\ \A i, j \in 1..l : s[i] = s[j] => i = j
      /\ \A i \in 1..l : s[i] # e
  BY <1>1 DEF NoRepeat, Contains
<1>5. \A f : Contains(s, f) <=> \E i \in 1..l : s[i] = f
  BY DEF Contains
<1>6. \A f : Contains(w, f) <=> \E i \in 1..(l + 1) : w[i] = f
  BY <1>2 DEF Contains
<1> HIDE DEF w, l
<1>7. ASSUME NEW i \in 1..(l + 1)
      PROVE  \/ i = 1 /\ w[i] = e
             \/ i - 1 \in 1..l /\ w[i] = s[i - 1]
  <2>1. w[i] = IF i <= 1 THEN e ELSE s[i - 1]
    BY <1>2
  <2>2. CASE i <= 1
    BY <1>1, <2>1, <2>2
  <2>3. CASE ~(i <= 1)
    <3>1. i - 1 \in 1..l
      BY <1>1, <2>3
    <3> QED BY <2>1, <2>3, <3>1
  <2> QED BY <2>2, <2>3
<1>8. NoRepeat(w)
  BY <1>1, <1>3, <1>4, <1>7 DEF NoRepeat
<1>9. ASSUME NEW f, Contains(w, f) PROVE Contains(s, f) \/ f = e
  BY <1>5, <1>6, <1>7, <1>9
<1>10. ASSUME NEW f, Contains(s, f) PROVE Contains(w, f)
  <2>1. PICK i \in 1..l : s[i] = f
    BY <1>5, <1>10
  <2>2. i + 1 \in 1..(l + 1) /\ ~(i + 1 <= 1) /\ (i + 1) - 1 = i
    BY <1>1
  <2>3. w[i + 1] = f
    BY <1>2, <2>1, <2>2
  <2> QED BY <1>6, <2>2, <2>3
<1>11. Contains(w, e)
  <2>1. 1 \in 1..(l + 1) /\ w[1] = e
    BY <1>1, <1>2
  <2> QED BY <1>6, <2>1
<1> QED BY <1>2, <1>8, <1>9, <1>10, <1>11 DEF w

(* Between k and r thread t is linked in wait queue q, wherever in the     *)
(* list its node goes.                                                     *)
Linked(k, r, q, t) ==
    /\ r \in KernelType
    /\ r.stat = k.stat /\ r.prio = k.prio /\ r.mask = k.mask /\ r.rdy = k.rdy
    /\ r.group = k.group /\ r.timers = k.timers
    /\ \A y \in Queue : NoRepeat(r.wait[y])
    /\ \A y \in Queue : \A x : Contains(r.wait[y], x) <=>
          Contains(k.wait[y], x) \/ (x = t /\ y = q)

(* A thread that is not READY may be linked.                               *)
LEMMA LinkFacts ==
    ASSUME NEW k, NEW D, KernelInv(k, D), NEW t \in Thread, NEW q \in Queue,
           k.stat[t] # "READY", t \notin D, NEW r, Linked(k, r, q, t)
    PROVE  KernelInv(r, D)
<1> USE DEF KernelInv, Linked
<1>1. GroupExact(r) /\ MasksExact(r) /\ TimersExact(r)
  BY DEF GroupExact, MasksExact, TimersExact
<1>2. ListsExact(r)
  BY DEF ListsExact
<1>3. LinksExact(r, D)
  <2>1. \A x \in Thread, y \in Queue : Contains(k.wait[y], x) =>
            k.stat[x] # "READY" /\ x \notin D
    BY DEF LinksExact
  <2>2. \A x \in Thread, y \in Queue : Contains(r.wait[y], x) =>
            r.stat[x] # "READY" /\ x \notin D
    BY <2>1
  <2> QED BY <2>2 DEF LinksExact
<1> QED
  BY <1>1, <1>2, <1>3

(* The new list is the old one and t.                                      *)
LEMMA LinkedList ==
    ASSUME NEW k, k \in KernelType, ListsExact(k), NEW t \in Thread, NEW q \in Queue,
           NEW n \in Seq(Thread), NoRepeat(n),
           \A f : Contains(n, f) <=> Contains(k.wait[q], f) \/ f = t
    PROVE  Linked(k, [k EXCEPT !.wait = [k.wait EXCEPT ![q] = n]], q, t)
<1> DEFINE r == [k EXCEPT !.wait = [k.wait EXCEPT ![q] = n]]
<1>1. k.wait \in [Queue -> Seq(Thread)]
  BY DEF KernelType
<1>2. [k.wait EXCEPT ![q] = n] \in [Queue -> Seq(Thread)]
  BY <1>1
<1>3. r \in KernelType
  BY <1>2 DEF KernelType
<1>4. /\ r.stat = k.stat /\ r.prio = k.prio /\ r.mask = k.mask /\ r.rdy = k.rdy
      /\ r.group = k.group /\ r.timers = k.timers /\ r.wait = [k.wait EXCEPT ![q] = n]
  BY DEF KernelType
<1> HIDE DEF r
<1>5. ASSUME NEW y \in Queue
      PROVE  /\ NoRepeat(r.wait[y])
             /\ \A x : Contains(r.wait[y], x) <=>
                   Contains(k.wait[y], x) \/ (x = t /\ y = q)
  <2>1. CASE y = q
    <3>1. r.wait[y] = n
      BY <1>1, <1>4, <2>1
    <3> QED BY <2>1, <3>1
  <2>2. CASE y # q
    <3>1. r.wait[y] = k.wait[y]
      BY <1>1, <1>4, <2>2
    <3> QED BY <2>2, <3>1 DEF ListsExact
  <2> QED BY <2>1, <2>2
<1>6. Linked(k, r, q, t)
  BY <1>3, <1>4, <1>5 DEF Linked
<1> QED
  BY <1>6 DEF r

(* A dead thread that is on no list may be put at the head of a wait queue.*)
LEMMA LinkFirstFacts ==
    ASSUME NEW k, NEW D, KernelInv(k, D), NEW t \in Thread, NEW q \in Queue,
           k.stat[t] # "READY", t \notin D, ~Contains(k.wait[q], t)
    PROVE  LET r == LinkFirst(k, q, t)
           IN  /\ KernelInv(r, D)
               /\ \A y \in Queue : \A x : Contains(r.wait[y], x) <=>
                     Contains(k.wait[y], x) \/ (x = t /\ y = q)
<1> DEFINE n == <<t>> \o k.wait[q]
           r == LinkFirst(k, q, t)
<1>1. /\ k \in KernelType /\ ListsExact(k)
      /\ k.wait[q] \in Seq(Thread) /\ NoRepeat(k.wait[q])
  BY DEF KernelInv, KernelType, ListsExact
<1>2. /\ n \in Seq(Thread) /\ NoRepeat(n)
      /\ \A f : Contains(n, f) <=> Contains(k.wait[q], f) \/ f = t
  BY <1>1, PrependFacts
<1>3. r = [k EXCEPT !.wait = [k.wait EXCEPT ![q] = n]]
  BY DEF LinkFirst
<1> HIDE DEF n, r
<1>4. Linked(k, r, q, t)
  BY <1>1, <1>2, <1>3, LinkedList
<1>5. KernelInv(r, D)
  BY <1>4, LinkFacts
<1> QED
  BY <1>4, <1>5 DEF r, Linked

(* The threads of a finite set in some order.                              *)
LEMMA SetToSeqFacts ==
    ASSUME NEW S, IsFiniteSet(S)
    PROVE  /\ SetToSeq(S) \in Seq(S)
           /\ NoRepeat(SetToSeq(S))
           /\ \A x : Contains(SetToSeq(S), x) <=> x \in S
<1> DEFINE n == Cardinality(S)
           s == SetToSeq(S)
<1>1. n \in Nat /\ ExistsBijection(1..n, S)
  BY FS_CardinalityType
<1>2. \E f \in [1..n -> S] : IsInjective(f)
  BY <1>1 DEF ExistsBijection, Bijection, Injection
<1>3. s \in [1..n -> S] /\ IsInjective(s)
  BY <1>2 DEF SetToSeq
<1> HIDE DEF s
<1>4. s \in Injection(1..n, S)
  BY <1>3 DEF Injection
<1>5. IsFiniteSet(1..n) /\ Cardinality(1..n) = n
  <2>1. 1 \in Int /\ n \in Int /\ 1 <= n + 1
    BY <1>1
  <2>2. Cardinality(1..n) = IF 1 > n THEN 0 ELSE n - 1 + 1
    BY <2>1, FS_Interval
  <2> QED BY <1>1, <2>1, <2>2, FS_Interval
<1>6. s \in Surjection(1..n, S)
  BY <1>4, <1>5, FS_Injection
<1>7. \A x \in S : \E i \in 1..n : s[i] = x
  BY <1>6 DEF Surjection
<1>8. s \in Seq(S) /\ Len(s) = n /\ DOMAIN s = 1..n
  BY <1>1, <1>3
<1>9. NoRepeat(s)
  BY <1>3, <1>8 DEF NoRepeat, IsInjective
<1>10. \A x : Contains(s, x) <=> x \in S
  BY <1>3, <1>7, <1>8 DEF Contains
<1> QED BY <1>8, <1>9, <1>10 DEF s

(* What rt_system_scheduler_start leaves.                                  *)
LEMMA BootFacts ==
    ASSUME NEW S \in SUBSET Thread, IsFiniteSet(S), S # {},
           NEW prio \in [Thread -> Prio]
    PROVE  LET b == Boot(S, prio)
           IN  /\ KernelInv(b, {})
               /\ b.cur = Highest(b) /\ b.cur \in S
<1> DEFINE L(p) == {t \in S : prio[t] = p}
           rdy == [p \in Prio |-> SetToSeq(L(p))]
           group == {prio[t] : t \in S}
           b == Boot(S, prio)
<1>1. ASSUME NEW p \in Prio
      PROVE  /\ rdy[p] \in Seq(Thread) /\ NoRepeat(rdy[p])
             /\ \A x : Contains(rdy[p], x) <=> x \in S /\ prio[x] = p
             /\ rdy[p] # << >> <=> p \in group
             /\ rdy[p] # << >> => Head(rdy[p]) \in S
  <2>1. L(p) \in SUBSET S /\ IsFiniteSet(L(p))
    BY FS_Subset
  <2>2. rdy[p] = SetToSeq(L(p))
    OBVIOUS
  <2> HIDE DEF rdy
  <2>3. /\ rdy[p] \in Seq(L(p)) /\ NoRepeat(rdy[p])
        /\ \A x : Contains(rdy[p], x) <=> x \in L(p)
    <3> HIDE DEF L
    <3> QED BY <2>1, <2>2, SetToSeqFacts
  <2>4. rdy[p] \in Seq(Thread)
    <3>1. Len(rdy[p]) \in Nat /\ rdy[p] \in [1..Len(rdy[p]) -> L(p)]
      BY <2>3, LenProperties
    <3>2. rdy[p] \in [1..Len(rdy[p]) -> Thread]
      BY <2>1, <3>1
    <3> QED BY <3>1, <3>2, SeqDef
  <2>5. /\ rdy[p] = << >> <=> \A f \in L(p) : ~Contains(rdy[p], f)
        /\ rdy[p] # << >> => Head(rdy[p]) \in L(p)
    BY <2>3, EmptyFacts
  <2> QED BY <2>3, <2>4, <2>5
<1>2. /\ b.stat = [t \in Thread |-> IF t \in S THEN "READY" ELSE "NONE"]
      /\ b.prio = prio
      /\ b.mask = [t \in Thread |-> IF t \in S THEN {prio[t]} ELSE {}]
      /\ b.rdy = rdy /\ b.group = group
      /\ b.wait = [q \in Queue |-> << >>]
      /\ b.timers = << >>
      /\ b.cur = Head(rdy[Min(group)])
  BY DEF Boot
<1> HIDE DEF rdy
<1>3. group \in SUBSET Prio /\ group # {} /\ group \in SUBSET Nat
  BY DEF Prio
<1>4. Min(group) \in group
  BY <1>3, MinOfNat
<1>5. Min(group) \in Prio /\ rdy[Min(group)] # << >> /\ Head(rdy[Min(group)]) \in S
  BY <1>1, <1>3, <1>4
<1> HIDE DEF group
<1>6. b \in KernelType
  <2>1. rdy \in [Prio -> Seq(Thread)]
    <3>1. rdy = [p \in Prio |-> rdy[p]]
      BY DEF rdy
    <3> QED BY <1>1, <3>1
  <2>2. << >> \in Seq(Thread) /\ Slice \in 1..Slice
    BY KernelAssumption
  <2>3. b = [stat   |-> [t \in Thread |-> IF t \in S THEN "READY" ELSE "NONE"],
             prio   |-> prio,
             mask   |-> [t \in Thread |-> IF t \in S THEN {prio[t]} ELSE {}],
             error  |-> [t \in Thread |-> "EOK"],
             slice  |-> [t \in Thread |-> Slice],
             rdy    |-> rdy,
             group  |-> group,
             wait   |-> [q \in Queue |-> << >>],
             timers |-> << >>,
             left   |-> [t \in Thread |-> 0],
             cur    |-> Head(rdy[Min(group)]),
             nest   |-> 0, isr |-> FALSE, owed |-> FALSE]
    BY DEF Boot, rdy, group
  <2> HIDE DEF b
  <2>4. /\ [t \in Thread |-> IF t \in S THEN "READY" ELSE "NONE"] \in [Thread -> Stat]
        /\ [t \in Thread |-> IF t \in S THEN {prio[t]} ELSE {}] \in [Thread -> SUBSET Prio]
        /\ [t \in Thread |-> "EOK"] \in [Thread -> Errno]
        /\ [t \in Thread |-> Slice] \in [Thread -> 1..Slice]
        /\ [q \in Queue |-> << >>] \in [Queue -> Seq(Thread)]
        /\ [t \in Thread |-> 0] \in [Thread -> Nat]
    BY <2>2 DEF Stat, Errno
  <2>5. Head(rdy[Min(group)]) \in Thread \cup {Wild}
    BY <1>5
  <2> QED BY <1>3, <2>1, <2>2, <2>3, <2>4, <2>5 DEF KernelType
<1> HIDE DEF b
<1>7. GroupExact(b)
  BY <1>1, <1>2 DEF GroupExact
<1>8. ListsExact(b)
  BY <1>1, <1>2 DEF ListsExact, NoRepeat
<1>9. \A q \in Queue, t \in Thread : ~Contains(b.wait[q], t)
  BY <1>2 DEF Contains
<1>10. LinksExact(b, {})
  BY <1>1, <1>2, <1>9 DEF LinksExact
<1>11. MasksExact(b) /\ TimersExact(b)
  BY <1>2 DEF MasksExact, TimersExact, Contains
<1>12. b.cur = Highest(b)
  BY <1>2, <1>4, <1>5 DEF Highest
<1> QED BY <1>2, <1>5, <1>6, <1>7, <1>8, <1>10, <1>11, <1>12 DEF KernelInv, b

(* rt_thread_suspend after its check: the thread may be READY or, when it  *)
(* has suspended itself meanwhile, SUSPEND already.                        *)
LEMMA SuspendFacts ==
    ASSUME NEW k, NEW D, KernelInv(k, D), NEW t \in Thread, t \notin D,
           k.stat[t] \in {"READY", "SUSPEND"},
           \A q \in Queue : ~Contains(k.wait[q], t)
    PROVE  LET r == SuspendSection(k, t)
           IN  /\ KernelInv(r, D)
               /\ \A x \in Thread : r.stat[x] = IF x = t THEN "SUSPEND" ELSE k.stat[x]
               /\ r.timers = k.timers /\ r.cur = k.cur /\ r.nest = k.nest
               /\ r.isr = k.isr /\ r.owed = k.owed
               /\ \A q \in Queue : \A x : Contains(r.wait[q], x) <=> Contains(k.wait[q], x)
               /\ Highest(r) = Highest(RemoveThread(k, t))
<1> DEFINE m == RemoveThread(k, t)
           n == [m EXCEPT !.stat[t] = "SUSPEND"]
           r == SuspendSection(k, t)
<1>0. k \in KernelType /\ ListsExact(k)
  BY DEF KernelInv
<1>1. r = n
  <2> DEFINE j == [k EXCEPT !.stat[t] = "SUSPEND"]
             u == Unlink(k, t)
             g == IF u.rdy[k.prio[t]] = << >> THEN k.group \ k.mask[t] ELSE k.group
  <2>1. /\ j.rdy = k.rdy /\ j.wait = k.wait /\ j.prio = k.prio
        /\ j.mask = k.mask /\ j.group = k.group
    BY <1>0 DEF KernelType
  <2>2. Unlink(j, t) = [u EXCEPT !.stat[t] = "SUSPEND"]
    BY <1>0, <2>1 DEF Unlink, KernelType
  <2>3. u.group = k.group /\ u.stat = k.stat
    BY <1>0 DEF Unlink, KernelType
  <2>4. m = [u EXCEPT !.group = g]
    BY <2>3 DEF RemoveThread
  <2>5. Unlink(j, t).rdy = u.rdy /\ Unlink(j, t).group = k.group
    BY <1>0, <2>1 DEF Unlink, KernelType
  <2>6. r = [Unlink(j, t) EXCEPT !.group = g]
    <3>1. r = RemoveThread(j, t)
      BY DEF SuspendSection
    <3> HIDE DEF r, j
    <3> QED BY <2>1, <2>5, <3>1 DEF RemoveThread
  <2> HIDE DEF r, m, j, g
  <2>7. u \in KernelType
    BY <1>0, UnlinkFacts
  <2> HIDE DEF u
  <2> QED BY <2>2, <2>4, <2>6, <2>7 DEF KernelType
<1>2. /\ KernelInv(m, D \cup {t})
      /\ m = [k EXCEPT !.rdy = m.rdy, !.wait = m.wait, !.group = m.group]
  BY RemoveFacts
<1>3. m.wait = Unlink(k, t).wait
  BY <1>0 DEF RemoveThread, Unlink, KernelType
<1> HIDE DEF m
<1>4. m \in KernelType
  BY <1>2 DEF KernelInv
<1>5. /\ m.stat = k.stat /\ m.timers = k.timers /\ m.cur = k.cur
      /\ m.nest = k.nest /\ m.isr = k.isr /\ m.owed = k.owed
      /\ m.mask = k.mask /\ m.prio = k.prio
  BY <1>0, <1>2 DEF KernelType
<1>6. /\ n.stat = [m.stat EXCEPT ![t] = "SUSPEND"] /\ n.timers = m.timers
      /\ n.cur = m.cur /\ n.nest = m.nest /\ n.isr = m.isr /\ n.owed = m.owed
      /\ n.wait = m.wait /\ n.rdy = m.rdy /\ n.group = m.group
  BY <1>4 DEF KernelType
<1>7. m.mask[t] = {m.prio[t]}
  BY <1>5 DEF KernelInv, MasksExact
<1>8. KernelInv(n, D \ {t})
  <2>1. "SUSPEND" \in Stat \ {"READY"}
    BY DEF Stat
  <2> HIDE DEF n
  <2> QED BY <1>2, <1>7, <2>1, SetStatFacts DEF n
<1> HIDE DEF n
<1>9. KernelInv(n, D)
  <2>1. D \ {t} = D
    OBVIOUS
  <2> QED BY <1>8, <2>1
<1>10. \A q \in Queue : \A x : Contains(m.wait[q], x) <=> Contains(k.wait[q], x)
  BY <1>0, <1>3, UnlinkFacts
<1>11. \A x \in Thread : n.stat[x] = IF x = t THEN "SUSPEND" ELSE k.stat[x]
  BY <1>0, <1>5, <1>6 DEF KernelType
<1>12. Highest(n) = Highest(m)
  BY <1>6 DEF Highest
<1> QED BY <1>1, <1>5, <1>6, <1>9, <1>10, <1>11, <1>12 DEF m

(* rt_enter_critical and rt_exit_critical.                                 *)
LEMMA NestFacts ==
    ASSUME NEW k, NEW D, KernelInv(k, D), NEW n \in Nat
    PROVE  LET r == [k EXCEPT !.nest = n]
           IN  /\ KernelInv(r, D)
               /\ r.stat = k.stat /\ r.timers = k.timers /\ r.wait = k.wait
               /\ r.cur = k.cur /\ r.nest = n
<1> DEFINE r == [k EXCEPT !.nest = n]
<1>1. k \in KernelType
  BY DEF KernelInv
<1>2. /\ r \in KernelType
      /\ r.stat = k.stat /\ r.prio = k.prio /\ r.mask = k.mask /\ r.rdy = k.rdy
      /\ r.group = k.group /\ r.wait = k.wait /\ r.timers = k.timers
      /\ r.cur = k.cur /\ r.nest = n
  BY <1>1 DEF KernelType
<1> HIDE DEF r
<1>3. KernelInv(r, D)
  BY <1>2, FrameFacts
<1> QED BY <1>2, <1>3 DEF r

(* The end of a thread: it leaves its list for good.                       *)
LEMMA CloseFacts ==
    ASSUME NEW k, NEW D, KernelInv(k, D), NEW t \in Thread, t \notin D,
           k.stat[t] \in {"READY", "SUSPEND"}, ~Contains(k.timers, t)
    PROVE  LET r == Close(k, t)
           IN  /\ KernelInv(r, D)
               /\ \A x \in Thread : r.stat[x] = IF x = t THEN "CLOSE" ELSE k.stat[x]
               /\ r.cur = k.cur /\ r.nest = k.nest
               /\ \A x : Contains(r.timers, x) <=> Contains(k.timers, x) /\ x # t
               /\ \A q \in Queue : \A x :
                     Contains(r.wait[q], x) <=> Contains(k.wait[q], x) /\ x # t
<1> DEFINE m == RemoveThread(k, t)
           n == [m EXCEPT !.stat[t] = "CLOSE"]
           r == TimerStop(n, t)
<1>0. k \in KernelType /\ ListsExact(k)
  BY DEF KernelInv
<1>1. /\ KernelInv(m, D \cup {t})
      /\ m = [k EXCEPT !.rdy = m.rdy, !.wait = m.wait, !.group = m.group]
  BY RemoveFacts
<1>2. m.wait = Unlink(k, t).wait
  BY <1>0 DEF RemoveThread, Unlink, KernelType
<1> HIDE DEF m
<1>3. m \in KernelType
  BY <1>1 DEF KernelInv
<1>4. /\ m.stat = k.stat /\ m.timers = k.timers /\ m.cur = k.cur /\ m.nest = k.nest
  BY <1>0, <1>1 DEF KernelType
<1>5. /\ n.stat = [m.stat EXCEPT ![t] = "CLOSE"] /\ n.timers = m.timers
      /\ n.cur = m.cur /\ n.nest = m.nest /\ n.wait = m.wait
  BY <1>3 DEF KernelType
<1>6. KernelInv(n, D \ {t})
  <2>1. "CLOSE" \in Stat \ {"READY"} /\ ~Contains(m.timers, t)
    BY <1>4 DEF Stat
  <2> HIDE DEF n
  <2> QED BY <1>1, <2>1, SetStatFacts DEF n
<1> HIDE DEF n
<1>7. KernelInv(n, D)
  <2>1. D \ {t} = D
    OBVIOUS
  <2> QED BY <1>6, <2>1
<1>8. /\ KernelInv(r, D)
      /\ r = [n EXCEPT !.timers = r.timers, !.left = r.left]
      /\ \A x : Contains(r.timers, x) <=> Contains(n.timers, x) /\ x # t
  BY <1>7, TimerStopFacts
<1> HIDE DEF r
<1>9. r.stat = n.stat /\ r.cur = n.cur /\ r.nest = n.nest /\ r.wait = n.wait
  BY <1>7, <1>8 DEF KernelInv, KernelType
<1>10. \A q \in Queue : \A x : Contains(m.wait[q], x) <=> Contains(k.wait[q], x) /\ x # t
  BY <1>0, <1>2, UnlinkFacts
<1>11. \A x \in Thread : n.stat[x] = IF x = t THEN "CLOSE" ELSE k.stat[x]
  BY <1>0, <1>4, <1>5 DEF KernelType
<1>12. \A x : Contains(r.timers, x) <=> Contains(k.timers, x) /\ x # t
  BY <1>4, <1>5, <1>8
<1> QED BY <1>4, <1>5, <1>8, <1>9, <1>10, <1>11, <1>12 DEF Close, r, n, m
=============================================================================
