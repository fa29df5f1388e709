---------------------------- MODULE MsgQueueProofs ----------------------------
(***************************************************************************)
(* Proofs about the message queue, for every number of threads, messages   *)
(* and cells.  MqBase holds whoever detaches the queue when; MqCareful,    *)
(* for an application that detaches it carefully, says that the two lists  *)
(* and the hands of the calls share out the cells (MqCells), that nobody   *)
(* is inside a call on a queue being detached (MqDeserted), and that each  *)
(* message has a receiver coming for it while others wait (MqBalanced).    *)
(* The lists are represented by the sequences of their cells (Lists); one  *)
(* lemma per operation says what it does to them.                          *)
(***************************************************************************)
EXTENDS MsgQueue, IpcProofs, FiniteSetTheorems

-----------------------------------------------------------------------------
(* The fields of the queue.                                                *)
QueueType ==
    [entry: Int, head: 0..MaxMsgs, tail: 0..MaxMsgs, free: 0..MaxMsgs,
     next: [Cell -> 0..MaxMsgs], data: [Cell -> Msg \cup {None}]]

Fields(s, e, h, l, f, n, d) ==
    /\ s \in QueueType
    /\ s.entry = e /\ s.head = h /\ s.tail = l /\ s.free = f /\ s.next = n /\ s.data = d

LEMMA SetNext ==
    ASSUME NEW e, NEW h, NEW l, NEW f, NEW n, NEW d, NEW r, Fields(r, e, h, l, f, n, d),
           NEW x \in [Cell -> 0..MaxMsgs]
    PROVE  Fields([r EXCEPT !.next = x], e, h, l, f, x, d)
  BY DEF Fields, QueueType
LEMMA SetData ==
    ASSUME NEW e, NEW h, NEW l, NEW f, NEW n, NEW d, NEW r, Fields(r, e, h, l, f, n, d),
           NEW x \in [Cell -> Msg \cup {None}]
    PROVE  Fields([r EXCEPT !.data = x], e, h, l, f, n, x)
  BY DEF Fields, QueueType
LEMMA SetFree ==
    ASSUME NEW e, NEW h, NEW l, NEW f, NEW n, NEW d, NEW r, Fields(r, e, h, l, f, n, d),
           NEW x \in 0..MaxMsgs
    PROVE  Fields([r EXCEPT !.free = x], e, h, l, x, n, d)
  BY DEF Fields, QueueType
LEMMA SetHead ==
    ASSUME NEW e, NEW h, NEW l, NEW f, NEW n, NEW d, NEW r, Fields(r, e, h, l, f, n, d),
           NEW x \in 0..MaxMsgs
    PROVE  Fields([r EXCEPT !.head = x], e, x, l, f, n, d)
  BY DEF Fields, QueueType
LEMMA SetTail ==
    ASSUME NEW e, NEW h, NEW l, NEW f, NEW n, NEW d, NEW r, Fields(r, e, h, l, f, n, d),
           NEW x \in 0..MaxMsgs
    PROVE  Fields([r EXCEPT !.tail = x], e, h, x, f, n, d)
  BY DEF Fields, QueueType
LEMMA SetEntry ==
    ASSUME NEW e, NEW h, NEW l, NEW f, NEW n, NEW d, NEW r, Fields(r, e, h, l, f, n, d),
           NEW x \in Int
    PROVE  Fields([r EXCEPT !.entry = x], x, h, l, f, n, d)
  BY DEF Fields, QueueType

LEMMA PushFreeIs ==
    ASSUME NEW e, NEW h, NEW l, NEW f, NEW n, NEW d, NEW r, Fields(r, e, h, l, f, n, d), NEW c \in Cell
    PROVE  Fields(PushFree(r, c), e, h, l, c, [n EXCEPT ![c] = f], [d EXCEPT ![c] = None])
<1> DEFINE nx == [n EXCEPT ![c] = f]
           dx == [d EXCEPT ![c] = None]
           a == [r EXCEPT !.next = nx]
           b == [a EXCEPT !.free = c]
           z == [b EXCEPT !.data = dx]
<1>1. nx \in [Cell -> 0..MaxMsgs] /\ dx \in [Cell -> Msg \cup {None}] /\ c \in 0..MaxMsgs
  BY DEF Fields, QueueType, Cell
<1>2. r.next = n /\ r.free = f /\ r.data = d
  BY DEF Fields
<1> HIDE DEF nx, dx
<1>3. Fields(a, e, h, l, f, nx, d)
  BY <1>1, SetNext
<1> HIDE DEF a
<1>4. Fields(b, e, h, l, c, nx, d)
  BY <1>1, <1>3, SetFree
<1>5. b.data = d
  BY <1>4 DEF Fields
<1>6. PushFree(r, c) = z
  BY <1>2, <1>5 DEF PushFree, a, b, nx, dx
<1> HIDE DEF b
<1>7. Fields(z, e, h, l, c, nx, dx)
  BY <1>1, <1>4, SetData
<1> QED
  BY <1>6, <1>7 DEF nx, dx

LEMMA PopFreeIs ==
    ASSUME NEW e, NEW h, NEW l, NEW f, NEW n, NEW d, NEW r, Fields(r, e, h, l, f, n, d), f \in Cell
    PROVE  Fields(PopFree(r), e, h, l, n[f], n, d)
<1>1. r.next[r.free] = n[f] /\ n[f] \in 0..MaxMsgs
  BY DEF Fields, QueueType
<1> QED
  BY <1>1, SetFree DEF PopFree

LEMMA FillIs ==
    ASSUME NEW e, NEW h, NEW l, NEW f, NEW n, NEW d, NEW r, Fields(r, e, h, l, f, n, d), NEW c \in Cell,
           NEW m \in Msg
    PROVE  Fields(Fill(r, c, m), e, h, l, f, [n EXCEPT ![c] = Null], [d EXCEPT ![c] = m])
<1> DEFINE nx == [n EXCEPT ![c] = Null]
           dx == [d EXCEPT ![c] = m]
           a == [r EXCEPT !.next = nx]
           z == [a EXCEPT !.data = dx]
<1>1. nx \in [Cell -> 0..MaxMsgs] /\ dx \in [Cell -> Msg \cup {None}]
  BY MqAssumption DEF Fields, QueueType, Null
<1>2. r.next = n /\ r.data = d
  BY DEF Fields
<1> HIDE DEF nx, dx
<1>3. Fields(a, e, h, l, f, nx, d)
  BY <1>1, SetNext
<1>4. a.data = d
  BY <1>3 DEF Fields
<1>5. Fill(r, c, m) = z
  BY <1>2, <1>4 DEF Fill, a, nx, dx
<1> HIDE DEF a
<1>6. Fields(z, e, h, l, f, nx, dx)
  BY <1>1, <1>3, SetData
<1> QED
  BY <1>5, <1>6 DEF nx, dx

LEMMA FillUrgentIs ==
    ASSUME NEW e, NEW h, NEW l, NEW f, NEW n, NEW d, NEW r, Fields(r, e, h, l, f, n, d), NEW c \in Cell,
           NEW m \in Msg
    PROVE  Fields(FillUrgent(r, c, m), e, h, l, f, n, [d EXCEPT ![c] = m])
<1> DEFINE dx == [d EXCEPT ![c] = m]
<1>1. dx \in [Cell -> Msg \cup {None}] /\ r.data = d
  BY DEF Fields, QueueType
<1>2. FillUrgent(r, c, m) = [r EXCEPT !.data = dx]
  BY <1>1 DEF FillUrgent
<1> HIDE DEF dx
<1>3. Fields([r EXCEPT !.data = dx], e, h, l, f, n, dx)
  BY <1>1, SetData
<1> QED
  BY <1>2, <1>3 DEF dx

LEMMA LinkTailIs ==
    ASSUME NEW e, NEW h, NEW l, NEW f, NEW n, NEW d, NEW r, Fields(r, e, h, l, f, n, d), NEW c \in Cell
    PROVE  Fields(LinkTail(r, c), e + 1, IF h = Null THEN c ELSE h, c, f,
                  IF l = Null THEN n ELSE [n EXCEPT ![l] = c], d)
<1> DEFINE nx == IF l = Null THEN n ELSE [n EXCEPT ![l] = c]
           hx == IF h = Null THEN c ELSE h
           ex == e + 1
           a == [r EXCEPT !.next = nx]
           b == [a EXCEPT !.tail = c]
           g == [b EXCEPT !.head = hx]
           z == [g EXCEPT !.entry = ex]
<1>1. /\ nx \in [Cell -> 0..MaxMsgs] /\ c \in 0..MaxMsgs /\ hx \in 0..MaxMsgs /\ ex \in Int
  BY DEF Fields, QueueType, Cell, Null
<1>2. r.next = n /\ r.tail = l /\ r.head = h /\ r.entry = e
  BY DEF Fields
<1>3. LinkTail(r, c) =
        [[[[r EXCEPT !.next = IF r.tail = Null THEN r.next ELSE [r.next EXCEPT ![r.tail] = c]]
            EXCEPT !.tail = c]
            EXCEPT !.head = IF r.head = Null THEN c ELSE r.head]
            EXCEPT !.entry = r.entry + 1]
  BY DEF LinkTail
<1>4. LinkTail(r, c) = z
  BY <1>2, <1>3
<1> HIDE DEF nx, hx, ex
<1>5. Fields(a, e, h, l, f, nx, d)
  BY <1>1, SetNext
<1> HIDE DEF a
<1>6. Fields(b, e, h, c, f, nx, d)
  BY <1>1, <1>5, SetTail
<1> HIDE DEF b
<1>7. Fields(g, e, hx, c, f, nx, d)
  BY <1>1, <1>6, SetHead
<1> HIDE DEF g
<1>8. Fields(z, ex, hx, c, f, nx, d)
  BY <1>1, <1>7, SetEntry
<1> HIDE DEF z
<1> QED
  BY <1>4, <1>8 DEF nx, hx, ex

LEMMA LinkHeadIs ==
    ASSUME NEW e, NEW h, NEW l, NEW f, NEW n, NEW d, NEW r, Fields(r, e, h, l, f, n, d), NEW c \in Cell
    PROVE  Fields(LinkHead(r, c), e + 1, c, IF l = Null THEN c ELSE l, f, [n EXCEPT ![c] = h], d)
<1> DEFINE nx == [n EXCEPT ![c] = h]
           lx == IF l = Null THEN c ELSE l
           ex == e + 1
           a == [r EXCEPT !.next = nx]
           b == [a EXCEPT !.head = c]
           g == [b EXCEPT !.tail = lx]
           z == [g EXCEPT !.entry = ex]
<1>1. /\ nx \in [Cell -> 0..MaxMsgs] /\ c \in 0..MaxMsgs /\ lx \in 0..MaxMsgs /\ ex \in Int
  BY DEF Fields, QueueType, Cell, Null
<1>2. r.next = n /\ r.tail = l /\ r.head = h /\ r.entry = e
  BY DEF Fields
<1>3. LinkHead(r, c) =
        [[[[r EXCEPT !.next = [r.next EXCEPT ![c] = r.head]]
            EXCEPT !.head = c]
            EXCEPT !.tail = IF r.tail = Null THEN c ELSE r.tail]
            EXCEPT !.entry = r.entry + 1]
  BY DEF LinkHead
<1>4. LinkHead(r, c) = z
  BY <1>2, <1>3
<1> HIDE DEF nx, lx, ex
<1>5. Fields(a, e, h, l, f, nx, d)
  BY <1>1, SetNext
<1> HIDE DEF a
<1>6. Fields(b, e, c, l, f, nx, d)
  BY <1>1, <1>5, SetHead
<1> HIDE DEF b
<1>7. Fields(g, e, c, lx, f, nx, d)
  BY <1>1, <1>6, SetTail
<1> HIDE DEF g
<1>8. Fields(z, ex, c, lx, f, nx, d)
  BY <1>1, <1>7, SetEntry
<1> HIDE DEF z
<1> QED
  BY <1>4, <1>8 DEF nx, lx, ex

LEMMA UnlinkHeadIs ==
    ASSUME NEW e, NEW h, NEW l, NEW f, NEW n, NEW d, NEW r, Fields(r, e, h, l, f, n, d), h \in Cell
    PROVE  Fields(UnlinkHead(r), e - 1, n[h], IF l = h THEN Null ELSE l, f, n, d)
<1> DEFINE hx == n[h]
           lx == IF l = h THEN Null ELSE l
           ex == e - 1
           a == [r EXCEPT !.head = hx]
           b == [a EXCEPT !.tail = lx]
           z == [b EXCEPT !.entry = ex]
<1>1. hx \in 0..MaxMsgs /\ lx \in 0..MaxMsgs /\ ex \in Int
  BY MqAssumption DEF Fields, QueueType, Null
<1>2. r.next = n /\ r.tail = l /\ r.head = h /\ r.entry = e
  BY DEF Fields
<1>3. UnlinkHead(r) =
        [[[r EXCEPT !.head = r.next[r.head]]
            EXCEPT !.tail = IF r.tail = r.head THEN Null ELSE r.tail]
            EXCEPT !.entry = r.entry - 1]
  BY DEF UnlinkHead
<1>4. UnlinkHead(r) = z
  BY <1>2, <1>3
<1> HIDE DEF hx, lx, ex
<1>5. Fields(a, e, hx, l, f, n, d)
  BY <1>1, SetHead
<1> HIDE DEF a
<1>6. Fields(b, e, hx, lx, f, n, d)
  BY <1>1, <1>5, SetTail
<1> HIDE DEF b
<1>7. Fields(z, ex, hx, lx, f, n, d)
  BY <1>1, <1>6, SetEntry
<1> HIDE DEF z
<1> QED
  BY <1>4, <1>7 DEF hx, lx, ex

-----------------------------------------------------------------------------
(* The lists.                                                              *)

(* s is what the next pointers n lead to from c.                           *)
Path(n, c, s) ==
    /\ s \in Seq(Cell) /\ NoRepeat(s)
    /\ (s = << >> /\ c = Null) \/ (s # << >> /\ c = s[1])
    /\ \A i \in 1..Len(s) : /\ i = Len(s) => n[s[i]] = Null
                            /\ i # Len(s) => n[s[i]] = s[i + 1]

LEMMA CellNotNull == Null \notin Cell /\ Cell \subseteq 0..MaxMsgs /\ Null \in 0..MaxMsgs
  BY MqAssumption DEF Null, Cell

LEMMA PathParts ==
    ASSUME NEW n, NEW c, NEW s, Path(n, c, s)
    PROVE  /\ s \in Seq(Cell) /\ NoRepeat(s) /\ Len(s) \in Nat
           /\ (s = << >> /\ c = Null) \/ (s # << >> /\ c = s[1])
           /\ \A i \in 1..Len(s) : i = Len(s) => n[s[i]] = Null
           /\ \A i \in 1..Len(s) : i # Len(s) => n[s[i]] = s[i + 1]
<1>1. s \in Seq(Cell)
  BY DEF Path
<1>2. Len(s) \in Nat
  BY <1>1, LenProperties
<1> QED
  BY <1>1, <1>2 DEF Path

LEMMA PathIs ==
    ASSUME NEW n, NEW c, NEW s \in Seq(Cell), NoRepeat(s), NEW L, L = Len(s),
           (s = << >> /\ c = Null) \/ (s # << >> /\ c = s[1]),
           \A i \in 1..L : (i = L => n[s[i]] = Null) /\ (i # L => n[s[i]] = s[i + 1])
    PROVE  Path(n, c, s)
  BY DEF Path

LEMMA PathFacts ==
    ASSUME NEW n, NEW c, NEW s, Path(n, c, s)
    PROVE  /\ Len(s) \in Nat /\ (Len(s) = 0 <=> s = << >>) /\ DOMAIN s = 1..Len(s)
           /\ \A i \in 1..Len(s) : s[i] \in Cell /\ Contains(s, s[i])
           /\ c = Null <=> s = << >>
           /\ s # << >> => c \in Cell /\ Contains(s, c) /\ c = s[1]
<1>1. s \in Seq(Cell) /\ ((s = << >> /\ c = Null) \/ (s # << >> /\ c = s[1]))
  BY PathParts
<1>2. Len(s) \in Nat /\ (Len(s) = 0 <=> s = << >>) /\ DOMAIN s = 1..Len(s)
  BY <1>1, EmptySeq, LenProperties
<1>3. ASSUME NEW i \in 1..Len(s) PROVE s[i] \in Cell /\ Contains(s, s[i])
  <2>1. s[i] \in Cell
    BY <1>1, ElementOfSeq
  <2>2. i \in DOMAIN s
    BY <1>2
  <2> QED
    BY <2>1, <2>2 DEF Contains
<1>4. s # << >> => s[1] \in Cell /\ Contains(s, s[1])
  <2>1. s # << >> => 1 \in 1..Len(s)
    BY <1>2
  <2> QED
    BY <1>3, <2>1
<1> QED
  BY <1>1, <1>2, <1>3, <1>4, CellNotNull

LEMMA PathFrame ==
    ASSUME NEW n, NEW c, NEW s, Path(n, c, s), NEW m, \A x \in Cell : Contains(s, x) => m[x] = n[x]
    PROVE  Path(m, c, s)
<1>1. \A i \in 1..Len(s) : m[s[i]] = n[s[i]]
  BY PathFacts
<1> QED
  BY <1>1, PathParts, PathIs

LEMMA PathPop ==
    ASSUME NEW n, NEW c, NEW s, Path(n, c, s), s # << >>
    PROVE  /\ Path(n, n[c], Tail(s)) /\ c = Head(s) /\ c \in Cell /\ Contains(s, c)
           /\ Len(Tail(s)) = Len(s) - 1
           /\ \A x : Contains(Tail(s), x) <=> Contains(s, x) /\ x # c
           /\ \A i \in 1..(Len(s) - 1) : Tail(s)[i] = s[i + 1]
<1> DEFINE t == Tail(s)
           L == Len(s)
<1>1. s \in Seq(Cell) /\ NoRepeat(s)
  BY PathParts
<1>2. /\ t \in Seq(Cell) /\ NoRepeat(t) /\ Len(t) = L - 1 /\ Contains(s, Head(s))
      /\ \A x : Contains(t, x) <=> Contains(s, x) /\ x # Head(s)
  BY <1>1, TailFacts
<1>3. L \in Nat /\ L # 0 /\ c = s[1] /\ c \in Cell /\ Head(s) = s[1] /\ 1 \in 1..L
  BY <1>1, PathFacts, HeadTailProperties
<1>4. \A i \in 1..(L - 1) : t[i] = s[i + 1]
  BY <1>1, HeadTailProperties
<1>5. (t = << >> <=> L = 1) /\ (t # << >> => 1 \in 1..(L - 1))
  BY <1>2, <1>3, EmptySeq
<1>6. (t = << >> /\ n[c] = Null) \/ (t # << >> /\ n[c] = t[1])
  <2>1. CASE L = 1
    <3>1. n[s[1]] = Null
      BY <1>3, <2>1, PathParts
    <3> QED
      BY <1>3, <1>5, <2>1, <3>1
  <2>2. CASE L # 1
    <3>0. 1 \in 1..(L - 1) /\ 1 + 1 = 2
      <4>1. L \in Nat /\ L # 0 /\ L # 1
        BY <1>3, <2>2
      <4> HIDE DEF L
      <4> QED
        BY <4>1
    <3>1. n[s[1]] = s[2] /\ t[1] = s[2] /\ t # << >>
      BY <1>3, <1>4, <1>5, <2>2, <3>0, PathParts
    <3> QED
      BY <1>3, <3>1
  <2> QED
    BY <2>1, <2>2
<1>7. ASSUME NEW i \in 1..(L - 1)
      PROVE  (i = L - 1 => n[t[i]] = Null) /\ (i # L - 1 => n[t[i]] = t[i + 1])
  <2>1. i + 1 \in 1..L /\ t[i] = s[i + 1] /\ (i = L - 1 <=> i + 1 = L)
    BY <1>3, <1>4
  <2>2. i # L - 1 => i + 1 \in 1..(L - 1)
    BY <1>3
  <2> HIDE DEF t, L
  <2>3. (i + 1 = L => n[s[i + 1]] = Null) /\ (i + 1 # L => n[s[i + 1]] = s[(i + 1) + 1])
    BY <2>1, PathParts DEF L
  <2> QED
    BY <1>4, <2>1, <2>2, <2>3
<1>8. Path(n, n[c], t)
  <2> HIDE DEF t
  <2> QED
    BY <1>2, <1>6, <1>7, PathIs
<1> QED
  BY <1>2, <1>3, <1>4, <1>8

LEMMA PathPush ==
    ASSUME NEW n, NEW c, NEW s, Path(n, c, s), NEW x \in Cell, ~Contains(s, x),
           NEW m, m[x] = c, \A y \in Cell : Contains(s, y) => m[y] = n[y]
    PROVE  Path(m, x, << x >> \o s) /\ Len(<< x >> \o s) = Len(s) + 1
<1> DEFINE w == << x >> \o s
           L == Len(s)
<1>1. s \in Seq(Cell) /\ NoRepeat(s) /\ Path(m, c, s)
  BY PathFrame, PathParts
<1>2. w \in Seq(Cell) /\ NoRepeat(w) /\ L \in Nat
  BY <1>1, PrependFacts, LenProperties
<1>3. Len(w) = L + 1 /\ w[1] = x /\ \A i \in 1..L : w[i + 1] = s[i]
  <2>1. Len(<< x >>) = 1 /\ << x >> \in Seq(Cell) /\ << x >>[1] = x
    OBVIOUS
  <2> HIDE DEF L
  <2>2. /\ Len(w) = 1 + Len(s)
        /\ \A i \in 1..(1 + Len(s)) : w[i] = IF i <= 1 THEN << x >>[i] ELSE s[i - 1]
    BY <1>1, <2>1, ConcatProperties
  <2>3. \A i \in 1..L : w[i + 1] = s[i]
    <3> TAKE i \in 1..L
    <3>1. i + 1 \in 1..(1 + Len(s)) /\ ~(i + 1 <= 1) /\ (i + 1) - 1 = i
      BY <1>2 DEF L
    <3> QED
      BY <2>2, <3>1
  <2>4. 1 \in 1..(1 + Len(s)) /\ 1 <= 1
    BY <1>2 DEF L
  <2> QED
    BY <1>2, <2>1, <2>2, <2>3, <2>4 DEF L
<1>4. w # << >>
  BY <1>2, <1>3, EmptySeq
<1> HIDE DEF w
<1>5. ASSUME NEW i \in 1..(L + 1)
      PROVE  (i = L + 1 => m[w[i]] = Null) /\ (i # L + 1 => m[w[i]] = w[i + 1])
  <2>1. CASE i = 1
    <3>1. (L = 0 => c = Null) /\ (L # 0 => c = s[1] /\ 1 \in 1..L)
      BY PathFacts
    <3> QED
      BY <1>2, <1>3, <2>1, <3>1
  <2>2. CASE i # 1
    <3>1. i - 1 \in 1..L /\ (i - 1) + 1 = i /\ (i = L + 1 <=> i - 1 = L)
          /\ (i # L + 1 => i \in 1..L)
      BY <1>2, <2>2
    <3>2. w[i] = s[i - 1]
      BY <1>3, <3>1
    <3>3. (i - 1 = L => m[s[i - 1]] = Null) /\ (i - 1 # L => m[s[i - 1]] = s[(i - 1) + 1])
      BY <1>1, <3>1, PathParts
    <3> QED
      BY <1>3, <3>1, <3>2, <3>3
  <2> QED
    BY <2>1, <2>2
<1>6. Path(m, x, w)
  BY <1>2, <1>3, <1>4, <1>5, PathIs
<1> QED
  BY <1>3, <1>6 DEF w

LEMMA PathAppend ==
    ASSUME NEW n, NEW c, NEW s, Path(n, c, s), NEW x \in Cell, ~Contains(s, x),
           NEW m, m[x] = Null,
           \A i \in 1..Len(s) : m[s[i]] = IF i = Len(s) THEN x ELSE n[s[i]]
    PROVE  Path(m, IF s = << >> THEN x ELSE c, Append(s, x)) /\ Len(Append(s, x)) = Len(s) + 1
<1> DEFINE w == Append(s, x)
           L == Len(s)
<1>1. s \in Seq(Cell) /\ NoRepeat(s) /\ L \in Nat /\ (L = 0 <=> s = << >>)
  BY PathFacts, PathParts
<1>2. w \in Seq(Cell) /\ NoRepeat(w) /\ w # << >>
  BY <1>1, AppendFacts
<1>3. Len(w) = L + 1 /\ w[L + 1] = x /\ \A i \in 1..L : w[i] = s[i]
  BY <1>1, AppendProperties
<1> HIDE DEF w
<1>4. w[1] = IF s = << >> THEN x ELSE c
  <2>1. s # << >> => c = s[1] /\ 1 \in 1..L
    BY <1>1, PathFacts
  <2> QED
    BY <1>1, <1>3, <2>1
<1>5. ASSUME NEW i \in 1..(L + 1)
      PROVE  (i = L + 1 => m[w[i]] = Null) /\ (i # L + 1 => m[w[i]] = w[i + 1])
  <2>1. CASE i = L + 1
    BY <1>3, <2>1
  <2>2. CASE i = L
    <3>1. i \in 1..L /\ i # L + 1
      BY <1>1, <2>2
    <3>2. w[i] = s[i] /\ m[s[i]] = x
      BY <1>3, <2>2, <3>1
    <3> QED
      BY <1>3, <2>2, <3>1, <3>2
  <2>3. CASE i # L /\ i # L + 1
    <3>1. i \in 1..L /\ i + 1 \in 1..L
      BY <1>1, <2>3
    <3>2. w[i] = s[i] /\ w[i + 1] = s[i + 1] /\ m[s[i]] = n[s[i]]
      BY <1>3, <2>3, <3>1
    <3>3. n[s[i]] = s[i + 1]
      BY <2>3, <3>1, PathParts
    <3> QED
      BY <2>3, <3>2, <3>3
  <2> QED
    BY <2>1, <2>2, <2>3
<1>6. Path(m, IF s = << >> THEN x ELSE c, w)
  BY <1>2, <1>3, <1>4, <1>5, PathIs
<1> QED
  BY <1>3, <1>6 DEF w

(* A cell is in exactly one of three places: among the messages, among the *)
(* free cells, or in a hand of H.                                          *)
Split(H, ms, fs) ==
    /\ H \subseteq Cell
    /\ \A c \in Cell : Contains(ms, c) \/ Contains(fs, c) \/ c \in H
    /\ \A c \in Cell : /\ ~(Contains(ms, c) /\ Contains(fs, c))
                       /\ ~(Contains(ms, c) /\ c \in H)
                       /\ ~(Contains(fs, c) /\ c \in H)

LastOf(s) == IF s = << >> THEN Null ELSE s[Len(s)]

(* The queue r holds the messages in the cells ms, in that order, and the  *)
(* free cells fs, while the cells of H are on neither list.                *)
Lists(r, H, ms, fs) ==
    /\ r \in QueueType
    /\ Path(r.next, r.head, ms) /\ Path(r.next, r.free, fs) /\ Split(H, ms, fs)
    /\ r.entry = Len(ms) /\ r.tail = LastOf(ms)
    /\ \A c \in Cell : Contains(ms, c) => r.data[c] \in Msg

LEMMA ListsOpen ==
    ASSUME NEW r, NEW H, NEW ms, NEW fs, Lists(r, H, ms, fs)
    PROVE  /\ Fields(r, r.entry, r.head, r.tail, r.free, r.next, r.data)
           /\ Path(r.next, r.head, ms) /\ Path(r.next, r.free, fs) /\ Split(H, ms, fs)
           /\ r.entry = Len(ms) /\ r.tail = LastOf(ms)
           /\ r.next \in [Cell -> 0..MaxMsgs] /\ r.data \in [Cell -> Msg \cup {None}]
           /\ \A c \in Cell : Contains(ms, c) => r.data[c] \in Msg
  BY DEF Lists, Fields, QueueType

LEMMA ListsIs ==
    ASSUME NEW r, NEW e, NEW h, NEW l, NEW f, NEW n, NEW d, Fields(r, e, h, l, f, n, d),
           NEW H, NEW ms, NEW fs, Path(n, h, ms), Path(n, f, fs), Split(H, ms, fs),
           e = Len(ms), l = LastOf(ms), \A c \in Cell : Contains(ms, c) => d[c] \in Msg
    PROVE  Lists(r, H, ms, fs)
  BY DEF Lists, Fields

(* The cells a list holds are cells.                                       *)
LEMMA PathCells ==
    ASSUME NEW n, NEW c, NEW s, Path(n, c, s), NEW x, Contains(s, x)
    PROVE  x \in Cell
<1>1. PICK i \in DOMAIN s : s[i] = x
  BY DEF Contains
<1> QED
  BY <1>1, PathFacts

LEMMA LastCell ==
    ASSUME NEW n, NEW c, NEW s, Path(n, c, s)
    PROVE  /\ s = << >> => LastOf(s) = Null
           /\ s # << >> => LastOf(s) \in Cell /\ Contains(s, LastOf(s)) /\ LastOf(s) # Null
           /\ s # << >> => \A i \in 1..Len(s) : s[i] = LastOf(s) <=> i = Len(s)
<1>1. CASE s = << >>
  BY <1>1 DEF LastOf
<1>2. CASE s # << >>
  <2>1. Len(s) \in Nat /\ Len(s) # 0 /\ DOMAIN s = 1..Len(s) /\ NoRepeat(s)
    BY <1>2, PathFacts, PathParts
  <2>2. Len(s) \in 1..Len(s)
    BY <2>1
  <2>3. s[Len(s)] \in Cell /\ Contains(s, s[Len(s)])
    BY <2>2, PathFacts
  <2>4. \A i \in 1..Len(s) : s[i] = s[Len(s)] <=> i = Len(s)
    <3> DEFINE L == Len(s)
    <3>1. DOMAIN s = 1..L /\ L \in DOMAIN s /\ NoRepeat(s)
      BY <2>1, <2>2
    <3> HIDE DEF L
    <3>2. \A i \in DOMAIN s : s[i] = s[L] => i = L
      BY <3>1 DEF NoRepeat
    <3>3. \A i \in 1..L : s[i] = s[L] <=> i = L
      BY <3>1, <3>2
    <3> QED
      BY <3>3 DEF L
  <2> QED
    BY <1>2, <2>3, <2>4, CellNotNull DEF LastOf
<1> QED
  BY <1>1, <1>2

(* A sender takes a free cell.                                             *)
LEMMA ListsPop ==
    ASSUME NEW r, NEW H, NEW ms, NEW fs, Lists(r, H, ms, fs), r.free # Null
    PROVE  /\ fs # << >> /\ r.free \in Cell \ H
           /\ Lists(PopFree(r), H \cup {r.free}, ms, Tail(fs))
           /\ PopFree(r).next = r.next /\ PopFree(r).data = r.data
<1> DEFINE c == r.free
           t == Tail(fs)
<1>1. /\ Fields(r, r.entry, r.head, r.tail, r.free, r.next, r.data)
      /\ Path(r.next, r.head, ms) /\ Path(r.next, c, fs) /\ Split(H, ms, fs)
      /\ r.entry = Len(ms) /\ r.tail = LastOf(ms)
      /\ \A x \in Cell : Contains(ms, x) => r.data[x] \in Msg
  BY ListsOpen
<1>2. fs # << >>
  BY <1>1, PathFacts
<1>3. /\ Path(r.next, r.next[c], t) /\ c \in Cell /\ Contains(fs, c)
      /\ \A x : Contains(t, x) <=> Contains(fs, x) /\ x # c
  BY <1>1, <1>2, PathPop
<1> HIDE DEF t
<1>4. Fields(PopFree(r), r.entry, r.head, r.tail, r.next[c], r.next, r.data)
  BY <1>1, <1>3, PopFreeIs
<1> HIDE DEF c
<1>5. Split(H \cup {c}, ms, t)
  BY <1>1, <1>3 DEF Split
<1>6. Lists(PopFree(r), H \cup {c}, ms, t)
  BY <1>1, <1>3, <1>4, <1>5, ListsIs
<1>7. c \notin H
  BY <1>1, <1>3 DEF Split
<1> QED
  BY <1>2, <1>3, <1>4, <1>6, <1>7 DEF c, t, Fields

(* A cell goes back to the free ones.                                      *)
LEMMA ListsPush ==
    ASSUME NEW r, NEW H, NEW ms, NEW fs, Lists(r, H, ms, fs), NEW c \in H
    PROVE  /\ Lists(PushFree(r, c), H \ {c}, ms, << c >> \o fs)
           /\ \A x \in Cell \ {c} : PushFree(r, c).next[x] = r.next[x] /\ PushFree(r, c).data[x] = r.data[x]
<1> DEFINE n == [r.next EXCEPT ![c] = r.free]
           d == [r.data EXCEPT ![c] = None]
           w == << c >> \o fs
<1>1. /\ Fields(r, r.entry, r.head, r.tail, r.free, r.next, r.data)
      /\ Path(r.next, r.head, ms) /\ Path(r.next, r.free, fs) /\ Split(H, ms, fs)
      /\ r.entry = Len(ms) /\ r.tail = LastOf(ms)
      /\ r.next \in [Cell -> 0..MaxMsgs] /\ r.data \in [Cell -> Msg \cup {None}]
      /\ \A x \in Cell : Contains(ms, x) => r.data[x] \in Msg
  BY ListsOpen
<1>2. c \in Cell /\ ~Contains(ms, c) /\ ~Contains(fs, c)
  BY <1>1 DEF Split
<1>3. n[c] = r.free /\ \A x \in Cell \ {c} : n[x] = r.next[x] /\ d[x] = r.data[x]
  BY <1>1, <1>2
<1>4. Fields(PushFree(r, c), r.entry, r.head, r.tail, c, n, d)
  BY <1>1, <1>2, PushFreeIs
<1> HIDE DEF n, d
<1>5. Path(n, r.head, ms)
  BY <1>1, <1>2, <1>3, PathFrame
<1>6. Path(n, c, w)
  BY <1>1, <1>2, <1>3, PathPush
<1>7. \A x : Contains(w, x) <=> Contains(fs, x) \/ x = c
  BY <1>1, <1>2, PathParts, PrependFacts
<1> HIDE DEF w
<1>8. Split(H \ {c}, ms, w)
  BY <1>1, <1>2, <1>7 DEF Split
<1>9. \A x \in Cell : Contains(ms, x) => d[x] \in Msg
  BY <1>1, <1>2, <1>3
<1>10. Lists(PushFree(r, c), H \ {c}, ms, w)
  BY <1>1, <1>4, <1>5, <1>6, <1>8, <1>9, ListsIs
<1> QED
  BY <1>3, <1>4, <1>10 DEF w, Fields

(* A sender fills its cell.                                                *)
LEMMA ListsFill ==
    ASSUME NEW r, NEW H, NEW ms, NEW fs, Lists(r, H, ms, fs), NEW c \in H, NEW m \in Msg
    PROVE  /\ Lists(Fill(r, c, m), H, ms, fs) /\ Lists(FillUrgent(r, c, m), H, ms, fs)
           /\ Fill(r, c, m).next[c] = Null /\ Fill(r, c, m).data[c] = m
           /\ FillUrgent(r, c, m).data[c] = m /\ FillUrgent(r, c, m).next = r.next
           /\ \A x \in Cell \ {c} :
                 /\ Fill(r, c, m).next[x] = r.next[x] /\ Fill(r, c, m).data[x] = r.data[x]
                 /\ FillUrgent(r, c, m).data[x] = r.data[x]
<1> DEFINE n == [r.next EXCEPT ![c] = Null]
           d == [r.data EXCEPT ![c] = m]
<1>1. /\ Fields(r, r.entry, r.head, r.tail, r.free, r.next, r.data)
      /\ Path(r.next, r.head, ms) /\ Path(r.next, r.free, fs) /\ Split(H, ms, fs)
      /\ r.entry = Len(ms) /\ r.tail = LastOf(ms)
      /\ r.next \in [Cell -> 0..MaxMsgs] /\ r.data \in [Cell -> Msg \cup {None}]
      /\ \A x \in Cell : Contains(ms, x) => r.data[x] \in Msg
  BY ListsOpen
<1>2. c \in Cell /\ ~Contains(ms, c) /\ ~Contains(fs, c)
  BY <1>1 DEF Split
<1>3. n[c] = Null /\ d[c] = m /\ \A x \in Cell \ {c} : n[x] = r.next[x] /\ d[x] = r.data[x]
  BY <1>1, <1>2
<1>4. /\ Fields(Fill(r, c, m), r.entry, r.head, r.tail, r.free, n, d)
      /\ Fields(FillUrgent(r, c, m), r.entry, r.head, r.tail, r.free, r.next, d)
  BY <1>1, <1>2, FillIs, FillUrgentIs
<1> HIDE DEF n, d
<1>5. Path(n, r.head, ms) /\ Path(n, r.free, fs)
  BY <1>1, <1>2, <1>3, PathFrame
<1>6. \A x \in Cell : Contains(ms, x) => d[x] \in Msg
  BY <1>1, <1>2, <1>3
<1>7. Lists(Fill(r, c, m), H, ms, fs)
  BY <1>1, <1>4, <1>5, <1>6, ListsIs
<1>8. Lists(FillUrgent(r, c, m), H, ms, fs)
  BY <1>1, <1>4, <1>6, ListsIs
<1> QED
  BY <1>3, <1>4, <1>7, <1>8 DEF Fields

(* A message is linked behind the last one.                                *)
LEMMA ListsLinkTail ==
    ASSUME NEW r, NEW H, NEW ms, NEW fs, Lists(r, H, ms, fs), NEW c \in H,
           r.next[c] = Null, r.data[c] \in Msg
    PROVE  /\ Lists(LinkTail(r, c), H \ {c}, Append(ms, c), fs)
           /\ LinkTail(r, c).data = r.data
           /\ \A x \in H \ {c} : LinkTail(r, c).next[x] = r.next[x]
<1> DEFINE n == IF r.tail = Null THEN r.next ELSE [r.next EXCEPT ![r.tail] = c]
           h == IF r.head = Null THEN c ELSE r.head
           w == Append(ms, c)
<1>1. /\ Fields(r, r.entry, r.head, r.tail, r.free, r.next, r.data)
      /\ Path(r.next, r.head, ms) /\ Path(r.next, r.free, fs) /\ Split(H, ms, fs)
      /\ r.entry = Len(ms) /\ r.tail = LastOf(ms)
      /\ r.next \in [Cell -> 0..MaxMsgs]
      /\ \A x \in Cell : Contains(ms, x) => r.data[x] \in Msg
  BY ListsOpen
<1>2. c \in Cell /\ ~Contains(ms, c) /\ ~Contains(fs, c)
  BY <1>1 DEF Split
<1>3. Fields(LinkTail(r, c), r.entry + 1, h, c, r.free, n, r.data)
  BY <1>1, <1>2, LinkTailIs
<1>4. /\ ms = << >> => r.tail = Null
      /\ ms # << >> => r.tail \in Cell /\ Contains(ms, r.tail) /\ r.tail # Null
      /\ ms # << >> => \A i \in 1..Len(ms) : ms[i] = r.tail <=> i = Len(ms)
  BY <1>1, LastCell
<1>5. /\ \A x \in Cell : ~Contains(ms, x) => n[x] = r.next[x]
      /\ ms # << >> => n[r.tail] = c /\ \A x \in Cell \ {r.tail} : n[x] = r.next[x]
  BY <1>1, <1>4
<1>6. h = IF ms = << >> THEN c ELSE r.head
  BY <1>1, PathFacts
<1> HIDE DEF n, h
<1>7. \A i \in 1..Len(ms) : n[ms[i]] = IF i = Len(ms) THEN c ELSE r.next[ms[i]]
  <2> TAKE i \in 1..Len(ms)
  <2>1. ms[i] \in Cell /\ ms # << >>
    BY <1>1, PathFacts
  <2> QED
    BY <1>4, <1>5, <2>1
<1>8. Path(n, IF ms = << >> THEN c ELSE r.head, w) /\ Len(w) = Len(ms) + 1
  <2>1. n[c] = Null
    BY <1>2, <1>5
  <2> QED
    BY <1>1, <1>2, <1>7, <2>1, PathAppend
<1>9. Path(n, r.free, fs)
  <2>1. \A x \in Cell : Contains(fs, x) => n[x] = r.next[x]
    BY <1>1, <1>5 DEF Split
  <2> QED
    BY <1>1, <2>1, PathFrame
<1>10. ms \in Seq(Cell) /\ NoRepeat(ms) /\ Len(ms) \in Nat
  BY <1>1, PathParts
<1>11. /\ w # << >> /\ w[Len(ms) + 1] = c
       /\ \A x : Contains(w, x) <=> Contains(ms, x) \/ x = c
  BY <1>2, <1>10, AppendFacts, AppendProperties
<1> HIDE DEF w
<1>12. LastOf(w) = c
  BY <1>8, <1>11 DEF LastOf
<1>13. Split(H \ {c}, w, fs)
  BY <1>1, <1>2, <1>11 DEF Split
<1>14. \A x \in Cell : Contains(w, x) => r.data[x] \in Msg
  BY <1>1, <1>11
<1>15. Path(n, h, w) /\ r.entry + 1 = Len(w)
  BY <1>1, <1>6, <1>8
<1>16. Lists(LinkTail(r, c), H \ {c}, w, fs)
  BY <1>3, <1>9, <1>12, <1>13, <1>14, <1>15, ListsIs
<1>17. \A x \in H : x \in Cell /\ ~Contains(ms, x)
  BY <1>1 DEF Split
<1> QED
  BY <1>3, <1>5, <1>16, <1>17 DEF w, Fields

(* An urgent message is linked before the first one.                       *)
LEMMA ListsLinkHead ==
    ASSUME NEW r, NEW H, NEW ms, NEW fs, Lists(r, H, ms, fs), NEW c \in H, r.data[c] \in Msg
    PROVE  /\ Lists(LinkHead(r, c), H \ {c}, << c >> \o ms, fs)
           /\ LinkHead(r, c).data = r.data
           /\ \A x \in H \ {c} : LinkHead(r, c).next[x] = r.next[x]
<1> DEFINE n == [r.next EXCEPT ![c] = r.head]
           l == IF r.tail = Null THEN c ELSE r.tail
           w == << c >> \o ms
<1>1. /\ Fields(r, r.entry, r.head, r.tail, r.free, r.next, r.data)
      /\ Path(r.next, r.head, ms) /\ Path(r.next, r.free, fs) /\ Split(H, ms, fs)
      /\ r.entry = Len(ms) /\ r.tail = LastOf(ms)
      /\ r.next \in [Cell -> 0..MaxMsgs]
      /\ \A x \in Cell : Contains(ms, x) => r.data[x] \in Msg
  BY ListsOpen
<1>2. c \in Cell /\ ~Contains(ms, c) /\ ~Contains(fs, c)
  BY <1>1 DEF Split
<1>3. Fields(LinkHead(r, c), r.entry + 1, c, l, r.free, n, r.data)
  BY <1>1, <1>2, LinkHeadIs
<1>4. n[c] = r.head /\ \A x \in Cell \ {c} : n[x] = r.next[x]
  BY <1>1, <1>2
<1>5. /\ ms = << >> => l = c
      /\ ms # << >> => l = ms[Len(ms)]
  <2>1. ms = << >> => r.tail = Null
    BY <1>1, LastCell
  <2>2. ms # << >> => r.tail # Null /\ r.tail = ms[Len(ms)]
    BY <1>1, LastCell DEF LastOf
  <2> QED
    BY <2>1, <2>2
<1> HIDE DEF n, l
<1>6. Path(n, c, w) /\ Len(w) = Len(ms) + 1
  <2>1. \A y \in Cell : Contains(ms, y) => n[y] = r.next[y]
    BY <1>2, <1>4
  <2> QED
    BY <1>1, <1>2, <1>4, <2>1, PathPush
<1>7. Path(n, r.free, fs)
  <2>1. \A x \in Cell : Contains(fs, x) => n[x] = r.next[x]
    BY <1>2, <1>4
  <2> QED
    BY <1>1, <2>1, PathFrame
<1>8. ms \in Seq(Cell) /\ NoRepeat(ms) /\ Len(ms) \in Nat /\ (Len(ms) = 0 <=> ms = << >>)
  BY <1>1, PathParts, PathFacts
<1>9. \A x : Contains(w, x) <=> Contains(ms, x) \/ x = c
  BY <1>2, <1>8, PrependFacts
<1>10. l = w[Len(ms) + 1]
  <2>1. Len(<< c >>) = 1 /\ << c >> \in Seq(Cell) /\ << c >>[1] = c
    BY <1>2
  <2> DEFINE u == << c >>
             L == Len(ms)
  <2>2. w = u \o ms /\ L \in Nat
    BY <1>8
  <2> HIDE DEF u, L
  <2>3. \A i \in 1..(1 + L) : w[i] = IF i <= 1 THEN u[i] ELSE ms[i - 1]
    BY <1>8, <2>1, <2>2, ConcatProperties DEF u, L
  <2>4. CASE L = 0
    <3>1. 1 \in 1..(1 + L) /\ L + 1 = 1
      BY <2>4
    <3> QED
      BY <1>5, <1>8, <2>1, <2>3, <2>4, <3>1 DEF u, L
  <2>5. CASE L # 0
    <3>1. L + 1 \in 1..(1 + L) /\ ~(L + 1 <= 1) /\ (L + 1) - 1 = L
      BY <2>2, <2>5
    <3>2. w[L + 1] = ms[L]
      BY <2>3, <3>1
    <3> QED
      BY <1>5, <1>8, <2>5, <3>2 DEF L
  <2> QED
    BY <2>4, <2>5
<1> HIDE DEF w
<1>11. l = LastOf(w)
  <2>1. w # << >>
    BY <1>2, <1>6, PathFacts, CellNotNull
  <2> QED
    BY <1>6, <1>10, <2>1 DEF LastOf
<1>12. Split(H \ {c}, w, fs)
  BY <1>1, <1>2, <1>9 DEF Split
<1>13. \A x \in Cell : Contains(w, x) => r.data[x] \in Msg
  BY <1>1, <1>9
<1>14. r.entry + 1 = Len(w)
  BY <1>1, <1>6
<1>15. Lists(LinkHead(r, c), H \ {c}, w, fs)
  BY <1>3, <1>6, <1>7, <1>11, <1>12, <1>13, <1>14, ListsIs
<1>16. H \subseteq Cell
  BY <1>1 DEF Split
<1> QED
  BY <1>3, <1>4, <1>15, <1>16 DEF w, Fields

(* A receiver takes the first message.                                     *)
LEMMA ListsUnlink ==
    ASSUME NEW r, NEW H, NEW ms, NEW fs, Lists(r, H, ms, fs), ms # << >>
    PROVE  /\ r.head \in Cell \ H /\ r.head = Head(ms) /\ r.data[r.head] \in Msg
           /\ Lists(UnlinkHead(r), H \cup {r.head}, Tail(ms), fs)
           /\ UnlinkHead(r).next = r.next /\ UnlinkHead(r).data = r.data
<1> DEFINE c == r.head
           t == Tail(ms)
           l == IF r.tail = c THEN Null ELSE r.tail
<1>1. /\ Fields(r, r.entry, r.head, r.tail, r.free, r.next, r.data)
      /\ Path(r.next, c, ms) /\ Path(r.next, r.free, fs) /\ Split(H, ms, fs)
      /\ r.entry = Len(ms) /\ r.tail = LastOf(ms)
      /\ \A x \in Cell : Contains(ms, x) => r.data[x] \in Msg
  BY ListsOpen
<1>2. /\ Path(r.next, r.next[c], t) /\ c = Head(ms) /\ c \in Cell /\ Contains(ms, c)
      /\ Len(t) = Len(ms) - 1
      /\ \A x : Contains(t, x) <=> Contains(ms, x) /\ x # c
      /\ \A i \in 1..(Len(ms) - 1) : t[i] = ms[i + 1]
  BY <1>1, PathPop
<1>3. c = ms[1] /\ Len(ms) \in Nat /\ Len(ms) # 0
  BY <1>1, PathFacts
<1>4. Fields(UnlinkHead(r), r.entry - 1, r.next[c], l, r.free, r.next, r.data)
  BY <1>1, <1>2, UnlinkHeadIs
<1> HIDE DEF t
<1>5. l = LastOf(t)
  <2> DEFINE L == Len(ms)
  <2>1. r.tail = ms[L] /\ \A i \in 1..L : ms[i] = ms[L] <=> i = L
    BY <1>1, LastCell DEF LastOf
  <2>2. L \in Nat /\ L # 0
    BY <1>3
  <2>3. t = << >> <=> L = 1
    <3>1. Len(t) = 0 <=> t = << >>
      BY <1>2, PathFacts
    <3> QED
      BY <1>2, <2>2, <3>1
  <2> HIDE DEF L
  <2>4. CASE L = 1
    BY <1>3, <2>1, <2>3, <2>4 DEF LastOf
  <2>5. CASE L # 1
    <3>1. L - 1 \in 1..(L - 1) /\ (L - 1) + 1 = L /\ 1 \in 1..L
      BY <2>2, <2>5
    <3>2. t[L - 1] = ms[L] /\ Len(t) = L - 1
      BY <1>2, <3>1 DEF L
    <3>3. ms[1] # ms[L]
      BY <2>1, <2>5, <3>1
    <3> QED
      BY <1>3, <2>1, <2>3, <2>5, <3>2, <3>3 DEF LastOf
  <2> QED
    BY <2>4, <2>5
<1> HIDE DEF c, l
<1>6. Split(H \cup {c}, t, fs)
  BY <1>1, <1>2 DEF Split
<1>7. \A x \in Cell : Contains(t, x) => r.data[x] \in Msg
  BY <1>1, <1>2
<1>8. r.entry - 1 = Len(t)
  BY <1>1, <1>2
<1>9. Lists(UnlinkHead(r), H \cup {c}, t, fs)
  BY <1>1, <1>2, <1>4, <1>5, <1>6, <1>7, <1>8, ListsIs
<1>10. c \notin H
  BY <1>1, <1>2 DEF Split
<1> QED
  BY <1>1, <1>2, <1>4, <1>9, <1>10 DEF c, t, Fields

(* A list holds no more cells than there are.                              *)
LEMMA PathShort ==
    ASSUME NEW n, NEW c, NEW s, Path(n, c, s)
    PROVE  Len(s) <= MaxMsgs
<1> DEFINE L == Len(s)
<1>1. s \in Seq(Cell) /\ NoRepeat(s) /\ L \in Nat /\ MaxMsgs \in Nat
  BY PathParts, MqAssumption
<1>2. DOMAIN s = 1..L /\ s \in [1..L -> Cell]
  BY <1>1, LenProperties
<1>3. s \in Injection(1..L, Cell)
  BY <1>1, <1>2 DEF Injection, IsInjective, NoRepeat
<1>4. IsFiniteSet(Cell) /\ Cardinality(Cell) = MaxMsgs /\ Cardinality(1..L) = L
  <2>1. \A m \in Nat : IsFiniteSet(1..m) /\ Cardinality(1..m) = m
    <3> TAKE m \in Nat
    <3>1. 1 \in Int /\ m \in Int
      OBVIOUS
    <3>2. IsFiniteSet(1..m) /\ Cardinality(1..m) = IF 1 > m THEN 0 ELSE m - 1 + 1
      BY <3>1, FS_Interval
    <3> QED
      BY <3>2
  <2> QED
    BY <1>1, <2>1 DEF Cell
<1>5. Cardinality(1..L) <= Cardinality(Cell)
  BY <1>3, <1>4, FS_Injection
<1> QED
  BY <1>4, <1>5

(* What Chain collects is the list.                                        *)
LEMMA ChainIs ==
    ASSUME NEW r, NEW c, NEW s, Path(r.next, c, s)
    PROVE  Chain(r, c) = s
<1> DEFINE L == Len(s)
           F(g) == [i \in Cell |-> IF i = 1 THEN c
                                   ELSE IF g[i - 1] = Null THEN Null ELSE r.next[g[i - 1]]]
           w == [i \in Cell |-> IF i <= L THEN s[i] ELSE Null]
<1>1. L \in Nat /\ L <= MaxMsgs /\ MaxMsgs \in Nat /\ MaxMsgs # 0 /\ Cell = 1..MaxMsgs
  BY PathParts, PathShort, MqAssumption DEF Cell
<1>2. /\ s \in Seq(Cell) /\ DOMAIN s = 1..L
      /\ \A i \in 1..L : s[i] \in Cell /\ s[i] # Null
      /\ c = IF L = 0 THEN Null ELSE s[1]
      /\ \A i \in 1..L : r.next[s[i]] = IF i = L THEN Null ELSE s[i + 1]
  <2>1. \A i \in 1..L : s[i] \in Cell /\ s[i] # Null
    BY PathFacts, CellNotNull
  <2>2. \A i \in 1..L : r.next[s[i]] = IF i = L THEN Null ELSE s[i + 1]
    BY PathParts
  <2>3. c = IF L = 0 THEN Null ELSE s[1]
    BY PathFacts
  <2> QED
    BY <2>1, <2>2, <2>3, PathFacts, PathParts
<1> HIDE DEF L
<1>3. \A i \in Cell : w[i] = IF i = 1 THEN c ELSE IF w[i - 1] = Null THEN Null ELSE r.next[w[i - 1]]
  <2>1. SUFFICES ASSUME NEW i \in Cell
                 PROVE  w[i] = IF i = 1 THEN c
                               ELSE IF w[i - 1] = Null THEN Null ELSE r.next[w[i - 1]]
    OBVIOUS
  <2>2. CASE i = 1
    BY <1>1, <1>2, <2>2
  <2>3. CASE i # 1
    <3>1. i - 1 \in Cell /\ (i - 1) + 1 = i /\ i \in Nat
      BY <1>1, <2>3
    <3>2. CASE i - 1 <= L
      <4>1. i - 1 \in 1..L /\ (i - 1 = L <=> ~(i <= L))
        BY <1>1, <3>1, <3>2
      <4>2. w[i - 1] = s[i - 1] /\ s[i - 1] # Null
        BY <1>2, <3>1, <3>2, <4>1
      <4>3. r.next[s[i - 1]] = IF i - 1 = L THEN Null ELSE s[i]
        BY <1>2, <3>1, <4>1
      <4> QED
        BY <2>3, <4>1, <4>2, <4>3
    <3>3. CASE ~(i - 1 <= L)
      <4>1. ~(i <= L)
        BY <1>1, <3>1, <3>3
      <4>2. w[i - 1] = Null
        BY <3>1, <3>3
      <4> QED
        BY <2>3, <4>1, <4>2
    <3> QED
      BY <3>2, <3>3
  <2> QED
    BY <2>2, <2>3
<1>4. w = F(w)
  <2>1. w = [i \in Cell |-> w[i]]
    OBVIOUS
  <2> HIDE DEF w
  <2> QED
    BY <1>3, <2>1
<1> HIDE DEF w
<1>14. \E g : g = F(g)
  BY <1>4
<1> DEFINE at == CHOOSE g : g = F(g)
<1>5. at = F(at)
  <2> HIDE DEF F
  <2> QED
    BY <1>14
<1>6. \A i \in Cell : at[i] = IF i = 1 THEN c ELSE IF at[i - 1] = Null THEN Null ELSE r.next[at[i - 1]]
  <2> HIDE DEF at
  <2> QED
    BY <1>5
<1>7. \A i \in Cell : at[i] = w[i]
  <2> DEFINE Bad == {i \in Cell : at[i] # w[i]}
  <2> HIDE DEF at
  <2>1. SUFFICES ASSUME Bad # {} PROVE FALSE
    OBVIOUS
  <2>2. Bad \in SUBSET Nat
    BY <1>1
  <2>3. PICK m \in Bad : \A j \in Bad : m <= j
    BY <2>1, <2>2, MinOfNat
  <2>4. m \in Cell /\ at[m] # w[m]
    BY <2>3
  <2>5. m # 1
    BY <1>3, <1>6, <2>4
  <2>6. m - 1 \in Cell /\ ~(m <= m - 1)
    BY <1>1, <2>4, <2>5
  <2>7. at[m - 1] = w[m - 1]
    BY <2>3, <2>6
  <2> QED
    BY <1>3, <1>6, <2>4, <2>5, <2>7
<1> DEFINE N == {j \in Cell : at[j] # Null}
<1>8. N = 1..L
  <2>1. \A j \in Cell : at[j] # Null <=> j <= L
    BY <1>1, <1>2, <1>7 DEF w
  <2> HIDE DEF at
  <2>2. \A j \in 1..L : j \in Cell
    BY <1>1
  <2> QED
    BY <1>1, <2>1, <2>2
<1>9. Cardinality(1..L) = L
  <2>1. 1 \in Int /\ L \in Int
    BY <1>1
  <2>2. Cardinality(1..L) = IF 1 > L THEN 0 ELSE L - 1 + 1
    BY <2>1, FS_Interval
  <2> QED
    BY <1>1, <2>2
<1>10. Chain(r, c) = [i \in 1..Cardinality(N) |-> at[i]]
  BY DEF Chain
<1>11. \A i \in 1..L : at[i] = s[i]
  BY <1>1, <1>7 DEF w
<1> HIDE DEF N, at
<1>12. Chain(r, c) = [i \in 1..L |-> s[i]]
  BY <1>8, <1>9, <1>10, <1>11
<1>13. s = [i \in 1..L |-> s[i]]
  BY <1>1, <1>2, LenProperties
<1> QED
  BY <1>12, <1>13

(* The loop of a reset runs to its end.                                    *)
LEMMA ReleaseRounds ==
    ASSUME NEW r, NEW cells, Chain(r, r.head) = cells, Len(cells) \in Nat
    PROVE  \E after :
              /\ after = [i \in 0..Len(cells) |->
                            IF i = 0 THEN r ELSE PushFree(UnlinkHead(after[i - 1]), cells[i])]
              /\ ReleaseAll(r) = [after[Len(cells)] EXCEPT !.entry = 0]
<1> DEFINE L == Len(cells)
           Round(x, i) == PushFree(UnlinkHead(x), cells[i])
           F(g, n) == [i \in 0..n |-> IF i = 0 THEN r ELSE Round(g[i - 1], i)]
           Bad == {n \in 0..L : \A g : g # F(g, n)}
<1>1. L \in Nat
  OBVIOUS
<1>2. Bad = {}
  <2> HIDE DEF Round, L
  <2>1. SUFFICES ASSUME Bad # {} PROVE FALSE
    OBVIOUS
  <2>2. Bad \in SUBSET Nat
    BY <1>1
  <2>3. PICK m \in Bad : \A n \in Bad : m <= n
    BY <2>1, <2>2, MinOfNat
  <2>4. m \in 0..L /\ \A g : g # F(g, m)
    BY <2>3
  <2>5. CASE m = 0
    <3> DEFINE g == [i \in 0..0 |-> r]
    <3>1. g = F(g, 0)
      OBVIOUS
    <3> QED
      BY <2>4, <2>5, <3>1
  <2>6. CASE m # 0
    <3>1. m - 1 \in 0..L /\ ~(m <= m - 1) /\ m \in Nat
      BY <1>1, <2>4, <2>6
    <3>2. m - 1 \notin Bad
      BY <2>3, <3>1
    <3>3. PICK g : g = F(g, m - 1)
      BY <3>1, <3>2
    <3> DEFINE h == [i \in 0..m |-> IF i = m THEN Round(g[m - 1], m) ELSE g[i]]
    <3>4. \A i \in 0..(m - 1) : h[i] = g[i]
      BY <3>1
    <3>5. \A i \in 0..m : h[i] = IF i = 0 THEN r ELSE Round(h[i - 1], i)
      <4>1. SUFFICES ASSUME NEW i \in 0..m
                     PROVE  h[i] = IF i = 0 THEN r ELSE Round(h[i - 1], i)
        OBVIOUS
      <4>2. CASE i = m
        <5>1. h[m] = Round(g[m - 1], m) /\ h[m - 1] = g[m - 1] /\ m # 0
          BY <2>6, <3>1, <3>4
        <5> QED
          BY <4>2, <5>1
      <4>3. CASE i # m
        <5>1. i \in 0..(m - 1)
          BY <3>1, <4>3
        <5>2. h[i] = g[i]
          BY <3>4, <5>1
        <5>3. g[i] = IF i = 0 THEN r ELSE Round(g[i - 1], i)
          BY <3>3, <5>1
        <5>4. CASE i = 0
          BY <5>2, <5>3, <5>4
        <5>5. CASE i # 0
          <6>1. i - 1 \in 0..(m - 1)
            BY <5>1, <5>5, <3>1
          <6>2. h[i - 1] = g[i - 1]
            BY <3>4, <6>1
          <6> QED
            BY <5>2, <5>3, <5>5, <6>2
        <5> QED
          BY <5>4, <5>5
      <4> QED
        BY <4>2, <4>3
    <3>6. h = [i \in 0..m |-> h[i]]
      OBVIOUS
    <3> HIDE DEF h
    <3>7. h = F(h, m)
      BY <3>5, <3>6
    <3> QED
      BY <2>4, <3>7
  <2> QED
    BY <2>5, <2>6
<1>3. \E g : g = F(g, L)
  <2>1. L \in 0..L
    BY <1>1
  <2>2. L \notin Bad
    BY <1>2
  <2> QED
    BY <2>1, <2>2
<1> DEFINE after == CHOOSE g : g = F(g, L)
<1>4. after = F(after, L)
  <2> HIDE DEF F
  <2> QED
    BY <1>3
<1>5. ReleaseAll(r) = [after[L] EXCEPT !.entry = 0]
  BY DEF ReleaseAll
<1> HIDE DEF after
<1> QED
  BY <1>4, <1>5

(* A round of it moves the first message's cell to the free ones.          *)
LEMMA ReleaseRound ==
    ASSUME NEW r, NEW H, NEW ms, NEW fs, Lists(r, H, ms, fs), ms # << >>, NEW c, c = ms[1]
    PROVE  /\ Lists(PushFree(UnlinkHead(r), c), H, Tail(ms), << c >> \o fs)
           /\ \A x \in H : /\ PushFree(UnlinkHead(r), c).next[x] = r.next[x]
                           /\ PushFree(UnlinkHead(r), c).data[x] = r.data[x]
<1> DEFINE u == UnlinkHead(r)
<1>1. Path(r.next, r.head, ms) /\ H \subseteq Cell
  BY ListsOpen DEF Split
<1>2. r.head = c
  BY <1>1, PathFacts
<1>3. /\ r.head \in Cell \ H
      /\ Lists(UnlinkHead(r), H \cup {r.head}, Tail(ms), fs)
      /\ UnlinkHead(r).next = r.next /\ UnlinkHead(r).data = r.data
  BY ListsUnlink
<1> DEFINE G == H \cup {c}
           t == Tail(ms)
<1>4. G \ {c} = H /\ c \in G /\ c \in Cell \ H /\ Lists(u, G, t, fs)
  BY <1>2, <1>3
<1>5. u.next = r.next /\ u.data = r.data
  BY <1>3
<1> HIDE DEF u, G, t
<1>6. /\ Lists(PushFree(u, c), G \ {c}, t, << c >> \o fs)
      /\ \A x \in Cell \ {c} : PushFree(u, c).next[x] = u.next[x] /\ PushFree(u, c).data[x] = u.data[x]
  BY <1>4, ListsPush
<1>7. \A x \in H : x \in Cell \ {c}
  BY <1>1, <1>4
<1> QED
  BY <1>4, <1>5, <1>6, <1>7 DEF u, t

LEMMA ListsRelease ==
    ASSUME NEW r, NEW H, NEW ms, NEW fs, Lists(r, H, ms, fs)
    PROVE  /\ \E gs : Lists(ReleaseAll(r), H, << >>, gs)
           /\ \A x \in H : ReleaseAll(r).next[x] = r.next[x] /\ ReleaseAll(r).data[x] = r.data[x]
<1> DEFINE L == Len(ms)
<1>1. Path(r.next, r.head, ms)
  BY ListsOpen
<1>2. L \in Nat /\ ms \in Seq(Cell)
  BY <1>1, PathParts
<1>3. Chain(r, r.head) = ms
  BY <1>1, ChainIs
<1>4. PICK after :
        /\ after = [i \in 0..L |-> IF i = 0 THEN r ELSE PushFree(UnlinkHead(after[i - 1]), ms[i])]
        /\ ReleaseAll(r) = [after[L] EXCEPT !.entry = 0]
  BY <1>2, <1>3, ReleaseRounds
<1>5. after[0] = r /\ \A i \in 1..L : after[i] = PushFree(UnlinkHead(after[i - 1]), ms[i])
  <2>1. 0 \in 0..L /\ \A i \in 1..L : i \in 0..L /\ i # 0
    BY <1>2
  <2> QED
    BY <1>4, <2>1
<1> HIDE DEF L
<1> DEFINE Rest(i, s) == Len(s) = L - i /\ \A j \in 1..(L - i) : s[j] = ms[i + j]
           Good(i) == /\ \E s, gs : Lists(after[i], H, s, gs) /\ Rest(i, s)
                      /\ \A x \in H : after[i].next[x] = r.next[x] /\ after[i].data[x] = r.data[x]
           Bad == {i \in 0..L : ~Good(i)}
<1>6. Good(0)
  <2>1. Rest(0, ms)
    BY <1>2 DEF L
  <2> HIDE DEF Rest
  <2> QED
    BY <1>5, <2>1
<1>7. ASSUME NEW i \in 1..L, Good(i - 1)
      PROVE  Good(i)
  <2>1. PICK s, gs : Lists(after[i - 1], H, s, gs) /\ Rest(i - 1, s)
    BY <1>7
  <2>2. Len(s) = L - (i - 1) /\ \A j \in 1..(L - (i - 1)) : s[j] = ms[(i - 1) + j]
    BY <2>1
  <2>3. 1 \in 1..(L - (i - 1)) /\ (i - 1) + 1 = i /\ i \in Nat
    BY <1>2
  <2>4. s[1] = ms[i] /\ Len(s) # 0 /\ Len(s) \in Nat
    BY <1>2, <2>2, <2>3
  <2>5. Path(after[i - 1].next, after[i - 1].head, s)
    BY <2>1, ListsOpen
  <2>6. s # << >>
    BY <2>4, <2>5, PathFacts
  <2> DEFINE c == ms[i]
             z == after[i - 1]
             t == Tail(s)
  <2>7. after[i] = PushFree(UnlinkHead(z), c) /\ c = s[1] /\ Lists(z, H, s, gs)
    BY <1>5, <2>1, <2>4
  <2> HIDE DEF c, z
  <2>8. /\ Lists(PushFree(UnlinkHead(z), c), H, t, << c >> \o gs)
        /\ \A x \in H : /\ PushFree(UnlinkHead(z), c).next[x] = z.next[x]
                        /\ PushFree(UnlinkHead(z), c).data[x] = z.data[x]
    BY <2>6, <2>7, ReleaseRound
  <2>9. Len(t) = Len(s) - 1 /\ \A j \in 1..(Len(s) - 1) : t[j] = s[j + 1]
    BY <2>5, <2>6, PathPop
  <2> HIDE DEF t
  <2>10. Rest(i, t)
    <3>1. Len(t) = L - i
      BY <1>2, <2>2, <2>3, <2>9
    <3>2. ASSUME NEW j \in 1..(L - i) PROVE t[j] = ms[i + j]
      <4>1. j + 1 \in 1..(L - (i - 1)) /\ j \in 1..(Len(s) - 1) /\ (i - 1) + (j + 1) = i + j
        BY <1>2, <2>2, <2>3
      <4> QED
        BY <2>2, <2>9, <4>1
    <3> QED
      BY <3>1, <3>2
  <2> HIDE DEF Rest
  <2>11. \A x \in H : z.next[x] = r.next[x] /\ z.data[x] = r.data[x]
    BY <1>7 DEF z
  <2>12. \E q, gq : Lists(after[i], H, q, gq) /\ Rest(i, q)
    BY <2>7, <2>8, <2>10
  <2>13. \A x \in H : after[i].next[x] = r.next[x] /\ after[i].data[x] = r.data[x]
    BY <2>7, <2>8, <2>11
  <2> QED
    BY <2>12, <2>13
<1>8. Bad = {}
  <2> HIDE DEF Good
  <2>1. SUFFICES ASSUME Bad # {} PROVE FALSE
    OBVIOUS
  <2>2. Bad \in SUBSET Nat
    BY <1>2
  <2>3. PICK m \in Bad : \A n \in Bad : m <= n
    BY <2>1, <2>2, MinOfNat
  <2>4. m \in 0..L /\ ~Good(m)
    BY <2>3
  <2>5. m # 0
    BY <1>6, <2>4
  <2>6. m \in 1..L /\ m - 1 \in 0..L /\ ~(m <= m - 1)
    BY <1>2, <2>4, <2>5
  <2>7. Good(m - 1)
    BY <2>3, <2>6
  <2> QED
    BY <1>7, <2>4, <2>6, <2>7
<1>9. Good(L)
  <2> HIDE DEF Good
  <2>1. L \in 0..L
    BY <1>2
  <2> QED
    BY <1>8, <2>1
<1>10. PICK s, gs : Lists(after[L], H, s, gs) /\ Rest(L, s)
  BY <1>9
<1>11. s = << >>
  <2>1. Len(s) = 0
    BY <1>2, <1>10
  <2>2. Path(after[L].next, after[L].head, s)
    BY <1>10, ListsOpen
  <2> QED
    BY <2>1, <2>2, PathFacts
<1> DEFINE z == after[L]
           y == [z EXCEPT !.entry = 0]
<1>12. Lists(z, H, << >>, gs) /\ ReleaseAll(r) = y
  BY <1>4, <1>10, <1>11
<1>13. \A x \in H : z.next[x] = r.next[x] /\ z.data[x] = r.data[x]
  BY <1>9
<1> HIDE DEF z
<1>14. /\ Fields(z, z.entry, z.head, z.tail, z.free, z.next, z.data)
       /\ Path(z.next, z.head, << >>) /\ Path(z.next, z.free, gs) /\ Split(H, << >>, gs)
       /\ z.tail = LastOf(<< >>)
       /\ \A x \in Cell : Contains(<< >>, x) => z.data[x] \in Msg
  BY <1>12, ListsOpen
<1>15. Fields(y, 0, z.head, z.tail, z.free, z.next, z.data)
  BY <1>14, SetEntry
<1>16. y.next = z.next /\ y.data = z.data
  BY <1>15 DEF Fields
<1> HIDE DEF y
<1> DEFINE e == << >>
<1>17. Len(e) = 0 /\ Path(z.next, z.head, e) /\ Split(H, e, gs) /\ z.tail = LastOf(e)
       /\ \A x \in Cell : Contains(e, x) => z.data[x] \in Msg
  BY <1>14
<1> HIDE DEF e
<1>18. Lists(y, H, e, gs)
  BY <1>14, <1>15, <1>17, ListsIs
<1> QED
  BY <1>12, <1>13, <1>16, <1>18 DEF e

(* rt_mq_init links every cell into the free list.                         *)
LEMMA FreshLists == \E fs : Lists(FreshQueue, {}, << >>, fs)
<1> DEFINE N == MaxMsgs
           r == FreshQueue
           n == [c \in Cell |-> c - 1]
           d == [c \in Cell |-> None]
           fs == [i \in 1..N |-> N + 1 - i]
           e == << >>
<1>1. N \in Nat /\ N # 0 /\ Cell = 1..N /\ Null = 0
  BY MqAssumption DEF Cell, Null
<1>2. /\ n \in [Cell -> 0..N] /\ d \in [Cell -> Msg \cup {None}]
      /\ 0 \in 0..N /\ N \in 0..N /\ 0 \in Int
  BY <1>1
<1>3. Fields(r, 0, 0, 0, N, n, d)
  <2> HIDE DEF n, d
  <2>1. r = [entry |-> 0, head |-> 0, tail |-> 0, free |-> N, next |-> n, data |-> d]
    BY <1>1 DEF FreshQueue, n, d
  <2> HIDE DEF r
  <2> QED
    BY <1>2, <2>1 DEF Fields, QueueType
<1>4. /\ \A i \in 1..N : fs[i] = N + 1 - i /\ N + 1 - i \in Cell
      /\ Len(fs) = N /\ fs \in Seq(Cell) /\ DOMAIN fs = 1..N
  BY <1>1
<1>5. \A c \in Cell : n[c] = c - 1
  OBVIOUS
<1> HIDE DEF fs, n, d, r
<1>6. NoRepeat(fs)
  <2>1. \A i, j \in 1..N : N + 1 - i = N + 1 - j => i = j
    BY <1>1
  <2> QED
    BY <1>4, <2>1 DEF NoRepeat
<1>7. fs # << >> /\ N = fs[1]
  <2>1. 1 \in 1..N /\ N + 1 - 1 = N
    BY <1>1
  <2>2. N = fs[1]
    BY <1>4, <2>1
  <2> QED
    BY <1>1, <1>4, <2>2, EmptySeq
<1>8. ASSUME NEW i \in 1..N
      PROVE  (i = N => n[fs[i]] = Null) /\ (i # N => n[fs[i]] = fs[i + 1])
  <2>1. n[fs[i]] = N + 1 - i - 1
    BY <1>4, <1>5
  <2>2. (i = N => N + 1 - i - 1 = 0) /\ (i # N => i + 1 \in 1..N /\ N + 1 - i - 1 = N + 1 - (i + 1))
    BY <1>1
  <2> QED
    BY <1>1, <1>4, <2>1, <2>2
<1>9. Path(n, N, fs)
  BY <1>4, <1>6, <1>7, <1>8, PathIs
<1>10. e \in Seq(Cell) /\ Len(e) = 0 /\ NoRepeat(e) /\ \A x : ~Contains(e, x)
  BY DEF NoRepeat, Contains
<1>11. Path(n, 0, e)
  BY <1>1, <1>10 DEF Path
<1>12. \A c \in Cell : Contains(fs, c)
  <2> SUFFICES ASSUME NEW c \in Cell PROVE Contains(fs, c)
    OBVIOUS
  <2>1. N + 1 - c \in 1..N /\ N + 1 - (N + 1 - c) = c
    BY <1>1
  <2>2. fs[N + 1 - c] = c
    BY <1>4, <2>1
  <2> QED
    BY <1>4, <2>1, <2>2 DEF Contains
<1> DEFINE H == {}
<1>13. Split(H, e, fs)
  BY <1>10, <1>12 DEF Split
<1>14. 0 = LastOf(e) /\ 0 = Len(e) /\ \A c \in Cell : Contains(e, c) => d[c] \in Msg
  BY <1>1, <1>10 DEF LastOf
<1> HIDE DEF H, e
<1>15. Lists(r, H, e, fs)
  BY <1>3, <1>9, <1>11, <1>13, <1>14, ListsIs
<1> QED
  BY <1>15 DEF r, H, e

-----------------------------------------------------------------------------
(* The messages in the queue, in the order in which they will be received. *)

Contents(r) ==
    LET messages == Chain(r, r.head)
    IN  [i \in DOMAIN messages |-> r.data[messages[i]]]

LEMMA ContentsAt ==
    ASSUME NEW r, NEW H, NEW ms, NEW fs, Lists(r, H, ms, fs)
    PROVE  /\ Contents(r) = [i \in 1..Len(ms) |-> r.data[ms[i]]]
           /\ Contents(r) \in Seq(Msg) /\ Len(Contents(r)) = Len(ms)
           /\ Len(ms) \in 0..MaxMsgs
<1> DEFINE L == Len(ms)
<1>1. Path(r.next, r.head, ms) /\ \A c \in Cell : Contains(ms, c) => r.data[c] \in Msg
  BY ListsOpen
<1>2. Chain(r, r.head) = ms
  BY <1>1, ChainIs
<1>3. /\ L \in Nat /\ DOMAIN ms = 1..L /\ \A i \in 1..L : ms[i] \in Cell /\ Contains(ms, ms[i])
  BY <1>1, PathFacts
<1>4. L \in 0..MaxMsgs
  <2>1. L <= MaxMsgs
    BY <1>1, PathShort
  <2> QED
    BY <1>3, <2>1, MqAssumption
<1>5. Contents(r) = [i \in 1..L |-> r.data[ms[i]]]
  BY <1>2, <1>3 DEF Contents
<1>6. \A i \in 1..L : r.data[ms[i]] \in Msg
  BY <1>1, <1>3
<1> HIDE DEF L
<1>7. Contents(r) \in Seq(Msg) /\ Len(Contents(r)) = L
  <2>1. Contents(r) \in [1..L -> Msg]
    BY <1>5, <1>6
  <2> QED
    BY <1>3, <2>1
<1> QED
  BY <1>4, <1>5, <1>7 DEF L

(* Cells of the list whose contents have not changed.                      *)
LEMMA ContentsSame ==
    ASSUME NEW r, NEW H, NEW ms, NEW fs, Lists(r, H, ms, fs),
           NEW s, NEW G, NEW gs, Lists(s, G, ms, gs),
           \A c \in Cell : Contains(ms, c) => s.data[c] = r.data[c]
    PROVE  Contents(s) = Contents(r) /\ s.entry = r.entry
<1>1. Path(r.next, r.head, ms) /\ s.entry = Len(ms) /\ r.entry = Len(ms)
  BY ListsOpen
<1>2. \A i \in 1..Len(ms) : ms[i] \in Cell /\ Contains(ms, ms[i])
  BY <1>1, PathFacts
<1>3. Contents(r) = [i \in 1..Len(ms) |-> r.data[ms[i]]]
  BY ContentsAt
<1>4. Contents(s) = [i \in 1..Len(ms) |-> s.data[ms[i]]]
  BY ContentsAt
<1> QED
  BY <1>1, <1>2, <1>3, <1>4

LEMMA ContentsAppend ==
    ASSUME NEW r, NEW H, NEW ms, NEW fs, Lists(r, H, ms, fs), NEW c,
           NEW s, NEW G, NEW gs, Lists(s, G, Append(ms, c), gs), s.data = r.data
    PROVE  /\ Contents(s) = Append(Contents(r), r.data[c]) /\ s.entry = r.entry + 1
           /\ r.entry + 1 <= MaxMsgs /\ r.entry \in 0..MaxMsgs
<1> DEFINE L == Len(ms)
           w == Append(ms, c)
<1>1. Path(r.next, r.head, ms) /\ r.entry = L /\ s.entry = Len(w) /\ Path(s.next, s.head, w)
  BY ListsOpen
<1>2. L \in Nat /\ ms \in Seq(Cell) /\ w \in Seq(Cell)
  BY <1>1, PathParts
<1>3. /\ Contents(r) = [i \in 1..L |-> r.data[ms[i]]]
      /\ Contents(r) \in Seq(Msg) /\ Len(Contents(r)) = L /\ L \in 0..MaxMsgs
  BY ContentsAt
<1> HIDE DEF w
<1>4. /\ Contents(s) = [i \in 1..Len(w) |-> s.data[w[i]]]
      /\ Contents(s) \in Seq(Msg) /\ Len(Contents(s)) = Len(w) /\ Len(w) \in 0..MaxMsgs
  BY ContentsAt DEF w
<1>5. Len(w) = L + 1 /\ w[L + 1] = c /\ \A i \in 1..L : w[i] = ms[i]
  BY <1>2 DEF w
<1> HIDE DEF L
<1>6. \A i \in 1..L : i \in 1..(L + 1)
  BY <1>2
<1>7. \A i \in 1..L : Contents(s)[i] = Contents(r)[i]
  BY <1>3, <1>4, <1>5, <1>6
<1>8. Contents(s)[L + 1] = r.data[c]
  <2>1. L + 1 \in 1..(L + 1)
    BY <1>2
  <2> QED
    BY <1>4, <1>5, <2>1
<1> DEFINE x == Contents(r)
           y == Contents(s)
<1>9. /\ x \in Seq(Msg) /\ y \in Seq(Msg) /\ Len(x) = L /\ Len(y) = L + 1
      /\ y[L + 1] = r.data[c] /\ \A i \in 1..L : y[i] = x[i]
  BY <1>3, <1>4, <1>5, <1>7, <1>8
<1> HIDE DEF x, y
<1>10. y = Append(x, r.data[c])
  BY <1>2, <1>9
<1> QED
  BY <1>1, <1>3, <1>4, <1>5, <1>10 DEF x, y

LEMMA ContentsPush ==
    ASSUME NEW r, NEW H, NEW ms, NEW fs, Lists(r, H, ms, fs), NEW c \in Cell,
           NEW s, NEW G, NEW gs, Lists(s, G, << c >> \o ms, gs), s.data = r.data
    PROVE  /\ Contents(s) = << r.data[c] >> \o Contents(r) /\ s.entry = r.entry + 1
           /\ r.entry + 1 <= MaxMsgs /\ r.entry \in 0..MaxMsgs
<1> DEFINE L == Len(ms)
           w == << c >> \o ms
           m == r.data[c]
<1>1. Path(r.next, r.head, ms) /\ r.entry = L /\ s.entry = Len(w) /\ Path(s.next, s.head, w)
  BY ListsOpen
<1>2. L \in Nat /\ ms \in Seq(Cell) /\ w \in Seq(Cell)
  BY <1>1, PathParts
<1>3. /\ Contents(r) = [i \in 1..L |-> r.data[ms[i]]]
      /\ Contents(r) \in Seq(Msg) /\ Len(Contents(r)) = L /\ L \in 0..MaxMsgs
  BY ContentsAt
<1> HIDE DEF w
<1>4. /\ Contents(s) = [i \in 1..Len(w) |-> s.data[w[i]]]
      /\ Contents(s) \in Seq(Msg) /\ Len(Contents(s)) = Len(w) /\ Len(w) \in 0..MaxMsgs
  BY ContentsAt DEF w
<1>5. Len(w) = L + 1 /\ w[1] = c /\ \A i \in 1..L : w[i + 1] = ms[i]
  BY <1>2 DEF w
<1> HIDE DEF L
<1>6. \A i \in 1..L : i + 1 \in 1..(L + 1)
  BY <1>2
<1>7. \A i \in 1..L : Contents(s)[i + 1] = Contents(r)[i]
  BY <1>3, <1>4, <1>5, <1>6
<1>8. Contents(s)[1] = m
  <2>1. 1 \in 1..(L + 1)
    BY <1>2
  <2> QED
    BY <1>4, <1>5, <2>1
<1> DEFINE x == Contents(r)
           y == Contents(s)
<1>9. /\ x \in Seq(Msg) /\ y \in Seq(Msg) /\ Len(x) = L /\ Len(y) = L + 1
      /\ y[1] = m /\ \A i \in 1..L : y[i + 1] = x[i]
  BY <1>3, <1>4, <1>5, <1>7, <1>8
<1>10. m \in Msg
  <2>1. 1 \in 1..(L + 1)
    BY <1>2
  <2> QED
    BY <1>9, <2>1, ElementOfSeq
<1> HIDE DEF x, y, m
<1>11. y = << m >> \o x
  BY <1>2, <1>9, <1>10
<1> QED
  BY <1>1, <1>3, <1>4, <1>5, <1>11 DEF x, y, m

LEMMA ContentsTail ==
    ASSUME NEW r, NEW H, NEW ms, NEW fs, Lists(r, H, ms, fs), ms # << >>,
           NEW s, NEW G, NEW gs, Lists(s, G, Tail(ms), gs), s.data = r.data
    PROVE  /\ Contents(r) # << >> /\ Contents(s) = Tail(Contents(r))
           /\ Head(Contents(r)) = r.data[r.head] /\ s.entry = r.entry - 1
<1> DEFINE L == Len(ms)
           w == Tail(ms)
<1>1. Path(r.next, r.head, ms) /\ r.entry = L /\ s.entry = Len(w)
  BY ListsOpen
<1>2. /\ L \in Nat /\ L # 0 /\ r.head = ms[1]
  BY <1>1, PathFacts
<1>0. Lists(s, G, w, gs)
  OBVIOUS
<1>3. Len(w) = L - 1 /\ \A i \in 1..(L - 1) : w[i] = ms[i + 1]
  BY <1>1, PathPop
<1>4. /\ Contents(r) = [i \in 1..L |-> r.data[ms[i]]]
      /\ Contents(r) \in Seq(Msg) /\ Len(Contents(r)) = L
  BY ContentsAt
<1> HIDE DEF w
<1>5. /\ Contents(s) = [i \in 1..Len(w) |-> s.data[w[i]]]
      /\ Contents(s) \in Seq(Msg) /\ Len(Contents(s)) = Len(w)
  BY <1>0, ContentsAt
<1> HIDE DEF L
<1>6. 1 \in 1..L /\ \A i \in 1..(L - 1) : i + 1 \in 1..L
  BY <1>2
<1> DEFINE x == Contents(r)
           y == Contents(s)
<1>7. \A i \in 1..(L - 1) : y[i] = x[i + 1]
  BY <1>3, <1>4, <1>5, <1>6
<1>8. x[1] = r.data[r.head]
  BY <1>2, <1>4, <1>6
<1>9. x \in Seq(Msg) /\ y \in Seq(Msg) /\ Len(x) = L /\ Len(y) = L - 1
  BY <1>3, <1>4, <1>5
<1> HIDE DEF x, y
<1>10. x # << >>
  BY <1>2, <1>9
<1>11. Head(x) = x[1] /\ y = Tail(x)
  BY <1>2, <1>7, <1>9, <1>10
<1> QED
  BY <1>1, <1>3, <1>8, <1>10, <1>11 DEF x, y

-----------------------------------------------------------------------------
(* The queue is sound when the cells of H, and no others, are in hand.     *)
Sound(r, H) == \E ms, fs : Lists(r, H, ms, fs)

LEMMA SoundFacts ==
    ASSUME NEW r, NEW H, Sound(r, H)
    PROVE  /\ r \in QueueType /\ r.entry \in 0..MaxMsgs /\ H \subseteq Cell
           /\ Contents(r) \in Seq(Msg) /\ Len(Contents(r)) = r.entry
<1>1. PICK ms, fs : Lists(r, H, ms, fs)
  BY DEF Sound
<1>2. /\ r.entry = Len(ms) /\ r \in QueueType /\ H \subseteq Cell
  BY <1>1, ListsOpen DEF Split, Fields
<1>3. /\ Contents(r) \in Seq(Msg) /\ Len(Contents(r)) = Len(ms) /\ Len(ms) \in 0..MaxMsgs
  BY <1>1, ContentsAt
<1> QED
  BY <1>2, <1>3

LEMMA SoundFresh ==
    Sound(FreshQueue, {}) /\ Contents(FreshQueue) = << >> /\ FreshQueue.entry = 0
<1>1. Sound(FreshQueue, {})
  BY FreshLists DEF Sound
<1>2. FreshQueue.entry = 0
  BY DEF FreshQueue
<1> DEFINE r == FreshQueue
           H == {}
<1> HIDE DEF r, H
<1>3. Contents(r) \in Seq(Msg) /\ Len(Contents(r)) = r.entry
  <2>1. Sound(r, H)
    BY <1>1 DEF r, H
  <2> QED
    BY <2>1, SoundFacts
<1> DEFINE x == Contents(r)
<1>4. x \in Seq(Msg) /\ Len(x) = 0
  BY <1>2, <1>3 DEF r
<1> HIDE DEF x
<1>5. x = << >>
  BY <1>4, EmptySeq
<1> QED
  BY <1>1, <1>2, <1>5 DEF r, x

LEMMA SoundPop ==
    ASSUME NEW r, NEW H, Sound(r, H), r.free # Null
    PROVE  /\ r.free \in Cell \ H /\ Sound(PopFree(r), H \cup {r.free})
           /\ PopFree(r).next = r.next /\ PopFree(r).data = r.data
           /\ Contents(PopFree(r)) = Contents(r) /\ PopFree(r).entry = r.entry
<1>1. PICK ms, fs : Lists(r, H, ms, fs)
  BY DEF Sound
<1> DEFINE s == PopFree(r)
           G == H \cup {r.free}
           t == Tail(fs)
<1>2. r.free \in Cell \ H /\ Lists(s, G, ms, t) /\ s.next = r.next /\ s.data = r.data
  BY <1>1, ListsPop
<1> HIDE DEF s, G, t
<1>3. \A c \in Cell : Contains(ms, c) => s.data[c] = r.data[c]
  BY <1>2
<1>4. Contents(s) = Contents(r) /\ s.entry = r.entry
  BY <1>1, <1>2, <1>3, ContentsSame
<1>5. Sound(s, G)
  BY <1>2 DEF Sound
<1> QED
  BY <1>2, <1>4, <1>5 DEF s, G

LEMMA SoundPush ==
    ASSUME NEW r, NEW H, Sound(r, H), NEW c \in H
    PROVE  /\ Sound(PushFree(r, c), H \ {c})
           /\ \A x \in Cell \ {c} : /\ PushFree(r, c).next[x] = r.next[x]
                                    /\ PushFree(r, c).data[x] = r.data[x]
           /\ Contents(PushFree(r, c)) = Contents(r) /\ PushFree(r, c).entry = r.entry
<1>1. PICK ms, fs : Lists(r, H, ms, fs)
  BY DEF Sound
<1> DEFINE s == PushFree(r, c)
           G == H \ {c}
           t == << c >> \o fs
<1>2. /\ Lists(s, G, ms, t)
      /\ \A x \in Cell \ {c} : s.next[x] = r.next[x] /\ s.data[x] = r.data[x]
  BY <1>1, ListsPush
<1> HIDE DEF s, G, t
<1>3. Split(H, ms, fs)
  BY <1>1, ListsOpen
<1>4. \A x \in Cell : Contains(ms, x) => s.data[x] = r.data[x]
  BY <1>2, <1>3 DEF Split
<1>5. Contents(s) = Contents(r) /\ s.entry = r.entry
  BY <1>1, <1>2, <1>4, ContentsSame
<1>6. Sound(s, G)
  BY <1>2 DEF Sound
<1> QED
  BY <1>2, <1>5, <1>6 DEF s, G

LEMMA SoundFill ==
    ASSUME NEW r, NEW H, Sound(r, H), NEW c \in H, NEW m \in Msg
    PROVE  /\ Sound(Fill(r, c, m), H)
           /\ Fill(r, c, m).next[c] = Null /\ Fill(r, c, m).data[c] = m
           /\ \A x \in Cell \ {c} : /\ Fill(r, c, m).next[x] = r.next[x]
                                    /\ Fill(r, c, m).data[x] = r.data[x]
           /\ Contents(Fill(r, c, m)) = Contents(r) /\ Fill(r, c, m).entry = r.entry
<1>1. PICK ms, fs : Lists(r, H, ms, fs)
  BY DEF Sound
<1> DEFINE s == Fill(r, c, m)
<1>2. /\ Lists(s, H, ms, fs) /\ s.next[c] = Null /\ s.data[c] = m
      /\ \A x \in Cell \ {c} : s.next[x] = r.next[x] /\ s.data[x] = r.data[x]
  BY <1>1, ListsFill
<1> HIDE DEF s
<1>3. Split(H, ms, fs)
  BY <1>1, ListsOpen
<1>4. \A x \in Cell : Contains(ms, x) => s.data[x] = r.data[x]
  BY <1>2, <1>3 DEF Split
<1>5. Contents(s) = Contents(r) /\ s.entry = r.entry
  BY <1>1, <1>2, <1>4, ContentsSame
<1>6. Sound(s, H)
  BY <1>2 DEF Sound
<1> QED
  BY <1>2, <1>5, <1>6 DEF s

LEMMA SoundFillUrgent ==
    ASSUME NEW r, NEW H, Sound(r, H), NEW c \in H, NEW m \in Msg
    PROVE  /\ Sound(FillUrgent(r, c, m), H)
           /\ FillUrgent(r, c, m).data[c] = m
           /\ \A x \in Cell \ {c} : /\ FillUrgent(r, c, m).next[x] = r.next[x]
                                    /\ FillUrgent(r, c, m).data[x] = r.data[x]
           /\ Contents(FillUrgent(r, c, m)) = Contents(r) /\ FillUrgent(r, c, m).entry = r.entry
<1>1. PICK ms, fs : Lists(r, H, ms, fs)
  BY DEF Sound
<1> DEFINE s == FillUrgent(r, c, m)
<1>2. /\ Lists(s, H, ms, fs) /\ s.data[c] = m /\ s.next = r.next
      /\ \A x \in Cell \ {c} : s.data[x] = r.data[x]
  BY <1>1, ListsFill
<1> HIDE DEF s
<1>3. Split(H, ms, fs)
  BY <1>1, ListsOpen
<1>4. \A x \in Cell : Contains(ms, x) => s.data[x] = r.data[x]
  BY <1>2, <1>3 DEF Split
<1>5. Contents(s) = Contents(r) /\ s.entry = r.entry
  BY <1>1, <1>2, <1>4, ContentsSame
<1>6. Sound(s, H)
  BY <1>2 DEF Sound
<1> QED
  BY <1>2, <1>5, <1>6 DEF s

LEMMA SoundLinkTail ==
    ASSUME NEW r, NEW H, Sound(r, H), NEW c \in H, r.next[c] = Null, r.data[c] \in Msg
    PROVE  /\ Sound(LinkTail(r, c), H \ {c}) /\ LinkTail(r, c).data = r.data
           /\ \A x \in H \ {c} : LinkTail(r, c).next[x] = r.next[x]
           /\ Contents(LinkTail(r, c)) = Append(Contents(r), r.data[c])
           /\ LinkTail(r, c).entry = r.entry + 1 /\ Len(Contents(r)) < MaxMsgs
<1>1. PICK ms, fs : Lists(r, H, ms, fs)
  BY DEF Sound
<1> DEFINE s == LinkTail(r, c)
           G == H \ {c}
<1>2. /\ Lists(s, G, Append(ms, c), fs) /\ s.data = r.data
      /\ \A x \in H \ {c} : s.next[x] = r.next[x]
  BY <1>1, ListsLinkTail
<1> HIDE DEF s, G
<1>3. /\ Contents(s) = Append(Contents(r), r.data[c]) /\ s.entry = r.entry + 1
      /\ r.entry + 1 <= MaxMsgs /\ r.entry \in 0..MaxMsgs
  BY <1>1, <1>2, ContentsAppend
<1>4. Sound(s, G)
  BY <1>2 DEF Sound
<1>5. Len(Contents(r)) = r.entry
  BY SoundFacts
<1>6. r.entry < MaxMsgs
  BY <1>3, MqAssumption
<1> QED
  BY <1>2, <1>3, <1>4, <1>5, <1>6 DEF s, G

LEMMA SoundLinkHead ==
    ASSUME NEW r, NEW H, Sound(r, H), NEW c \in H, r.data[c] \in Msg
    PROVE  /\ Sound(LinkHead(r, c), H \ {c}) /\ LinkHead(r, c).data = r.data
           /\ \A x \in H \ {c} : LinkHead(r, c).next[x] = r.next[x]
           /\ Contents(LinkHead(r, c)) = << r.data[c] >> \o Contents(r)
           /\ LinkHead(r, c).entry = r.entry + 1 /\ Len(Contents(r)) < MaxMsgs
<1>1. PICK ms, fs : Lists(r, H, ms, fs)
  BY DEF Sound
<1> DEFINE s == LinkHead(r, c)
           G == H \ {c}
<1>2. /\ Lists(s, G, << c >> \o ms, fs) /\ s.data = r.data
      /\ \A x \in H \ {c} : s.next[x] = r.next[x]
  BY <1>1, ListsLinkHead
<1> HIDE DEF s, G
<1>3. c \in Cell
  BY SoundFacts
<1>4. /\ Contents(s) = << r.data[c] >> \o Contents(r) /\ s.entry = r.entry + 1
      /\ r.entry + 1 <= MaxMsgs /\ r.entry \in 0..MaxMsgs
  BY <1>1, <1>2, <1>3, ContentsPush
<1>5. Sound(s, G)
  BY <1>2 DEF Sound
<1>6. Len(Contents(r)) = r.entry
  BY SoundFacts
<1>7. r.entry < MaxMsgs
  BY <1>4, MqAssumption
<1> QED
  BY <1>2, <1>4, <1>5, <1>6, <1>7 DEF s, G

LEMMA SoundUnlink ==
    ASSUME NEW r, NEW H, Sound(r, H), r.entry > 0
    PROVE  /\ r.head \in Cell \ H /\ r.data[r.head] \in Msg
           /\ Sound(UnlinkHead(r), H \cup {r.head})
           /\ UnlinkHead(r).next = r.next /\ UnlinkHead(r).data = r.data
           /\ Contents(r) # << >> /\ Contents(UnlinkHead(r)) = Tail(Contents(r))
           /\ Head(Contents(r)) = r.data[r.head] /\ UnlinkHead(r).entry = r.entry - 1
<1>1. PICK ms, fs : Lists(r, H, ms, fs)
  BY DEF Sound
<1> DEFINE s == UnlinkHead(r)
           G == H \cup {r.head}
<1>2. ms # << >>
  <2>1. r.entry = Len(ms) /\ Path(r.next, r.head, ms)
    BY <1>1, ListsOpen
  <2>2. Len(ms) # 0
    BY <2>1
  <2> QED
    BY <2>1, <2>2, PathFacts
<1>3. /\ r.head \in Cell \ H /\ r.data[r.head] \in Msg
      /\ Lists(s, G, Tail(ms), fs) /\ s.next = r.next /\ s.data = r.data
  BY <1>1, <1>2, ListsUnlink
<1> HIDE DEF s, G
<1>4. /\ Contents(r) # << >> /\ Contents(s) = Tail(Contents(r))
      /\ Head(Contents(r)) = r.data[r.head] /\ s.entry = r.entry - 1
  BY <1>1, <1>2, <1>3, ContentsTail
<1>5. Sound(s, G)
  BY <1>3 DEF Sound
<1> QED
  BY <1>3, <1>4, <1>5 DEF s, G

LEMMA SoundRelease ==
    ASSUME NEW r, NEW H, Sound(r, H)
    PROVE  /\ Sound(ReleaseAll(r), H) /\ Contents(ReleaseAll(r)) = << >> /\ ReleaseAll(r).entry = 0
           /\ \A x \in H : ReleaseAll(r).next[x] = r.next[x] /\ ReleaseAll(r).data[x] = r.data[x]
<1>1. PICK ms, fs : Lists(r, H, ms, fs)
  BY DEF Sound
<1> DEFINE s == ReleaseAll(r)
           e == << >>
<1>2. /\ \E gs : Lists(s, H, e, gs)
      /\ \A x \in H : s.next[x] = r.next[x] /\ s.data[x] = r.data[x]
  BY <1>1, ListsRelease
<1>3. Len(e) = 0
  OBVIOUS
<1> HIDE DEF s, e
<1>4. PICK gs : Lists(s, H, e, gs)
  BY <1>2
<1>5. /\ Contents(s) \in Seq(Msg) /\ Len(Contents(s)) = Len(e) /\ s.entry = Len(e)
  BY <1>4, ContentsAt, ListsOpen
<1>6. Sound(s, H)
  BY <1>4 DEF Sound
<1> DEFINE x == Contents(s)
<1>7. x \in Seq(Msg) /\ Len(x) = 0
  BY <1>3, <1>5
<1> HIDE DEF x
<1>8. x = << >>
  BY <1>7, EmptySeq
<1> QED
  BY <1>2, <1>3, <1>5, <1>6, <1>8 DEF s, x

(* A send by an interrupt handler.                                         *)
LEMMA SoundSend ==
    ASSUME NEW r, NEW H, Sound(r, H), r.free # Null, NEW m \in Msg
    PROVE  LET s == LinkTail(Fill(PopFree(r), r.free, m), r.free)
           IN  /\ Sound(s, H) /\ \A x \in H : s.next[x] = r.next[x] /\ s.data[x] = r.data[x]
               /\ Contents(s) = Append(Contents(r), m) /\ s.entry = r.entry + 1
               /\ Len(Contents(r)) < MaxMsgs
<1> DEFINE c == r.free
           a == PopFree(r)
           b == Fill(a, c, m)
           s == LinkTail(b, c)
           G == H \cup {c}
<1>1. /\ c \in Cell \ H /\ Sound(a, G) /\ a.next = r.next /\ a.data = r.data
      /\ Contents(a) = Contents(r) /\ a.entry = r.entry
  BY SoundPop
<1>2. c \in G /\ G \ {c} = H /\ \A x \in H : x \in Cell \ {c}
  BY <1>1, SoundFacts
<1> HIDE DEF a, G, c
<1>3. /\ Sound(b, G) /\ b.next[c] = Null /\ b.data[c] = m
      /\ \A x \in Cell \ {c} : b.next[x] = a.next[x] /\ b.data[x] = a.data[x]
      /\ Contents(b) = Contents(a) /\ b.entry = a.entry
  BY <1>1, <1>2, SoundFill
<1> HIDE DEF b
<1>4. /\ Sound(s, G \ {c}) /\ s.data = b.data
      /\ \A x \in G \ {c} : s.next[x] = b.next[x]
      /\ Contents(s) = Append(Contents(b), b.data[c])
      /\ s.entry = b.entry + 1 /\ Len(Contents(b)) < MaxMsgs
  BY <1>2, <1>3, SoundLinkTail
<1> HIDE DEF s
<1>5. /\ Sound(s, H) /\ (\A x \in H : s.next[x] = r.next[x] /\ s.data[x] = r.data[x])
      /\ Contents(s) = Append(Contents(r), m) /\ s.entry = r.entry + 1
      /\ Len(Contents(r)) < MaxMsgs
  BY <1>1, <1>2, <1>3, <1>4
<1> QED
  BY <1>5 DEF s, b, a, c

LEMMA SoundSendUrgent ==
    ASSUME NEW r, NEW H, Sound(r, H), r.free # Null, NEW m \in Msg
    PROVE  LET s == LinkHead(FillUrgent(PopFree(r), r.free, m), r.free)
           IN  /\ Sound(s, H) /\ \A x \in H : s.next[x] = r.next[x] /\ s.data[x] = r.data[x]
               /\ Contents(s) = << m >> \o Contents(r) /\ s.entry = r.entry + 1
               /\ Len(Contents(r)) < MaxMsgs
<1> DEFINE c == r.free
           a == PopFree(r)
           b == FillUrgent(a, c, m)
           s == LinkHead(b, c)
           G == H \cup {c}
<1>1. /\ c \in Cell \ H /\ Sound(a, G) /\ a.next = r.next /\ a.data = r.data
      /\ Contents(a) = Contents(r) /\ a.entry = r.entry
  BY SoundPop
<1>2. c \in G /\ G \ {c} = H /\ \A x \in H : x \in Cell \ {c}
  BY <1>1, SoundFacts
<1> HIDE DEF a, G, c
<1>3. /\ Sound(b, G) /\ b.data[c] = m
      /\ \A x \in Cell \ {c} : b.next[x] = a.next[x] /\ b.data[x] = a.data[x]
      /\ Contents(b) = Contents(a) /\ b.entry = a.entry
  BY <1>1, <1>2, SoundFillUrgent
<1> HIDE DEF b
<1>4. /\ Sound(s, G \ {c}) /\ s.data = b.data
      /\ \A x \in G \ {c} : s.next[x] = b.next[x]
      /\ Contents(s) = << b.data[c] >> \o Contents(b)
      /\ s.entry = b.entry + 1 /\ Len(Contents(b)) < MaxMsgs
  BY <1>2, <1>3, SoundLinkHead
<1> HIDE DEF s
<1>5. /\ Sound(s, H) /\ (\A x \in H : s.next[x] = r.next[x] /\ s.data[x] = r.data[x])
      /\ Contents(s) = << m >> \o Contents(r) /\ s.entry = r.entry + 1
      /\ Len(Contents(r)) < MaxMsgs
  BY <1>1, <1>2, <1>3, <1>4
<1> QED
  BY <1>5 DEF s, b, a, c

-----------------------------------------------------------------------------
(* The threads that wait for a message, whoever detaches the queue when.   *)

MqBase ==
    /\ IpcInv
    /\ \A t \in Thread : pc[t] \in Waiting => want[t] = "mq"
    /\ \A t \in Thread : Blocked("mq", t) => k.error[t] = "EOK"

LEMMA TheMqQueue == "mq" \in Queue
  BY MqAssumption

LEMMA MqBaseInit ==
    ASSUME IpcInit
    PROVE  MqBase
<1>1. IpcInv /\ \A t \in Thread : ~Blocked("mq", t)
  BY IpcInitFacts, TheMqQueue DEF Blocked
<1>2. \A t \in Thread : pc[t] \notin Waiting
  BY IpcInitFacts DEF Waiting
<1> QED
  BY <1>1, <1>2 DEF MqBase

(* A step of the call of t, which does not wait afterwards.                *)
LEMMA MqBaseWakes ==
    ASSUME MqBase, IpcInv', NEW t \in Thread, NEW W, Wakes({t}, W), ~Blocked("mq", t),
           NEW l, l \notin Waiting, pc' = [pc EXCEPT ![t] = l],
           want' = want \/ want' = [want EXCEPT ![t] = None]
    PROVE  MqBase'
<1>1. /\ pc \in [Thread -> Outside \cup Waiting \cup Flushes \cup Carrying]
      /\ want \in [Thread -> Queue \cup {None}]
  BY DEF MqBase, IpcInv, CallsType
<1>2. \A x \in Thread : pc'[x] \in Waiting => pc[x] \in Waiting /\ want'[x] = want[x]
  BY <1>1
<1>3. \A x \in Thread : Blocked("mq", x)' => Blocked("mq", x) /\ x \notin W
  BY TheMqQueue DEF Wakes, Blocked
<1>4. \A x \in Thread : Blocked("mq", x)' => k'.error[x] = "EOK"
  BY <1>3 DEF Wakes, MqBase
<1> QED
  BY <1>2, <1>4 DEF MqBase

LEMMA MqBaseWaits ==
    ASSUME MqBase, IpcInv', NEW t \in Thread, Waits(t, "mq")
    PROVE  MqBase'
<1>1. /\ pc \in [Thread -> Outside \cup Waiting \cup Flushes \cup Carrying]
      /\ want \in [Thread -> Queue \cup {None}]
  BY DEF MqBase, IpcInv, CallsType
<1>2. pc' = [pc EXCEPT ![t] = "block"] /\ want' = [want EXCEPT ![t] = "mq"] /\ Joins(t, "mq")
  BY DEF Waits
<1>3. \A x \in Thread : pc'[x] \in Waiting => want'[x] = "mq"
  BY <1>1, <1>2 DEF MqBase
<1>4. \A x \in Thread : Blocked("mq", x)' => Blocked("mq", x) \/ x = t
  BY <1>2, TheMqQueue DEF Joins, Blocked
<1>5. \A x \in Thread : Blocked("mq", x)' => k'.error[x] = "EOK"
  BY <1>2, <1>4 DEF Joins, MqBase
<1> QED
  BY <1>3, <1>5 DEF MqBase

LEMMA MqBaseBackground ==
    ASSUME MqBase, Background
    PROVE  MqBase'
<1>1. \A x \in Thread : pc'[x] \in Waiting => pc[x] \in Waiting /\ want'[x] = want[x]
  BY DEF Background, Waiting, Outside
<1>2. \A x \in Thread : Blocked("mq", x)' => Blocked("mq", x) /\ k'.error[x] = k.error[x]
  BY TheMqQueue DEF Background, Blocked
<1>3. IpcInv'
  BY DEF Background
<1> QED
  BY <1>1, <1>2, <1>3 DEF MqBase

(* Who runs, and not in a wait, is on no queue.                            *)
LEMMA MqRunner ==
    ASSUME MqBase, NEW t \in Thread, Running(t), pc[t] \notin {"block", "sleep"}
    PROVE  ~Blocked("mq", t)
<1>1. k.stat[t] = "READY" /\ KernelOK(k)
  BY RunnerReady DEF MqBase, IpcInv
<1> QED
  BY <1>1, ReadyThread, TheMqQueue DEF Blocked

(* A step of t that changes nothing in the kernel.                         *)
MqMoves(t, l) ==
    /\ Wakes({t}, {}) /\ k' = k /\ pc' = [pc EXCEPT ![t] = l] /\ UNCHANGED << wild, alive >>

LEMMA MqPlain ==
    ASSUME MqBase, NEW t \in Client, Running(t), pc[t] \notin {"block", "sleep", "sched"},
           UNCHANGED << k, wild, alive >>, NEW l \in CallerSteps, Goto(t, l),
           UNCHANGED waitVars \/ EndWait(t, l)
    PROVE  MqBase' /\ MqMoves(t, l)
<1>1. /\ pc' = [pc EXCEPT ![t] = l]
      /\ want' = want \/ want' = [want EXCEPT ![t] = None]
      /\ budget' = budget \/ budget' = [budget EXCEPT ![t] = Forever]
  BY DEF Goto, EndWait, waitVars
<1>2. IpcInv /\ t \in Thread /\ ~Blocked("mq", t)
  BY MqRunner DEF MqBase, Client
<1>3. wild' \in BOOLEAN /\ alive' \in BOOLEAN /\ budget' \in [Thread -> {Forever} \cup 0..MaxWait]
  BY <1>1, <1>2 DEF IpcInv, CallsType
<1> DEFINE W == {}
<1>4. IpcInv' /\ Wakes({t}, W)
  BY <1>1, <1>2, <1>3, PlainStep
<1>5. l \notin Waiting
  BY DEF CallerSteps, Waiting, Outside, Flushes, Carrying
<1> HIDE DEF W
<1>6. MqBase'
  BY <1>1, <1>2, <1>4, <1>5, MqBaseWakes
<1> QED
  BY <1>1, <1>4, <1>6 DEF MqMoves, W

(* A thread inside a call that is not waiting.                             *)
LEMMA MqInCall ==
    ASSUME MqBase, NEW t \in Thread, NEW l, At(t, l), l \in Carrying \/ l = "woken"
    PROVE  t \in Client /\ Running(t) /\ pc[t] = l /\ l \notin {"run", "block", "sleep", "sched"}
<1>1. Running(t) /\ pc[t] = l /\ l \notin {"run", "block", "sleep", "sched"}
  BY DEF At, Carrying
<1>2. pc[Idle] = "run"
  BY DEF MqBase, IpcInv, ThreadsOK
<1> QED
  BY <1>1, <1>2 DEF Client

LEMMA MqCaller ==
    ASSUME NEW t \in Thread, NEW S, S \subseteq Client, Calls(t, S)
    PROVE  /\ t \in Client /\ t \in S /\ Running(t) /\ pc[t] = "run" /\ Usable
           /\ pc[t] \notin {"block", "sleep", "sched"} /\ pc[t] \in {"run", "woken"}
  BY DEF Calls, At

LEMMA TheCallers ==
    Producers \subseteq Client /\ Consumers \subseteq Client /\ Controllers \subseteq Client
  BY IpcAssumption DEF Client

LEMMA CarryingSteps ==
    Carrying \subseteq CallerSteps /\ {"run", "sched"} \subseteq CallerSteps
  BY DEF Carrying, CallerSteps, Outside

LEMMA MqPopStep ==
    ASSUME MqBase, NEW t \in Thread, NEW l \in {"fill", "ufill"}, MqSendPop(t, l)
    PROVE  /\ MqBase' /\ MqMoves(t, l)
           /\ Usable /\ t \in Producers /\ pc[t] = "run" /\ mq.free # Null
           /\ mq' = PopFree(mq) /\ hand' = [hand EXCEPT ![t] = mq.free]
<1>1. /\ Calls(t, Producers) /\ mq.free # Null /\ mq' = PopFree(mq)
      /\ hand' = [hand EXCEPT ![t] = mq.free] /\ Goto(t, l)
      /\ UNCHANGED << k, wild, alive, waitVars >>
  BY DEF MqSendPop, Step
<1>2. /\ t \in Client /\ t \in Producers /\ Running(t) /\ pc[t] = "run" /\ Usable
      /\ pc[t] \notin {"block", "sleep", "sched"}
  BY <1>1, TheCallers, MqCaller
<1>3. l \in CallerSteps
  BY CarryingSteps DEF Carrying
<1>4. MqBase' /\ MqMoves(t, l)
  BY <1>1, <1>2, <1>3, MqPlain
<1> QED
  BY <1>1, <1>2, <1>4

LEMMA MqFillStep ==
    ASSUME MqBase, NEW t \in Thread, MqSendFill(t)
    PROVE  /\ MqBase' /\ hand' = hand
           /\ \/ /\ pc[t] = "fill" /\ MqMoves(t, "link")
                 /\ mq' = Fill(mq, hand[t], MsgFrom[t])
              \/ /\ pc[t] = "ufill" /\ MqMoves(t, "ulink")
                 /\ mq' = FillUrgent(mq, hand[t], MsgFrom[t])
<1>1. UNCHANGED << k, wild, alive, waitVars >> /\ hand' = hand
  BY DEF MqSendFill
<1>2. {"fill", "ufill", "link", "ulink"} \subseteq Carrying /\ {"link", "ulink"} \subseteq CallerSteps
  BY CarryingSteps DEF Carrying
<1>3. CASE At(t, "fill") /\ Goto(t, "link") /\ mq' = Fill(mq, hand[t], MsgFrom[t])
  <2>1. t \in Client /\ Running(t) /\ pc[t] = "fill" /\ pc[t] \notin {"block", "sleep", "sched"}
    BY <1>2, <1>3, MqInCall
  <2>2. MqBase' /\ MqMoves(t, "link")
    BY <1>1, <1>2, <1>3, <2>1, MqPlain
  <2> QED
    BY <1>1, <1>3, <2>1, <2>2
<1>4. CASE At(t, "ufill") /\ Goto(t, "ulink") /\ mq' = FillUrgent(mq, hand[t], MsgFrom[t])
  <2>1. t \in Client /\ Running(t) /\ pc[t] = "ufill" /\ pc[t] \notin {"block", "sleep", "sched"}
    BY <1>2, <1>4, MqInCall
  <2>2. MqBase' /\ MqMoves(t, "ulink")
    BY <1>1, <1>2, <1>4, <2>1, MqPlain
  <2> QED
    BY <1>1, <1>4, <2>1, <2>2
<1> QED
  BY <1>3, <1>4 DEF MqSendFill

(* The message is linked and the first receiver that waits is woken.       *)
MqGrants(T) == Wakes(T, First(k, "mq")) /\ k'.error = k.error

LEMMA MqLinkStep ==
    ASSUME MqBase, NEW t \in Thread, MqSendLink(t)
    PROVE  /\ MqBase' /\ MqGrants({t}) /\ UNCHANGED << wild, alive >>
           /\ pc' = [pc EXCEPT ![t] = AfterResume("mq")] /\ hand' = [hand EXCEPT ![t] = Null]
           /\ \/ pc[t] = "link" /\ mq' = LinkTail(mq, hand[t])
              \/ pc[t] = "ulink" /\ mq' = LinkHead(mq, hand[t])
<1>1. /\ k' = ResumeFirst(k, "mq") /\ pc' = [pc EXCEPT ![t] = AfterResume("mq")]
      /\ UNCHANGED << wild, alive, want, budget >> /\ hand' = [hand EXCEPT ![t] = Null]
  BY DEF MqSendLink, Step, Goto, waitVars
<1>2. /\ t \in Client /\ Running(t) /\ pc[t] \notin {"block", "sleep", "sched"}
      /\ \/ pc[t] = "link" /\ mq' = LinkTail(mq, hand[t])
         \/ pc[t] = "ulink" /\ mq' = LinkHead(mq, hand[t])
  <2>1. "link" \in Carrying /\ "ulink" \in Carrying
    BY DEF Carrying
  <2>2. CASE At(t, "link") /\ mq' = LinkTail(mq, hand[t])
    BY <2>1, <2>2, MqInCall
  <2>3. CASE At(t, "ulink") /\ mq' = LinkHead(mq, hand[t])
    BY <2>1, <2>3, MqInCall
  <2> QED
    BY <2>2, <2>3 DEF MqSendLink
<1>3. IpcInv /\ wild' \in BOOLEAN /\ alive' \in BOOLEAN /\ budget' \in [Thread -> {Forever} \cup 0..MaxWait]
  BY <1>1 DEF MqBase, IpcInv, CallsType
<1> DEFINE W == First(k, "mq")
           l == AfterResume("mq")
<1>4. IpcInv' /\ Wakes({t}, W) /\ k'.error = k.error
  BY <1>1, <1>2, <1>3, ReleaseStep, TheMqQueue
<1>5. l \notin Waiting /\ ~Blocked("mq", t)
  BY <1>2, MqRunner DEF AfterResume, Waiting
<1>6. pc' = [pc EXCEPT ![t] = l]
  BY <1>1
<1> HIDE DEF W, l
<1>7. MqBase'
  BY <1>1, <1>4, <1>5, <1>6, MqBaseWakes
<1> QED
  BY <1>1, <1>2, <1>4, <1>7 DEF MqGrants, W

LEMMA MqIsrStep ==
    ASSUME MqBase, MqSendFromIsr
    PROVE  MqBase' /\ MqGrants({}) /\ UNCHANGED << pc, wild, alive, hand >>
<1>1. k' = ResumeFromIsr(k, "mq") /\ UNCHANGED << pc, wild, alive, want, budget, hand >>
  BY DEF MqSendFromIsr, waitVars
<1>2. IpcInv' /\ Wakes({}, First(k, "mq")) /\ k'.error = k.error
  BY <1>1, IsrStep, TheMqQueue DEF MqBase
<1>3. \A x \in Thread : Blocked("mq", x)' => Blocked("mq", x)
  BY <1>2, TheMqQueue DEF Wakes, Blocked
<1> QED
  BY <1>1, <1>2, <1>3 DEF MqBase, MqGrants

(* What a section of rt_mq_recv does: it takes the first message's cell,   *)
(* or waits.                                                               *)
MqReceives(t) ==
    \/ /\ mq.entry > 0 /\ mq' = UnlinkHead(mq) /\ hand' = [hand EXCEPT ![t] = mq.head]
       /\ MqMoves(t, "copy")
    \/ /\ mq.entry = 0 /\ mq' = mq /\ hand' = hand
       /\ Waits(t, "mq") /\ UNCHANGED << wild, alive >>

LEMMA MqRecvLoopStep ==
    ASSUME MqBase, NEW t \in Client, Running(t), pc[t] \in {"run", "woken"},
           NEW w \in {Forever} \cup 0..MaxWait, MqRecvLoop(t, w), UNCHANGED << wild, alive >>
    PROVE  MqBase' /\ MqReceives(t)
<1>1. IpcInv /\ t \in Thread /\ pc[t] \notin {"block", "sleep", "sched"}
  BY DEF MqBase, Client
<1>2. CASE /\ mq.entry > 0 /\ mq' = UnlinkHead(mq) /\ hand' = [hand EXCEPT ![t] = mq.head]
           /\ EndWait(t, "copy") /\ UNCHANGED k
  <2>1. "copy" \in CallerSteps /\ Goto(t, "copy")
    BY <1>2, CarryingSteps DEF Carrying, EndWait
  <2>2. MqBase' /\ MqMoves(t, "copy")
    BY <1>1, <1>2, <2>1, MqPlain
  <2> QED
    BY <1>2, <2>2 DEF MqReceives
<1>3. CASE mq.entry = 0 /\ WaitInLoop(t, "mq", w) /\ UNCHANGED mqVars
  <2>1. IpcInv' /\ Waits(t, "mq")
    BY <1>1, <1>3, LoopWaitStep, TheMqQueue
  <2>2. MqBase'
    BY <1>1, <2>1, MqBaseWaits
  <2> QED
    BY <1>3, <2>1, <2>2 DEF MqReceives, mqVars
<1> QED
  BY <1>2, <1>3 DEF MqRecvLoop

LEMMA MqRecvStep ==
    ASSUME MqBase, NEW t \in Thread, NEW w \in WaitTime, MqRecv(t, w)
    PROVE  MqBase' /\ MqReceives(t) /\ Usable /\ pc[t] = "run"
<1>1. Calls(t, Consumers) /\ MqRecvLoop(t, w) /\ UNCHANGED << wild, alive >>
  BY DEF MqRecv
<1>2. /\ t \in Client /\ Running(t) /\ pc[t] = "run" /\ Usable /\ pc[t] \in {"run", "woken"}
  BY <1>1, TheCallers, MqCaller
<1>3. w \in {Forever} \cup 0..MaxWait
  BY IpcAssumption DEF WaitTime
<1> QED
  BY <1>1, <1>2, <1>3, MqRecvLoopStep

LEMMA MqRecvAgainStep ==
    ASSUME MqBase, NEW t \in Thread, MqRecvAgain(t)
    PROVE  /\ MqBase' /\ pc[t] = "woken"
           /\ \/ MqReceives(t) /\ t \in Granted("mq")
              \/ /\ Leaves(t) /\ UNCHANGED << mq, hand, wild, alive >>
                 /\ t \in Granted("mq") => mq.entry = 0
<1>1. At(t, "woken") /\ UNCHANGED << wild, alive >>
  BY DEF MqRecvAgain
<1>2. /\ t \in Client /\ Running(t) /\ pc[t] = "woken" /\ pc[t] \in {"run", "woken"}
      /\ pc[t] \notin {"block", "sleep"}
  BY <1>1, MqInCall
<1>3. IpcInv /\ budget[t] \in {Forever} \cup 0..MaxWait /\ ~Blocked("mq", t) /\ want[t] = "mq"
  BY <1>2, MqRunner DEF MqBase, IpcInv, CallsType, Waiting
<1>4. t \in Granted("mq") <=> k.error[t] = "EOK"
  BY <1>2, <1>3 DEF Granted, Waiting
<1>5. ASSUME IpcInv', Leaves(t), UNCHANGED mqVars, t \in Granted("mq") => mq.entry = 0
      PROVE  /\ MqBase' /\ Leaves(t) /\ UNCHANGED << mq, hand, wild, alive >>
             /\ t \in Granted("mq") => mq.entry = 0
  <2> DEFINE W == {}
             l == "run"
  <2>1. /\ pc' = [pc EXCEPT ![t] = l] /\ want' = [want EXCEPT ![t] = None] /\ Wakes({t}, W)
        /\ l \notin Waiting
    BY <1>5 DEF Leaves, Waiting
  <2> HIDE DEF W, l
  <2>2. MqBase'
    BY <1>3, <1>5, <2>1, MqBaseWakes
  <2> QED
    BY <1>1, <1>5, <2>2 DEF mqVars
<1>6. CASE k.error[t] = "EOK" /\ MqRecvLoop(t, budget[t])
  BY <1>1, <1>2, <1>3, <1>4, <1>6, MqRecvLoopStep
<1>7. CASE /\ k.error[t] = "EOK" /\ mq.entry = 0 /\ budget[t] = 0
           /\ k' = [k EXCEPT !.error[t] = "ETIMEOUT"]
           /\ Return(t) /\ UNCHANGED mqVars
  <2>1. IpcInv' /\ Leaves(t)
    BY <1>1, <1>2, <1>3, <1>7, TimeoutStep
  <2> QED
    BY <1>2, <1>5, <1>7, <2>1
<1>8. CASE k.error[t] # "EOK" /\ Return(t) /\ UNCHANGED << k, mqVars >>
  <2>1. IpcInv' /\ Leaves(t)
    BY <1>1, <1>2, <1>3, <1>8, ReturnStep
  <2> QED
    BY <1>2, <1>4, <1>5, <1>8, <2>1
<1> QED
  BY <1>6, <1>7, <1>8 DEF MqRecvAgain

LEMMA MqCopyStep ==
    ASSUME MqBase, NEW t \in Thread, MqCopy(t)
    PROVE  MqBase' /\ MqMoves(t, "give") /\ pc[t] = "copy" /\ UNCHANGED << mq, hand >>
<1>1. At(t, "copy") /\ Goto(t, "give") /\ UNCHANGED << k, wild, alive, waitVars, mq, hand >>
  BY DEF MqCopy, mqVars
<1>2. "copy" \in Carrying /\ "give" \in CallerSteps
  BY CarryingSteps DEF Carrying
<1>3. t \in Client /\ Running(t) /\ pc[t] = "copy" /\ pc[t] \notin {"block", "sleep", "sched"}
  BY <1>1, <1>2, MqInCall
<1>4. MqBase' /\ MqMoves(t, "give")
  BY <1>1, <1>2, <1>3, MqPlain
<1> QED
  BY <1>1, <1>3, <1>4

LEMMA MqGiveStep ==
    ASSUME MqBase, NEW t \in Thread, MqGive(t)
    PROVE  /\ MqBase' /\ MqMoves(t, "run") /\ pc[t] = "give"
           /\ mq' = PushFree(mq, hand[t]) /\ hand' = [hand EXCEPT ![t] = Null]
<1>1. /\ At(t, "give") /\ Goto(t, "run") /\ UNCHANGED << k, wild, alive, waitVars >>
      /\ mq' = PushFree(mq, hand[t]) /\ hand' = [hand EXCEPT ![t] = Null]
  BY DEF MqGive, Step
<1>2. "give" \in Carrying /\ "run" \in CallerSteps
  BY CarryingSteps DEF Carrying
<1>3. t \in Client /\ Running(t) /\ pc[t] = "give" /\ pc[t] \notin {"block", "sleep", "sched"}
  BY <1>1, <1>2, MqInCall
<1>4. MqBase' /\ MqMoves(t, "run")
  BY <1>1, <1>2, <1>3, MqPlain
<1> QED
  BY <1>1, <1>3, <1>4

LEMMA MqResetStep ==
    ASSUME MqBase, NEW t \in Thread, MqReset(t)
    PROVE  /\ MqBase' /\ Usable /\ pc[t] = "run" /\ pc' = [pc EXCEPT ![t] = "sched"]
           /\ UNCHANGED << wild, alive, hand >> /\ mq' = ReleaseAll(mq)
           /\ \A x \in Thread : ~Blocked("mq", x)'
<1>1. /\ Calls(t, Controllers) /\ k' = ResumeAll(k, "mq") /\ pc' = [pc EXCEPT ![t] = "sched"]
      /\ UNCHANGED << wild, alive, want, budget, hand >> /\ mq' = ReleaseAll(mq)
  BY DEF MqReset, Goto, waitVars
<1>2. /\ t \in Client /\ Running(t) /\ pc[t] = "run" /\ Usable
      /\ pc[t] \notin {"block", "sleep", "sched"}
  BY <1>1, TheCallers, MqCaller
<1> DEFINE W == Waiters(k, "mq")
           l == "sched"
<1>3. IpcInv' /\ Wakes({t}, W)
  BY <1>1, <1>2, ResumeAllStep, TheMqQueue DEF MqBase
<1>4. \A x \in Thread : ~Blocked("mq", x)'
  BY <1>3, TheMqQueue DEF Wakes, Waiters, Blocked
<1>5. l \notin Waiting /\ ~Blocked("mq", t) /\ pc' = [pc EXCEPT ![t] = l]
  BY <1>1, <1>2, MqRunner DEF Waiting
<1> HIDE DEF W, l
<1>6. MqBase'
  BY <1>1, <1>3, <1>5, MqBaseWakes
<1> QED
  BY <1>1, <1>2, <1>4, <1>6

(* A step of rt_mq_detach: whoever it wakes reads an error.                *)
MqFlushes(t) ==
    /\ UNCHANGED << mq, hand >> /\ pc[t] \notin Waiting \cup Carrying
    /\ \E W, l : /\ Wakes({t}, W) /\ \A x \in W : k'.error[x] = "ERROR"
                 /\ l \notin Waiting \cup Carrying /\ pc' = [pc EXCEPT ![t] = l]

LEMMA MqDetachStep ==
    ASSUME MqBase, NEW t \in Thread, MqDetach(t)
    PROVE  MqBase' /\ MqFlushes(t) /\ t \in Client
<1> USE TheMqQueue
<1>1. mq' = mq /\ hand' = hand /\ IpcInv
  BY DEF MqDetach, mqVars, MqBase
<1>2. t \in Client
  BY <1>1, IpcAssumption DEF MqDetach, FlushBegin, FlushLook, FlushWake, At, IpcInv, ThreadsOK, Client
<1>3. ASSUME NEW W, IpcInv', Wakes({t}, W), \A x \in W : k'.error[x] = "ERROR",
             pc[t] \notin Waiting \cup Carrying, NEW l, l \notin Waiting \cup Carrying,
             pc' = [pc EXCEPT ![t] = l], want' = want
      PROVE  MqBase' /\ MqFlushes(t)
  <2>1. ~Blocked("mq", t)
    BY <1>1, <1>3 DEF IpcInv, ThreadsOK, Blocked
  <2>2. MqBase'
    BY <1>3, <2>1, MqBaseWakes
  <2> QED
    BY <1>1, <1>3, <2>2 DEF MqFlushes
<1>4. {"run", "flush", "flush1"} \cap (Waiting \cup Carrying) = {}
  BY DEF Waiting, Carrying
<1>5. CASE FlushBegin(t, {"mq"})
  <2> DEFINE W == {}
             l == "flush"
             Q == {"mq"}
  <2>1. pc[t] \notin Waiting \cup Carrying /\ pc' = [pc EXCEPT ![t] = l] /\ want' = want
    BY <1>4, <1>5 DEF FlushBegin, At, Goto, waitVars
  <2>2. l \notin Waiting \cup Carrying /\ FlushBegin(t, Q)
    BY <1>4, <1>5
  <2> HIDE DEF Q
  <2>3. IpcInv' /\ Wakes({t}, W) /\ \A x \in W : k'.error[x] = "ERROR"
    BY <1>1, <1>2, <2>2, FlushBeginStep
  <2> HIDE DEF W, l
  <2> QED
    BY <1>2, <1>3, <2>1, <2>2, <2>3
<1>6. CASE FlushLook(t, "mq", "flush", "flush1", "run")
  <2> DEFINE W == {}
             l == IF k.wait["mq"] = << >> THEN "run" ELSE "flush1"
  <2>1. /\ pc[t] \notin Waiting \cup Carrying /\ l \notin Waiting \cup Carrying
        /\ pc' = [pc EXCEPT ![t] = l] /\ want' = want
    BY <1>4, <1>6 DEF FlushLook, At, Goto, waitVars
  <2>2. "flush" \in Flushes /\ "flush1" \in CallerSteps /\ "run" \in CallerSteps
    BY DEF Flushes, CallerSteps, Outside
  <2>3. IpcInv' /\ Wakes({t}, W) /\ \A x \in W : k'.error[x] = "ERROR"
    BY <1>1, <1>2, <1>6, <2>2, FlushLookStep
  <2> HIDE DEF W, l
  <2> QED
    BY <1>2, <1>3, <2>1, <2>3
<1>7. CASE FlushWake(t, "mq", "flush", "flush1")
  <2> DEFINE l == "flush"
  <2>1. /\ pc[t] \notin Waiting \cup Carrying /\ l \notin Waiting \cup Carrying
        /\ pc' = [pc EXCEPT ![t] = l] /\ want' = want
    BY <1>4, <1>7 DEF FlushWake, At, Goto, waitVars
  <2>2. "flush" \in Flushes /\ "flush1" \in Flushes
    BY DEF Flushes
  <2>3. IpcInv' /\ Wakes({t}, First(k, "mq")) /\ \A x \in First(k, "mq") : k'.error[x] = "ERROR"
    BY <1>1, <1>2, <1>7, <2>2, FlushWakeStep
  <2> HIDE DEF l
  <2> QED
    BY <1>2, <1>3, <2>1, <2>3
<1> QED
  BY <1>2, <1>5, <1>6, <1>7 DEF MqDetach

LEMMA MqCreateStep ==
    ASSUME MqBase, NEW t \in Thread, MqCreate(t)
    PROVE  /\ MqBase' /\ ~alive /\ alive' = TRUE /\ mq' = FreshQueue
           /\ UNCHANGED << k, pc, wild, want, hand >>
<1>1. /\ UNCHANGED << k, pc, wild, want, budget, hand >> /\ ~alive /\ alive' = TRUE
      /\ mq' = FreshQueue
  BY DEF MqCreate, waitVars
<1>2. IpcInv'
  BY <1>1 DEF MqBase, IpcInv, CallsType
<1>3. \A x \in Thread : Blocked("mq", x)' => k'.error[x] = "EOK"
  BY <1>1 DEF MqBase, Blocked
<1> QED
  BY <1>1, <1>2, <1>3 DEF MqBase

LEMMA MqSame ==
    ASSUME MqBase, UNCHANGED << ipcVars, mqVars >>
    PROVE  MqBase'
<1>1. UNCHANGED << k, pc, wild, alive, want, budget >>
  BY DEF ipcVars
<1>2. IpcInv'
  BY <1>1 DEF MqBase, IpcInv, CallsType
<1>3. \A x \in Thread : Blocked("mq", x)' <=> Blocked("mq", x)
  BY <1>1 DEF Blocked
<1> QED
  BY <1>1, <1>2, <1>3 DEF MqBase

(* The steps of the specification.                                         *)
LEMMA MqCases ==
    ASSUME MqNext
    PROVE  \/ \E t \in Thread :
                 \/ MqSendPop(t, "fill") \/ MqSendPop(t, "ufill") \/ MqSendFill(t) \/ MqSendLink(t)
                 \/ \E w \in WaitTime : MqRecv(t, w)
                 \/ MqRecvAgain(t) \/ MqCopy(t) \/ MqGive(t)
                 \/ MqReset(t) \/ MqDetach(t) \/ MqCreate(t)
           \/ MqSendFromIsr
           \/ (ThreadStep \/ Sleep) /\ UNCHANGED mqVars
  BY DEF MqNext, MqCall

LEMMA MqBaseStep ==
    ASSUME MqBase, [MqNext]_<<ipcVars, mqVars>>
    PROVE  MqBase'
<1>1. CASE (ThreadStep \/ Sleep) /\ UNCHANGED mqVars
  BY <1>1, BackgroundStep, MqBaseBackground DEF MqBase
<1>2. ASSUME NEW t \in Thread, MqSendPop(t, "fill") \/ MqSendPop(t, "ufill")
      PROVE  MqBase'
  BY <1>2, MqPopStep
<1> QED
  BY <1>1, <1>2, MqCases, MqFillStep, MqLinkStep, MqRecvStep, MqRecvAgainStep, MqCopyStep,
     MqGiveStep, MqResetStep, MqDetachStep, MqCreateStep, MqIsrStep, MqSame

LEMMA MqInvariant == MqSpec => []MqBase
<1>1. IpcInit /\ MqInit => MqBase
  BY MqBaseInit
<1>2. MqBase /\ [MqNext]_<<ipcVars, mqVars>> => MqBase'
  BY MqBaseStep
<1> QED
  BY <1>1, <1>2, PTL DEF MqSpec

(* The kernel's lists stay exact under every interleaving of the two       *)
(* sections of senders and receivers, time-outs, interrupts, resets and    *)
(* detaches.                                                               *)
THEOREM MqKernelExact ==
    MqSpec => []KernelExact
<1>1. MqBase => KernelExact
  BY IpcInvImplies DEF MqBase
<1> QED
  BY <1>1, MqInvariant, PTL

(* Outside kernel calls the most urgent ready thread runs (a detach, which *)
(* calls no rt_schedule, excepted).                                        *)
THEOREM MqHighestRuns ==
    MqSpec => []HighestRunsIfAsked
<1>1. MqBase => HighestRunsIfAsked
  BY IpcInvImplies DEF MqBase
<1> QED
  BY <1>1, MqInvariant, PTL

-----------------------------------------------------------------------------
(* The cells, when the queue is detached carefully.                        *)

(* A call has a cell in hand from its first section to its second, no two  *)
(* calls have the same, the last cell of the list will be marked so, and a *)
(* cell that is full holds a message.                                      *)
MqHands ==
    /\ hand \in [Thread -> 0..MaxMsgs]
    /\ \A t \in Thread : pc[t] \in Carrying <=> hand[t] # Null
    /\ \A t, u \in Thread : hand[t] = hand[u] /\ hand[t] # Null => t = u
    /\ \A t \in Thread : pc[t] \in {"fill", "ufill"} => t \in Producers
    /\ \A t \in Thread : pc[t] = "link" => mq.next[hand[t]] = Null
    /\ \A t \in Thread : pc[t] \in {"link", "ulink", "copy"} => mq.data[hand[t]] \in Msg

InHand == {c \in Cell : \E t \in Thread : hand[t] = c}

MqCells == MqHands /\ Sound(mq, InHand)

(* What the calls offer and what they have taken, in the terms of module   *)
(* Fifo.                                                                   *)
OfferAt(l, m) == IF l \in {"link", "ulink"} THEN << m, l = "ulink" >> ELSE << None, FALSE >>
TakeAt(l, m) == IF l = "copy" THEN m ELSE None

MqOffers == [t \in Thread |-> OfferAt(pc[t], mq.data[hand[t]])]
MqTakes == [t \in Thread |-> TakeAt(pc[t], mq.data[hand[t]])]

LEMMA HandCell ==
    ASSUME MqHands, NEW t \in Thread, hand[t] # Null
    PROVE  /\ hand[t] \in Cell /\ hand[t] \in InHand
           /\ \A x \in Thread : x # t /\ hand[x] # Null => hand[x] \in InHand \ {hand[t]}
<1>1. \A x \in Thread : hand[x] # Null => hand[x] \in Cell
  BY MqAssumption DEF MqHands, Cell, Null
<1> QED
  BY <1>1 DEF MqHands, InHand

(* The call of t moves on, to step l, with the cell c in hand.             *)
LEMMA HandsOfOne ==
    ASSUME MqBase, MqHands, NEW t \in Thread, NEW l, pc' = [pc EXCEPT ![t] = l],
           NEW c \in 0..MaxMsgs, hand' = [hand EXCEPT ![t] = c],
           l \in Carrying <=> c # Null,
           c # Null => \A x \in Thread : x # t => hand[x] # c,
           l \in {"fill", "ufill"} => t \in Producers,
           l = "link" => mq'.next[c] = Null,
           l \in {"link", "ulink", "copy"} => mq'.data[c] \in Msg,
           \A x \in Thread : x # t /\ hand[x] # Null =>
              mq'.next[hand[x]] = mq.next[hand[x]] /\ mq'.data[hand[x]] = mq.data[hand[x]]
    PROVE  /\ MqHands' /\ InHand' = (InHand \ {hand[t]}) \cup ({c} \cap Cell)
           /\ MqOffers' = [MqOffers EXCEPT ![t] = OfferAt(l, mq'.data[c])]
           /\ MqTakes' = [MqTakes EXCEPT ![t] = TakeAt(l, mq'.data[c])]
           /\ MqOffers[t] = OfferAt(pc[t], mq.data[hand[t]])
           /\ MqTakes[t] = TakeAt(pc[t], mq.data[hand[t]])
<1>1. /\ pc \in [Thread -> Outside \cup Waiting \cup Flushes \cup Carrying]
      /\ hand \in [Thread -> 0..MaxMsgs]
  BY DEF MqBase, IpcInv, CallsType, MqHands
<1>2. /\ pc'[t] = l /\ hand'[t] = c /\ hand' \in [Thread -> 0..MaxMsgs]
      /\ \A x \in Thread : x # t => pc'[x] = pc[x] /\ hand'[x] = hand[x]
  BY <1>1
<1>3. {"link", "ulink", "copy", "fill", "ufill"} \subseteq Carrying
  BY DEF Carrying
<1>4. MqHands'
  <2>1. \A x \in Thread : pc'[x] \in Carrying <=> hand'[x] # Null
    BY <1>2 DEF MqHands
  <2>2. \A x, u \in Thread : hand'[x] = hand'[u] /\ hand'[x] # Null => x = u
    BY <1>2 DEF MqHands
  <2>3. \A x \in Thread : pc'[x] \in {"fill", "ufill"} => x \in Producers
    BY <1>2 DEF MqHands
  <2>4. \A x \in Thread : pc'[x] = "link" => mq'.next[hand'[x]] = Null
    <3>1. ASSUME NEW x \in Thread, x # t, pc'[x] = "link"
          PROVE  mq'.next[hand'[x]] = Null
      <4>1. hand[x] # Null /\ mq.next[hand[x]] = Null /\ hand'[x] = hand[x]
        BY <1>2, <1>3, <3>1 DEF MqHands
      <4> QED
        BY <3>1, <4>1
    <3> QED
      BY <1>2, <3>1
  <2>5. \A x \in Thread : pc'[x] \in {"link", "ulink", "copy"} => mq'.data[hand'[x]] \in Msg
    <3>1. ASSUME NEW x \in Thread, x # t, pc'[x] \in {"link", "ulink", "copy"}
          PROVE  mq'.data[hand'[x]] \in Msg
      <4>1. hand[x] # Null /\ mq.data[hand[x]] \in Msg /\ hand'[x] = hand[x]
        BY <1>2, <1>3, <3>1 DEF MqHands
      <4> QED
        BY <3>1, <4>1
    <3> QED
      BY <1>2, <3>1
  <2> QED
    BY <1>2, <2>1, <2>2, <2>3, <2>4, <2>5 DEF MqHands
<1>5. InHand' = (InHand \ {hand[t]}) \cup ({c} \cap Cell)
  <2>1. ASSUME NEW x \in Cell
        PROVE  (\E u \in Thread : hand'[u] = x) <=> (x # hand[t] /\ \E u \in Thread : hand[u] = x) \/ x = c
    <3>1. x # Null
      BY CellNotNull
    <3>2. ASSUME NEW u \in Thread, hand'[u] = x
          PROVE  (x # hand[t] /\ \E v \in Thread : hand[v] = x) \/ x = c
      BY <1>2, <3>1, <3>2 DEF MqHands
    <3>3. ASSUME x # hand[t], NEW u \in Thread, hand[u] = x
          PROVE  \E v \in Thread : hand'[v] = x
      BY <1>2, <3>3
    <3>4. x = c => \E v \in Thread : hand'[v] = x
      BY <1>2
    <3> QED
      BY <3>2, <3>3, <3>4
  <2> QED
    BY <2>1 DEF InHand
<1>6. /\ \A x \in Thread : MqOffers[x] = OfferAt(pc[x], mq.data[hand[x]])
      /\ \A x \in Thread : MqOffers'[x] = OfferAt(pc'[x], mq'.data[hand'[x]])
      /\ \A x \in Thread : MqTakes[x] = TakeAt(pc[x], mq.data[hand[x]])
      /\ \A x \in Thread : MqTakes'[x] = TakeAt(pc'[x], mq'.data[hand'[x]])
  BY DEF MqOffers, MqTakes
<1>7. ASSUME NEW x \in Thread, x # t
      PROVE  /\ OfferAt(pc'[x], mq'.data[hand'[x]]) = OfferAt(pc[x], mq.data[hand[x]])
             /\ TakeAt(pc'[x], mq'.data[hand'[x]]) = TakeAt(pc[x], mq.data[hand[x]])
  <2>1. pc'[x] = pc[x] /\ hand'[x] = hand[x]
    BY <1>2, <1>7
  <2>2. CASE hand[x] # Null
    BY <1>7, <2>1, <2>2
  <2>3. CASE hand[x] = Null
    <3>1. pc[x] \notin Carrying
      BY <2>3 DEF MqHands
    <3> QED
      BY <1>3, <2>1, <3>1 DEF OfferAt, TakeAt
  <2> QED
    BY <2>2, <2>3
<1>8. /\ MqOffers' = [MqOffers EXCEPT ![t] = OfferAt(l, mq'.data[c])]
      /\ MqTakes' = [MqTakes EXCEPT ![t] = TakeAt(l, mq'.data[c])]
  <2>1. /\ \A x \in Thread : x # t => MqOffers'[x] = MqOffers[x] /\ MqTakes'[x] = MqTakes[x]
        /\ MqOffers'[t] = OfferAt(l, mq'.data[c]) /\ MqTakes'[t] = TakeAt(l, mq'.data[c])
    BY <1>2, <1>6, <1>7
  <2>2. /\ MqOffers = [x \in Thread |-> MqOffers[x]] /\ MqOffers' = [x \in Thread |-> MqOffers'[x]]
        /\ MqTakes = [x \in Thread |-> MqTakes[x]] /\ MqTakes' = [x \in Thread |-> MqTakes'[x]]
    BY DEF MqOffers, MqTakes
  <2> DEFINE o == MqOffers
             p == MqOffers'
             f == MqTakes
             g == MqTakes'
             y == OfferAt(l, mq'.data[c])
             z == TakeAt(l, mq'.data[c])
  <2>3. /\ \A x \in Thread : x # t => p[x] = o[x] /\ g[x] = f[x]
        /\ p[t] = y /\ g[t] = z
        /\ o = [x \in Thread |-> o[x]] /\ p = [x \in Thread |-> p[x]]
        /\ f = [x \in Thread |-> f[x]] /\ g = [x \in Thread |-> g[x]]
    BY <2>1, <2>2
  <2> HIDE DEF o, p, f, g, y, z
  <2>4. p = [o EXCEPT ![t] = y] /\ g = [f EXCEPT ![t] = z]
    BY <2>3
  <2> QED
    BY <2>4 DEF o, p, f, g, y, z
<1> QED
  BY <1>4, <1>5, <1>6, <1>8

(* The call of t ends, or goes on without a cell.                          *)
LEMMA HandDown ==
    ASSUME MqBase, MqHands, NEW t \in Thread, NEW l, l \notin Carrying,
           pc' = [pc EXCEPT ![t] = l], hand' = [hand EXCEPT ![t] = Null],
           \A x \in Thread : x # t /\ hand[x] # Null =>
              mq'.next[hand[x]] = mq.next[hand[x]] /\ mq'.data[hand[x]] = mq.data[hand[x]]
    PROVE  /\ MqHands' /\ InHand' = InHand \ {hand[t]}
           /\ MqOffers' = [MqOffers EXCEPT ![t] = << None, FALSE >>]
           /\ MqTakes' = [MqTakes EXCEPT ![t] = None]
           /\ MqOffers[t] = OfferAt(pc[t], mq.data[hand[t]])
           /\ MqTakes[t] = TakeAt(pc[t], mq.data[hand[t]])
<1> DEFINE n == Null
<1>1. l \notin {"link", "ulink", "copy", "fill", "ufill"}
  BY DEF Carrying
<1>2. n \in 0..MaxMsgs /\ hand' = [hand EXCEPT ![t] = n] /\ n \notin Cell
  BY CellNotNull, MqAssumption DEF Null
<1>3. l \in Carrying <=> n # Null
  OBVIOUS
<1>4. n # Null => \A x \in Thread : x # t => hand[x] # n
  OBVIOUS
<1>5. /\ l \in {"fill", "ufill"} => t \in Producers
      /\ l = "link" => mq'.next[n] = Null
      /\ l \in {"link", "ulink", "copy"} => mq'.data[n] \in Msg
  BY <1>1
<1> HIDE DEF n
<1>6. /\ MqHands' /\ InHand' = (InHand \ {hand[t]}) \cup ({n} \cap Cell)
      /\ MqOffers' = [MqOffers EXCEPT ![t] = OfferAt(l, mq'.data[n])]
      /\ MqTakes' = [MqTakes EXCEPT ![t] = TakeAt(l, mq'.data[n])]
      /\ MqOffers[t] = OfferAt(pc[t], mq.data[hand[t]])
      /\ MqTakes[t] = TakeAt(pc[t], mq.data[hand[t]])
  BY <1>2, <1>3, <1>4, <1>5, HandsOfOne
<1>7. OfferAt(l, mq'.data[n]) = << None, FALSE >> /\ TakeAt(l, mq'.data[n]) = None
  BY <1>1 DEF OfferAt, TakeAt
<1>8. InHand' = InHand \ {hand[t]}
  BY <1>2, <1>6
<1> QED
  BY <1>6, <1>7, <1>8

(* Nobody takes a step inside a call.                                      *)
LEMMA HandsStay ==
    ASSUME MqHands, hand' = hand,
           \A x \in Thread : pc'[x] = pc[x] \/ (pc[x] \notin Carrying /\ pc'[x] \notin Carrying),
           \A x \in Thread : hand[x] # Null =>
              mq'.next[hand[x]] = mq.next[hand[x]] /\ mq'.data[hand[x]] = mq.data[hand[x]]
    PROVE  MqHands' /\ InHand' = InHand /\ MqOffers' = MqOffers /\ MqTakes' = MqTakes
<1>1. {"link", "ulink", "copy", "fill", "ufill"} \subseteq Carrying
  BY DEF Carrying
<1>2. \A x \in Thread : pc'[x] \in Carrying => pc'[x] = pc[x] /\ hand[x] # Null
  BY DEF MqHands
<1>3. MqHands'
  <2>1. \A x \in Thread : pc'[x] \in Carrying <=> hand'[x] # Null
    BY DEF MqHands
  <2>2. \A x \in Thread : pc'[x] \in {"fill", "ufill"} => x \in Producers
    BY <1>1, <1>2 DEF MqHands
  <2>3. \A x \in Thread : pc'[x] = "link" => mq'.next[hand'[x]] = Null
    BY <1>1, <1>2 DEF MqHands
  <2>4. \A x \in Thread : pc'[x] \in {"link", "ulink", "copy"} => mq'.data[hand'[x]] \in Msg
    BY <1>1, <1>2 DEF MqHands
  <2> QED
    BY <2>1, <2>2, <2>3, <2>4 DEF MqHands
<1>4. ASSUME NEW x \in Thread
      PROVE  /\ OfferAt(pc'[x], mq'.data[hand'[x]]) = OfferAt(pc[x], mq.data[hand[x]])
             /\ TakeAt(pc'[x], mq'.data[hand'[x]]) = TakeAt(pc[x], mq.data[hand[x]])
  <2>1. CASE hand[x] # Null
    <3>1. pc[x] \in Carrying
      BY <2>1 DEF MqHands
    <3> QED
      BY <2>1, <3>1
  <2>2. CASE hand[x] = Null
    <3>1. pc[x] \notin Carrying /\ pc'[x] \notin Carrying
      BY <2>2 DEF MqHands
    <3> QED
      BY <1>1, <3>1 DEF OfferAt, TakeAt
  <2> QED
    BY <2>1, <2>2
<1>5. MqOffers' = MqOffers /\ MqTakes' = MqTakes
  BY <1>4 DEF MqOffers, MqTakes
<1>6. InHand' = InHand
  BY DEF InHand
<1> QED
  BY <1>3, <1>5, <1>6

-----------------------------------------------------------------------------
(* The message queue implements the queue of module Fifo.                  *)

MqFifos == << Contents(mq), MqOffers, MqTakes >>

MqFifoPut(t) ==
    /\ MqOffers[t] # << None, FALSE >> /\ Len(Contents(mq)) < MaxMsgs
    /\ Contents(mq)' = IF MqOffers[t][2] THEN << MqOffers[t][1] >> \o Contents(mq)
                                         ELSE Append(Contents(mq), MqOffers[t][1])
    /\ MqOffers' = [MqOffers EXCEPT ![t] = << None, FALSE >>] /\ MqTakes' = MqTakes

MqFifoFromIsr(urgent) ==
    /\ Len(Contents(mq)) < MaxMsgs
    /\ Contents(mq)' = IF urgent THEN << IsrMsg >> \o Contents(mq)
                                 ELSE Append(Contents(mq), IsrMsg)
    /\ MqOffers' = MqOffers /\ MqTakes' = MqTakes

MqFifoOffer(t, urgent) ==
    /\ MqOffers[t] = << None, FALSE >>
    /\ MqOffers' = [MqOffers EXCEPT ![t] = << MsgFrom[t], urgent >>]
    /\ Contents(mq)' = Contents(mq) /\ MqTakes' = MqTakes

MqFifoTake(t) ==
    /\ Contents(mq) # << >> /\ MqTakes[t] = None /\ Head(Contents(mq)) # None
    /\ MqTakes' = [MqTakes EXCEPT ![t] = Head(Contents(mq))]
    /\ Contents(mq)' = Tail(Contents(mq)) /\ MqOffers' = MqOffers

MqFifoHandOver(t) ==
    /\ MqTakes[t] # None /\ MqTakes' = [MqTakes EXCEPT ![t] = None]
    /\ Contents(mq)' = Contents(mq) /\ MqOffers' = MqOffers

MqThrows == \E t \in Thread : MqReset(t) \/ MqCreate(t)

MqFifoClear ==
    /\ Contents(mq) # << >> /\ Contents(mq)' = << >>
    /\ MqOffers' = MqOffers /\ MqTakes' = MqTakes /\ MqThrows

MqFifoStep ==
    \/ \E t \in Thread : MqFifoPut(t) \/ MqFifoTake(t) \/ MqFifoHandOver(t)
    \/ \E u \in BOOLEAN : MqFifoFromIsr(u) \/ \E t \in Producers : MqFifoOffer(t, u)
    \/ MqFifoClear
    \/ UNCHANGED MqFifos

LEMMA MqFifoSteps ==
    ASSUME MqFifoStep
    PROVE  [MqFifo!Next]_MqFifo!fifoVars
<1> DEFINE C == LET messages == Chain(mq, mq.head)
                IN  [i \in DOMAIN messages |-> mq.data[messages[i]]]
           O == [t \in Thread |->
                   IF pc[t] \in {"link", "ulink"}
                   THEN << mq.data[hand[t]], pc[t] = "ulink" >> ELSE << None, FALSE >>]
           T == [t \in Thread |-> IF pc[t] = "copy" THEN mq.data[hand[t]] ELSE None]
<1>0. /\ C = Contents(mq) /\ O = MqOffers /\ T = MqTakes
      /\ C' = Contents(mq)' /\ O' = MqOffers' /\ T' = MqTakes'
  BY DEF Contents, MqOffers, MqTakes, OfferAt, TakeAt
<1> HIDE DEF C, O, T
<1>1. ASSUME NEW t \in Thread, MqFifoPut(t)
      PROVE  MqFifo!Put(t)
  <2>1. /\ O[t] # << None, FALSE >> /\ Len(C) < MaxMsgs
        /\ C' = IF O[t][2] THEN << O[t][1] >> \o C ELSE Append(C, O[t][1])
        /\ O' = [O EXCEPT ![t] = << None, FALSE >>] /\ T' = T
    BY <1>0, <1>1 DEF MqFifoPut
  <2> QED
    BY <2>1 DEF C, O, T, MqFifo!Put, MqFifo!PutIn, MqFifo!NoOffer
<1>2. ASSUME NEW t \in Thread, MqFifoTake(t)
      PROVE  MqFifo!Take(t)
  <2>1. /\ C # << >> /\ T[t] = None /\ T' = [T EXCEPT ![t] = Head(C)]
        /\ C' = Tail(C) /\ O' = O
    BY <1>0, <1>2 DEF MqFifoTake
  <2> QED
    BY <2>1 DEF C, O, T, MqFifo!Take
<1>3. ASSUME NEW t \in Thread, MqFifoHandOver(t)
      PROVE  MqFifo!HandOver(t)
  <2>1. T[t] # None /\ T' = [T EXCEPT ![t] = None] /\ UNCHANGED << C, O >>
    BY <1>0, <1>3 DEF MqFifoHandOver
  <2> QED
    BY <2>1 DEF C, O, T, MqFifo!HandOver
<1>4. ASSUME NEW u \in BOOLEAN, MqFifoFromIsr(u)
      PROVE  MqFifo!SendFromIsr(u)
  <2>1. /\ Len(C) < MaxMsgs /\ UNCHANGED << O, T >>
        /\ C' = IF u THEN << IsrMsg >> \o C ELSE Append(C, IsrMsg)
    BY <1>0, <1>4 DEF MqFifoFromIsr
  <2> QED
    BY <2>1 DEF C, O, T, MqFifo!SendFromIsr, MqFifo!PutIn
<1>5. ASSUME NEW t \in Producers, NEW u \in BOOLEAN, MqFifoOffer(t, u)
      PROVE  MqFifo!Offer(t, u)
  <2>1. /\ O[t] = << None, FALSE >> /\ O' = [O EXCEPT ![t] = << MsgFrom[t], u >>]
        /\ C' = C /\ T' = T
    BY <1>0, <1>5 DEF MqFifoOffer
  <2> QED
    BY <2>1 DEF C, O, T, MqFifo!Offer, MqFifo!NoOffer
<1>6. ASSUME MqFifoClear
      PROVE  MqFifo!Clear
  <2>1. C # << >> /\ C' = << >> /\ O' = O /\ T' = T
    BY <1>0, <1>6 DEF MqFifoClear
  <2> QED
    BY <2>1 DEF C, O, T, MqFifo!Clear, MqFifo!TurnDown
<1>7. ASSUME UNCHANGED MqFifos
      PROVE  UNCHANGED MqFifo!fifoVars
  <2>1. C' = C /\ O' = O /\ T' = T
    BY <1>0, <1>7 DEF MqFifos
  <2> QED
    BY <2>1 DEF C, O, T, MqFifo!fifoVars
<1> QED
  BY <1>1, <1>2, <1>3, <1>4, <1>5, <1>6, <1>7 DEF MqFifoStep, MqFifo!Next

(* The messages are thrown away by a reset or a new queue only.            *)
LEMMA MqFifoThrows ==
    ASSUME MqFifoStep, MqCells, MqFifo!Clear
    PROVE  MqThrows
<1>1. Contents(mq) # << >> /\ Contents(mq)' = << >> /\ MqOffers' = MqOffers /\ MqTakes' = MqTakes
  BY DEF MqFifo!Clear, MqFifo!TurnDown, Contents, MqOffers, MqTakes, OfferAt, TakeAt
<1>2. Contents(mq) \in Seq(Msg)
  BY SoundFacts DEF MqCells
<1>3. ASSUME NEW m PROVE Contents(mq)' # Append(Contents(mq), m) /\ Contents(mq)' # << m >> \o Contents(mq)
  <2>1. Len(Append(Contents(mq), m)) = Len(Contents(mq)) + 1
    BY <1>2
  <2>2. Len(<< m >> \o Contents(mq)) = 1 + Len(Contents(mq))
    BY <1>2
  <2>3. Len(Contents(mq)) \in Nat /\ Len(Contents(mq)') = 0
    BY <1>1, <1>2
  <2> QED
    BY <2>1, <2>2, <2>3
<1>4. ASSUME NEW t \in Thread PROVE ~MqFifoTake(t) /\ ~MqFifoPut(t)
  BY <1>1, <1>3 DEF MqFifoTake, MqTakes, MqFifoPut
<1>5. Contents(mq)' # Contents(mq)
  BY <1>1
<1> QED
  BY <1>1, <1>3, <1>4, <1>5 DEF MqFifoStep, MqFifoHandOver, MqFifoFromIsr, MqFifoOffer, MqFifoClear, MqFifos

(* The first section of a send: the cell of t is not yet an offer.         *)
LEMMA PopCells ==
    ASSUME MqBase, MqCells, NEW t \in Thread, t \in Producers, pc[t] = "run", mq.free # Null,
           NEW l \in {"fill", "ufill"}, pc' = [pc EXCEPT ![t] = l],
           mq' = PopFree(mq), hand' = [hand EXCEPT ![t] = mq.free]
    PROVE  MqCells' /\ MqFifoStep /\ mq'.entry = mq.entry
<1> DEFINE c == mq.free
<1>1. /\ c \in Cell \ InHand /\ Sound(mq', InHand \cup {c}) /\ mq'.next = mq.next
      /\ mq'.data = mq.data /\ Contents(mq') = Contents(mq) /\ mq'.entry = mq.entry
  BY SoundPop DEF MqCells
<1>2. MqHands /\ hand[t] = Null /\ "run" \notin Carrying /\ l \in Carrying /\ l \notin {"link", "ulink", "copy"}
  BY DEF MqCells, MqHands, Carrying
<1>3. c \in 0..MaxMsgs /\ c # Null /\ hand' = [hand EXCEPT ![t] = c]
      /\ \A x \in Thread : x # t => hand[x] # c
  BY <1>1, CellNotNull DEF InHand
<1> HIDE DEF c
<1>4. /\ MqHands' /\ InHand' = (InHand \ {hand[t]}) \cup ({c} \cap Cell)
      /\ MqOffers' = [MqOffers EXCEPT ![t] = OfferAt(l, mq'.data[c])]
      /\ MqTakes' = [MqTakes EXCEPT ![t] = TakeAt(l, mq'.data[c])]
      /\ MqOffers[t] = OfferAt(pc[t], mq.data[hand[t]])
      /\ MqTakes[t] = TakeAt(pc[t], mq.data[hand[t]])
  BY <1>1, <1>2, <1>3, HandsOfOne
<1>5. InHand' = InHand \cup {c}
  BY <1>1, <1>2, <1>4, CellNotNull DEF InHand
<1>6. MqOffers' = MqOffers /\ MqTakes' = MqTakes
  <2>1. /\ OfferAt(l, mq'.data[c]) = << None, FALSE >> /\ TakeAt(l, mq'.data[c]) = None
        /\ MqOffers[t] = << None, FALSE >> /\ MqTakes[t] = None
    BY <1>2, <1>4 DEF OfferAt, TakeAt
  <2>2. MqOffers = [x \in Thread |-> MqOffers[x]] /\ MqTakes = [x \in Thread |-> MqTakes[x]]
    BY DEF MqOffers, MqTakes
  <2> QED
    BY <1>4, <2>1, <2>2
<1>7. MqFifoStep
  BY <1>1, <1>6 DEF MqFifoStep, MqFifos
<1> QED
  BY <1>1, <1>4, <1>5, <1>7 DEF MqCells

(* The copy of the message into the cell offers it.                        *)
LEMMA FillCells ==
    ASSUME MqBase, MqCells, NEW t \in Thread, hand' = hand,
           \/ /\ pc[t] = "fill" /\ pc' = [pc EXCEPT ![t] = "link"]
              /\ mq' = Fill(mq, hand[t], MsgFrom[t])
           \/ /\ pc[t] = "ufill" /\ pc' = [pc EXCEPT ![t] = "ulink"]
              /\ mq' = FillUrgent(mq, hand[t], MsgFrom[t])
    PROVE  MqCells' /\ MqFifoStep /\ mq'.entry = mq.entry
<1> DEFINE c == hand[t]
           m == MsgFrom[t]
           l == pc'[t]
<1>1. /\ MqHands /\ Sound(mq, InHand) /\ pc[t] \in {"fill", "ufill"} /\ pc[t] \in Carrying
      /\ pc \in [Thread -> Outside \cup Waiting \cup Flushes \cup Carrying]
  BY DEF MqCells, Carrying, MqBase, IpcInv, CallsType
<1>2. c # Null /\ t \in Producers /\ m \in Msg /\ c \in 0..MaxMsgs
  BY <1>1, IpcAssumption DEF MqHands
<1>3. /\ c \in Cell /\ c \in InHand
      /\ \A x \in Thread : x # t /\ hand[x] # Null => hand[x] \in InHand \ {c}
  BY <1>1, <1>2, HandCell
<1>4. /\ l \in {"link", "ulink"} /\ pc' = [pc EXCEPT ![t] = l] /\ l \in Carrying
      /\ hand' = [hand EXCEPT ![t] = c]
  BY <1>1 DEF Carrying, MqHands
<1>5. /\ Sound(mq', InHand) /\ mq'.data[c] = m /\ (l = "link" => mq'.next[c] = Null)
      /\ \A x \in Cell \ {c} : mq'.next[x] = mq.next[x] /\ mq'.data[x] = mq.data[x]
      /\ Contents(mq') = Contents(mq) /\ mq'.entry = mq.entry
  <2>1. CASE /\ pc' = [pc EXCEPT ![t] = "link"] /\ mq' = Fill(mq, hand[t], MsgFrom[t])
    BY <1>1, <1>2, <1>3, <2>1, SoundFill
  <2>2. CASE pc' = [pc EXCEPT ![t] = "ulink"] /\ mq' = FillUrgent(mq, hand[t], MsgFrom[t])
    <3>1. l = "ulink"
      BY <1>1, <2>2
    <3> QED
      BY <1>1, <1>2, <1>3, <2>2, <3>1, SoundFillUrgent
  <2> QED
    BY <2>1, <2>2
<1> HIDE DEF c, m, l
<1>6. \A x \in Thread : x # t => hand[x] # c
  BY <1>2, <1>3 DEF c
<1>7. \A x \in Thread : x # t /\ hand[x] # Null =>
         mq'.next[hand[x]] = mq.next[hand[x]] /\ mq'.data[hand[x]] = mq.data[hand[x]]
  BY <1>3, <1>5 DEF InHand
<1>8. /\ MqHands' /\ InHand' = (InHand \ {hand[t]}) \cup ({c} \cap Cell)
      /\ MqOffers' = [MqOffers EXCEPT ![t] = OfferAt(l, mq'.data[c])]
      /\ MqTakes' = [MqTakes EXCEPT ![t] = TakeAt(l, mq'.data[c])]
      /\ MqOffers[t] = OfferAt(pc[t], mq.data[hand[t]])
      /\ MqTakes[t] = TakeAt(pc[t], mq.data[hand[t]])
  BY <1>1, <1>2, <1>4, <1>5, <1>6, <1>7, HandsOfOne
<1>9. InHand' = InHand
  BY <1>3, <1>8 DEF c
<1>10. MqOffers' = [MqOffers EXCEPT ![t] = << MsgFrom[t], l = "ulink" >>] /\ MqOffers[t] = << None, FALSE >>
       /\ (l = "ulink") \in BOOLEAN
  BY <1>1, <1>4, <1>5, <1>8 DEF OfferAt, m
<1>11. MqTakes' = MqTakes
  <2>1. TakeAt(l, mq'.data[c]) = None /\ MqTakes[t] = None
    BY <1>1, <1>4, <1>8 DEF TakeAt
  <2>2. MqTakes = [x \in Thread |-> MqTakes[x]]
    BY DEF MqTakes
  <2> QED
    BY <1>8, <2>1, <2>2
<1>12. MqFifoOffer(t, l = "ulink")
  BY <1>5, <1>10, <1>11 DEF MqFifoOffer
<1>13. MqFifoStep
  BY <1>2, <1>10, <1>12 DEF MqFifoStep
<1> QED
  BY <1>5, <1>8, <1>9, <1>13 DEF MqCells

(* The second section of a send puts the offer in.                         *)
LEMMA LinkCells ==
    ASSUME MqBase, MqCells, NEW t \in Thread, NEW l \in {"run", "sched"},
           pc' = [pc EXCEPT ![t] = l], hand' = [hand EXCEPT ![t] = Null],
           \/ pc[t] = "link" /\ mq' = LinkTail(mq, hand[t])
           \/ pc[t] = "ulink" /\ mq' = LinkHead(mq, hand[t])
    PROVE  MqCells' /\ MqFifoStep /\ mq'.entry = mq.entry + 1
<1> DEFINE c == hand[t]
           m == mq.data[c]
<1>1. /\ MqHands /\ Sound(mq, InHand) /\ pc[t] \in {"link", "ulink"} /\ pc[t] \in Carrying
      /\ l \notin Carrying /\ l \notin {"link", "ulink", "copy", "fill", "ufill"}
  BY DEF MqCells, Carrying
<1>2. pc[t] = "link" => mq.next[c] = Null
  BY <1>1 DEF MqHands
<1>2a. c # Null /\ m \in Msg
  BY <1>1 DEF MqHands
<1>3. /\ c \in Cell /\ c \in InHand
      /\ \A x \in Thread : x # t /\ hand[x] # Null => hand[x] \in InHand \ {c}
  BY <1>1, <1>2a, HandCell
<1>4. /\ Sound(mq', InHand \ {c}) /\ mq'.data = mq.data
      /\ \A x \in InHand \ {c} : mq'.next[x] = mq.next[x]
      /\ Contents(mq') = IF pc[t] = "ulink" THEN << m >> \o Contents(mq) ELSE Append(Contents(mq), m)
      /\ mq'.entry = mq.entry + 1 /\ Len(Contents(mq)) < MaxMsgs
  <2> DEFINE H == InHand
  <2>0. Sound(mq, H) /\ c \in H /\ mq.data[c] \in Msg
    BY <1>1, <1>2a, <1>3
  <2>1. CASE pc[t] = "link" /\ mq' = LinkTail(mq, hand[t])
    <3>1. mq.next[c] = Null /\ mq' = LinkTail(mq, c)
      BY <1>2, <2>1
    <3> HIDE DEF H, c, m
    <3>2. /\ Sound(LinkTail(mq, c), H \ {c}) /\ LinkTail(mq, c).data = mq.data
          /\ \A x \in H \ {c} : LinkTail(mq, c).next[x] = mq.next[x]
          /\ Contents(LinkTail(mq, c)) = Append(Contents(mq), mq.data[c])
          /\ LinkTail(mq, c).entry = mq.entry + 1 /\ Len(Contents(mq)) < MaxMsgs
      BY <2>0, <3>1, SoundLinkTail
    <3> QED
      BY <2>1, <3>1, <3>2 DEF H, m
  <2>2. CASE pc[t] = "ulink" /\ mq' = LinkHead(mq, hand[t])
    <3>1. mq' = LinkHead(mq, c)
      BY <2>2
    <3> HIDE DEF H, c, m
    <3>2. /\ Sound(LinkHead(mq, c), H \ {c}) /\ LinkHead(mq, c).data = mq.data
          /\ \A x \in H \ {c} : LinkHead(mq, c).next[x] = mq.next[x]
          /\ Contents(LinkHead(mq, c)) = << mq.data[c] >> \o Contents(mq)
          /\ LinkHead(mq, c).entry = mq.entry + 1 /\ Len(Contents(mq)) < MaxMsgs
      BY <2>0, SoundLinkHead
    <3> QED
      BY <2>2, <3>1, <3>2 DEF H, m
  <2> QED
    BY <2>1, <2>2
<1>5. \A x \in Thread : x # t /\ hand[x] # Null =>
         mq'.next[hand[x]] = mq.next[hand[x]] /\ mq'.data[hand[x]] = mq.data[hand[x]]
  BY <1>3, <1>4
<1>6. /\ MqHands' /\ InHand' = InHand \ {hand[t]}
      /\ MqOffers' = [MqOffers EXCEPT ![t] = << None, FALSE >>]
      /\ MqTakes' = [MqTakes EXCEPT ![t] = None]
      /\ MqOffers[t] = OfferAt(pc[t], mq.data[hand[t]])
      /\ MqTakes[t] = TakeAt(pc[t], mq.data[hand[t]])
  BY <1>1, <1>5, HandDown
<1> HIDE DEF c, m
<1>7. MqTakes' = MqTakes
  <2>1. MqTakes[t] = None
    BY <1>1, <1>6 DEF TakeAt
  <2>2. MqTakes = [x \in Thread |-> MqTakes[x]]
    BY DEF MqTakes
  <2> QED
    BY <1>6, <2>1, <2>2
<1>8. MqFifoPut(t)
  <2>1. m # None
    BY <1>2a, IpcAssumption
  <2>2. CASE pc[t] = "ulink"
    <3>1. MqOffers[t] = << m, TRUE >>
      BY <1>6, <2>2 DEF OfferAt, m, c
    <3>2. MqOffers[t][1] = m /\ MqOffers[t][2] /\ MqOffers[t] # << None, FALSE >>
      BY <2>1, <3>1
    <3>3. Contents(mq)' = << m >> \o Contents(mq)
      BY <1>4, <2>2
    <3> QED
      BY <1>4, <1>6, <1>7, <3>2, <3>3 DEF MqFifoPut
  <2>3. CASE pc[t] = "link"
    <3>1. MqOffers[t] = << m, FALSE >>
      BY <1>6, <2>3 DEF OfferAt, m, c
    <3>2. MqOffers[t][1] = m /\ ~MqOffers[t][2] /\ MqOffers[t] # << None, FALSE >>
      BY <2>1, <3>1
    <3>3. Contents(mq)' = Append(Contents(mq), m)
      BY <1>4, <2>3
    <3> QED
      BY <1>4, <1>6, <1>7, <3>2, <3>3 DEF MqFifoPut
  <2> QED
    BY <1>1, <2>2, <2>3
<1>9. MqFifoStep
  BY <1>8 DEF MqFifoStep
<1>10. Sound(mq', InHand')
  BY <1>4, <1>6 DEF c
<1> QED
  BY <1>4, <1>6, <1>9, <1>10 DEF MqCells

(* A receiver takes the first message, in its cell.                        *)
LEMMA UnlinkCells ==
    ASSUME MqBase, MqCells, NEW t \in Thread, pc[t] \notin Carrying, mq.entry > 0,
           pc' = [pc EXCEPT ![t] = "copy"],
           mq' = UnlinkHead(mq), hand' = [hand EXCEPT ![t] = mq.head]
    PROVE  MqCells' /\ MqFifoStep /\ mq'.entry = mq.entry - 1
<1> DEFINE c == mq.head
           l == "copy"
           H == InHand
           G == InHand \cup {c}
<1>1. MqHands /\ Sound(mq, H) /\ hand[t] = Null /\ l \in Carrying
  BY DEF MqCells, MqHands, Carrying
<1>2. /\ c \in Cell \ H /\ mq.data[c] \in Msg
      /\ Sound(mq', G) /\ mq'.next = mq.next /\ mq'.data = mq.data
      /\ Contents(mq) # << >> /\ Contents(mq') = Tail(Contents(mq))
      /\ Head(Contents(mq)) = mq.data[c] /\ mq'.entry = mq.entry - 1
  BY <1>1, SoundUnlink
<1>3. c \in 0..MaxMsgs /\ c # Null /\ hand' = [hand EXCEPT ![t] = c]
      /\ pc' = [pc EXCEPT ![t] = l] /\ \A x \in Thread : x # t => hand[x] # c
  BY <1>2, CellNotNull DEF InHand
<1>4. /\ l \in Carrying <=> c # Null
      /\ l \in {"fill", "ufill"} => t \in Producers
      /\ l = "link" => mq'.next[c] = Null
      /\ l \in {"link", "ulink", "copy"} => mq'.data[c] \in Msg
  BY <1>1, <1>2, <1>3
<1>5. \A x \in Thread : x # t /\ hand[x] # Null =>
         mq'.next[hand[x]] = mq.next[hand[x]] /\ mq'.data[hand[x]] = mq.data[hand[x]]
  BY <1>2
<1>6. l = "copy"
  OBVIOUS
<1> HIDE DEF c, l
<1>7. /\ MqHands' /\ InHand' = (InHand \ {hand[t]}) \cup ({c} \cap Cell)
      /\ MqOffers' = [MqOffers EXCEPT ![t] = OfferAt(l, mq'.data[c])]
      /\ MqTakes' = [MqTakes EXCEPT ![t] = TakeAt(l, mq'.data[c])]
      /\ MqOffers[t] = OfferAt(pc[t], mq.data[hand[t]])
      /\ MqTakes[t] = TakeAt(pc[t], mq.data[hand[t]])
  BY <1>1, <1>3, <1>4, <1>5, HandsOfOne
<1>8. InHand' = G
  BY <1>1, <1>2, <1>7, CellNotNull DEF InHand
<1>9. MqOffers' = MqOffers
  <2>1. OfferAt(l, mq'.data[c]) = << None, FALSE >> /\ MqOffers[t] = << None, FALSE >>
    BY <1>6, <1>7 DEF OfferAt, Carrying
  <2>2. MqOffers = [x \in Thread |-> MqOffers[x]]
    BY DEF MqOffers
  <2> QED
    BY <1>7, <2>1, <2>2
<1>10. MqTakes[t] = None /\ MqTakes' = [MqTakes EXCEPT ![t] = Head(Contents(mq))]
  <2>1. TakeAt(l, mq'.data[c]) = mq.data[c]
    BY <1>2, <1>6 DEF TakeAt
  <2>2. MqTakes[t] = None
    BY <1>7 DEF TakeAt, Carrying
  <2> QED
    BY <1>2, <1>7, <2>1, <2>2
<1>11. MqFifoTake(t)
  BY <1>2, <1>9, <1>10, IpcAssumption DEF MqFifoTake
<1>12. MqFifoStep
  BY <1>11 DEF MqFifoStep
<1> QED
  BY <1>2, <1>7, <1>8, <1>12 DEF MqCells

(* The receiver has copied the message.                                    *)
LEMMA CopyCells ==
    ASSUME MqBase, MqCells, NEW t \in Thread, pc[t] = "copy",
           pc' = [pc EXCEPT ![t] = "give"], UNCHANGED << mq, hand >>
    PROVE  MqCells' /\ MqFifoStep /\ mq'.entry = mq.entry
<1> DEFINE c == hand[t]
           l == "give"
<1>1. /\ MqHands /\ l \in Carrying /\ pc[t] \in Carrying /\ hand \in [Thread -> 0..MaxMsgs]
  BY DEF MqCells, MqHands, Carrying
<1>2. c # Null /\ c \in 0..MaxMsgs /\ hand' = [hand EXCEPT ![t] = c] /\ pc' = [pc EXCEPT ![t] = l]
  BY <1>1 DEF MqHands
<1>3. c \in Cell /\ c \in InHand /\ \A x \in Thread : x # t => hand[x] # c
  BY <1>1, <1>2, HandCell
<1>4. /\ l \in Carrying <=> c # Null
      /\ l \in {"fill", "ufill"} => t \in Producers
      /\ l = "link" => mq'.next[c] = Null
      /\ l \in {"link", "ulink", "copy"} => mq'.data[c] \in Msg
  BY <1>1, <1>2
<1>5. \A x \in Thread : x # t /\ hand[x] # Null =>
         mq'.next[hand[x]] = mq.next[hand[x]] /\ mq'.data[hand[x]] = mq.data[hand[x]]
  OBVIOUS
<1>6. l = "give" /\ c = hand[t]
  OBVIOUS
<1> HIDE DEF c, l
<1>7. /\ MqHands' /\ InHand' = (InHand \ {hand[t]}) \cup ({c} \cap Cell)
      /\ MqOffers' = [MqOffers EXCEPT ![t] = OfferAt(l, mq'.data[c])]
      /\ MqTakes' = [MqTakes EXCEPT ![t] = TakeAt(l, mq'.data[c])]
      /\ MqOffers[t] = OfferAt(pc[t], mq.data[hand[t]])
      /\ MqTakes[t] = TakeAt(pc[t], mq.data[hand[t]])
  BY <1>1, <1>2, <1>3, <1>4, <1>5, HandsOfOne
<1>8. InHand' = InHand
  BY <1>3, <1>6, <1>7
<1>9. MqOffers' = MqOffers
  <2>1. OfferAt(l, mq'.data[c]) = << None, FALSE >> /\ MqOffers[t] = << None, FALSE >>
    BY <1>6, <1>7 DEF OfferAt
  <2>2. MqOffers = [x \in Thread |-> MqOffers[x]]
    BY DEF MqOffers
  <2> QED
    BY <1>7, <2>1, <2>2
<1>10. MqTakes[t] # None /\ MqTakes' = [MqTakes EXCEPT ![t] = None]
  <2>1. mq.data[hand[t]] \in Msg /\ None \notin Msg
    BY <1>1, IpcAssumption DEF MqHands
  <2> QED
    BY <1>6, <1>7, <2>1 DEF TakeAt
<1>11. MqFifoHandOver(t)
  BY <1>9, <1>10 DEF MqFifoHandOver
<1>12. MqFifoStep
  BY <1>11 DEF MqFifoStep
<1> QED
  BY <1>7, <1>8, <1>12 DEF MqCells

(* The cell goes back to the free list.                                    *)
LEMMA GiveCells ==
    ASSUME MqBase, MqCells, NEW t \in Thread, pc[t] = "give",
           pc' = [pc EXCEPT ![t] = "run"],
           mq' = PushFree(mq, hand[t]), hand' = [hand EXCEPT ![t] = Null]
    PROVE  MqCells' /\ MqFifoStep /\ mq'.entry = mq.entry
<1> DEFINE c == hand[t]
           l == "run"
           H == InHand
<1>1. /\ MqHands /\ Sound(mq, H) /\ l \notin Carrying /\ pc[t] \in Carrying
      /\ pc' = [pc EXCEPT ![t] = l]
  BY DEF MqCells, Carrying
<1>2. c # Null
  BY <1>1 DEF MqHands
<1>3. /\ c \in Cell /\ c \in H
      /\ \A x \in Thread : x # t /\ hand[x] # Null => hand[x] \in H \ {c}
  BY <1>1, <1>2, HandCell
<1>4. H \subseteq Cell
  BY DEF InHand
<1>5. /\ Sound(mq', H \ {c})
      /\ \A x \in Cell \ {c} : mq'.next[x] = mq.next[x] /\ mq'.data[x] = mq.data[x]
      /\ Contents(mq') = Contents(mq) /\ mq'.entry = mq.entry
  <2>0. mq' = PushFree(mq, c)
    OBVIOUS
  <2> HIDE DEF c, H
  <2>1. /\ Sound(PushFree(mq, c), H \ {c})
        /\ \A x \in Cell \ {c} : /\ PushFree(mq, c).next[x] = mq.next[x]
                                 /\ PushFree(mq, c).data[x] = mq.data[x]
        /\ Contents(PushFree(mq, c)) = Contents(mq) /\ PushFree(mq, c).entry = mq.entry
    BY <1>1, <1>3, SoundPush
  <2> QED
    BY <2>0, <2>1
<1>6. \A x \in Thread : x # t /\ hand[x] # Null =>
         mq'.next[hand[x]] = mq.next[hand[x]] /\ mq'.data[hand[x]] = mq.data[hand[x]]
  BY <1>3, <1>4, <1>5
<1> HIDE DEF l
<1>7. /\ MqHands' /\ InHand' = InHand \ {hand[t]}
      /\ MqOffers' = [MqOffers EXCEPT ![t] = << None, FALSE >>]
      /\ MqTakes' = [MqTakes EXCEPT ![t] = None]
      /\ MqOffers[t] = OfferAt(pc[t], mq.data[hand[t]])
      /\ MqTakes[t] = TakeAt(pc[t], mq.data[hand[t]])
  BY <1>1, <1>6, HandDown
<1>8. MqOffers' = MqOffers /\ MqTakes' = MqTakes
  <2>1. MqOffers[t] = << None, FALSE >> /\ MqTakes[t] = None
    BY <1>7 DEF OfferAt, TakeAt
  <2>2. MqOffers = [x \in Thread |-> MqOffers[x]] /\ MqTakes = [x \in Thread |-> MqTakes[x]]
    BY DEF MqOffers, MqTakes
  <2> QED
    BY <1>7, <2>1, <2>2
<1>9. MqFifoStep
  BY <1>5, <1>8 DEF MqFifoStep, MqFifos
<1> QED
  BY <1>5, <1>7, <1>9 DEF MqCells

(* Nobody inside a call moves, and the lists stay as they are.             *)
LEMMA IdleCells ==
    ASSUME MqCells, UNCHANGED << mq, hand >>,
           \A x \in Thread : pc'[x] = pc[x] \/ (pc[x] \notin Carrying /\ pc'[x] \notin Carrying)
    PROVE  MqCells' /\ MqFifoStep /\ mq'.entry = mq.entry
<1>1. MqHands /\ Sound(mq, InHand)
  BY DEF MqCells
<1>2. MqHands' /\ InHand' = InHand /\ MqOffers' = MqOffers /\ MqTakes' = MqTakes
  BY <1>1, HandsStay
<1>3. MqFifoStep
  BY <1>2 DEF MqFifoStep, MqFifos
<1> QED
  BY <1>1, <1>2, <1>3 DEF MqCells

(* A reset frees the cells of all the messages, and no other.              *)
LEMMA ReleaseCells ==
    ASSUME MqCells, mq' = ReleaseAll(mq), hand' = hand, MqThrows,
           \A x \in Thread : pc'[x] = pc[x] \/ (pc[x] \notin Carrying /\ pc'[x] \notin Carrying)
    PROVE  MqCells' /\ MqFifoStep /\ mq'.entry = 0
<1> DEFINE H == InHand
<1>1. MqHands /\ Sound(mq, H)
  BY DEF MqCells
<1>2. /\ Sound(mq', H) /\ Contents(mq') = << >> /\ mq'.entry = 0
      /\ \A x \in H : mq'.next[x] = mq.next[x] /\ mq'.data[x] = mq.data[x]
  <2> HIDE DEF H
  <2>1. /\ Sound(ReleaseAll(mq), H) /\ Contents(ReleaseAll(mq)) = << >> /\ ReleaseAll(mq).entry = 0
        /\ \A x \in H : ReleaseAll(mq).next[x] = mq.next[x] /\ ReleaseAll(mq).data[x] = mq.data[x]
    BY <1>1, SoundRelease
  <2> QED
    BY <2>1
<1>3. \A x \in Thread : hand[x] # Null => hand[x] \in H
  BY <1>1, HandCell
<1>4. MqHands' /\ InHand' = InHand /\ MqOffers' = MqOffers /\ MqTakes' = MqTakes
  BY <1>1, <1>2, <1>3, HandsStay
<1>5. MqFifoStep
  BY <1>2, <1>4 DEF MqFifoStep, MqFifoClear, MqFifos
<1> QED
  BY <1>2, <1>4, <1>5 DEF MqCells

(* A queue created anew, while no call is under way.                       *)
LEMMA FreshCells ==
    ASSUME MqCells, mq' = FreshQueue, UNCHANGED << pc, hand >>, MqThrows,
           \A x \in Thread : pc[x] \notin Carrying
    PROVE  MqCells' /\ MqFifoStep /\ mq'.entry = 0
<1>1. MqHands /\ \A x \in Thread : hand[x] = Null
  BY DEF MqCells, MqHands
<1>2. MqHands' /\ InHand' = InHand /\ MqOffers' = MqOffers /\ MqTakes' = MqTakes
  BY <1>1, HandsStay
<1>3. InHand = {}
  BY <1>1, CellNotNull DEF InHand
<1>4. Sound(mq', {}) /\ Contents(mq') = << >> /\ mq'.entry = 0
  BY SoundFresh
<1>5. MqFifoStep
  BY <1>2, <1>4 DEF MqFifoStep, MqFifoClear, MqFifos
<1> QED
  BY <1>2, <1>3, <1>4, <1>5 DEF MqCells

(* An interrupt handler sends a message, while calls may be under way.     *)
LEMMA IsrCells ==
    ASSUME MqCells, MqSendFromIsr, UNCHANGED << pc, hand >>
    PROVE  MqCells' /\ MqFifoStep /\ mq'.entry = mq.entry + 1
<1> DEFINE H == InHand
           m == IsrMsg
<1>1. MqHands /\ Sound(mq, H) /\ m \in Msg /\ mq.free # Null
  BY IpcAssumption DEF MqCells, MqSendFromIsr
<1>2. /\ Sound(mq', H) /\ (\A x \in H : mq'.next[x] = mq.next[x] /\ mq'.data[x] = mq.data[x])
      /\ (Contents(mq') = Append(Contents(mq), m) \/ Contents(mq') = << m >> \o Contents(mq))
      /\ mq'.entry = mq.entry + 1 /\ Len(Contents(mq)) < MaxMsgs
  <2> DEFINE a == LinkTail(Fill(PopFree(mq), mq.free, m), mq.free)
             b == LinkHead(FillUrgent(PopFree(mq), mq.free, m), mq.free)
  <2>0. mq' = a \/ mq' = b
    BY DEF MqSendFromIsr
  <2>1. /\ Sound(a, H) /\ (\A x \in H : a.next[x] = mq.next[x] /\ a.data[x] = mq.data[x])
        /\ Contents(a) = Append(Contents(mq), m) /\ a.entry = mq.entry + 1
        /\ Len(Contents(mq)) < MaxMsgs
    <3> HIDE DEF H, m
    <3> QED
      BY <1>1, SoundSend
  <2>2. /\ Sound(b, H) /\ (\A x \in H : b.next[x] = mq.next[x] /\ b.data[x] = mq.data[x])
        /\ Contents(b) = << m >> \o Contents(mq) /\ b.entry = mq.entry + 1
        /\ Len(Contents(mq)) < MaxMsgs
    <3> HIDE DEF H, m
    <3> QED
      BY <1>1, SoundSendUrgent
  <2> HIDE DEF a, b, H, m
  <2> QED
    BY <2>0, <2>1, <2>2
<1>3. \A x \in Thread : hand[x] # Null => hand[x] \in H
  BY <1>1, HandCell
<1>4. MqHands' /\ InHand' = InHand /\ MqOffers' = MqOffers /\ MqTakes' = MqTakes
  <2>1. \A x \in Thread : hand[x] # Null =>
           mq'.next[hand[x]] = mq.next[hand[x]] /\ mq'.data[hand[x]] = mq.data[hand[x]]
    BY <1>2, <1>3
  <2> QED
    BY <1>1, <2>1, HandsStay
<1>5. MqFifoFromIsr(FALSE) \/ MqFifoFromIsr(TRUE)
  BY <1>2, <1>4 DEF MqFifoFromIsr
<1>6. MqFifoStep
  BY <1>1, <1>5 DEF MqFifoStep
<1> QED
  BY <1>2, <1>4, <1>6 DEF MqCells

-----------------------------------------------------------------------------
(* Nobody is left waiting, when the queue is detached carefully.           *)

MqBalanced ==
    \A u \in Thread : Blocked("mq", u) => mq.entry <= Cardinality(Granted("mq"))

(* While the queue is detached nobody is inside a call or on the way to    *)
(* it, and when it is gone nobody waits on it.                             *)
MqDeserted ==
    /\ Flushing \/ ~alive => Granted("mq") = {} /\ \A u \in Thread : pc[u] \notin Carrying
    /\ ~alive => \A u \in Thread : ~Blocked("mq", u)

MqCareful == MqCells /\ FlushInv("mq", "mq") /\ MqDeserted /\ MqBalanced

(* A step of a call on a queue that nobody detaches.                       *)
LEMMA MqCarefulCall ==
    ASSUME FlushInv("mq", "mq"), alive, ~Flushing, wild' = wild, alive' = alive,
           \A x \in Thread : pc'[x] = pc[x] \/ pc'[x] \notin Flushes
    PROVE  FlushInv("mq", "mq")' /\ MqDeserted'
<1>1. \A x \in Thread : pc'[x] \notin Flushes
  BY DEF Flushing
<1>2. FlushInv("mq", "mq")'
  BY <1>1, TheMqQueue, FlushNobody
<1>3. MqDeserted'
  BY <1>1 DEF MqDeserted, Flushing
<1> QED
  BY <1>2, <1>3

LEMMA MqEntry ==
    ASSUME MqCells
    PROVE  mq.entry \in 0..MaxMsgs /\ mq.entry \in Nat
<1>1. Sound(mq, InHand)
  BY DEF MqCells
<1>2. mq.entry \in 0..MaxMsgs
  BY <1>1, SoundFacts
<1> QED
  BY <1>2, MqAssumption

(* The cells of a step of t that moves on without waking anybody.          *)
LEMMA MqMovesCareful ==
    ASSUME MqBase, MqCells, FlushInv("mq", "mq"), MqBalanced, alive, ~Flushing,
           NEW t \in Thread, NEW l, l \notin Flushes, MqMoves(t, l), MqCells',
           \/ mq'.entry = mq.entry /\ t \notin Granted("mq")
           \/ mq'.entry = mq.entry - 1
    PROVE  MqCareful'
<1>1. /\ pc' = [pc EXCEPT ![t] = l] /\ wild' = wild /\ alive' = alive /\ Wakes({t}, {})
      /\ pc \in [Thread -> Outside \cup Waiting \cup Flushes \cup Carrying]
  BY DEF MqMoves, MqBase, IpcInv, CallsType
<1>2. \A x \in Thread : pc'[x] = pc[x] \/ pc'[x] \notin Flushes
  BY <1>1
<1>3. FlushInv("mq", "mq")' /\ MqDeserted'
  BY <1>1, <1>2, MqCarefulCall
<1>4. Granted("mq")' = Granted("mq") \ {t} /\ \A u \in Thread : Blocked("mq", u)' <=> Blocked("mq", u)
  BY <1>1, TheMqQueue DEF Wakes, Blocked
<1>5. /\ Cardinality(Granted("mq")) \in Nat /\ Cardinality(Granted("mq")') \in Nat
      /\ Cardinality(Granted("mq")') >= Cardinality(Granted("mq")) - 1
  BY <1>4, Counted
<1>6. mq.entry \in Nat
  BY MqEntry
<1>7. MqBalanced'
  <2>1. CASE mq'.entry = mq.entry /\ t \notin Granted("mq")
    <3>1. Granted("mq")' = Granted("mq")
      BY <1>4, <2>1
    <3> QED
      BY <1>4, <2>1, <3>1 DEF MqBalanced
  <2>2. CASE mq'.entry = mq.entry - 1
    <3>1. ASSUME NEW u \in Thread, Blocked("mq", u)'
          PROVE  mq'.entry <= Cardinality(Granted("mq")')
      <4>1. mq.entry <= Cardinality(Granted("mq"))
        BY <1>4, <3>1 DEF MqBalanced
      <4> QED
        BY <1>5, <1>6, <2>2, <4>1
    <3> QED
      BY <3>1 DEF MqBalanced
  <2> QED
    BY <2>1, <2>2
<1> QED
  BY <1>3, <1>7 DEF MqCareful

(* A message comes in and the first receiver that waits is granted it.     *)
LEMMA MqGrantCareful ==
    ASSUME MqBase, MqCells, MqBalanced, MqCells', mq'.entry = mq.entry + 1,
           NEW T, MqGrants(T), \A x \in T : x \notin Granted("mq")
    PROVE  MqBalanced'
<1> USE TheMqQueue
<1> DEFINE W == First(k, "mq")
<1>1. KernelOK(k) /\ Wakes(T, W) /\ k'.error = k.error
  BY DEF MqBase, IpcInv, MqGrants
<1>2. W \subseteq Thread /\ \A x \in W : Blocked("mq", x)
  BY <1>1, FirstFacts DEF Blocked
<1>3. \A x \in W : k'.error[x] = "EOK" /\ x \notin Granted("mq")
  BY <1>1, <1>2 DEF MqBase, Granted
<1>4. Granted("mq")' = Granted("mq") \cup W
  BY <1>1, <1>2, <1>3 DEF Wakes, Blocked
<1>5. \A u \in Thread : Blocked("mq", u)' => Blocked("mq", u)
  BY <1>1 DEF Wakes, Blocked
<1> SUFFICES ASSUME NEW u \in Thread, Blocked("mq", u)'
             PROVE  mq'.entry <= Cardinality(Granted("mq")')
  BY DEF MqBalanced
<1>6. k.wait["mq"] # << >>
  BY <1>1, <1>5, NobodyWaits DEF Blocked
<1>7. PICK h : W = {h}
  BY <1>6 DEF First
<1>8. Cardinality(Granted("mq")') = Cardinality(Granted("mq")) + 1 /\ Cardinality(Granted("mq")) \in Nat
  BY <1>3, <1>4, <1>7, Counted
<1>9. mq.entry <= Cardinality(Granted("mq")) /\ mq.entry \in Nat
  BY <1>5, MqEntry DEF MqBalanced
<1> QED
  BY <1>8, <1>9

(* A thread inside a call, or with a message granted to it: the queue is   *)
(* not being detached.                                                     *)
LEMMA MqInUse ==
    ASSUME CarefulFlush, MqDeserted, NEW t \in Thread,
           Usable \/ pc[t] \in Carrying \/ t \in Granted("mq")
    PROVE  alive /\ ~Flushing
  BY DEF Usable, MqDeserted

LEMMA MqReceiveCareful ==
    ASSUME CarefulFlush, MqBase, MqCareful, NEW t \in Thread, pc[t] \in {"run", "woken"},
           MqReceives(t), Usable \/ t \in Granted("mq")
    PROVE  MqCareful' /\ MqFifoStep
<1> USE TheMqQueue
<1>1. /\ MqCells /\ FlushInv("mq", "mq") /\ MqDeserted /\ MqBalanced
      /\ pc \in [Thread -> Outside \cup Waiting \cup Flushes \cup Carrying]
  BY DEF MqCareful, MqBase, IpcInv, CallsType
<1>2. alive /\ ~Flushing
  BY <1>1, MqInUse
<1>3. pc[t] \notin Carrying /\ "copy" \notin Flushes /\ "block" \notin Flushes \cup Carrying
  BY DEF Carrying, Flushes
<1>4. CASE /\ mq.entry > 0 /\ mq' = UnlinkHead(mq) /\ hand' = [hand EXCEPT ![t] = mq.head]
           /\ MqMoves(t, "copy")
  <2>1. pc' = [pc EXCEPT ![t] = "copy"]
    BY <1>4 DEF MqMoves
  <2>2. MqCells' /\ MqFifoStep /\ mq'.entry = mq.entry - 1
    BY <1>1, <1>3, <1>4, <2>1, UnlinkCells
  <2> DEFINE l == "copy"
  <2>3. MqMoves(t, l) /\ l \notin Flushes
    BY <1>3, <1>4
  <2> HIDE DEF l
  <2>4. MqCareful'
    BY <1>1, <1>2, <2>2, <2>3, MqMovesCareful
  <2> QED
    BY <2>2, <2>4
<1>5. CASE mq.entry = 0 /\ mq' = mq /\ hand' = hand /\ Waits(t, "mq") /\ UNCHANGED << wild, alive >>
  <2>1. pc' = [pc EXCEPT ![t] = "block"] /\ Joins(t, "mq")
    BY <1>5 DEF Waits
  <2>2. \A x \in Thread : pc'[x] = pc[x] \/ (pc[x] \notin Carrying /\ pc'[x] \notin Carrying)
    BY <1>1, <1>3, <2>1
  <2>3. MqCells' /\ MqFifoStep
    BY <1>1, <1>5, <2>2, IdleCells
  <2>4. \A x \in Thread : pc'[x] = pc[x] \/ pc'[x] \notin Flushes
    BY <1>1, <1>3, <2>1
  <2>5. FlushInv("mq", "mq")' /\ MqDeserted'
    BY <1>1, <1>2, <1>5, <2>4, MqCarefulCall
  <2>6. Cardinality(Granted("mq")') \in Nat
    BY <2>1, Counted DEF Joins
  <2>7. MqBalanced'
    BY <1>5, <2>6 DEF MqBalanced
  <2> QED
    BY <2>3, <2>5, <2>7 DEF MqCareful
<1> QED
  BY <1>4, <1>5 DEF MqReceives

(* A call that ends with an error.                                         *)
LEMMA MqLeaveCareful ==
    ASSUME MqBase, MqCareful, NEW t \in Thread, pc[t] = "woken",
           Leaves(t), UNCHANGED << mq, hand, wild, alive >>, t \in Granted("mq") => mq.entry = 0
    PROVE  MqCareful' /\ MqFifoStep
<1> USE TheMqQueue
<1>1. /\ MqCells /\ FlushInv("mq", "mq") /\ MqDeserted /\ MqBalanced
      /\ pc \in [Thread -> Outside \cup Waiting \cup Flushes \cup Carrying]
  BY DEF MqCareful, MqBase, IpcInv, CallsType
<1>2. pc' = [pc EXCEPT ![t] = "run"] /\ Wakes({t}, {})
  BY DEF Leaves
<1>3. "run" \notin Flushes \cup Carrying /\ "woken" \notin Carrying
  BY DEF Flushes, Carrying
<1>4. \A x \in Thread : pc'[x] = pc[x] \/ (pc[x] \notin Carrying /\ pc'[x] \notin Carrying)
  BY <1>1, <1>2, <1>3
<1>5. MqCells' /\ MqFifoStep
  BY <1>1, <1>4, IdleCells
<1>6. \A x \in Thread : pc'[x] \in Flushes => pc'[x] = pc[x]
  BY <1>1, <1>2, <1>3
<1> DEFINE T == {t}
<1>7. FlushInv("mq", "mq")'
  <2>1. Wakes(T, {})
    BY <1>2
  <2> HIDE DEF T
  <2> QED
    BY <1>1, <1>6, <2>1, FlushReturn
<1>8. Granted("mq")' = Granted("mq") \ {t} /\ \A u \in Thread : Blocked("mq", u)' <=> Blocked("mq", u)
  BY <1>2 DEF Wakes, Blocked
<1>9. Flushing' => Flushing
  BY <1>6 DEF Flushing
<1>10. MqDeserted'
  <2>1. \A u \in Thread : pc'[u] \in Carrying => pc[u] \in Carrying
    BY <1>4
  <2> QED
    BY <1>1, <1>8, <1>9, <2>1 DEF MqDeserted
<1>11. MqBalanced'
  <2>1. CASE t \in Granted("mq")
    <3>1. Cardinality(Granted("mq")') \in Nat
      BY <1>8, Counted
    <3> QED
      BY <2>1, <3>1 DEF MqBalanced
  <2>2. CASE t \notin Granted("mq")
    <3>1. Granted("mq")' = Granted("mq")
      BY <1>8, <2>2
    <3> QED
      BY <1>1, <1>8, <3>1 DEF MqBalanced
  <2> QED
    BY <2>1, <2>2
<1> QED
  BY <1>5, <1>7, <1>10, <1>11 DEF MqCareful

LEMMA MqDetachCareful ==
    ASSUME CarefulFlush, MqBase, MqCareful, NEW t \in Thread, MqDetach(t)
    PROVE  MqCareful' /\ MqFifoStep
<1> USE TheMqQueue
<1>1. MqFlushes(t) /\ t \in Client /\ mq' = mq /\ hand' = hand
  BY MqDetachStep DEF MqFlushes
<1>2. /\ pc \in [Thread -> Outside \cup Waiting \cup Flushes \cup Carrying] /\ KernelOK(k) /\ IpcInv
      /\ FlushInv("mq", "mq") /\ MqCells /\ MqDeserted /\ MqBalanced
  BY DEF MqBase, IpcInv, CallsType, MqCareful
<1>3. PICK W, l : /\ Wakes({t}, W) /\ (\A x \in W : k'.error[x] = "ERROR")
                  /\ l \notin Waiting \cup Carrying /\ pc' = [pc EXCEPT ![t] = l]
  BY <1>1 DEF MqFlushes
<1>4. pc[t] \notin Waiting \cup Carrying
  BY <1>1 DEF MqFlushes
<1>5. Granted("mq")' = Granted("mq") /\ \A u \in Thread : Blocked("mq", u)' => Blocked("mq", u)
  <2>1. t \notin Granted("mq")
    BY <1>4 DEF Granted
  <2> QED
    BY <1>3, <2>1 DEF Wakes, Blocked
<1>6. \A x \in Thread : pc'[x] = pc[x] \/ (pc[x] \notin Carrying /\ pc'[x] \notin Carrying)
  BY <1>2, <1>3, <1>4
<1>7. MqCells' /\ MqFifoStep
  BY <1>1, <1>2, <1>6, IdleCells
<1>8. MqBalanced'
  BY <1>1, <1>2, <1>5 DEF MqBalanced
<1>9. \A u \in Thread : pc'[u] \in Carrying => pc[u] \in Carrying
  BY <1>6
<1>10. ASSUME pc[t] \in Flushes
       PROVE  alive /\ Granted("mq") = {} /\ \A u \in Thread : pc[u] \notin Carrying
  BY <1>2, <1>10 DEF FlushInv, MqDeserted, Flushing
<1>11. FlushRound("flush", "flush1", "mq", "mq", "mq")
  BY DEF FlushRound
<1>12. CASE FlushBegin(t, {"mq"}) /\ Usable /\ NoOtherCall({"mq"})
  <2> DEFINE Q == {"mq"}
  <2>1. FlushInv("mq", "mq")'
    <3>1. Q = {"mq", "mq"} /\ FlushBegin(t, Q)
      BY <1>12
    <3> HIDE DEF Q
    <3> QED
      BY <1>1, <1>2, <1>12, <3>1, FlushBeginKeeps
  <2>2. \A x \in Thread : pc[x] \in Outside \/ Blocked("mq", x)
    BY <1>12 DEF NoOtherCall
  <2>3. \A x \in Thread : Blocked("mq", x) => pc[x] \in Waiting
    BY <1>2 DEF IpcInv, ThreadsOK, Blocked
  <2>4. Granted("mq") = {} /\ \A x \in Thread : pc[x] \notin Carrying
    BY <2>2, <2>3 DEF Granted, Waiting, Outside, Carrying
  <2>5. alive' /\ alive
    BY <1>12 DEF FlushBegin
  <2>6. MqDeserted'
    BY <1>5, <1>9, <2>4, <2>5 DEF MqDeserted
  <2> QED
    BY <1>7, <1>8, <2>1, <2>6 DEF MqCareful
<1>13. CASE FlushLook(t, "mq", "flush", "flush1", "run")
  <2>1. FlushInv("mq", "mq")'
    BY <1>1, <1>2, <1>11, <1>13, FlushLookKeeps
  <2>2. /\ pc[t] = "flush" /\ pc' = [pc EXCEPT ![t] = IF k.wait["mq"] = << >> THEN "run" ELSE "flush1"]
        /\ alive' = (alive /\ pc'[t] # "run") /\ k' = k
    BY <1>13 DEF FlushLook, At, Goto
  <2>3. pc[t] \in Flushes
    BY <2>2 DEF Flushes
  <2>4. alive /\ Granted("mq") = {} /\ \A u \in Thread : pc[u] \notin Carrying
    BY <1>10, <2>3
  <2>5. ~alive' => \A u \in Thread : ~Blocked("mq", u)
    <3>1. ~alive' => k.wait["mq"] = << >>
      BY <1>2, <2>2, <2>4
    <3> QED
      BY <1>2, <3>1, NobodyWaits DEF Blocked
  <2>6. MqDeserted'
    BY <1>5, <1>9, <2>4, <2>5 DEF MqDeserted
  <2> QED
    BY <1>7, <1>8, <2>1, <2>6 DEF MqCareful
<1>14. CASE FlushWake(t, "mq", "flush", "flush1")
  <2>1. FlushInv("mq", "mq")'
    BY <1>1, <1>2, <1>11, <1>14, FlushWakeKeeps
  <2>2. pc[t] = "flush1" /\ alive' = alive /\ pc[t] \in Flushes
    BY <1>14 DEF FlushWake, At, Flushes
  <2>3. alive /\ Granted("mq") = {} /\ \A u \in Thread : pc[u] \notin Carrying
    BY <1>10, <2>2
  <2>4. MqDeserted'
    BY <1>5, <1>9, <2>2, <2>3 DEF MqDeserted
  <2> QED
    BY <1>7, <1>8, <2>1, <2>4 DEF MqCareful
<1> QED
  BY <1>12, <1>13, <1>14 DEF MqDetach

LEMMA MqLinkCareful ==
    ASSUME CarefulFlush, MqBase, MqCareful, NEW t \in Thread, MqSendLink(t)
    PROVE  MqCareful' /\ MqFifoStep
<1> DEFINE l == AfterResume("mq")
<1>1. /\ MqCells /\ FlushInv("mq", "mq") /\ MqDeserted /\ MqBalanced
      /\ pc \in [Thread -> Outside \cup Waiting \cup Flushes \cup Carrying]
  BY DEF MqCareful, MqBase, IpcInv, CallsType
<1>2. /\ MqGrants({t}) /\ UNCHANGED << wild, alive >>
      /\ pc' = [pc EXCEPT ![t] = l] /\ hand' = [hand EXCEPT ![t] = Null]
      /\ \/ pc[t] = "link" /\ mq' = LinkTail(mq, hand[t])
         \/ pc[t] = "ulink" /\ mq' = LinkHead(mq, hand[t])
  BY MqLinkStep
<1>3. l \in {"run", "sched"} /\ l \notin Flushes
  BY DEF AfterResume, Flushes
<1>4. pc[t] \in Carrying /\ pc[t] \notin Waiting
  BY <1>2 DEF Carrying, Waiting
<1>5. alive /\ ~Flushing
  BY <1>1, <1>4, MqInUse
<1> HIDE DEF l
<1>6. MqCells' /\ MqFifoStep /\ mq'.entry = mq.entry + 1
  BY <1>1, <1>2, <1>3, LinkCells
<1>7. \A x \in Thread : pc'[x] = pc[x] \/ pc'[x] \notin Flushes
  BY <1>1, <1>2, <1>3
<1>8. FlushInv("mq", "mq")' /\ MqDeserted'
  BY <1>1, <1>2, <1>5, <1>7, MqCarefulCall
<1> DEFINE T == {t}
<1>9. MqGrants(T) /\ \A x \in T : x \notin Granted("mq")
  BY <1>2, <1>4 DEF Granted
<1> HIDE DEF T
<1>10. MqBalanced'
  BY <1>1, <1>6, <1>9, MqGrantCareful
<1> QED
  BY <1>6, <1>8, <1>10 DEF MqCareful

LEMMA MqIsrCareful ==
    ASSUME CarefulFlush, MqBase, MqCareful, MqSendFromIsr
    PROVE  MqCareful' /\ MqFifoStep
<1>1. MqCells /\ FlushInv("mq", "mq") /\ MqDeserted /\ MqBalanced
  BY DEF MqCareful
<1>2. MqGrants({}) /\ UNCHANGED << pc, wild, alive, hand >>
  BY MqIsrStep
<1>3. alive /\ ~Flushing
  BY DEF MqSendFromIsr, Usable
<1>4. MqCells' /\ MqFifoStep /\ mq'.entry = mq.entry + 1
  BY <1>1, <1>2, IsrCells
<1>5. FlushInv("mq", "mq")' /\ MqDeserted'
  BY <1>1, <1>2, <1>3, MqCarefulCall
<1> DEFINE T == {}
<1>6. MqGrants(T) /\ \A x \in T : x \notin Granted("mq")
  BY <1>2
<1> HIDE DEF T
<1>7. MqBalanced'
  BY <1>1, <1>4, <1>6, MqGrantCareful
<1> QED
  BY <1>4, <1>5, <1>7 DEF MqCareful

LEMMA MqResetCareful ==
    ASSUME CarefulFlush, MqBase, MqCareful, NEW t \in Thread, MqReset(t)
    PROVE  MqCareful' /\ MqFifoStep
<1>1. /\ MqCells /\ FlushInv("mq", "mq") /\ MqDeserted /\ MqBalanced
      /\ pc \in [Thread -> Outside \cup Waiting \cup Flushes \cup Carrying]
  BY DEF MqCareful, MqBase, IpcInv, CallsType
<1>2. /\ Usable /\ pc[t] = "run" /\ pc' = [pc EXCEPT ![t] = "sched"]
      /\ UNCHANGED << wild, alive, hand >> /\ mq' = ReleaseAll(mq)
      /\ \A x \in Thread : ~Blocked("mq", x)'
  BY MqResetStep
<1>3. alive /\ ~Flushing /\ {"run", "sched"} \cap (Carrying \cup Flushes) = {}
  BY <1>2 DEF Usable, Carrying, Flushes
<1>4. \A x \in Thread : pc'[x] = pc[x] \/ (pc[x] \notin Carrying /\ pc'[x] \notin Carrying)
  BY <1>1, <1>2, <1>3
<1>5. MqCells' /\ MqFifoStep
  BY <1>1, <1>2, <1>4, ReleaseCells DEF MqThrows
<1>6. \A x \in Thread : pc'[x] = pc[x] \/ pc'[x] \notin Flushes
  BY <1>1, <1>2, <1>3
<1>7. FlushInv("mq", "mq")' /\ MqDeserted'
  BY <1>1, <1>2, <1>3, <1>6, MqCarefulCall
<1>8. MqBalanced'
  BY <1>2 DEF MqBalanced
<1> QED
  BY <1>5, <1>7, <1>8 DEF MqCareful

LEMMA MqCreateCareful ==
    ASSUME MqBase, MqCareful, NEW t \in Thread, MqCreate(t)
    PROVE  MqCareful' /\ MqFifoStep
<1>1. MqCells /\ FlushInv("mq", "mq") /\ MqDeserted /\ MqBalanced
  BY DEF MqCareful
<1>2. /\ ~alive /\ alive' = TRUE /\ mq' = FreshQueue
      /\ UNCHANGED << k, pc, wild, want, hand >>
  BY MqCreateStep
<1>3. /\ \A u \in Thread : pc[u] \notin Carrying /\ ~Blocked("mq", u)
      /\ \A u \in Thread : pc[u] \notin Flushes
  BY <1>1, <1>2 DEF MqDeserted, FlushInv
<1>4. MqCells' /\ MqFifoStep
  BY <1>1, <1>2, <1>3, FreshCells DEF MqThrows
<1>5. FlushInv("mq", "mq")'
  BY <1>1, <1>2, <1>3, TheMqQueue, FlushNobody
<1>6. \A u \in Thread : ~Blocked("mq", u)'
  BY <1>2, <1>3 DEF Blocked
<1>7. MqDeserted' /\ MqBalanced'
  BY <1>2, <1>3, <1>6 DEF MqDeserted, MqBalanced, Flushing
<1> QED
  BY <1>4, <1>5, <1>7 DEF MqCareful

LEMMA MqBackgroundCareful ==
    ASSUME MqBase, MqCareful, (ThreadStep \/ Sleep) /\ UNCHANGED mqVars
    PROVE  MqCareful' /\ MqFifoStep
<1> USE TheMqQueue
<1>1. MqCells /\ FlushInv("mq", "mq") /\ MqDeserted /\ MqBalanced
  BY DEF MqCareful
<1>2. Background /\ mq' = mq /\ hand' = hand
  BY BackgroundStep DEF mqVars, MqBase
<1>3. FlushInv("mq", "mq")'
  BY <1>1, <1>2, FlushBackground
<1>4. /\ Granted("mq")' = Granted("mq") /\ alive' = alive
      /\ \A u \in Thread : Blocked("mq", u)' => Blocked("mq", u)
  BY <1>2 DEF Background, Blocked
<1>5. /\ \A x \in Thread : pc'[x] = pc[x] \/ (pc[x] \notin Carrying /\ pc'[x] \notin Carrying)
      /\ \A x \in Thread : pc'[x] \in Flushes => pc'[x] = pc[x]
  BY <1>2 DEF Background, Flushes, Outside, Carrying
<1>6. MqCells' /\ MqFifoStep
  BY <1>1, <1>2, <1>5, IdleCells
<1>7. Flushing' => Flushing
  BY <1>5 DEF Flushing
<1>8. MqDeserted'
  <2>1. \A u \in Thread : pc'[u] \in Carrying => pc[u] \in Carrying
    BY <1>5
  <2> QED
    BY <1>1, <1>4, <1>7, <2>1 DEF MqDeserted
<1>9. MqBalanced'
  BY <1>1, <1>2, <1>4 DEF MqBalanced
<1> QED
  BY <1>3, <1>6, <1>8, <1>9 DEF MqCareful

LEMMA MqSameCareful ==
    ASSUME MqCareful, UNCHANGED << ipcVars, mqVars >>
    PROVE  MqCareful' /\ MqFifoStep
<1>1. UNCHANGED << k, pc, wild, alive, want, mq, hand >>
  BY DEF ipcVars, mqVars
<1>2. MqCells /\ FlushInv("mq", "mq") /\ MqDeserted /\ MqBalanced
  BY DEF MqCareful
<1>3. MqCells' /\ MqFifoStep
  BY <1>1, <1>2, IdleCells
<1>4. Granted("mq")' = Granted("mq") /\ \A q, u : Blocked(q, u)' <=> Blocked(q, u)
  BY <1>1 DEF Granted, Blocked
<1>5. FlushInv("mq", "mq")'
  BY <1>1, <1>2, <1>4 DEF FlushInv
<1>6. MqDeserted' /\ MqBalanced'
  BY <1>1, <1>2, <1>4 DEF MqDeserted, MqBalanced, Flushing
<1> QED
  BY <1>3, <1>5, <1>6 DEF MqCareful

(* The steps of one call that wake nobody.                                 *)
LEMMA MqOwnCareful ==
    ASSUME CarefulFlush, MqBase, MqCareful, NEW t \in Thread,
           \/ MqSendPop(t, "fill") \/ MqSendPop(t, "ufill") \/ MqSendFill(t)
           \/ MqCopy(t) \/ MqGive(t)
    PROVE  MqCareful' /\ MqFifoStep
<1>1. MqCells /\ FlushInv("mq", "mq") /\ MqDeserted /\ MqBalanced
  BY DEF MqCareful
<1>2. \A l \in {"fill", "ufill", "link", "ulink", "give", "run"} : l \notin Flushes
  BY DEF Flushes
<1>3. ASSUME NEW l, l \notin Flushes, MqMoves(t, l), pc[t] \notin Waiting,
             Usable \/ pc[t] \in Carrying,
             MqCells' /\ MqFifoStep /\ mq'.entry = mq.entry
      PROVE  MqCareful' /\ MqFifoStep
  <2>1. alive /\ ~Flushing
    BY <1>1, <1>3, MqInUse
  <2>2. t \notin Granted("mq")
    BY <1>3 DEF Granted
  <2> QED
    BY <1>1, <1>3, <2>1, <2>2, MqMovesCareful
<1>4. ASSUME NEW l \in {"fill", "ufill"}, MqSendPop(t, l)
      PROVE  MqCareful' /\ MqFifoStep
  <2>1. /\ MqMoves(t, l) /\ Usable /\ t \in Producers /\ pc[t] = "run" /\ mq.free # Null
        /\ mq' = PopFree(mq) /\ hand' = [hand EXCEPT ![t] = mq.free]
    BY <1>4, MqPopStep
  <2>2. pc' = [pc EXCEPT ![t] = l] /\ pc[t] \notin Waiting
    BY <2>1 DEF MqMoves, Waiting
  <2>3. MqCells' /\ MqFifoStep /\ mq'.entry = mq.entry
    BY <1>1, <2>1, <2>2, PopCells
  <2>4. l \notin Flushes
    BY <1>2
  <2> QED
    BY <1>3, <2>1, <2>2, <2>3, <2>4
<1>5. CASE MqSendFill(t)
  <2>1. hand' = hand
    BY <1>5, MqFillStep
  <2>2. /\ \/ /\ pc[t] = "fill" /\ pc' = [pc EXCEPT ![t] = "link"]
              /\ mq' = Fill(mq, hand[t], MsgFrom[t])
           \/ /\ pc[t] = "ufill" /\ pc' = [pc EXCEPT ![t] = "ulink"]
              /\ mq' = FillUrgent(mq, hand[t], MsgFrom[t])
        /\ pc[t] \notin Waiting /\ pc[t] \in Carrying
    BY <1>5, MqFillStep DEF MqMoves, Waiting, Carrying
  <2>3. MqCells' /\ MqFifoStep /\ mq'.entry = mq.entry
    BY <1>1, <2>1, <2>2, FillCells
  <2>4. PICK l \in {"link", "ulink"} : MqMoves(t, l)
    BY <1>5, MqFillStep
  <2>5. l \notin Flushes
    BY <1>2, <2>4
  <2> QED
    BY <1>3, <2>2, <2>3, <2>4, <2>5
<1>6. CASE MqCopy(t)
  <2>1. MqMoves(t, "give") /\ pc[t] = "copy" /\ UNCHANGED << mq, hand >>
    BY <1>6, MqCopyStep
  <2>2. pc' = [pc EXCEPT ![t] = "give"] /\ pc[t] \notin Waiting /\ pc[t] \in Carrying
    BY <2>1 DEF MqMoves, Waiting, Carrying
  <2>3. MqCells' /\ MqFifoStep /\ mq'.entry = mq.entry
    BY <1>1, <2>1, <2>2, CopyCells
  <2> DEFINE l == "give"
  <2>4. l \notin Flushes /\ MqMoves(t, l)
    BY <1>2, <2>1
  <2> HIDE DEF l
  <2> QED
    BY <1>3, <2>2, <2>3, <2>4
<1>7. CASE MqGive(t)
  <2>1. /\ MqMoves(t, "run") /\ pc[t] = "give"
        /\ mq' = PushFree(mq, hand[t]) /\ hand' = [hand EXCEPT ![t] = Null]
    BY <1>7, MqGiveStep
  <2>2. pc' = [pc EXCEPT ![t] = "run"] /\ pc[t] \notin Waiting /\ pc[t] \in Carrying
    BY <2>1 DEF MqMoves, Waiting, Carrying
  <2>3. MqCells' /\ MqFifoStep /\ mq'.entry = mq.entry
    BY <1>1, <2>1, <2>2, GiveCells
  <2> DEFINE l == "run"
  <2>4. l \notin Flushes /\ MqMoves(t, l)
    BY <1>2, <2>1
  <2> HIDE DEF l
  <2> QED
    BY <1>3, <2>2, <2>3, <2>4
<1> QED
  BY <1>4, <1>5, <1>6, <1>7

LEMMA MqCarefulStep ==
    ASSUME CarefulFlush, MqBase, MqCareful, [MqNext]_<<ipcVars, mqVars>>
    PROVE  MqCareful' /\ MqFifoStep
<1>1. ASSUME NEW t \in Thread, NEW w \in WaitTime, MqRecv(t, w)
      PROVE  MqCareful' /\ MqFifoStep
  <2>1. MqReceives(t) /\ Usable /\ pc[t] \in {"run", "woken"}
    BY <1>1, MqRecvStep
  <2> QED
    BY <2>1, MqReceiveCareful
<1>2. ASSUME NEW t \in Thread, MqRecvAgain(t)
      PROVE  MqCareful' /\ MqFifoStep
  <2>1. /\ pc[t] = "woken"
        /\ \/ MqReceives(t) /\ t \in Granted("mq")
           \/ /\ Leaves(t) /\ UNCHANGED << mq, hand, wild, alive >>
              /\ t \in Granted("mq") => mq.entry = 0
    BY <1>2, MqRecvAgainStep
  <2>2. CASE MqReceives(t) /\ t \in Granted("mq")
    BY <2>1, <2>2, MqReceiveCareful
  <2>3. CASE Leaves(t) /\ UNCHANGED << mq, hand, wild, alive >> /\ (t \in Granted("mq") => mq.entry = 0)
    BY <2>1, <2>3, MqLeaveCareful
  <2> QED
    BY <2>1, <2>2, <2>3
<1>3. CASE MqNext
  BY <1>1, <1>2, <1>3, MqCases, MqOwnCareful, MqLinkCareful, MqResetCareful, MqDetachCareful,
     MqCreateCareful, MqIsrCareful, MqBackgroundCareful
<1>4. CASE UNCHANGED << ipcVars, mqVars >>
  BY <1>4, MqSameCareful
<1> QED
  BY <1>3, <1>4

LEMMA MqCellsInit ==
    ASSUME IpcInit, MqInit
    PROVE  /\ MqCells /\ Contents(mq) = << >> /\ mq.entry = 0
           /\ MqOffers = [t \in Thread |-> << None, FALSE >>]
           /\ MqTakes = [t \in Thread |-> None]
<1>1. /\ \A t \in Thread : pc[t] = "run" /\ hand[t] = Null
      /\ hand \in [Thread -> 0..MaxMsgs] /\ mq = FreshQueue
  BY CellNotNull DEF IpcInit, MqInit
<1>2. MqHands
  BY <1>1 DEF MqHands, Carrying
<1>3. InHand = {}
  BY <1>1, CellNotNull DEF InHand
<1>4. Sound(mq, {}) /\ Contents(mq) = << >> /\ mq.entry = 0
  BY <1>1, SoundFresh
<1>5. \A t \in Thread : /\ OfferAt(pc[t], mq.data[hand[t]]) = << None, FALSE >>
                        /\ TakeAt(pc[t], mq.data[hand[t]]) = None
  BY <1>1 DEF OfferAt, TakeAt
<1>6. /\ MqOffers = [t \in Thread |-> << None, FALSE >>]
      /\ MqTakes = [t \in Thread |-> None]
  BY <1>5 DEF MqOffers, MqTakes
<1> QED
  BY <1>2, <1>3, <1>4, <1>6 DEF MqCells

LEMMA MqCarefulInit ==
    ASSUME IpcInit, MqInit
    PROVE  MqCareful
<1>1. MqCells /\ FlushInv("mq", "mq")
  BY MqCellsInit, FlushInvInit
<1>2. \A t \in Thread : pc[t] \notin Flushes
  BY IpcInitFacts DEF Flushes
<1>3. alive /\ \A u \in Thread : ~Blocked("mq", u)
  BY IpcInitFacts, TheMqQueue DEF IpcInit, Blocked
<1>4. MqDeserted /\ MqBalanced
  BY <1>2, <1>3 DEF MqDeserted, MqBalanced, Flushing
<1> QED
  BY <1>1, <1>4 DEF MqCareful

LEMMA MqCarefulInvariant ==
    ASSUME CarefulFlush
    PROVE  MqSpec => []MqCareful
<1>1. IpcInit /\ MqInit => MqCareful
  BY MqCarefulInit
<1>2. MqBase /\ MqCareful /\ [MqNext]_<<ipcVars, mqVars>> => MqCareful'
  BY MqCarefulStep
<1> QED
  BY <1>1, <1>2, MqInvariant, PTL DEF MqSpec

LEMMA MqTypes ==
    ASSUME MqBase, MqCareful
    PROVE  IpcTypeOK /\ MqTypeOK
<1>1. IpcTypeOK
  BY IpcInvImplies DEF MqBase
<1>2. Sound(mq, InHand) /\ hand \in [Thread -> 0..MaxMsgs]
  BY DEF MqCareful, MqCells, MqHands
<1>3. mq \in QueueType /\ mq.entry \in 0..MaxMsgs
  BY <1>2, SoundFacts
<1> QED
  BY <1>1, <1>2, <1>3 DEF MqTypeOK, QueueType

(* Type correctness of a queue that is detached carefully: head, tail,     *)
(* free, the links and the cells in hand are cells or null, and entry      *)
(* never exceeds max_msgs.                                                 *)
THEOREM MqTypeCorrect ==
    ASSUME CarefulFlush
    PROVE  MqSpec => [](IpcTypeOK /\ MqTypeOK)
<1>1. MqBase /\ MqCareful => IpcTypeOK /\ MqTypeOK
  BY MqTypes
<1> QED
  BY <1>1, MqInvariant, MqCarefulInvariant, PTL

(* However the sections of senders, receivers, interrupts and a reset      *)
(* interleave, every cell of the pool is in exactly one place, entry       *)
(* counts the messages and the tail is the last of them.                   *)
THEOREM MqCellsCorrect ==
    ASSUME CarefulFlush
    PROVE  MqSpec => []MqCellsExact
<1>1. MqCareful => MqCellsExact
  <2> SUFFICES ASSUME MqCareful PROVE MqCellsExact
    OBVIOUS
  <2>1. MqHands /\ Sound(mq, InHand)
    BY DEF MqCareful, MqCells
  <2>2. PICK ms, fs : Lists(mq, InHand, ms, fs)
    BY <2>1 DEF Sound
  <2>3. /\ Path(mq.next, mq.head, ms) /\ Path(mq.next, mq.free, fs) /\ Split(InHand, ms, fs)
        /\ mq.entry = Len(ms) /\ mq.tail = LastOf(ms)
    BY <2>2, ListsOpen
  <2>4. Chain(mq, mq.head) = ms /\ Chain(mq, mq.free) = fs
    BY <2>3, ChainIs
  <2>5. ASSUME NEW s, NEW h, Path(mq.next, h, s), NEW c \in Cell
        PROVE  Occurrences(s, c) = IF Contains(s, c) THEN 1 ELSE 0
    <3>1. s \in Seq(Cell) /\ NoRepeat(s)
      BY <2>5, PathParts
    <3> DEFINE S == {i \in DOMAIN s : s[i] = c}
    <3>2. CASE Contains(s, c)
      <4>1. PICK i \in DOMAIN s : s[i] = c
        BY <3>1, <3>2 DEF Contains
      <4>2. S = {i}
        BY <3>1, <4>1 DEF NoRepeat
      <4> QED
        BY <3>2, <4>2, FS_Singleton DEF Occurrences
    <3>3. CASE ~Contains(s, c)
      <4>1. S = {}
        BY <3>1, <3>3 DEF Contains
      <4> QED
        BY <3>3, <4>1, FS_EmptySet DEF Occurrences
    <3> QED
      BY <3>2, <3>3
  <2>6. ASSUME NEW c \in Cell
        PROVE  Cardinality({t \in Thread : hand[t] = c}) = IF c \in InHand THEN 1 ELSE 0
    <3> DEFINE S == {t \in Thread : hand[t] = c}
    <3>1. CASE c \in InHand
      <4>1. PICK t \in Thread : hand[t] = c
        BY <3>1 DEF InHand
      <4>2. S = {t}
        BY <2>1, <4>1, CellNotNull DEF MqHands
      <4> QED
        BY <3>1, <4>2, FS_Singleton
    <3>2. CASE c \notin InHand
      <4>1. S = {}
        BY <3>2 DEF InHand
      <4> QED
        BY <3>2, <4>1, FS_EmptySet
    <3> QED
      BY <3>1, <3>2
  <2>7. ASSUME NEW c \in Cell
        PROVE  Occurrences(ms, c) + Occurrences(fs, c)
                 + Cardinality({t \in Thread : hand[t] = c}) = 1
    <3>1. /\ Occurrences(ms, c) = IF Contains(ms, c) THEN 1 ELSE 0
          /\ Occurrences(fs, c) = IF Contains(fs, c) THEN 1 ELSE 0
      BY <2>3, <2>5
    <3>2. /\ Contains(ms, c) \/ Contains(fs, c) \/ c \in InHand
          /\ ~(Contains(ms, c) /\ Contains(fs, c))
          /\ ~(Contains(ms, c) /\ c \in InHand)
          /\ ~(Contains(fs, c) /\ c \in InHand)
      BY <2>3 DEF Split
    <3>3. Cardinality({t \in Thread : hand[t] = c}) = IF c \in InHand THEN 1 ELSE 0
      BY <2>6
    <3> QED
      BY <3>1, <3>2, <3>3
  <2>8. mq.tail = IF ms = << >> THEN Null ELSE Last(ms)
    BY <2>3 DEF LastOf, Last
  <2> QED
    BY <2>3, <2>4, <2>7, <2>8 DEF MqCellsExact
<1> QED
  BY <1>1, MqCarefulInvariant, PTL

(* An application that detaches a queue only when the waits on it have no  *)
(* time limit and no other call is under way has rt_ipc_list_resume_all    *)
(* wake waiters and nothing else.                                          *)
THEOREM MqFlushSafe ==
    ASSUME CarefulFlush
    PROVE  MqSpec => []FlushWakesWaiters
<1>1. MqCareful => FlushWakesWaiters
  BY DEF MqCareful, FlushInv, FlushWakesWaiters
<1> QED
  BY <1>1, MqCarefulInvariant, PTL

(* No receiver is left waiting for a message that is there: whoever waits, *)
(* each message has a woken receiver coming for it.                        *)
THEOREM MqNobodyWaits ==
    ASSUME CarefulFlush
    PROVE  MqSpec => []MqNobodyStuck
<1>1. MqBase /\ MqCareful => MqNobodyStuck
  <2> SUFFICES ASSUME MqBase, MqCareful PROVE MqNobodyStuck
    OBVIOUS
  <2>1. KernelOK(k)
    BY DEF MqBase, IpcInv
  <2>2. k.wait["mq"] # << >> => \E u \in Thread : Blocked("mq", u)
    BY <2>1, TheMqQueue, NobodyWaits DEF Blocked
  <2> QED
    BY <2>2 DEF MqCareful, MqBalanced, MqNobodyStuck
<1> QED
  BY <1>1, MqInvariant, MqCarefulInvariant, PTL

(* The message queue is a bounded first-in first-out queue with urgent     *)
(* messages at the head: each message is put in once, with the contents    *)
(* its sender filled in between the two sections, and copied out unchanged *)
(* by one receiver, whatever runs between the sections; no step but a      *)
(* reset, or the creation of a new queue, throws messages away.            *)
THEOREM MqRefinesFifo ==
    ASSUME CarefulFlush
    PROVE  MqSpec => MqImplementsFifo
<1>1. IpcInit /\ MqInit => MqFifo!Init
  <2> SUFFICES ASSUME IpcInit, MqInit PROVE MqFifo!Init
    OBVIOUS
  <2>1. /\ Contents(mq) = << >> /\ MqOffers = [t \in Thread |-> << None, FALSE >>]
        /\ MqTakes = [t \in Thread |-> None]
    BY MqCellsInit
  <2> QED
    BY <2>1 DEF MqFifo!Init, MqFifo!NoOffer, Contents, MqOffers, MqTakes, OfferAt, TakeAt
<1>2. MqBase /\ MqCareful /\ [MqNext]_<<ipcVars, mqVars>> => [MqFifo!Next]_MqFifo!fifoVars
  BY MqCarefulStep, MqFifoSteps
<1>3. MqBase /\ MqCareful /\ [MqNext]_<<ipcVars, mqVars>> => (MqFifo!Clear => MqThrows)
  BY MqCarefulStep, MqFifoThrows DEF MqCareful
<1>4. MqSpec => MqFifo!Spec
  BY <1>1, <1>2, MqInvariant, MqCarefulInvariant, PTL DEF MqSpec, MqFifo!Spec
<1>5. MqSpec => [][MqFifo!Clear => MqThrows]_<<ipcVars, mqVars>>
  BY <1>3, MqInvariant, MqCarefulInvariant, PTL DEF MqSpec
<1> QED
  BY <1>4, <1>5 DEF MqImplementsFifo, MqThrows
=============================================================================
