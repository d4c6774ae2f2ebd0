------------------------- MODULE CircularQueue_proofs -------------------------
(***************************************************************************)
(* Theorems about CircularQueue, for every number of queues, every         *)
(* capacity and element, and every width of std::size_t.                   *)
(***************************************************************************)
EXTENDS CircularQueue, SequenceTheorems, TLAPS

\* The typing of the variables.  A queue without room (moved from, default
\* constructed, or asked for more than a size_t counts) has both pointers at 0,
\* and the vector of one with room has every slot.
IInv ==
  /\ capacity \in [Queues -> 0 .. MaxSlots]
  /\ overrun_count \in [Queues -> 0 .. SizeMod - 1]
  /\ head \in [Queues -> Nat]
  /\ end \in [Queues -> Nat]
  /\ elems \in [Queues -> {elems[q] : q \in Queues}]
  /\ \A q \in Queues :
       /\ head[q] < capacity[q] \/ head[q] = 0
       /\ end[q] < capacity[q] \/ end[q] = 0
       /\ \/ elems[q] \in [Slot(capacity[q]) -> Value]
          \/ capacity[q] = 1 /\ elems[q] = NoSlots

-----------------------------------------------------------------------------
\* A pointer that is moved by less than once round the ring wraps at most once.
LEMMA Wraps ==
  ASSUME NEW c \in Nat, c > 0, NEW x \in Nat, x < 2 * c
  PROVE  /\ x % c = IF x < c THEN x ELSE x - c
         /\ x % c \in 0 .. c - 1
OBVIOUS

\* The elements between two pointers of a ring of c slots, how many they are,
\* and the slot of each; Items(q) and Size(q) in terms of the members of q.
Ring(c, h, e, f) ==
  IF c <= 1 THEN <<>> ELSE [i \in 1 .. (e + c - h) % c |-> f[(h + i - 1) % c]]
Length(c, h, e) == IF h <= e THEN e - h ELSE c - h + e
Pos(c, h, i) == IF h + i - 1 < c THEN h + i - 1 ELSE h + i - 1 - c

\* Pointers and slots of a queue that has room
IsRing(c, h, e, f) ==
  /\ c \in Nat /\ c > 1
  /\ h \in 0 .. c - 1 /\ e \in 0 .. c - 1
  /\ f \in [0 .. c - 1 -> Value]

\* The sequence s has the elements of the ring.
IsItems(s, c, h, e, f) ==
  /\ s \in Seq(Value) /\ Len(s) = Length(c, h, e)
  /\ \A i \in 1 .. Length(c, h, e) : s[i] = f[Pos(c, h, i)]

\* g is f after x was written to slot j.
Written(f, g, c, j, x) ==
  \A i \in 0 .. c - 1 : g[i] = IF i = j THEN x ELSE f[i]

\* Between the pointers lies a sequence that leaves the slot at end_ free.
LEMMA RingSlots ==
  ASSUME NEW c, NEW h, NEW e, NEW f, IsRing(c, h, e, f)
  PROVE  /\ Length(c, h, e) \in 0 .. c - 1
         /\ \A i \in 1 .. Length(c, h, e) : Pos(c, h, i) \in 0 .. c - 1 /\ Pos(c, h, i) # e
BY DEF IsRing, Length, Pos

\* The elements that Items reads off the slots are a sequence of values, and each
\* lies where the pointers say.
LEMMA RingItems ==
  ASSUME NEW c, NEW h, NEW e, NEW f, IsRing(c, h, e, f)
  PROVE  IsItems(Ring(c, h, e, f), c, h, e, f)
<1> DEFINE n == Length(c, h, e)
           r == [i \in 1 .. n |-> f[Pos(c, h, i)]]
<1>1. /\ n \in 0 .. c - 1
      /\ \A i \in 1 .. n : Pos(c, h, i) \in 0 .. c - 1
  BY RingSlots
<1>2. (e + c - h) % c = n
  <2>1. e + c - h \in Nat /\ e + c - h < 2 * c /\ c \in Nat /\ c > 0
    BY DEF IsRing
  <2> QED BY <2>1, Wraps DEF IsRing, Length
<1>3. \A i \in 1 .. n : (h + i - 1) % c = Pos(c, h, i)
  <2> SUFFICES ASSUME NEW i \in 1 .. n PROVE (h + i - 1) % c = Pos(c, h, i)
    OBVIOUS
  <2> DEFINE x == h + i - 1
  <2>1. x \in Nat /\ x < 2 * c /\ c \in Nat /\ c > 0
    BY <1>1 DEF IsRing
  <2> HIDE DEF x
  <2>2. x % c = IF x < c THEN x ELSE x - c
    BY <2>1, Wraps
  <2>3. h \in Int /\ i \in Int /\ c \in Int
    BY <1>1 DEF IsRing
  <2>4. Pos(c, h, i) = IF x < c THEN x ELSE x - c
    BY <2>3 DEF x, Pos
  <2> QED BY <2>2, <2>4 DEF x
<1>4. Ring(c, h, e, f) = [i \in 1 .. n |-> f[(h + i - 1) % c]]
  BY <1>2 DEF Ring, IsRing
<1>5. Ring(c, h, e, f) = r
  BY <1>3, <1>4
<1>6. \A i \in 1 .. n : f[Pos(c, h, i)] \in Value
  BY <1>1 DEF IsRing
<1> HIDE DEF n
<1>7. r \in Seq(Value) /\ Len(r) = n /\ \A i \in 1 .. n : r[i] = f[Pos(c, h, i)]
  BY <1>1, <1>6
<1> QED BY <1>5, <1>7 DEF n, IsItems

\* popFront moves one pointer: what is left is the tail.
LEMMA RingPops ==
  ASSUME NEW c, NEW h, NEW e, NEW f, NEW k,
         IsRing(c, h, e, f), IsRing(c, k, e, f), h # e, k = (h + 1) % c
  PROVE  /\ Ring(c, h, e, f) # <<>>
         /\ Ring(c, k, e, f) = Tail(Ring(c, h, e, f))
<1> DEFINE n == Length(c, h, e)
           r == Ring(c, h, e, f)
           t == Ring(c, k, e, f)
<1>1. /\ c \in Nat /\ h \in 0 .. c - 1 /\ e \in 0 .. c - 1 /\ k \in 0 .. c - 1
      /\ k = IF h + 1 < c THEN h + 1 ELSE h + 1 - c
  BY Wraps DEF IsRing
<1>2. n \in Nat /\ n # 0 /\ n < c /\ Length(c, k, e) = n - 1
  BY <1>1 DEF Length
<1>3. \A i \in 1 .. n - 1 : i + 1 \in 1 .. n /\ Pos(c, k, i) = Pos(c, h, i + 1)
  BY <1>1, <1>2 DEF Pos
<1>4. r \in Seq(Value) /\ Len(r) = n /\ \A i \in 1 .. n : r[i] = f[Pos(c, h, i)]
  BY RingItems DEF IsItems
<1>5. t \in Seq(Value) /\ Len(t) = n - 1 /\ \A i \in 1 .. n - 1 : t[i] = f[Pos(c, k, i)]
  BY <1>2, RingItems DEF IsItems
<1> HIDE DEF n, r, t
<1>6. r # <<>>
  BY <1>2, <1>4
<1>7. /\ Tail(r) \in Seq(Value) /\ Len(Tail(r)) = n - 1
      /\ \A i \in 1 .. n - 1 : Tail(r)[i] = r[i + 1]
  BY <1>4, <1>6, HeadTailProperties
<1>8. \A i \in 1 .. n - 1 : t[i] = Tail(r)[i]
  BY <1>3, <1>4, <1>5, <1>7
<1>9. t = Tail(r)
  BY <1>5, <1>7, <1>8, SeqEqual
<1> QED BY <1>6, <1>9 DEF r, t

\* pushBack with room to spare writes the free slot at end_ and moves end_.
LEMMA RingAppends ==
  ASSUME NEW c, NEW h, NEW e, NEW f, NEW a, NEW g, NEW x \in Value,
         IsRing(c, h, e, f), IsRing(c, h, a, g), Written(f, g, c, e, x),
         a = (e + 1) % c, a # h
  PROVE  /\ Length(c, h, e) < c - 1
         /\ Ring(c, h, a, g) = Append(Ring(c, h, e, f), x)
<1> DEFINE n == Length(c, h, e)
           r == Ring(c, h, e, f)
           u == Ring(c, h, a, g)
<1>1. /\ c \in Nat /\ h \in 0 .. c - 1 /\ e \in 0 .. c - 1 /\ a \in 0 .. c - 1
      /\ a = IF e + 1 < c THEN e + 1 ELSE e + 1 - c
  BY Wraps DEF IsRing
<1>2. n \in Nat /\ n < c - 1 /\ Length(c, h, a) = n + 1 /\ Pos(c, h, n + 1) = e
  BY <1>1 DEF Length, Pos
<1>3. \A i \in 1 .. n : Pos(c, h, i) \in 0 .. c - 1 /\ Pos(c, h, i) # e
  BY RingSlots
<1>4. r \in Seq(Value) /\ Len(r) = n /\ \A i \in 1 .. n : r[i] = f[Pos(c, h, i)]
  BY RingItems DEF IsItems
<1>5. u \in Seq(Value) /\ Len(u) = n + 1 /\ \A i \in 1 .. n + 1 : u[i] = g[Pos(c, h, i)]
  BY <1>2, RingItems DEF IsItems
<1> HIDE DEF n, r, u
<1>6. /\ Append(r, x) \in Seq(Value) /\ Len(Append(r, x)) = n + 1
      /\ \A i \in 1 .. n : Append(r, x)[i] = r[i]
      /\ Append(r, x)[n + 1] = x
  BY <1>4, AppendProperties
<1>7. \A i \in 1 .. n : u[i] = Append(r, x)[i]
  <2> SUFFICES ASSUME NEW i \in 1 .. n PROVE u[i] = Append(r, x)[i]
    OBVIOUS
  <2>1. u[i] = g[Pos(c, h, i)] /\ Append(r, x)[i] = f[Pos(c, h, i)]
    BY <1>2, <1>4, <1>5, <1>6
  <2> QED BY <2>1, <1>3 DEF Written
<1>8. u[n + 1] = x
  BY <1>1, <1>2, <1>5 DEF Written
<1>9. \A i \in 1 .. n + 1 : u[i] = Append(r, x)[i]
  <2> SUFFICES ASSUME NEW i \in 1 .. n + 1 PROVE u[i] = Append(r, x)[i]
    OBVIOUS
  <2>1. i = n + 1 \/ i \in 1 .. n
    BY <1>2
  <2> QED BY <2>1, <1>6, <1>7, <1>8
<1>10. u = Append(r, x)
  BY <1>5, <1>6, <1>9, SeqEqual
<1> QED BY <1>2, <1>10 DEF n, r, u

\* pushBack to a full ring moves head_ too, and the free slot with it: what
\* stays of the elements is the tail, with the new one behind it.
LEMMA RingOverruns ==
  ASSUME NEW c, NEW h, NEW e, NEW f, NEW k, NEW g, NEW x \in Value,
         IsRing(c, h, e, f), IsRing(c, k, e, f), IsRing(c, k, h, g), Written(f, g, c, e, x),
         h = (e + 1) % c, k = (h + 1) % c
  PROVE  /\ Length(c, h, e) = c - 1
         /\ Ring(c, h, e, f) # <<>>
         /\ Ring(c, k, h, g) = Append(Tail(Ring(c, h, e, f)), x)
<1>1. /\ c \in Nat /\ c > 1 /\ h \in 0 .. c - 1 /\ e \in 0 .. c - 1 /\ k \in 0 .. c - 1
      /\ h = IF e + 1 < c THEN e + 1 ELSE e + 1 - c
      /\ k = IF h + 1 < c THEN h + 1 ELSE h + 1 - c
  BY Wraps DEF IsRing
<1>2. h # e /\ h # k /\ Length(c, h, e) = c - 1
  BY <1>1 DEF Length
<1>3. Ring(c, h, e, f) # <<>> /\ Ring(c, k, e, f) = Tail(Ring(c, h, e, f))
  BY <1>2, RingPops
<1>4. Ring(c, k, h, g) = Append(Ring(c, k, e, f), x)
  BY <1>2, RingAppends
<1> QED BY <1>2, <1>3, <1>4

\* A write through at(i) reaches the element i, and no other.
LEMMA RingAssigns ==
  ASSUME NEW c, NEW h, NEW e, NEW f, NEW g, NEW x \in Value, NEW i \in Nat,
         IsRing(c, h, e, f), IsRing(c, h, e, g), i < Length(c, h, e),
         Written(f, g, c, Pos(c, h, i + 1), x)
  PROVE  /\ i + 1 \in DOMAIN Ring(c, h, e, f)
         /\ Ring(c, h, e, g) = [Ring(c, h, e, f) EXCEPT ![i + 1] = x]
<1> DEFINE n == Length(c, h, e)
           r == Ring(c, h, e, f)
           u == Ring(c, h, e, g)
<1>1. n \in Nat /\ i + 1 \in 1 .. n
  BY DEF IsRing, Length
<1>2. \A j \in 1 .. n : /\ Pos(c, h, j) \in 0 .. c - 1
                        /\ Pos(c, h, j) = Pos(c, h, i + 1) => j = i + 1
  BY <1>1 DEF Pos, IsRing, Length
<1>3. r \in Seq(Value) /\ Len(r) = n /\ \A j \in 1 .. n : r[j] = f[Pos(c, h, j)]
  BY RingItems DEF IsItems
<1>4. u \in Seq(Value) /\ Len(u) = n /\ \A j \in 1 .. n : u[j] = g[Pos(c, h, j)]
  BY RingItems DEF IsItems
<1> HIDE DEF n, r, u
<1> DEFINE v == [r EXCEPT ![i + 1] = x]
<1>5. /\ v \in Seq(Value) /\ Len(v) = n
      /\ \A j \in 1 .. n : v[j] = IF j = i + 1 THEN x ELSE r[j]
  BY <1>1, <1>3, ExceptSeq
<1>6. \A j \in 1 .. n : u[j] = IF j = i + 1 THEN x ELSE r[j]
  <2> SUFFICES ASSUME NEW j \in 1 .. n PROVE u[j] = IF j = i + 1 THEN x ELSE r[j]
    OBVIOUS
  <2>1. u[j] = g[Pos(c, h, j)] /\ r[j] = f[Pos(c, h, j)]
    BY <1>3, <1>4
  <2>2. CASE j = i + 1
    BY <2>1, <2>2, <1>2 DEF Written
  <2>3. CASE j # i + 1
    BY <2>1, <2>3, <1>2 DEF Written
  <2> QED BY <2>2, <2>3
<1> HIDE DEF v
<1>7. u = v
  BY <1>4, <1>5, <1>6, SeqEqual
<1>8. i + 1 \in DOMAIN r
  BY <1>1, <1>3
<1> QED BY <1>7, <1>8 DEF r, u, v

\* The ring of a queue with room; a queue without has no elements.
LEMMA RingOf ==
  ASSUME IInv, NEW q \in Queues
  PROVE  /\ capacity[q] > 1 => IsRing(capacity[q], head[q], end[q], elems[q])
         /\ ~(capacity[q] > 1) => head[q] = 0 /\ end[q] = 0
         /\ Items(q) = Ring(capacity[q], head[q], end[q], elems[q])
         /\ Size(q) = Length(capacity[q], head[q], end[q])
<1>1. /\ capacity[q] \in Nat /\ head[q] \in Nat /\ end[q] \in Nat
      /\ head[q] < capacity[q] \/ head[q] = 0
      /\ end[q] < capacity[q] \/ end[q] = 0
      /\ elems[q] \in [Slot(capacity[q]) -> Value] \/ capacity[q] = 1
  BY RingAssumption DEF IInv
<1>2. Items(q) = Ring(capacity[q], head[q], end[q], elems[q])
  BY DEF Items, Ring
<1> QED BY <1>1, <1>2 DEF IsRing, Slot, Size, Length

\* The sum that at(i) takes is below the width of a size_t, so that its slot is
\* the one behind head_, round the ring.
LEMMA Indexed ==
  ASSUME IInv, NEW q \in Queues, NEW i \in Slot(Size(q))
  PROVE  /\ i \in Nat /\ i < Length(capacity[q], head[q], end[q])
         /\ capacity[q] > 1
         /\ Index(q, i) = Pos(capacity[q], head[q], i + 1)
         /\ Index(q, i) \in Slot(capacity[q])
<1> DEFINE c == capacity[q]
           h == head[q]
           n == Length(c, h, end[q])
<1>1. i \in 0 .. n - 1
  BY RingOf DEF Slot
<1>2. capacity[q] > 1
  BY <1>1, RingOf DEF Length
<1>3. IsRing(c, h, end[q], elems[q])
  BY <1>2, RingOf
<1>4. c \in Nat /\ c > 1 /\ c <= MaxSlots
  BY <1>2, RingAssumption DEF IInv
<1>5. MaxSlots \in Nat /\ SizeMod \in Nat /\ 2 * MaxSlots <= SizeMod
  BY RingAssumption
<1>6. n \in 0 .. c - 1 /\ h \in 0 .. c - 1
  BY <1>3, RingSlots DEF IsRing
<1> DEFINE x == h + i
<1>7. x \in Nat /\ x < 2 * c /\ x < SizeMod /\ i \in Nat /\ i < n
  BY <1>1, <1>4, <1>5, <1>6
<1>8. Pos(c, h, i + 1) = IF x < c THEN x ELSE x - c
  BY <1>4, <1>6, <1>7 DEF Pos
<1>9. Index(q, i) = (x % SizeMod) % c
  BY DEF Index
<1> HIDE DEF c, h, n, x
<1>10. x % SizeMod = x
  BY <1>5, <1>7
<1>11. x % c = IF x < c THEN x ELSE x - c
  BY <1>4, <1>7, Wraps
<1>12. x % c \in Slot(c)
  BY <1>4, <1>7, Wraps DEF Slot
<1> QED BY <1>2, <1>7, <1>8, <1>9, <1>10, <1>11, <1>12 DEF c, h, n

\* A write to one slot leaves the others.
LEMMA ElemsWritten ==
  ASSUME IInv, NEW q \in Queues, capacity[q] > 1,
         NEW i \in Slot(capacity[q]), NEW e \in Value,
         elems' = [elems EXCEPT ![q][i] = e]
  PROVE  /\ elems' \in [Queues -> {elems'[r] : r \in Queues}]
         /\ elems[q] \in [Slot(capacity[q]) -> Value]
         /\ elems'[q] \in [Slot(capacity[q]) -> Value]
         /\ \A j \in Slot(capacity[q]) : elems'[q][j] = IF j = i THEN e ELSE elems[q][j]
         /\ \A r \in Queues : r # q => elems'[r] = elems[r]
<1>1. /\ elems \in [Queues -> {elems[r] : r \in Queues}]
      /\ capacity[q] # 1
      /\ elems[q] \in [Slot(capacity[q]) -> Value]
  BY DEF IInv
<1>2. /\ DOMAIN elems = Queues
      /\ DOMAIN elems[q] = Slot(capacity[q])
      /\ elems' = [r \in Queues |-> IF r = q THEN [elems[q] EXCEPT ![i] = e] ELSE elems[r]]
  BY <1>1
<1>3. /\ elems'[q] = [elems[q] EXCEPT ![i] = e]
      /\ \A r \in Queues : r # q => elems'[r] = elems[r]
      /\ elems' \in [Queues -> {elems'[r] : r \in Queues}]
  BY <1>2
<1> QED BY <1>1, <1>3

\* The variables keep their types, and the pointers stay in the vector.
LEMMA InvStep == IInv /\ [Next]_vars => IInv'
<1> SUFFICES ASSUME IInv, [Next]_vars PROVE IInv'
  OBVIOUS
<1> USE RingAssumption
<1>1. /\ MaxSlots \in Nat /\ SizeMod \in Nat
      /\ \A q \in Queues : /\ capacity[q] \in Nat /\ capacity[q] <= MaxSlots
                           /\ head[q] \in Nat /\ end[q] \in Nat
                           /\ head[q] < capacity[q] \/ head[q] = 0
                           /\ end[q] < capacity[q] \/ end[q] = 0
      /\ 0 \in 0 .. SizeMod - 1
      /\ \A n \in 0 .. SizeMod - 1 : (n + 1) % SizeMod \in 0 .. SizeMod - 1
  BY DEF IInv
<1>2. ASSUME NEW q \in Queues, NEW e \in Value, PushBack(q, e) PROVE IInv'
  <2>0. capacity[q] > 1
    BY <1>2 DEF PushBack
  <2>1. /\ end[q] \in Slot(capacity[q])
        /\ head[q] < capacity[q] /\ end[q] < capacity[q]
    BY <1>1, <2>0 DEF Slot
  <2>2. /\ (end[q] + 1) % capacity[q] \in 0 .. capacity[q] - 1
        /\ (head[q] + 1) % capacity[q] \in 0 .. capacity[q] - 1
    BY <1>1, <2>0, <2>1, Wraps
  <2>3. /\ elems' \in [Queues -> {elems'[r] : r \in Queues}]
        /\ elems'[q] \in [Slot(capacity[q]) -> Value]
        /\ \A r \in Queues : r # q => elems'[r] = elems[r]
    BY <1>2, <2>0, <2>1, ElemsWritten DEF PushBack
  <2>4. /\ capacity' = capacity
        /\ end' \in [Queues -> Nat] /\ end'[q] < capacity[q]
        /\ \A r \in Queues : r # q => end'[r] = end[r]
    BY <1>1, <1>2, <2>2 DEF IInv, PushBack
  <2>5. /\ head' \in [Queues -> Nat] /\ head'[q] < capacity[q]
        /\ \A r \in Queues : r # q => head'[r] = head[r]
        /\ overrun_count' \in [Queues -> 0 .. SizeMod - 1]
    BY <1>1, <1>2, <2>1, <2>2 DEF IInv, PushBack
  <2> QED BY <2>3, <2>4, <2>5 DEF IInv
<1>3. ASSUME NEW q \in Queues, PopFront(q) PROVE IInv'
  <2>1. capacity[q] > 1 /\ head[q] < capacity[q] /\ head[q] \in Nat
    BY <1>1, <1>3 DEF IInv, PopFront, Empty
  <2>2. (head[q] + 1) % capacity[q] \in 0 .. capacity[q] - 1
    BY <1>1, <2>1, Wraps
  <2> QED BY <1>1, <1>3, <2>2 DEF IInv, PopFront
<1>4. ASSUME NEW q \in Queues, NEW e \in Value, NEW i \in Slot(Size(q)), Assign(q, i, e)
      PROVE  IInv'
  <2>1. capacity[q] > 1 /\ Index(q, i) \in Slot(capacity[q])
    BY Indexed
  <2>2. /\ elems' \in [Queues -> {elems'[r] : r \in Queues}]
        /\ elems'[q] \in [Slot(capacity[q]) -> Value]
        /\ \A r \in Queues : r # q => elems'[r] = elems[r]
    BY <1>4, <2>1, ElemsWritten DEF Assign
  <2> QED BY <1>4, <2>2 DEF IInv, Assign
<1>5. ASSUME NEW q \in Queues, Clear(q) PROVE IInv'
  BY <1>1, <1>5 DEF IInv, Clear
<1>6. ASSUME NEW q \in Queues, ResetCounter(q) PROVE IInv'
  BY <1>1, <1>6 DEF IInv, ResetCounter
<1>7. ASSUME NEW q \in Queues, NEW r \in Queues, Move(q, r) PROVE IInv'
  <2>1. \A p \in Queues :
          /\ capacity'[p] = IF p = r THEN 1 ELSE IF p = q THEN capacity[r] ELSE capacity[p]
          /\ head'[p] = IF p = r THEN 0 ELSE IF p = q THEN head[r] ELSE head[p]
          /\ end'[p] = IF p = r THEN 0 ELSE IF p = q THEN end[r] ELSE end[p]
          /\ elems'[p] = IF p = r THEN NoSlots ELSE IF p = q THEN elems[r] ELSE elems[p]
    BY <1>7 DEF IInv, Move
  <2>2. /\ DOMAIN elems' = Queues
        /\ capacity' \in [Queues -> 0 .. MaxSlots]
        /\ head' \in [Queues -> Nat] /\ end' \in [Queues -> Nat]
        /\ overrun_count' \in [Queues -> 0 .. SizeMod - 1]
    BY <1>1, <1>7 DEF IInv, Move
  <2>3. elems' \in [Queues -> {elems'[p] : p \in Queues}]
    BY <1>7 DEF Move, IInv
  <2>4. \A p \in Queues :
          /\ head'[p] < capacity'[p] \/ head'[p] = 0
          /\ end'[p] < capacity'[p] \/ end'[p] = 0
          /\ \/ elems'[p] \in [Slot(capacity'[p]) -> Value]
             \/ capacity'[p] = 1 /\ elems'[p] = NoSlots
    BY <2>1 DEF IInv
  <2> QED BY <2>2, <2>3, <2>4 DEF IInv
<1>8. CASE UNCHANGED vars
  BY <1>8 DEF IInv, vars
<1> QED BY <1>2, <1>3, <1>4, <1>5, <1>6, <1>7, <1>8 DEF Next

\* A queue that was just constructed is a ring, or has no slots.
LEMMA InvInit == Init => IInv
<1> SUFFICES ASSUME Init PROVE IInv
  OBVIOUS
<1>1. \A n \in Requests : Slots(n) \in Nat
  BY RingAssumption DEF Slots
<1>2. /\ capacity \in [Queues -> {0} \cup {Slots(n) : n \in Requests}]
      /\ \A q \in Queues : capacity[q] <= MaxSlots
  BY DEF Init
<1>3. \A q \in Queues : capacity[q] \in 0 .. MaxSlots
  <2> TAKE q \in Queues
  <2>1. capacity[q] = 0 \/ \E n \in Requests : capacity[q] = Slots(n)
    BY <1>2
  <2>2. capacity[q] \in Nat /\ capacity[q] <= MaxSlots /\ MaxSlots \in Nat
    BY <2>1, <1>1, <1>2, RingAssumption
  <2> QED BY <2>2
<1>4. capacity \in [Queues -> 0 .. MaxSlots]
  BY <1>2, <1>3
<1>5. \A q \in Queues : elems[q] = [i \in Slot(capacity[q]) |-> NoElement]
  BY DEF Init
<1>6. \A q \in Queues : elems[q] \in [Slot(capacity[q]) -> Value]
  BY <1>5 DEF Value
<1>7. elems \in [Queues -> {elems[q] : q \in Queues}]
  BY DEF Init
<1>8. 0 \in 0 .. SizeMod - 1
  BY RingAssumption
<1>9. /\ head \in [Queues -> Nat] /\ end \in [Queues -> Nat]
      /\ overrun_count \in [Queues -> 0 .. SizeMod - 1]
      /\ \A q \in Queues : head[q] = 0 /\ end[q] = 0
  BY <1>8 DEF Init
<1> QED BY <1>4, <1>6, <1>7, <1>9 DEF IInv

\* The inductive invariant holds in every reachable state, whatever the sizes asked
\* for and in whatever order queues are used, cleared, moved and assigned.
THEOREM Invariance == Spec => []IInv
<1> QED BY InvInit, InvStep, PTL DEF Spec

\* No operation reaches past the vector: the pointers of a ring are slots of it,
\* also when the ring was moved from, or asked for more room than a size_t
\* counts.
THEOREM Typing == Spec => []TypeOK
<1>1. IInv => TypeOK
  <2> SUFFICES ASSUME IInv, NEW q \in Queues
               PROVE  /\ head[q] \in Slot(capacity[q]) \cup {0}
                      /\ end[q] \in Slot(capacity[q]) \cup {0}
                      /\ \/ DOMAIN elems[q] = Slot(capacity[q])
                         \/ capacity[q] = 1 /\ elems[q] = NoSlots
                      /\ \A i \in DOMAIN elems[q] : elems[q][i] \in Value
    BY DEF IInv, TypeOK
  <2>0. /\ capacity[q] \in 0 .. MaxSlots /\ head[q] \in Nat /\ end[q] \in Nat
        /\ head[q] < capacity[q] \/ head[q] = 0
        /\ end[q] < capacity[q] \/ end[q] = 0
    BY DEF IInv
  <2>1. /\ head[q] \in Slot(capacity[q]) \cup {0}
        /\ end[q] \in Slot(capacity[q]) \cup {0}
    BY <2>0 DEF Slot
  <2>2. elems[q] \in [Slot(capacity[q]) -> Value] \/ (capacity[q] = 1 /\ elems[q] = NoSlots)
    BY DEF IInv
  <2>3. \A i \in DOMAIN NoSlots : NoSlots[i] \in Value
    BY DEF NoSlots, Slot
  <2> QED BY <2>1, <2>2, <2>3
<1> QED BY <1>1, Invariance, PTL

-----------------------------------------------------------------------------
\* size(), empty(), full() and at() agree with the elements: the wrap of the
\* pointers, the spare slot and the width of a size_t do not show.
THEOREM ViewsTellTheTruth == Spec => []ViewsAgree
<1>1. IInv => ViewsAgree
  <2> SUFFICES ASSUME IInv, NEW q \in Queues
               PROVE  /\ Size(q) = Len(Items(q))
                      /\ Empty(q) <=> Items(q) = <<>>
                      /\ Full(q) <=> Abs!IsFull(Items(q), Capacity(q))
                      /\ \A i \in Slot(Size(q)) : At(q, i) = Items(q)[i + 1]
    BY DEF ViewsAgree
  <2> DEFINE c == capacity[q]
             h == head[q]
             e == end[q]
  <2>1. CASE ~(c > 1)
    <3>1. h = 0 /\ e = 0 /\ Size(q) = 0
      BY <2>1, RingOf DEF Length
    <3>2. Items(q) = <<>>
      BY <2>1, RingAssumption DEF Items, IInv
    <3>3. ~Full(q) /\ Capacity(q) = 0
      BY <2>1 DEF Full, Capacity
    <3>4. Empty(q)
      BY <3>1 DEF Empty
    <3>5. Slot(Size(q)) = {}
      BY <3>1 DEF Slot
    <3> QED BY <3>1, <3>2, <3>3, <3>4, <3>5 DEF Abs!IsFull
  <2>2. CASE c > 1
    <3>1. /\ IsRing(c, h, e, elems[q])
          /\ Items(q) = Ring(c, h, e, elems[q])
          /\ Size(q) = Length(c, h, e)
      BY <2>2, RingOf
    <3>2. IsItems(Items(q), c, h, e, elems[q])
      BY <3>1, RingItems
    <3>3. /\ Items(q) \in Seq(Value) /\ Len(Items(q)) = Size(q)
          /\ \A i \in 1 .. Size(q) : Items(q)[i] = elems[q][Pos(c, h, i)]
      BY <3>1, <3>2 DEF IsItems
    <3>4. c \in Nat /\ h \in 0 .. c - 1 /\ e \in 0 .. c - 1
      BY <3>1 DEF IsRing
    <3>5. Empty(q) <=> Size(q) = 0
      BY <3>1, <3>4 DEF Empty, Length
    <3>6. (e + 1) % c = IF e + 1 < c THEN e + 1 ELSE e + 1 - c
      BY <2>2, <3>4, Wraps
    <3>7. Full(q) <=> Size(q) = c - 1
      BY <2>2, <3>1, <3>4, <3>6 DEF Full, Length
    <3>8. Abs!IsFull(Items(q), Capacity(q)) <=> Len(Items(q)) = c - 1
      BY <2>2, <3>4 DEF Abs!IsFull, Capacity
    <3>9. ASSUME NEW i \in Slot(Size(q)) PROVE At(q, i) = Items(q)[i + 1]
      <4>1. Index(q, i) = Pos(c, h, i + 1) /\ i + 1 \in 1 .. Size(q)
        <5>1. /\ i \in Nat /\ i < Length(c, h, e)
              /\ Index(q, i) = Pos(c, h, i + 1)
          BY Indexed
        <5>2. Length(c, h, e) \in Nat
          BY <3>4 DEF Length
        <5> QED BY <3>1, <5>1, <5>2
      <4> QED BY <4>1, <3>3 DEF At
    <3>10. Items(q) = <<>> <=> Len(Items(q)) = 0
      BY <3>3
    <3> QED BY <3>3, <3>5, <3>7, <3>8, <3>9, <3>10
  <2> QED BY <2>1, <2>2
<1> QED BY <1>1, Invariance, PTL

-----------------------------------------------------------------------------
(***************************************************************************)
(* The ring implements the bounded queue.                                  *)
(***************************************************************************)

\* The variables of BoundedFifo
AllItems == [q \in Queues |-> Items(q)]
Rooms == [q \in Queues |-> Capacity(q)]

\* A call on q changes the elements of q alone.
LEMMA OnlyItemsOf ==
  ASSUME NEW q \in Queues, NEW v, Items(q)' = v,
         \A r \in Queues : r # q => Items(r)' = Items(r)
  PROVE  AllItems' = [AllItems EXCEPT ![q] = v]
BY DEF AllItems

\* The elements of a queue depend on its own members.
LEMMA SameItems ==
  ASSUME NEW r, capacity'[r] = capacity[r], head'[r] = head[r],
         end'[r] = end[r], elems'[r] = elems[r]
  PROVE  Items(r)' = Items(r)
BY DEF Items

\* pushBack adds at the end of the sequence, and drops its head when it was full:
\* that is when end_ has come round to head_.
LEMMA PushRefines ==
  ASSUME IInv, IInv', NEW q \in Queues, NEW x \in Value, PushBack(q, x)
  PROVE  Abs!Push(q, x)
<1> DEFINE c == capacity[q]
           h == head[q]
           e == end[q]
           a == (e + 1) % c
           f == elems[q]
           g == elems'[q]
<1>1. c > 1 /\ capacity' = capacity
  BY DEF PushBack
<1>2. IsRing(c, h, e, f) /\ Items(q) = Ring(c, h, e, f)
  BY <1>1, RingOf
<1>3. c \in Nat /\ h \in Slot(c) /\ e \in Slot(c)
  BY <1>2 DEF IsRing, Slot
<1>4. /\ g \in [Slot(c) -> Value] /\ Written(f, g, c, e, x)
      /\ \A r \in Queues : r # q => elems'[r] = elems[r]
  BY <1>1, <1>3, ElemsWritten DEF PushBack, Written, Slot
<1>5. a \in Slot(c) /\ (h + 1) % c \in Slot(c)
  BY <1>1, <1>3, Wraps DEF Slot
<1>6. /\ DOMAIN head = Queues /\ DOMAIN end = Queues /\ DOMAIN overrun_count = Queues
  BY DEF IInv
<1>7. end'[q] = a /\ \A r \in Queues : r # q => end'[r] = end[r]
  BY <1>6 DEF PushBack
<1>8. \A r \in Queues : r # q => head'[r] = head[r]
  BY <1>6 DEF PushBack
<1>9. \A r \in Queues : r # q => Items(r)' = Items(r)
  BY <1>1, <1>4, <1>7, <1>8, SameItems
<1>10. Items(q)' = Ring(c, head'[q], a, g)
  BY <1>1, <1>7 DEF Items, Ring
<1>11. Rooms' = Rooms /\ Rooms[q] = c - 1 /\ AllItems[q] = Items(q)
  BY <1>1 DEF Rooms, AllItems, Capacity
<1>12. Len(Items(q)) = Length(c, h, e)
  BY <1>2, RingItems DEF IsItems
<1>13. Abs!IsFull(Items(q), c - 1) <=> Length(c, h, e) = c - 1
  BY <1>1, <1>3, <1>12 DEF Abs!IsFull
<1>14. CASE a # h
  <2>1. head' = head /\ overrun_count' = overrun_count
    BY <1>14 DEF PushBack
  <2>2. IsRing(c, h, a, g)
    BY <1>1, <1>3, <1>4, <1>5 DEF IsRing, Slot
  <2> HIDE DEF a, c, h, e, f, g
  <2>3. /\ Length(c, h, e) < c - 1
        /\ Ring(c, h, a, g) = Append(Ring(c, h, e, f), x)
    BY <1>2, <1>4, <1>14, <2>2, RingAppends DEF a
  <2>4. Length(c, h, e) # c - 1 /\ c - 1 # 0
    BY <1>1, <1>2, <2>3, RingSlots DEF IsRing
  <2>5. Items(q)' = Abs!PushBack(Items(q), x, c - 1)
    BY <1>2, <1>10, <1>13, <2>1, <2>3, <2>4 DEF h, Abs!PushBack
  <2>6. AllItems' = [AllItems EXCEPT ![q] = Abs!PushBack(Items(q), x, c - 1)]
    BY <1>9, <2>5, OnlyItemsOf
  <2> QED BY <1>11, <1>13, <2>1, <2>4, <2>6 DEF Abs!Push, AllItems, Rooms
<1>15. CASE a = h
  <2> DEFINE k == (h + 1) % c
  <2>1. head'[q] = k /\ overrun_count' = [overrun_count EXCEPT ![q] = (@ + 1) % SizeMod]
    BY <1>6, <1>15 DEF PushBack
  <2>2. IsRing(c, k, e, f) /\ IsRing(c, k, h, g)
    BY <1>1, <1>2, <1>3, <1>4, <1>5 DEF IsRing, Slot
  <2> HIDE DEF a, c, h, e, f, g, k
  <2>3. /\ Length(c, h, e) = c - 1
        /\ Ring(c, k, h, g) = Append(Tail(Ring(c, h, e, f)), x)
    BY <1>2, <1>4, <1>15, <2>2, RingOverruns DEF a, k
  <2>4. c - 1 # 0
    BY <1>1, <1>3
  <2>5. Items(q)' = Abs!PushBack(Items(q), x, c - 1)
    BY <1>2, <1>10, <1>13, <1>15, <2>1, <2>3, <2>4 DEF Abs!PushBack
  <2>6. AllItems' = [AllItems EXCEPT ![q] = Abs!PushBack(Items(q), x, c - 1)]
    BY <1>9, <2>5, OnlyItemsOf
  <2> QED BY <1>11, <1>13, <2>1, <2>3, <2>6 DEF Abs!Push, AllItems, Rooms
<1> QED BY <1>14, <1>15

\* popFront takes the head of the sequence: the other elements keep their slots.
LEMMA PopRefines ==
  ASSUME IInv, IInv', NEW q \in Queues, PopFront(q)
  PROVE  Abs!Pop(q)
<1> DEFINE c == capacity[q]
           h == head[q]
           e == end[q]
           f == elems[q]
           k == (h + 1) % c
<1>1. h # e /\ capacity' = capacity /\ end' = end /\ elems' = elems
      /\ overrun_count' = overrun_count
  BY DEF PopFront, Empty
<1>2. c > 1
  BY <1>1, RingOf
<1>3. IsRing(c, h, e, f) /\ Items(q) = Ring(c, h, e, f)
  BY <1>2, RingOf
<1>4. DOMAIN head = Queues
  BY DEF IInv
<1>5. head'[q] = k /\ \A r \in Queues : r # q => head'[r] = head[r]
  BY <1>4 DEF PopFront
<1>6. \A r \in Queues : r # q => Items(r)' = Items(r)
  BY <1>1, <1>5, SameItems
<1>7. IsRing(c, k, e, f)
  <2>1. h \in Nat /\ h < c /\ c \in Nat
    BY <1>3 DEF IsRing
  <2>2. k \in 0 .. c - 1
    BY <1>2, <2>1, Wraps
  <2> QED BY <1>3, <2>2 DEF IsRing
<1>8. Items(q)' = Ring(c, k, e, f)
  BY <1>1, <1>5 DEF Items, Ring
<1> HIDE DEF c, h, e, f, k
<1>9. Items(q) # <<>> /\ Items(q)' = Tail(Items(q))
  BY <1>1, <1>3, <1>7, <1>8, RingPops DEF h, e, k
<1>10. AllItems' = [AllItems EXCEPT ![q] = Tail(Items(q))]
  BY <1>6, <1>9, OnlyItemsOf
<1>11. Rooms' = Rooms
  BY <1>1 DEF Rooms, Capacity
<1> QED BY <1>1, <1>9, <1>10, <1>11 DEF Abs!Pop, AllItems, Rooms

\* Writing through at or [] replaces one element of the sequence, the one that
\* was asked for.
LEMMA AssignRefines ==
  ASSUME IInv, IInv', NEW q \in Queues, NEW x \in Value,
         NEW i \in Slot(Size(q)), Assign(q, i, x)
  PROVE  /\ Abs!Assign(q, i + 1, x)
         /\ i + 1 \in DOMAIN Items(q)
<1> DEFINE c == capacity[q]
           h == head[q]
           e == end[q]
           f == elems[q]
           g == elems'[q]
<1>1. /\ i \in Nat /\ i < Length(c, h, e) /\ c > 1
      /\ Index(q, i) = Pos(c, h, i + 1) /\ Index(q, i) \in Slot(c)
  BY Indexed
<1>2. IsRing(c, h, e, f) /\ Items(q) = Ring(c, h, e, f)
  BY <1>1, RingOf
<1>3. /\ elems' = [elems EXCEPT ![q][Index(q, i)] = x]
      /\ capacity' = capacity /\ head' = head /\ end' = end
      /\ overrun_count' = overrun_count
  BY DEF Assign
<1>4. /\ g \in [Slot(c) -> Value] /\ Written(f, g, c, Pos(c, h, i + 1), x)
      /\ \A r \in Queues : r # q => elems'[r] = elems[r]
  BY <1>1, <1>3, ElemsWritten DEF Written, Slot
<1>5. \A r \in Queues : r # q => Items(r)' = Items(r)
  BY <1>3, <1>4, SameItems
<1>6. Items(q)' = Ring(c, h, e, g)
  BY <1>3 DEF Items, Ring
<1>7. IsRing(c, h, e, g)
  BY <1>2, <1>4 DEF IsRing, Slot
<1> HIDE DEF c, h, e, f, g
<1>8. i + 1 \in DOMAIN Items(q) /\ Items(q)' = [Items(q) EXCEPT ![i + 1] = x]
  BY <1>1, <1>2, <1>4, <1>6, <1>7, RingAssigns
<1>9. AllItems' = [AllItems EXCEPT ![q] = [Items(q) EXCEPT ![i + 1] = x]]
  BY <1>5, <1>8, OnlyItemsOf
<1>10. AllItems' = [AllItems EXCEPT ![q][i + 1] = x]
  BY <1>9 DEF AllItems
<1>11. Rooms' = Rooms
  BY <1>3 DEF Rooms, Capacity
<1> QED BY <1>3, <1>8, <1>10, <1>11 DEF Abs!Assign, AllItems, Rooms

\* The pointers are equal again.
LEMMA ClearRefines ==
  ASSUME IInv, IInv', NEW q \in Queues, Clear(q)
  PROVE  Abs!Clear(q)
<1>1. /\ capacity' = capacity /\ elems' = elems
      /\ overrun_count' = [overrun_count EXCEPT ![q] = 0]
      /\ head'[q] = 0 /\ end'[q] = 0
      /\ \A r \in Queues : r # q => head'[r] = head[r] /\ end'[r] = end[r]
  BY DEF IInv, Clear
<1>2. \A r \in Queues : r # q => Items(r)' = Items(r)
  BY <1>1, SameItems
<1>3. Items(q)' = Ring(capacity[q], 0, 0, elems[q])
  BY <1>1 DEF Items, Ring
<1>4. Ring(capacity[q], 0, 0, elems[q]) = <<>>
  <2>1. capacity[q] \in Nat
    BY RingAssumption DEF IInv
  <2>2. CASE capacity[q] <= 1
    BY <2>2 DEF Ring
  <2>3. CASE capacity[q] > 1
    <3>1. IsRing(capacity[q], 0, 0, elems[q])
      BY <2>1, <2>3, RingOf DEF IsRing
    <3>2. IsItems(Ring(capacity[q], 0, 0, elems[q]), capacity[q], 0, 0, elems[q])
      BY <3>1, RingItems
    <3> QED BY <3>2 DEF IsItems, Length
  <2> QED BY <2>1, <2>2, <2>3
<1>5. AllItems' = [AllItems EXCEPT ![q] = <<>>]
  BY <1>2, <1>3, <1>4, OnlyItemsOf
<1>6. Rooms' = Rooms
  BY <1>1 DEF Rooms, Capacity
<1> QED BY <1>1, <1>5, <1>6 DEF Abs!Clear, AllItems, Rooms

\* A move hands over the ring as it stands.
LEMMA MoveRefines ==
  ASSUME IInv, IInv', NEW q \in Queues, NEW r \in Queues, Move(q, r)
  PROVE  Abs!Move(q, r)
<1>1. /\ q # r
      /\ overrun_count' = [overrun_count EXCEPT ![q] = overrun_count[r]]
      /\ capacity'[q] = capacity[r] /\ head'[q] = head[r]
      /\ end'[q] = end[r] /\ elems'[q] = elems[r]
      /\ capacity'[r] = 1
  BY DEF IInv, Move
<1>2. \A p \in Queues : p # q /\ p # r =>
        /\ capacity'[p] = capacity[p] /\ head'[p] = head[p]
        /\ end'[p] = end[p] /\ elems'[p] = elems[p]
  BY DEF IInv, Move
<1>3. \A p \in Queues : p # q /\ p # r => Items(p)' = Items(p) /\ Capacity(p)' = Capacity(p)
  BY <1>2, SameItems DEF Capacity
<1>4. Items(q)' = Items(r) /\ Capacity(q)' = Capacity(r)
  BY <1>1 DEF Items, Capacity
<1>5. Items(r)' = <<>> /\ Capacity(r)' = 0
  BY <1>1 DEF Items, Capacity
<1>6. AllItems' = [AllItems EXCEPT ![q] = Items(r), ![r] = <<>>]
  BY <1>1, <1>3, <1>4, <1>5 DEF AllItems
<1>7. Rooms' = [Rooms EXCEPT ![q] = Capacity(r), ![r] = 0]
  BY <1>1, <1>3, <1>4, <1>5 DEF Rooms
<1> QED BY <1>1, <1>6, <1>7 DEF Abs!Move, AllItems, Rooms

\* A queue is constructed with the room it was asked for; the largest request
\* gets none, and neither does a queue that was default constructed.
LEMMA Rooming ==
  ASSUME Init, NEW q \in Queues
  PROVE  Capacity(q) \in {0} \cup (Requests \ {SizeMod - 1})
<1>1. CASE capacity[q] = 0
  BY <1>1 DEF Capacity
<1>2. CASE \E n \in Requests : capacity[q] = Slots(n)
  <2>1. PICK n \in Requests : capacity[q] = Slots(n)
    BY <1>2
  <2>2. SizeMod \in Nat \ {0, 1} /\ n \in 0 .. SizeMod - 1
    BY RingAssumption
  <2>3. CASE n = 0
    BY <2>1, <2>3 DEF Slots, Capacity
  <2>4. CASE n = SizeMod - 1 /\ n > 0
    <3>1. (n + 1) % SizeMod = 0
      BY <2>2, <2>4
    <3> QED BY <2>1, <2>4, <3>1 DEF Slots, Capacity
  <2>5. CASE n > 0 /\ n < SizeMod - 1
    <3>1. (n + 1) % SizeMod = n + 1
      BY <2>2, <2>5
    <3>2. Capacity(q) = n
      BY <2>1, <2>2, <2>5, <3>1 DEF Slots, Capacity
    <3> QED BY <2>2, <2>5, <3>2
  <2> QED BY <2>2, <2>3, <2>4, <2>5
<1> QED BY <1>1, <1>2 DEF Init

\* Every operation on the ring does to the elements what the bounded queue of
\* BoundedFifo does, and nothing else: whichever way the pointers went round,
\* and whichever queue the ring was moved from.
THEOREM RingImplementsFifo == Spec => RingIsFifo
<1>1. Init => Abs!Init
  <2> SUFFICES ASSUME Init PROVE Abs!Init
    OBVIOUS
  <2>1. IInv
    BY InvInit
  <2> DEFINE Sizes == {0} \cup (Requests \ {SizeMod - 1})
  <2>2. ASSUME NEW q \in Queues PROVE Items(q) = <<>> /\ Capacity(q) \in Sizes
    <3>1. /\ capacity[q] \in Nat /\ capacity[q] <= MaxSlots
          /\ head[q] = 0 /\ end[q] = 0
      BY <2>1, RingAssumption DEF IInv, Init
    <3>2. MaxSlots \in Nat /\ SizeMod \in Nat /\ 2 * MaxSlots <= SizeMod /\ MaxSlots # 0
      BY RingAssumption
    <3>3. Capacity(q) \in Sizes
      BY Rooming
    <3>4. Size(q) = 0
      BY <3>1 DEF Size
    <3>5. CASE capacity[q] <= 1
      BY <3>3, <3>5 DEF Items
    <3>6. CASE capacity[q] > 1
      <4>1. /\ IsRing(capacity[q], 0, 0, elems[q])
            /\ Items(q) = Ring(capacity[q], 0, 0, elems[q])
        BY <2>1, <3>1, <3>6, RingOf
      <4>2. IsItems(Items(q), capacity[q], 0, 0, elems[q])
        BY <4>1, RingItems
      <4> QED BY <3>3, <4>2 DEF IsItems, Length
    <3> QED BY <3>1, <3>5, <3>6
  <2>3. /\ AllItems = [q \in Queues |-> <<>>]
        /\ Rooms \in [Queues -> Sizes]
    BY <2>2 DEF AllItems, Rooms
  <2> QED BY <2>3 DEF Init, Abs!Init, AllItems, Rooms
<1>2. IInv /\ IInv' /\ [Next]_vars => [Abs!Next]_Abs!vars
  <2> SUFFICES ASSUME IInv, IInv', [Next]_vars PROVE [Abs!Next]_Abs!vars
    OBVIOUS
  <2>1. ASSUME NEW q \in Queues, NEW x \in Value, PushBack(q, x) PROVE Abs!Next
    BY <2>1, PushRefines DEF Abs!Next, Value
  <2>2. ASSUME NEW q \in Queues, PopFront(q) PROVE Abs!Next
    BY <2>2, PopRefines DEF Abs!Next
  <2>3. ASSUME NEW q \in Queues, NEW x \in Value, NEW i \in Slot(Size(q)), Assign(q, i, x)
        PROVE  Abs!Next
    <3>1. Abs!Assign(q, i + 1, x) /\ i + 1 \in DOMAIN AllItems[q]
      BY <2>3, AssignRefines DEF AllItems
    <3> QED BY <3>1 DEF Abs!Next, Value, AllItems
  <2>4. ASSUME NEW q \in Queues, Clear(q) PROVE Abs!Next
    BY <2>4, ClearRefines DEF Abs!Next
  <2>5. ASSUME NEW q \in Queues, ResetCounter(q) PROVE Abs!Next
    <3>1. Abs!ResetCounter(q)
      BY <2>5, SameItems DEF ResetCounter, Abs!ResetCounter, Capacity
    <3> QED BY <3>1 DEF Abs!Next
  <2>6. ASSUME NEW q \in Queues, NEW r \in Queues, Move(q, r) PROVE Abs!Next
    BY <2>6, MoveRefines DEF Abs!Next
  <2>7. CASE UNCHANGED vars
    BY <2>7, SameItems DEF vars, Abs!vars, Capacity
  <2> QED BY <2>1, <2>2, <2>3, <2>4, <2>5, <2>6, <2>7 DEF Next
<1> QED BY <1>1, <1>2, Invariance, PTL DEF Spec, RingIsFifo, Abs!Spec

=============================================================================
