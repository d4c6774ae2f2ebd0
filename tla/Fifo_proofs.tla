----------------------------- MODULE Fifo_proofs -----------------------------
(***************************************************************************)
(* Facts about bounded sequences on which the proofs about the thread pool *)
(* and its queues rest.                                                    *)
(***************************************************************************)
EXTENDS Fifo, TLAPS

\* What popFront leaves of a queue without duplicates: all but its front.
LEMMA TailHolds ==
  ASSUME NEW S, NEW q \in Seq(S), q # <<>>
  PROVE  /\ Head(q) \in S
         /\ Tail(q) \in Seq(S)
         /\ Len(Tail(q)) = Len(q) - 1
         /\ Holds(q, Head(q))
         /\ \A e : Holds(q, e) => e = Head(q) \/ Holds(Tail(q), e)
         /\ \A e : Holds(Tail(q), e) => Holds(q, e)
         /\ Distinct(q) => Distinct(Tail(q)) /\ ~Holds(Tail(q), Head(q))
<1>1. /\ Len(q) \in Nat /\ Len(q) >= 1
      /\ Head(q) = q[1]
      /\ Head(q) \in S
      /\ Tail(q) \in Seq(S)
      /\ Len(Tail(q)) = Len(q) - 1
      /\ DOMAIN q = 1 .. Len(q)
      /\ DOMAIN Tail(q) = 1 .. Len(q) - 1
  OBVIOUS
<1>2. \A i \in 1 .. Len(q) - 1 : Tail(q)[i] = q[i + 1]
  OBVIOUS
<1>3. Holds(q, Head(q))
  BY <1>1 DEF Holds
<1>4. ASSUME NEW e, Holds(q, e), e # Head(q) PROVE Holds(Tail(q), e)
  <2>1. PICK i \in 1 .. Len(q) : q[i] = e
    BY <1>1, <1>4 DEF Holds
  <2>2. i # 1
    BY <2>1, <1>1, <1>4
  <2>3. i - 1 \in 1 .. Len(q) - 1 /\ (i - 1) + 1 = i
    BY <1>1, <2>2
  <2>4. Tail(q)[i - 1] = e
    BY <1>2, <2>1, <2>3
  <2> QED BY <2>3, <2>4, <1>1, Zenon DEF Holds
<1>5. ASSUME NEW e, Holds(Tail(q), e) PROVE Holds(q, e)
  <2>1. PICK i \in 1 .. Len(q) - 1 : Tail(q)[i] = e
    BY <1>1, <1>5 DEF Holds
  <2>2. i + 1 \in 1 .. Len(q) /\ q[i + 1] = e
    BY <1>1, <1>2, <2>1
  <2> QED BY <2>2, <1>1 DEF Holds
<1>6. ASSUME Distinct(q)
      PROVE  Distinct(Tail(q)) /\ ~Holds(Tail(q), Head(q))
  <2>1. \A i \in 1 .. Len(q) - 1 : i + 1 \in DOMAIN q /\ Tail(q)[i] = q[i + 1]
    BY <1>1, <1>2
  <2>2. \A i, j \in 1 .. Len(q) - 1 : i + 1 = j + 1 => i = j
    BY <1>1
  <2>3. Distinct(Tail(q))
    BY <2>1, <2>2, <1>1, <1>6 DEF Distinct
  <2>4. \A i \in 1 .. Len(q) - 1 : i + 1 # 1
    BY <1>1
  <2>5. 1 \in DOMAIN q
    BY <1>1
  <2>6. ~Holds(Tail(q), Head(q))
    BY <2>1, <2>4, <2>5, <1>1, <1>6 DEF Distinct, Holds
  <2> QED BY <2>3, <2>6
<1> QED BY <1>1, <1>3, <1>4, <1>5, <1>6

\* What one more element at the back makes of a queue.
LEMMA AppendHolds ==
  ASSUME NEW S, NEW q \in Seq(S), NEW x \in S
  PROVE  /\ Append(q, x) \in Seq(S)
         /\ Len(Append(q, x)) = Len(q) + 1
         /\ Append(q, x) # <<>>
         /\ \A e : Holds(Append(q, x), e) <=> e = x \/ Holds(q, e)
         /\ Distinct(q) /\ ~Holds(q, x) => Distinct(Append(q, x))
<1> DEFINE r == Append(q, x)
<1>1. /\ Len(q) \in Nat
      /\ r \in Seq(S)
      /\ Len(r) = Len(q) + 1
      /\ DOMAIN q = 1 .. Len(q)
      /\ DOMAIN r = 1 .. Len(q) + 1
      /\ \A i \in 1 .. Len(q) : r[i] = q[i]
      /\ r[Len(q) + 1] = x
  OBVIOUS
<1>2. r # <<>>
  BY <1>1
<1> HIDE DEF r
<1>3. \A i \in 1 .. Len(q) + 1 : i \in 1 .. Len(q) \/ i = Len(q) + 1
  BY <1>1
<1>4. 1 .. Len(q) \subseteq 1 .. Len(q) + 1 /\ Len(q) + 1 \in 1 .. Len(q) + 1
  BY <1>1
<1>5. \A e : Holds(r, e) <=> e = x \/ Holds(q, e)
  BY <1>1, <1>3, <1>4 DEF Holds
<1>6. Distinct(q) /\ ~Holds(q, x) => Distinct(r)
  BY <1>1, <1>3, <1>4 DEF Holds, Distinct
<1> QED BY <1>1, <1>2, <1>5, <1>6 DEF r

\* pushBack keeps a queue of distinct elements within its capacity, gains the
\* new element if there is room at all, and loses at most the front.
LEMMA PushBackHolds ==
  ASSUME NEW S, NEW n \in Nat, NEW q \in Seq(S), NEW x \in S,
         Len(q) <= n, Distinct(q), ~Holds(q, x)
  PROVE  /\ PushBack(q, x, n) \in Seq(S)
         /\ Len(PushBack(q, x, n)) <= n
         /\ Distinct(PushBack(q, x, n))
         /\ n # 0 => PushBack(q, x, n) # <<>>
         /\ \A e : Holds(PushBack(q, x, n), e) <=>
              /\ n # 0
              /\ e = x \/ Holds(q, e)
              /\ ~(IsFull(q, n) /\ e = Head(q))
<1>1. CASE n = 0
  <2>1. PushBack(q, x, n) = q /\ Len(q) = 0 /\ DOMAIN q = {}
    BY <1>1 DEF PushBack
  <2>2. \A e : ~Holds(q, e)
    BY <2>1 DEF Holds
  <2> QED BY <1>1, <2>1, <2>2
<1>2. CASE n # 0 /\ ~IsFull(q, n)
  <2>1. PushBack(q, x, n) = Append(q, x) /\ Len(q) + 1 <= n
    BY <1>2 DEF PushBack, IsFull
  <2> QED BY <1>2, <2>1, AppendHolds
<1>3. CASE n # 0 /\ IsFull(q, n)
  <2>1. /\ q # <<>>
        /\ PushBack(q, x, n) = Append(Tail(q), x)
        /\ Len(q) = n
    BY <1>3 DEF PushBack, IsFull
  <2>2. /\ Tail(q) \in Seq(S) /\ Len(Tail(q)) = Len(q) - 1
        /\ Distinct(Tail(q)) /\ ~Holds(Tail(q), Head(q)) /\ Holds(q, Head(q))
        /\ \A e : Holds(q, e) => e = Head(q) \/ Holds(Tail(q), e)
        /\ \A e : Holds(Tail(q), e) => Holds(q, e)
    BY <2>1, TailHolds
  <2>3. /\ Append(Tail(q), x) \in Seq(S)
        /\ Len(Append(Tail(q), x)) = Len(Tail(q)) + 1
        /\ Append(Tail(q), x) # <<>>
        /\ \A e : Holds(Append(Tail(q), x), e) <=> e = x \/ Holds(Tail(q), e)
        /\ Distinct(Append(Tail(q), x))
    BY <2>2, AppendHolds
  <2>4. Len(Append(Tail(q), x)) <= n
    BY <2>1, <2>2, <2>3
  <2>5. \A e : Holds(PushBack(q, x, n), e) <=>
              /\ n # 0
              /\ e = x \/ Holds(q, e)
              /\ ~(IsFull(q, n) /\ e = Head(q))
    BY <1>3, <2>1, <2>2, <2>3
  <2> QED BY <2>1, <2>3, <2>4, <2>5
<1> QED BY <1>1, <1>2, <1>3

=============================================================================
