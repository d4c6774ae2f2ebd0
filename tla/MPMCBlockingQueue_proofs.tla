----------------------- MODULE MPMCBlockingQueue_proofs -----------------------
(***************************************************************************)
(* Theorems about MPMCBlockingQueue, for every capacity, every set of      *)
(* producers and consumers, finite or not, and every choice of operations. *)
(***************************************************************************)
EXTENDS MPMCBlockingQueue, Fifo_proofs, Counting_proofs

\* An element that is handed over is in the hands of one producer.
OffersOwnElement ==
  /\ \A p \in Producers : pc[p] \in EnqueueOps \cup {"popCv"} =>
       arg[p] \in Elements /\ fate[arg[p]] = "offered"
  /\ \A p, q \in Producers :
       /\ pc[p] \in EnqueueOps \cup {"popCv"}
       /\ pc[q] \in EnqueueOps \cup {"popCv"}
       /\ arg[p] = arg[q]
       => p = q

\* The elements that are lost, and the producers that have still to count one
Overrun == {e \in Elements : fate[e] = "overrun"}
Discarded == {e \in Elements : fate[e] = "discarded"}
Discarding == {p \in Producers : pc[p] = "discard"}

\* The threads that have still to notify, and those that have still to look
Pushed == {p \in Producers : pc[p] = "notifyPush"}
Looking == {c \in Consumers : pc[c] \in DequeueOps \cup {"lastLook"}}
Popped == {c \in Consumers : pc[c] = "notifyPop"}
Entering == {p \in Producers : pc[p] = "enqueue"}

\* However many threads and elements there are, only finitely many have come
\* into play.
FinitelyMany ==
  /\ IsFiniteSet(Overrun) /\ IsFiniteSet(Discarded) /\ IsFiniteSet(Discarding)
  /\ IsFiniteSet(Pushed) /\ IsFiniteSet(Looking)
  /\ IsFiniteSet(Popped) /\ IsFiniteSet(Entering)

\* EveryElementAccounted in these sets: each element is with one producer, stored
\* once, or lost and counted.
Accounted ==
  /\ OffersOwnElement
  /\ Distinct(queue)
  /\ \A e \in Elements : fate[e] = "stored" <=> Holds(queue, e)
  /\ Capacity > 0 => overrun_count = Cardinality(Overrun)
  /\ discard_count + Cardinality(Discarding) = Cardinality(Discarded)

\* ConsumersOwed and ProducersOwed, in these sets
Owed ==
  /\ OnPushCv # {} => Len(queue) <= Cardinality(Pushed) + Cardinality(Looking)
  /\ OnPopCv # {} => Capacity - Len(queue) <= Cardinality(Popped) + Cardinality(Entering)

\* The inductive invariant
IInv == TypeOK /\ FinitelyMany /\ Accounted /\ Owed

-----------------------------------------------------------------------------
\* A producer that goes from one place to another leaves the set of the one
\* and enters that of the other; the consumers stay where they are.
LEMMA ProducerMoves ==
  ASSUME TypeOK, FinitelyMany, NEW p \in Producers, NEW s, Goes(p, s)
  PROVE  /\ IsFiniteSet(Discarding') /\ IsFiniteSet(Pushed') /\ IsFiniteSet(Entering')
         /\ IsFiniteSet(Looking') /\ IsFiniteSet(Popped')
         /\ Cardinality(Discarding) \in Nat /\ Cardinality(Pushed) \in Nat
         /\ Cardinality(Entering) \in Nat /\ Cardinality(Looking) \in Nat
         /\ Cardinality(Popped) \in Nat
         /\ Cardinality(Discarding') =
              Cardinality(Discarding) + One(s = "discard") - One(pc[p] = "discard")
         /\ Cardinality(Pushed') =
              Cardinality(Pushed) + One(s = "notifyPush") - One(pc[p] = "notifyPush")
         /\ Cardinality(Entering') =
              Cardinality(Entering) + One(s = "enqueue") - One(pc[p] = "enqueue")
         /\ Cardinality(Looking') = Cardinality(Looking)
         /\ Cardinality(Popped') = Cardinality(Popped)
         /\ OnPushCv' = OnPushCv
         /\ OnPopCv' # {} => OnPopCv # {} \/ s = "popCv"
<1> USE QueueAssumption
<1>1. \A u \in Threads : pc'[u] = IF u = p THEN s ELSE pc[u]
  BY DEF TypeOK, Goes
<1>2. /\ p \in Discarding' <=> s = "discard"
      /\ p \in Pushed' <=> s = "notifyPush"
      /\ p \in Entering' <=> s = "enqueue"
      /\ p \in Discarding <=> pc[p] = "discard"
      /\ p \in Pushed <=> pc[p] = "notifyPush"
      /\ p \in Entering <=> pc[p] = "enqueue"
  BY <1>1 DEF Discarding, Pushed, Entering, Threads
<1>3. \A u : u # p => /\ u \in Discarding <=> u \in Discarding'
                      /\ u \in Pushed <=> u \in Pushed'
                      /\ u \in Entering <=> u \in Entering'
  BY <1>1 DEF Discarding, Pushed, Entering, Threads
<1>4. \A u : /\ u \in Looking <=> u \in Looking'
             /\ u \in Popped <=> u \in Popped'
             /\ u \in OnPushCv <=> u \in OnPushCv'
  BY <1>1 DEF Looking, Popped, OnPushCv, Threads
<1>5. /\ IsFiniteSet(Discarding') /\ Cardinality(Discarding) \in Nat
      /\ Cardinality(Discarding') =
           Cardinality(Discarding) + One(s = "discard") - One(pc[p] = "discard")
  BY <1>2, <1>3, CountMoves DEF FinitelyMany
<1>6. /\ IsFiniteSet(Pushed') /\ Cardinality(Pushed) \in Nat
      /\ Cardinality(Pushed') =
           Cardinality(Pushed) + One(s = "notifyPush") - One(pc[p] = "notifyPush")
  BY <1>2, <1>3, CountMoves DEF FinitelyMany
<1>7. /\ IsFiniteSet(Entering') /\ Cardinality(Entering) \in Nat
      /\ Cardinality(Entering') =
           Cardinality(Entering) + One(s = "enqueue") - One(pc[p] = "enqueue")
  BY <1>2, <1>3, CountMoves DEF FinitelyMany
<1>8. /\ IsFiniteSet(Looking') /\ Cardinality(Looking) \in Nat
      /\ Cardinality(Looking') = Cardinality(Looking)
      /\ IsFiniteSet(Popped') /\ Cardinality(Popped) \in Nat
      /\ Cardinality(Popped') = Cardinality(Popped)
  BY <1>4, CountStays DEF FinitelyMany
<1>9. OnPushCv' = OnPushCv
  BY <1>4
<1>10. OnPopCv' # {} => OnPopCv # {} \/ s = "popCv"
  BY <1>1 DEF OnPopCv, Threads
<1> QED BY <1>5, <1>6, <1>7, <1>8, <1>9, <1>10

\* The same for a consumer.
LEMMA ConsumerMoves ==
  ASSUME TypeOK, FinitelyMany, NEW c \in Consumers, NEW s, Goes(c, s)
  PROVE  /\ IsFiniteSet(Discarding') /\ IsFiniteSet(Pushed') /\ IsFiniteSet(Entering')
         /\ IsFiniteSet(Looking') /\ IsFiniteSet(Popped')
         /\ Cardinality(Discarding) \in Nat /\ Cardinality(Pushed) \in Nat
         /\ Cardinality(Entering) \in Nat /\ Cardinality(Looking) \in Nat
         /\ Cardinality(Popped) \in Nat
         /\ Cardinality(Looking') =
              Cardinality(Looking) + One(s \in DequeueOps \cup {"lastLook"})
                                   - One(pc[c] \in DequeueOps \cup {"lastLook"})
         /\ Cardinality(Popped') =
              Cardinality(Popped) + One(s = "notifyPop") - One(pc[c] = "notifyPop")
         /\ Cardinality(Discarding') = Cardinality(Discarding)
         /\ Cardinality(Pushed') = Cardinality(Pushed)
         /\ Cardinality(Entering') = Cardinality(Entering)
         /\ OnPopCv' = OnPopCv
         /\ OnPushCv' # {} => OnPushCv # {} \/ s \in {"pushCv", "pushCvTimed"}
<1> USE QueueAssumption
<1>1. \A u \in Threads : pc'[u] = IF u = c THEN s ELSE pc[u]
  BY DEF TypeOK, Goes
<1>2. /\ c \in Looking' <=> s \in DequeueOps \cup {"lastLook"}
      /\ c \in Popped' <=> s = "notifyPop"
      /\ c \in Looking <=> pc[c] \in DequeueOps \cup {"lastLook"}
      /\ c \in Popped <=> pc[c] = "notifyPop"
  BY <1>1 DEF Looking, Popped, Threads
<1>3. \A u : u # c => /\ u \in Looking <=> u \in Looking'
                      /\ u \in Popped <=> u \in Popped'
  BY <1>1 DEF Looking, Popped, Threads
<1>4. \A u : /\ u \in Discarding <=> u \in Discarding'
             /\ u \in Pushed <=> u \in Pushed'
             /\ u \in Entering <=> u \in Entering'
             /\ u \in OnPopCv <=> u \in OnPopCv'
  BY <1>1 DEF Discarding, Pushed, Entering, OnPopCv, Threads
<1>5. /\ IsFiniteSet(Looking') /\ Cardinality(Looking) \in Nat
      /\ Cardinality(Looking') =
           Cardinality(Looking) + One(s \in DequeueOps \cup {"lastLook"})
                                - One(pc[c] \in DequeueOps \cup {"lastLook"})
  BY <1>2, <1>3, CountMoves DEF FinitelyMany
<1>6. /\ IsFiniteSet(Popped') /\ Cardinality(Popped) \in Nat
      /\ Cardinality(Popped') =
           Cardinality(Popped) + One(s = "notifyPop") - One(pc[c] = "notifyPop")
  BY <1>2, <1>3, CountMoves DEF FinitelyMany
<1>7. /\ IsFiniteSet(Discarding') /\ Cardinality(Discarding) \in Nat
      /\ Cardinality(Discarding') = Cardinality(Discarding)
      /\ IsFiniteSet(Pushed') /\ Cardinality(Pushed) \in Nat
      /\ Cardinality(Pushed') = Cardinality(Pushed)
      /\ IsFiniteSet(Entering') /\ Cardinality(Entering) \in Nat
      /\ Cardinality(Entering') = Cardinality(Entering)
  BY <1>4, CountStays DEF FinitelyMany
<1>8. OnPopCv' = OnPopCv
  BY <1>4
<1>9. OnPushCv' # {} => OnPushCv # {} \/ s \in {"pushCv", "pushCvTimed"}
  BY <1>1 DEF OnPushCv, Threads
<1> QED BY <1>5, <1>6, <1>7, <1>8, <1>9

-----------------------------------------------------------------------------
\* A producer that may hand its element over finds it in no other place, and
\* what it does to the queue keeps the account of the elements.
LEMMA PushAccounted ==
  ASSUME TypeOK, FinitelyMany, Accounted, NEW p \in Producers,
         pc[p] \in EnqueueOps, PushElement(p)
  PROVE  /\ queue' \in Seq(Elements) /\ Len(queue') <= Capacity
         /\ Len(queue') = IF Capacity = 0 \/ IsFull(queue, Capacity)
                          THEN Len(queue) ELSE Len(queue) + 1
         /\ overrun_count' \in Nat
         /\ fate' \in [Elements -> Fate]
         /\ IsFiniteSet(Overrun') /\ IsFiniteSet(Discarded')
         /\ OffersOwnElement'
         /\ Distinct(queue')
         /\ \A e \in Elements : fate'[e] = "stored" <=> Holds(queue', e)
         /\ Capacity > 0 => overrun_count' = Cardinality(Overrun')
         /\ Cardinality(Discarded') = Cardinality(Discarded)
<1> DEFINE x == arg[p]
           lost == IF Capacity = 0 THEN {x}
                   ELSE IF IsFull(queue, Capacity) THEN {Head(queue)} ELSE {}
<1> USE QueueAssumption
<1>1. /\ x \in Elements /\ fate[x] = "offered"
      /\ \A q \in Producers : pc[q] \in EnqueueOps \cup {"popCv"} /\ arg[q] = x => q = p
  BY DEF Accounted, OffersOwnElement
<1>2. /\ queue \in Seq(Elements) /\ Len(queue) <= Capacity /\ Len(queue) \in Nat
      /\ Distinct(queue)
      /\ \A e \in Elements : fate[e] = "stored" <=> Holds(queue, e)
      /\ overrun_count \in Nat
      /\ Capacity > 0 => overrun_count = Cardinality(Overrun)
      /\ fate \in [Elements -> Fate]
      /\ pc \in [Threads -> ProducerStep \cup ConsumerStep]
  BY DEF Accounted, TypeOK
<1>3. ~Holds(queue, x)
  BY <1>1, <1>2
<1>4. /\ queue' = PushBack(queue, x, Capacity)
      /\ overrun_count' = Overruns
      /\ fate' = [e \in Elements |-> IF e \in lost THEN "overrun"
                                     ELSE IF e = x THEN "stored" ELSE fate[e]]
      /\ pc' = [pc EXCEPT ![p] = "notifyPush"]
      /\ arg' = arg
  BY DEF PushElement, Goes
<1>5. /\ queue' \in Seq(Elements)
      /\ Len(queue') <= Capacity
      /\ Distinct(queue')
      /\ \A e : Holds(queue', e) <=>
           /\ Capacity # 0
           /\ e = x \/ Holds(queue, e)
           /\ ~(IsFull(queue, Capacity) /\ e = Head(queue))
  BY <1>1, <1>2, <1>3, <1>4, PushBackHolds
<1>6. IsFull(queue, Capacity) =>
        /\ Capacity > 0 /\ Len(queue) = Capacity /\ queue # <<>>
        /\ Head(queue) \in Elements /\ fate[Head(queue)] = "stored"
        /\ Tail(queue) \in Seq(Elements) /\ Len(Tail(queue)) = Len(queue) - 1
  <2> SUFFICES ASSUME IsFull(queue, Capacity)
               PROVE  /\ Capacity > 0 /\ Len(queue) = Capacity /\ queue # <<>>
                      /\ Head(queue) \in Elements /\ fate[Head(queue)] = "stored"
                      /\ Tail(queue) \in Seq(Elements) /\ Len(Tail(queue)) = Len(queue) - 1
    OBVIOUS
  <2>1. Capacity > 0 /\ Len(queue) = Capacity /\ queue # <<>>
    BY <1>2 DEF IsFull
  <2> QED BY <1>2, <2>1, TailHolds
<1>7. Len(queue') = IF Capacity = 0 \/ IsFull(queue, Capacity)
                    THEN Len(queue) ELSE Len(queue) + 1
  <2>1. CASE Capacity = 0
    BY <1>4, <2>1 DEF PushBack
  <2>2. CASE Capacity # 0 /\ IsFull(queue, Capacity)
    BY <1>1, <1>4, <1>6, <2>2, AppendHolds DEF PushBack
  <2>3. CASE Capacity # 0 /\ ~IsFull(queue, Capacity)
    BY <1>1, <1>2, <1>4, <2>3, AppendHolds DEF PushBack
  <2> QED BY <2>1, <2>2, <2>3
<1>8. fate' \in [Elements -> Fate] /\ overrun_count' \in Nat
  BY <1>2, <1>4 DEF Fate, Overruns
<1>9. OffersOwnElement'
  <2>1. \A q \in Producers : pc'[q] \in EnqueueOps \cup {"popCv"} =>
          q # p /\ pc[q] = pc'[q]
    BY <1>2, <1>4 DEF EnqueueOps, Threads
  <2>2. \A q \in Producers : pc'[q] \in EnqueueOps \cup {"popCv"} =>
          arg[q] \in Elements /\ fate[arg[q]] = "offered" /\ arg[q] # x
    BY <1>1, <2>1 DEF Accounted, OffersOwnElement
  <2>3. \A e \in Elements : fate[e] = "offered" /\ e # x => fate'[e] = "offered"
    BY <1>4, <1>6
  <2>4. arg' = arg
    BY <1>4
  <2>5. \A q, r \in Producers :
          /\ pc[q] \in EnqueueOps \cup {"popCv"}
          /\ pc[r] \in EnqueueOps \cup {"popCv"}
          /\ arg[q] = arg[r]
          => q = r
    BY DEF Accounted, OffersOwnElement
  <2> QED BY <2>1, <2>2, <2>3, <2>4, <2>5 DEF OffersOwnElement
<1>10. \A e \in Elements : fate'[e] = "stored" <=> Holds(queue', e)
  <2>1. CASE Capacity = 0
    <3>1. \A e : ~Holds(queue, e)
      BY <1>2, <2>1 DEF Holds
    <3> QED BY <1>2, <1>4, <1>5, <2>1, <3>1
  <2>2. CASE Capacity # 0
    BY <1>1, <1>2, <1>3, <1>4, <1>5, <1>6, <2>2
  <2> QED BY <2>1, <2>2
<1>11. IsFiniteSet(Overrun') /\ (Capacity > 0 => overrun_count' = Cardinality(Overrun'))
  <2>1. CASE Capacity = 0
    <3>1. \A e : e # x => (e \in Overrun <=> e \in Overrun')
      BY <1>4, <2>1 DEF Overrun
    <3> QED BY <2>1, <3>1, CountMoves DEF FinitelyMany
  <2>2. CASE Capacity # 0 /\ IsFull(queue, Capacity)
    <3>1. \A e : e # Head(queue) => (e \in Overrun <=> e \in Overrun')
      BY <1>1, <1>4, <2>2 DEF Overrun
    <3>2. Head(queue) \in Overrun' /\ Head(queue) \notin Overrun
      BY <1>4, <1>6, <2>2 DEF Overrun
    <3>3. IsFiniteSet(Overrun') /\ Cardinality(Overrun') = Cardinality(Overrun) + 1
      BY <3>1, <3>2, CountMoves DEF FinitelyMany, One
    <3> QED BY <1>2, <1>4, <1>6, <2>2, <3>3 DEF Overruns
  <2>3. CASE Capacity # 0 /\ ~IsFull(queue, Capacity)
    <3>1. \A e : e \in Overrun <=> e \in Overrun'
      BY <1>1, <1>4, <2>3 DEF Overrun
    <3>2. IsFiniteSet(Overrun') /\ Cardinality(Overrun') = Cardinality(Overrun)
      BY <3>1, CountStays DEF FinitelyMany
    <3> QED BY <1>2, <1>4, <2>3, <3>2 DEF Overruns
  <2> QED BY <2>1, <2>2, <2>3
<1>12. IsFiniteSet(Discarded') /\ Cardinality(Discarded') = Cardinality(Discarded)
  <2>1. \A e : e \in Discarded <=> e \in Discarded'
    BY <1>1, <1>4, <1>6 DEF Discarded
  <2> QED BY <2>1, CountStays DEF FinitelyMany
<1> QED BY <1>5, <1>7, <1>8, <1>9, <1>10, <1>11, <1>12

-----------------------------------------------------------------------------
\* A pop takes the front, which is in the queue and nowhere else, and leaves
\* the rest as it is.
LEMMA PopAccounted ==
  ASSUME TypeOK, FinitelyMany, Accounted, NEW c \in Consumers, queue # <<>>,
         PopElement(c), UNCHANGED <<overrun_count, arg>>
  PROVE  /\ queue' \in Seq(Elements) /\ Len(queue') = Len(queue) - 1
         /\ Len(queue) \in Nat
         /\ fate' \in [Elements -> Fate]
         /\ IsFiniteSet(Overrun') /\ IsFiniteSet(Discarded')
         /\ OffersOwnElement'
         /\ Distinct(queue')
         /\ \A e \in Elements : fate'[e] = "stored" <=> Holds(queue', e)
         /\ Capacity > 0 => overrun_count' = Cardinality(Overrun')
         /\ Cardinality(Discarded') = Cardinality(Discarded)
<1> USE QueueAssumption
<1>1. /\ queue \in Seq(Elements) /\ Distinct(queue)
      /\ \A e \in Elements : fate[e] = "stored" <=> Holds(queue, e)
      /\ Capacity > 0 => overrun_count = Cardinality(Overrun)
      /\ fate \in [Elements -> Fate]
      /\ pc \in [Threads -> ProducerStep \cup ConsumerStep]
  BY DEF Accounted, TypeOK
<1>2. /\ Head(queue) \in Elements /\ fate[Head(queue)] = "stored"
      /\ Tail(queue) \in Seq(Elements) /\ Len(Tail(queue)) = Len(queue) - 1
      /\ Distinct(Tail(queue)) /\ ~Holds(Tail(queue), Head(queue))
      /\ \A e : e # Head(queue) => (Holds(queue, e) <=> Holds(Tail(queue), e))
  BY <1>1, TailHolds
<1>3. /\ queue' = Tail(queue)
      /\ fate' = [fate EXCEPT ![Head(queue)] = "taken"]
      /\ pc' = [pc EXCEPT ![c] = "notifyPop"]
  BY DEF PopElement, Goes
<1>4. \A e \in Elements : fate'[e] = "stored" <=> Holds(queue', e)
  BY <1>1, <1>2, <1>3
<1>5. fate' \in [Elements -> Fate]
  BY <1>1, <1>3 DEF Fate
<1>6. \A e : (e \in Overrun <=> e \in Overrun') /\ (e \in Discarded <=> e \in Discarded')
  BY <1>1, <1>2, <1>3 DEF Overrun, Discarded
<1>7. /\ IsFiniteSet(Overrun') /\ Cardinality(Overrun') = Cardinality(Overrun)
      /\ IsFiniteSet(Discarded') /\ Cardinality(Discarded') = Cardinality(Discarded)
  BY <1>6, CountStays DEF FinitelyMany
<1>8. OffersOwnElement'
  <2>1. \A q \in Producers : pc'[q] = pc[q]
    BY <1>1, <1>3 DEF Threads
  <2>2. \A e \in Elements : fate[e] = "offered" => fate'[e] = "offered"
    BY <1>1, <1>2, <1>3
  <2> QED BY <2>1, <2>2 DEF Accounted, OffersOwnElement
<1>9. Len(queue) \in Nat
  BY <1>1
<1> QED BY <1>1, <1>2, <1>3, <1>4, <1>5, <1>7, <1>8, <1>9

-----------------------------------------------------------------------------
\* A producer that pushes: into a queue with room, over the oldest element of
\* a full one, or into a queue that holds nothing.
LEMMA PushStep ==
  ASSUME IInv, NEW p \in Producers, pc[p] \in EnqueueOps, PushElement(p),
         UNCHANGED discard_count,
         pc[p] = "enqueue" => ~IsFull(queue, Capacity)
  PROVE  IInv'
<1> USE QueueAssumption
<1>1. TypeOK /\ FinitelyMany /\ Accounted
  BY DEF IInv
<1>2. Goes(p, "notifyPush") /\ arg' = arg
  BY DEF PushElement
<1>3. /\ IsFiniteSet(Discarding') /\ IsFiniteSet(Pushed') /\ IsFiniteSet(Entering')
      /\ IsFiniteSet(Looking') /\ IsFiniteSet(Popped')
      /\ Cardinality(Discarding) \in Nat /\ Cardinality(Pushed) \in Nat
      /\ Cardinality(Entering) \in Nat /\ Cardinality(Looking) \in Nat
      /\ Cardinality(Popped) \in Nat
      /\ Cardinality(Discarding') = Cardinality(Discarding)
      /\ Cardinality(Pushed') = Cardinality(Pushed) + 1
      /\ Cardinality(Entering') = Cardinality(Entering) - One(pc[p] = "enqueue")
      /\ Cardinality(Looking') = Cardinality(Looking)
      /\ Cardinality(Popped') = Cardinality(Popped)
      /\ OnPushCv' = OnPushCv
      /\ OnPopCv' # {} => OnPopCv # {}
  BY <1>1, <1>2, ProducerMoves DEF One, EnqueueOps
<1>4. /\ queue' \in Seq(Elements) /\ Len(queue') <= Capacity
      /\ Len(queue') = IF Capacity = 0 \/ IsFull(queue, Capacity)
                       THEN Len(queue) ELSE Len(queue) + 1
      /\ overrun_count' \in Nat
      /\ fate' \in [Elements -> Fate]
      /\ IsFiniteSet(Overrun') /\ IsFiniteSet(Discarded')
      /\ OffersOwnElement'
      /\ Distinct(queue')
      /\ \A e \in Elements : fate'[e] = "stored" <=> Holds(queue', e)
      /\ Capacity > 0 => overrun_count' = Cardinality(Overrun')
      /\ Cardinality(Discarded') = Cardinality(Discarded)
  BY <1>1, PushAccounted
<1>5. TypeOK'
  BY <1>1, <1>2, <1>4 DEF TypeOK, Goes, Threads, ProducerStep, ConsumerStep
<1>6. FinitelyMany'
  BY <1>3, <1>4 DEF FinitelyMany
<1>7. Accounted'
  BY <1>1, <1>3, <1>4 DEF Accounted
<1>8. Len(queue) \in Nat /\ Len(queue) <= Capacity
  BY <1>1 DEF TypeOK
<1>9. Owed'
  <2>1. CASE Capacity = 0 \/ IsFull(queue, Capacity)
    <3>1. Cardinality(Entering') \in Nat
      BY <1>3, CountPositive
    <3>2. /\ Len(queue') = Len(queue)
          /\ Capacity - Len(queue) <= 0
      BY <1>4, <1>8, <2>1 DEF IsFull
    <3> QED BY <1>3, <1>8, <3>1, <3>2 DEF IInv, Owed
  <2>2. CASE ~(Capacity = 0 \/ IsFull(queue, Capacity))
    <3>1. /\ Len(queue') = Len(queue) + 1
          /\ Cardinality(Entering') >= Cardinality(Entering) - 1
          /\ Cardinality(Entering') \in Nat
      BY <1>3, <1>4, <2>2, CountPositive DEF One
    <3>2. OnPushCv' # {} => Len(queue') <= Cardinality(Pushed') + Cardinality(Looking')
      BY <1>3, <1>8, <3>1 DEF IInv, Owed
    <3>3. Capacity - Len(queue') = (Capacity - Len(queue)) - 1
      BY <1>8, <3>1
    <3>4. OnPopCv # {} =>
            (Capacity - Len(queue)) - 1 <= Cardinality(Popped') + Cardinality(Entering')
      BY <1>3, <1>8, <3>1 DEF IInv, Owed
    <3> QED BY <1>3, <3>2, <3>3, <3>4 DEF Owed
  <2> QED BY <2>1, <2>2
<1> QED BY <1>5, <1>6, <1>7, <1>9 DEF IInv

\* A consumer that takes the front of the queue.
LEMMA PopStep ==
  ASSUME IInv, NEW c \in Consumers, pc[c] \in DequeueOps \cup {"lastLook"},
         queue # <<>>, PopElement(c), UNCHANGED <<overrun_count, discard_count, arg>>
  PROVE  IInv'
<1> USE QueueAssumption
<1>1. TypeOK /\ FinitelyMany /\ Accounted
  BY DEF IInv
<1>2. Goes(c, "notifyPop")
  BY DEF PopElement
<1>3. /\ IsFiniteSet(Discarding') /\ IsFiniteSet(Pushed') /\ IsFiniteSet(Entering')
      /\ IsFiniteSet(Looking') /\ IsFiniteSet(Popped')
      /\ Cardinality(Discarding) \in Nat /\ Cardinality(Pushed) \in Nat
      /\ Cardinality(Entering) \in Nat /\ Cardinality(Looking) \in Nat
      /\ Cardinality(Popped) \in Nat
      /\ Cardinality(Looking') = Cardinality(Looking) - 1
      /\ Cardinality(Popped') = Cardinality(Popped) + 1
      /\ Cardinality(Discarding') = Cardinality(Discarding)
      /\ Cardinality(Pushed') = Cardinality(Pushed)
      /\ Cardinality(Entering') = Cardinality(Entering)
      /\ OnPopCv' = OnPopCv
      /\ OnPushCv' # {} => OnPushCv # {}
  BY <1>1, <1>2, ConsumerMoves DEF One, DequeueOps
<1>4. /\ queue' \in Seq(Elements) /\ Len(queue') = Len(queue) - 1
      /\ Len(queue) \in Nat
      /\ fate' \in [Elements -> Fate]
      /\ IsFiniteSet(Overrun') /\ IsFiniteSet(Discarded')
      /\ OffersOwnElement'
      /\ Distinct(queue')
      /\ \A e \in Elements : fate'[e] = "stored" <=> Holds(queue', e)
      /\ Capacity > 0 => overrun_count' = Cardinality(Overrun')
      /\ Cardinality(Discarded') = Cardinality(Discarded)
  BY <1>1, PopAccounted
<1>5. TypeOK'
  BY <1>1, <1>2, <1>4 DEF TypeOK, Goes, Threads, ProducerStep, ConsumerStep
<1>6. FinitelyMany'
  BY <1>3, <1>4 DEF FinitelyMany
<1>7. Accounted'
  BY <1>1, <1>3, <1>4 DEF Accounted
<1>8. Owed'
  <2>1. Len(queue') = Len(queue) - 1 /\ Len(queue) \in Nat
    BY <1>4
  <2>2. OnPushCv' # {} => Len(queue') <= Cardinality(Pushed') + Cardinality(Looking')
    BY <1>3, <2>1 DEF IInv, Owed
  <2>3. Capacity - Len(queue') = (Capacity - Len(queue)) + 1
    BY <2>1
  <2>4. OnPopCv # {} =>
          (Capacity - Len(queue)) + 1 <= Cardinality(Popped') + Cardinality(Entering')
    BY <1>3, <2>1 DEF IInv, Owed
  <2> QED BY <1>3, <2>2, <2>3, <2>4 DEF Owed
<1> QED BY <1>5, <1>6, <1>7, <1>8 DEF IInv

\* A consumer that finds the queue empty, asks, or runs out of time.  It may
\* fall asleep or give up only while there is nothing for it to take.
LEMMA ConsumerLooksStep ==
  ASSUME IInv, NEW c \in Consumers, NEW s \in ConsumerStep,
         Goes(c, s), UNCHANGED <<queue, overrun_count, discard_count, arg, fate>>,
         pc[c] # "notifyPop", s # "notifyPop",
         queue = <<>> \/ s \in DequeueOps \cup {"lastLook"}
  PROVE  IInv'
<1> USE QueueAssumption
<1>1. TypeOK /\ FinitelyMany /\ Accounted
  BY DEF IInv
<1>2. /\ IsFiniteSet(Discarding') /\ IsFiniteSet(Pushed') /\ IsFiniteSet(Entering')
      /\ IsFiniteSet(Looking') /\ IsFiniteSet(Popped')
      /\ Cardinality(Discarding) \in Nat /\ Cardinality(Pushed) \in Nat
      /\ Cardinality(Entering) \in Nat /\ Cardinality(Looking) \in Nat
      /\ Cardinality(Popped) \in Nat
      /\ Cardinality(Looking') =
           Cardinality(Looking) + One(s \in DequeueOps \cup {"lastLook"})
                                - One(pc[c] \in DequeueOps \cup {"lastLook"})
      /\ Cardinality(Popped') = Cardinality(Popped)
      /\ Cardinality(Discarding') = Cardinality(Discarding)
      /\ Cardinality(Pushed') = Cardinality(Pushed)
      /\ Cardinality(Entering') = Cardinality(Entering)
      /\ OnPopCv' = OnPopCv
      /\ OnPushCv' # {} => OnPushCv # {} \/ s \in {"pushCv", "pushCvTimed"}
  BY <1>1, ConsumerMoves DEF One
<1>3. Len(queue) \in Nat /\ (queue = <<>> => Len(queue) = 0)
  BY <1>1 DEF TypeOK
<1>4. TypeOK'
  BY <1>1 DEF TypeOK, Threads, Goes
<1>5. FinitelyMany'
  BY <1>1, <1>2 DEF FinitelyMany, Overrun, Discarded
<1>6. Accounted'
  <2>1. \A q \in Producers : pc'[q] = pc[q]
    BY <1>1 DEF TypeOK, Threads, Goes
  <2> QED BY <1>1, <1>2, <2>1 DEF Accounted, OffersOwnElement, Discarded, Overrun
<1>7. Owed'
  <2>1. Cardinality(Looking') \in Nat
    BY <1>2, CountPositive
  <2>2. CASE queue = <<>>
    BY <1>2, <1>3, <2>1, <2>2 DEF IInv, Owed
  <2>3. CASE s \in DequeueOps \cup {"lastLook"}
    <3>1. /\ Cardinality(Looking') >= Cardinality(Looking)
          /\ OnPushCv' # {} => OnPushCv # {}
      BY <1>2, <2>3 DEF One, DequeueOps
    <3> QED BY <1>2, <1>3, <2>1, <3>1 DEF IInv, Owed
  <2> QED BY <2>2, <2>3
<1> QED BY <1>4, <1>5, <1>6, <1>7 DEF IInv

-----------------------------------------------------------------------------
\* A producer that takes up an element, gets one refused, falls asleep on a
\* full queue, wakes up or has counted its loss, and does not touch the queue.
LEMMA ProducerWaitsStep ==
  ASSUME IInv, NEW p \in Producers, NEW s \in ProducerStep, Goes(p, s),
         UNCHANGED <<queue, overrun_count>>,
         pc[p] \notin {"notifyPush", "discard"}, s # "notifyPush",
         pc[p] = "enqueue" \/ s = "popCv" => IsFull(queue, Capacity)
  PROVE  /\ Cardinality(Discarding) \in Nat
         /\ IsFiniteSet(Discarding')
         /\ Cardinality(Discarding') = Cardinality(Discarding) + One(s = "discard")
         /\ IsFiniteSet(Pushed') /\ IsFiniteSet(Looking')
         /\ IsFiniteSet(Popped') /\ IsFiniteSet(Entering')
         /\ Owed'
<1> USE QueueAssumption
<1>1. TypeOK /\ FinitelyMany /\ Owed
  BY DEF IInv
<1>2. /\ IsFiniteSet(Discarding') /\ IsFiniteSet(Pushed') /\ IsFiniteSet(Entering')
      /\ IsFiniteSet(Looking') /\ IsFiniteSet(Popped')
      /\ Cardinality(Discarding) \in Nat /\ Cardinality(Pushed) \in Nat
      /\ Cardinality(Entering) \in Nat /\ Cardinality(Looking) \in Nat
      /\ Cardinality(Popped) \in Nat
      /\ Cardinality(Discarding') = Cardinality(Discarding) + One(s = "discard")
      /\ Cardinality(Pushed') = Cardinality(Pushed)
      /\ Cardinality(Entering') =
           Cardinality(Entering) + One(s = "enqueue") - One(pc[p] = "enqueue")
      /\ Cardinality(Looking') = Cardinality(Looking)
      /\ Cardinality(Popped') = Cardinality(Popped)
      /\ OnPushCv' = OnPushCv
      /\ OnPopCv' # {} => OnPopCv # {} \/ s = "popCv"
  BY <1>1, ProducerMoves DEF One
<1>3. Cardinality(Entering') \in Nat
  BY <1>2, CountPositive
<1>4. Len(queue) \in Nat /\ Len(queue) <= Capacity
  BY <1>1 DEF TypeOK
<1>5. Owed'
  <2>1. CASE IsFull(queue, Capacity)
    BY <1>1, <1>2, <1>3, <1>4, <2>1 DEF Owed, IsFull
  <2>2. CASE pc[p] # "enqueue" /\ s # "popCv"
    BY <1>1, <1>2, <1>3, <1>4, <2>2 DEF Owed, One
  <2> QED BY <2>1, <2>2
<1> QED BY <1>2, <1>5

\* An offer takes an element that nobody had.
LEMMA OfferStep ==
  ASSUME IInv, NEW p \in Producers, NEW e \in Elements, Offer(p, e) PROVE IInv'
<1> USE QueueAssumption
<1>1. TypeOK /\ FinitelyMany /\ Accounted
  BY DEF IInv
<1>2. PICK op \in Pushes : Goes(p, op)
  BY DEF Offer
<1>3. /\ op \in EnqueueOps /\ op \in ProducerStep
      /\ pc[p] = "idle" /\ fate[e] = "new"
      /\ arg' = [arg EXCEPT ![p] = e]
      /\ fate' = [fate EXCEPT ![e] = "offered"]
      /\ UNCHANGED <<queue, overrun_count, discard_count>>
  BY DEF Offer, ProducerStep
<1>4. /\ IsFiniteSet(Discarding') /\ IsFiniteSet(Pushed') /\ IsFiniteSet(Looking')
      /\ IsFiniteSet(Popped') /\ IsFiniteSet(Entering')
      /\ Cardinality(Discarding') = Cardinality(Discarding)
      /\ Owed'
  BY <1>2, <1>3, ProducerWaitsStep DEF One, EnqueueOps
<1>5. TypeOK'
  BY <1>1, <1>2, <1>3 DEF TypeOK, Threads, Goes, Fate
<1>6. \A d : (d \in Overrun <=> d \in Overrun') /\ (d \in Discarded <=> d \in Discarded')
  BY <1>1, <1>3 DEF TypeOK, Overrun, Discarded
<1>7. /\ IsFiniteSet(Overrun') /\ Cardinality(Overrun') = Cardinality(Overrun)
      /\ IsFiniteSet(Discarded') /\ Cardinality(Discarded') = Cardinality(Discarded)
  BY <1>1, <1>6, CountStays DEF FinitelyMany
<1>8. FinitelyMany'
  BY <1>4, <1>7 DEF FinitelyMany
<1>9. OffersOwnElement'
  <2>1. \A q \in Producers : /\ pc'[q] = IF q = p THEN op ELSE pc[q]
                             /\ arg'[q] = IF q = p THEN e ELSE arg[q]
    BY <1>1, <1>2, <1>3 DEF TypeOK, Threads, Goes
  <2>2. \A d \in Elements : fate[d] = "offered" => d # e /\ fate'[d] = "offered"
    BY <1>1, <1>3 DEF TypeOK
  <2>3. fate'[e] = "offered"
    BY <1>1, <1>3 DEF TypeOK
  <2>4. \A q \in Producers : q # p /\ pc'[q] \in EnqueueOps \cup {"popCv"} =>
          arg[q] \in Elements /\ fate[arg[q]] = "offered" /\ arg[q] # e
    BY <1>1, <2>1, <2>2 DEF Accounted, OffersOwnElement
  <2>5. \A q \in Producers : pc'[q] \in EnqueueOps \cup {"popCv"} =>
          arg'[q] \in Elements /\ fate'[arg'[q]] = "offered"
    BY <2>1, <2>2, <2>3, <2>4
  <2>6. ASSUME NEW q \in Producers, NEW r \in Producers,
               pc'[q] \in EnqueueOps \cup {"popCv"},
               pc'[r] \in EnqueueOps \cup {"popCv"}, arg'[q] = arg'[r]
        PROVE  q = r
    <3>1. CASE q = p \/ r = p
      BY <2>1, <2>4, <2>6, <3>1
    <3>2. CASE q # p /\ r # p
      BY <1>1, <2>1, <2>6, <3>2 DEF Accounted, OffersOwnElement
    <3> QED BY <3>1, <3>2
  <2> QED BY <2>5, <2>6 DEF OffersOwnElement
<1>10. \A d \in Elements : fate'[d] = "stored" <=> Holds(queue', d)
  BY <1>1, <1>3 DEF TypeOK, Accounted
<1>11. Accounted'
  BY <1>1, <1>3, <1>4, <1>7, <1>9, <1>10 DEF Accounted
<1> QED BY <1>4, <1>5, <1>8, <1>11 DEF IInv

\* enqueueIfNotFull on a full queue leaves the element to be counted.
LEMMA RefuseStep ==
  ASSUME IInv, NEW p \in Producers, EnqueueIfNotFull(p), IsFull(queue, Capacity)
  PROVE  IInv'
<1> USE QueueAssumption
<1> DEFINE x == arg[p]
<1>1. TypeOK /\ FinitelyMany /\ Accounted
  BY DEF IInv
<1>2. /\ pc[p] = "enqueueIfNotFull" /\ Goes(p, "discard")
      /\ fate' = [fate EXCEPT ![x] = "discarded"]
      /\ UNCHANGED <<queue, overrun_count, discard_count, arg>>
  BY DEF EnqueueIfNotFull
<1>3. /\ x \in Elements /\ fate[x] = "offered"
      /\ \A q \in Producers : pc[q] \in EnqueueOps \cup {"popCv"} /\ arg[q] = x => q = p
  BY <1>1, <1>2 DEF Accounted, OffersOwnElement, EnqueueOps
<1>4. /\ IsFiniteSet(Discarding') /\ IsFiniteSet(Pushed') /\ IsFiniteSet(Looking')
      /\ IsFiniteSet(Popped') /\ IsFiniteSet(Entering')
      /\ Cardinality(Discarding) \in Nat
      /\ Cardinality(Discarding') = Cardinality(Discarding) + 1
      /\ Owed'
  BY <1>2, ProducerWaitsStep DEF One, ProducerStep
<1>5. TypeOK'
  BY <1>1, <1>2, <1>3 DEF TypeOK, Threads, Goes, Fate, ProducerStep
<1>6. /\ \A d : d \in Overrun <=> d \in Overrun'
      /\ \A d : d # x => (d \in Discarded <=> d \in Discarded')
      /\ x \in Discarded' /\ x \notin Discarded
  BY <1>1, <1>2, <1>3 DEF TypeOK, Overrun, Discarded
<1>7. /\ IsFiniteSet(Overrun') /\ Cardinality(Overrun') = Cardinality(Overrun)
      /\ IsFiniteSet(Discarded') /\ Cardinality(Discarded) \in Nat
      /\ Cardinality(Discarded') = Cardinality(Discarded) + 1
  BY <1>1, <1>6, CountStays, CountMoves DEF FinitelyMany, One
<1>8. FinitelyMany'
  BY <1>4, <1>7 DEF FinitelyMany
<1>9. OffersOwnElement'
  <2>1. \A q \in Producers : pc'[q] \in EnqueueOps \cup {"popCv"} => q # p /\ pc'[q] = pc[q]
    BY <1>1, <1>2 DEF TypeOK, Threads, Goes, EnqueueOps
  <2>2. \A d \in Elements : fate[d] = "offered" /\ d # x => fate'[d] = "offered"
    BY <1>1, <1>2 DEF TypeOK
  <2> QED BY <1>1, <1>2, <1>3, <2>1, <2>2 DEF Accounted, OffersOwnElement
<1>10. \A d \in Elements : fate'[d] = "stored" <=> Holds(queue', d)
  BY <1>1, <1>2, <1>3 DEF TypeOK, Accounted
<1>11. discard_count' + Cardinality(Discarding') = Cardinality(Discarded')
  BY <1>1, <1>2, <1>4, <1>7 DEF TypeOK, Accounted
<1>12. Accounted'
  BY <1>1, <1>2, <1>7, <1>9, <1>10, <1>11 DEF Accounted
<1> QED BY <1>4, <1>5, <1>8, <1>12 DEF IInv

\* The refusal is counted after the unlock.
LEMMA CountDiscardStep == ASSUME IInv, NEW p \in Producers, CountDiscard(p) PROVE IInv'
<1> USE QueueAssumption
<1>1. TypeOK /\ FinitelyMany /\ Accounted /\ Owed
  BY DEF IInv
<1>2. /\ pc[p] = "discard" /\ Goes(p, "idle")
      /\ discard_count' = discard_count + 1
      /\ arg' = [arg EXCEPT ![p] = NoElement]
      /\ UNCHANGED <<queue, overrun_count, fate>>
  BY DEF CountDiscard
<1>3. /\ IsFiniteSet(Discarding') /\ IsFiniteSet(Pushed') /\ IsFiniteSet(Entering')
      /\ IsFiniteSet(Looking') /\ IsFiniteSet(Popped')
      /\ Cardinality(Discarding) \in Nat
      /\ Cardinality(Discarding') = Cardinality(Discarding) - 1
      /\ Cardinality(Pushed) \in Nat /\ Cardinality(Entering) \in Nat
      /\ Cardinality(Pushed') = Cardinality(Pushed)
      /\ Cardinality(Entering') = Cardinality(Entering)
      /\ Cardinality(Looking') = Cardinality(Looking)
      /\ Cardinality(Popped') = Cardinality(Popped)
      /\ OnPushCv' = OnPushCv
      /\ OnPopCv' # {} => OnPopCv # {}
  BY <1>1, <1>2, ProducerMoves DEF One
<1>4. TypeOK'
  BY <1>1, <1>2 DEF TypeOK, Threads, Goes, ProducerStep
<1>5. /\ Overrun' = Overrun /\ Discarded' = Discarded
  BY <1>2 DEF Overrun, Discarded
<1>6. FinitelyMany'
  BY <1>1, <1>3, <1>5 DEF FinitelyMany
<1>7. OffersOwnElement'
  <2>1. \A q \in Producers : pc'[q] \in EnqueueOps \cup {"popCv"} =>
          q # p /\ pc'[q] = pc[q] /\ arg'[q] = arg[q]
    BY <1>1, <1>2 DEF TypeOK, Threads, Goes, EnqueueOps
  <2> QED BY <1>1, <1>2, <2>1 DEF Accounted, OffersOwnElement
<1>8. discard_count' + Cardinality(Discarding') = Cardinality(Discarded')
  BY <1>1, <1>2, <1>3, <1>5 DEF TypeOK, Accounted
<1>9. Accounted'
  BY <1>1, <1>2, <1>5, <1>7, <1>8 DEF Accounted
<1>10. Owed'
  BY <1>1, <1>2, <1>3 DEF Owed
<1> QED BY <1>4, <1>6, <1>9, <1>10 DEF IInv

\* A notification after a push wakes a consumer that then owes a look, or finds
\* nobody asleep.
LEMMA NotifyPushStep == ASSUME IInv, NEW p \in Producers, NotifyPush(p) PROVE IInv'
<1> USE QueueAssumption
<1>1. TypeOK /\ FinitelyMany /\ Accounted /\ Owed
  BY DEF IInv
<1>2. /\ pc[p] = "notifyPush"
      /\ arg' = [arg EXCEPT ![p] = NoElement]
      /\ UNCHANGED <<queue, overrun_count, discard_count, fate>>
  BY DEF NotifyPush
<1>3. /\ Overrun' = Overrun /\ Discarded' = Discarded
  BY <1>2 DEF Overrun, Discarded
<1>4. CASE OnPushCv = {} /\ Goes(p, "idle")
  <2>1. /\ IsFiniteSet(Discarding') /\ IsFiniteSet(Pushed') /\ IsFiniteSet(Entering')
        /\ IsFiniteSet(Looking') /\ IsFiniteSet(Popped')
        /\ Cardinality(Discarding) \in Nat /\ Cardinality(Entering) \in Nat
        /\ Cardinality(Discarding') = Cardinality(Discarding)
        /\ Cardinality(Entering') = Cardinality(Entering)
        /\ Cardinality(Popped') = Cardinality(Popped)
        /\ OnPushCv' = OnPushCv
        /\ OnPopCv' # {} => OnPopCv # {}
    BY <1>1, <1>2, <1>4, ProducerMoves DEF One
  <2>2. TypeOK'
    BY <1>1, <1>2, <1>4 DEF TypeOK, Threads, Goes, ProducerStep
  <2>3. OffersOwnElement'
    <3>1. \A q \in Producers : pc'[q] \in EnqueueOps \cup {"popCv"} =>
            q # p /\ pc'[q] = pc[q] /\ arg'[q] = arg[q]
      BY <1>1, <1>2, <1>4 DEF TypeOK, Threads, Goes, EnqueueOps
    <3> QED BY <1>1, <1>2, <3>1 DEF Accounted, OffersOwnElement
  <2>4. FinitelyMany' /\ Accounted'
    BY <1>1, <1>2, <1>3, <2>1, <2>3 DEF FinitelyMany, Accounted
  <2>5. Owed'
    BY <1>1, <1>2, <1>4, <2>1 DEF Owed
  <2> QED BY <2>2, <2>4, <2>5 DEF IInv
<1>5. CASE \E c \in OnPushCv : pc' = [pc EXCEPT ![p] = "idle", ![c] = Woken(c)]
  <2>1. PICK c \in OnPushCv : pc' = [pc EXCEPT ![p] = "idle", ![c] = Woken(c)]
    BY <1>5
  <2>2. /\ c \in Consumers /\ pc[c] \in {"pushCv", "pushCvTimed"}
        /\ Woken(c) \in DequeueOps /\ Woken(c) \in ConsumerStep
        /\ c # p /\ c \notin Producers /\ p \notin Consumers
    BY <2>1 DEF OnPushCv, Woken, DequeueOps, ConsumerStep
  <2>3. \A u \in Threads : pc'[u] = IF u = p THEN "idle"
                                    ELSE IF u = c THEN Woken(c) ELSE pc[u]
    BY <1>1, <2>1, <2>2 DEF TypeOK, Threads
  <2>4. pc' \in [Threads -> ProducerStep \cup ConsumerStep]
    BY <1>1, <2>1, <2>2 DEF TypeOK, Threads, ProducerStep
  <2>5. TypeOK'
    BY <1>1, <1>2, <2>2, <2>3, <2>4 DEF TypeOK, Threads, ProducerStep
  <2>6. /\ \A u : u # p => (u \in Pushed <=> u \in Pushed')
        /\ p \in Pushed /\ p \notin Pushed'
        /\ \A u : u # c => (u \in Looking <=> u \in Looking')
        /\ c \notin Looking /\ c \in Looking'
        /\ \A u : u \in Discarding <=> u \in Discarding'
        /\ \A u : u \in Entering <=> u \in Entering'
        /\ \A u : u \in Popped <=> u \in Popped'
    BY <1>2, <2>2, <2>3
      DEF Pushed, Looking, Discarding, Entering, Popped, Threads, DequeueOps
  <2>7. /\ IsFiniteSet(Pushed') /\ Cardinality(Pushed) \in Nat
        /\ Cardinality(Pushed') = Cardinality(Pushed) - 1
        /\ IsFiniteSet(Looking') /\ Cardinality(Looking) \in Nat
        /\ Cardinality(Looking') = Cardinality(Looking) + 1
    BY <1>1, <2>6, CountMoves DEF FinitelyMany, One
  <2>8. /\ IsFiniteSet(Discarding') /\ Cardinality(Discarding') = Cardinality(Discarding)
        /\ IsFiniteSet(Entering') /\ Cardinality(Entering') = Cardinality(Entering)
        /\ IsFiniteSet(Popped') /\ Cardinality(Popped') = Cardinality(Popped)
    BY <1>1, <2>6, CountStays DEF FinitelyMany
  <2>9. OffersOwnElement'
    <3>1. \A q \in Producers : pc'[q] \in EnqueueOps \cup {"popCv"} =>
            q # p /\ pc'[q] = pc[q] /\ arg'[q] = arg[q]
      BY <1>1, <1>2, <2>2, <2>3 DEF TypeOK, Threads, EnqueueOps
    <3> QED BY <1>1, <1>2, <3>1 DEF Accounted, OffersOwnElement
  <2>10. FinitelyMany' /\ Accounted'
    BY <1>1, <1>2, <1>3, <2>7, <2>8, <2>9 DEF FinitelyMany, Accounted
  <2>11. OnPopCv' # {} => OnPopCv # {}
    <3>1. \A u : u \in OnPopCv' => u \in OnPopCv
      BY <2>2, <2>3 DEF OnPopCv, Threads
    <3> QED BY <3>1
  <2>12. Owed'
    BY <1>1, <1>2, <2>7, <2>8, <2>11 DEF Owed
  <2> QED BY <2>5, <2>10, <2>12 DEF IInv
<1> QED BY <1>4, <1>5 DEF NotifyPush

\* The same after a pop, for a producer.
LEMMA NotifyPopStep == ASSUME IInv, NEW c \in Consumers, NotifyPop(c) PROVE IInv'
<1> USE QueueAssumption
<1>1. TypeOK /\ FinitelyMany /\ Accounted /\ Owed
  BY DEF IInv
<1>2. /\ pc[c] = "notifyPop"
      /\ UNCHANGED <<queue, overrun_count, discard_count, arg, fate>>
  BY DEF NotifyPop
<1>3. /\ Overrun' = Overrun /\ Discarded' = Discarded
  BY <1>2 DEF Overrun, Discarded
<1>4. CASE OnPopCv = {} /\ Goes(c, "idle")
  <2>1. /\ IsFiniteSet(Discarding') /\ IsFiniteSet(Pushed') /\ IsFiniteSet(Entering')
        /\ IsFiniteSet(Looking') /\ IsFiniteSet(Popped')
        /\ Cardinality(Discarding') = Cardinality(Discarding)
        /\ Cardinality(Pushed') = Cardinality(Pushed)
        /\ Cardinality(Looking) \in Nat
        /\ Cardinality(Looking') = Cardinality(Looking)
        /\ OnPopCv' = OnPopCv
        /\ OnPushCv' # {} => OnPushCv # {}
    BY <1>1, <1>2, <1>4, ConsumerMoves DEF One, DequeueOps
  <2>2. TypeOK'
    BY <1>1, <1>2, <1>4 DEF TypeOK, Threads, Goes, ConsumerStep
  <2>3. \A q \in Producers : pc'[q] = pc[q]
    BY <1>1, <1>4 DEF TypeOK, Threads, Goes
  <2>4. FinitelyMany' /\ Accounted'
    BY <1>1, <1>2, <1>3, <2>1, <2>3 DEF FinitelyMany, Accounted, OffersOwnElement
  <2>5. Owed'
    BY <1>1, <1>2, <1>4, <2>1 DEF Owed
  <2> QED BY <2>2, <2>4, <2>5 DEF IInv
<1>5. CASE \E p \in OnPopCv : pc' = [pc EXCEPT ![c] = "idle", ![p] = "enqueue"]
  <2>1. PICK p \in OnPopCv : pc' = [pc EXCEPT ![c] = "idle", ![p] = "enqueue"]
    BY <1>5
  <2>2. /\ p \in Producers /\ pc[p] = "popCv"
        /\ c # p /\ c \notin Producers /\ p \notin Consumers
    BY <2>1 DEF OnPopCv
  <2>3. \A u \in Threads : pc'[u] = IF u = p THEN "enqueue"
                                    ELSE IF u = c THEN "idle" ELSE pc[u]
    BY <1>1, <2>1, <2>2 DEF TypeOK, Threads
  <2>4. pc' \in [Threads -> ProducerStep \cup ConsumerStep]
    BY <1>1, <2>1, <2>2 DEF TypeOK, Threads, ProducerStep, EnqueueOps, ConsumerStep
  <2>5. TypeOK'
    BY <1>1, <1>2, <2>2, <2>3, <2>4 DEF TypeOK, Threads, ProducerStep, EnqueueOps, ConsumerStep
  <2>6. /\ \A u : u # c => (u \in Popped <=> u \in Popped')
        /\ c \in Popped /\ c \notin Popped'
        /\ \A u : u # p => (u \in Entering <=> u \in Entering')
        /\ p \notin Entering /\ p \in Entering'
        /\ \A u : u \in Discarding <=> u \in Discarding'
        /\ \A u : u \in Pushed <=> u \in Pushed'
        /\ \A u : u \in Looking <=> u \in Looking'
    BY <1>2, <2>2, <2>3
      DEF Pushed, Looking, Discarding, Entering, Popped, Threads, DequeueOps
  <2>7. /\ IsFiniteSet(Popped') /\ Cardinality(Popped) \in Nat
        /\ Cardinality(Popped') = Cardinality(Popped) - 1
        /\ IsFiniteSet(Entering') /\ Cardinality(Entering) \in Nat
        /\ Cardinality(Entering') = Cardinality(Entering) + 1
    BY <1>1, <2>6, CountMoves DEF FinitelyMany, One
  <2>8. /\ IsFiniteSet(Discarding') /\ Cardinality(Discarding') = Cardinality(Discarding)
        /\ IsFiniteSet(Pushed') /\ Cardinality(Pushed') = Cardinality(Pushed)
        /\ IsFiniteSet(Looking') /\ Cardinality(Looking') = Cardinality(Looking)
    BY <1>1, <2>6, CountStays DEF FinitelyMany
  <2>9. OffersOwnElement'
    <3>1. /\ arg[p] \in Elements /\ fate[arg[p]] = "offered"
          /\ \A q \in Producers : pc'[q] \in EnqueueOps \cup {"popCv"} =>
               pc[q] \in EnqueueOps \cup {"popCv"}
      BY <1>1, <2>2, <2>3 DEF Threads, Accounted, OffersOwnElement
    <3> QED BY <1>1, <1>2, <3>1 DEF Accounted, OffersOwnElement
  <2>10. FinitelyMany' /\ Accounted'
    BY <1>1, <1>2, <1>3, <2>7, <2>8, <2>9 DEF FinitelyMany, Accounted
  <2>11. OnPushCv' # {} => OnPushCv # {}
    <3>1. \A u : u \in OnPushCv' => u \in OnPushCv
      BY <2>2, <2>3 DEF OnPushCv, Threads
    <3> QED BY <3>1
  <2>12. Owed'
    BY <1>1, <1>2, <2>2, <2>7, <2>8, <2>11 DEF Owed
  <2> QED BY <2>5, <2>10, <2>12 DEF IInv
<1> QED BY <1>4, <1>5 DEF NotifyPop

\* A producer falls asleep on a full queue, or wakes up unasked.
LEMMA SleepStep ==
  ASSUME IInv, NEW p \in Producers, NEW s, Goes(p, s),
         UNCHANGED <<queue, overrun_count, discard_count, arg, fate>>,
         \/ pc[p] = "enqueue" /\ s = "popCv" /\ IsFull(queue, Capacity)
         \/ pc[p] = "popCv" /\ s = "enqueue"
  PROVE  IInv'
<1> USE QueueAssumption
<1>1. TypeOK /\ FinitelyMany /\ Accounted
  BY DEF IInv
<1>2. /\ IsFiniteSet(Discarding') /\ IsFiniteSet(Pushed') /\ IsFiniteSet(Looking')
      /\ IsFiniteSet(Popped') /\ IsFiniteSet(Entering')
      /\ Cardinality(Discarding') = Cardinality(Discarding)
      /\ Owed'
  BY ProducerWaitsStep DEF One, ProducerStep, EnqueueOps
<1>3. TypeOK'
  BY <1>1 DEF TypeOK, Threads, Goes, ProducerStep, EnqueueOps
<1>4. /\ Overrun' = Overrun /\ Discarded' = Discarded
  BY DEF Overrun, Discarded
<1>5. OffersOwnElement'
  <2>1. \A q \in Producers : pc'[q] \in EnqueueOps \cup {"popCv"} =>
          pc[q] \in EnqueueOps \cup {"popCv"}
    BY <1>1 DEF TypeOK, Threads, Goes, EnqueueOps
  <2> QED BY <1>1, <2>1 DEF Accounted, OffersOwnElement
<1>6. FinitelyMany' /\ Accounted'
  BY <1>1, <1>2, <1>4, <1>5 DEF FinitelyMany, Accounted
<1> QED BY <1>2, <1>3, <1>6 DEF IInv

-----------------------------------------------------------------------------
\* The inductive invariant of the queue and the threads in its calls.
THEOREM Invariance == Spec => []IInv
<1> USE QueueAssumption
<1>1. Init => IInv
  <2> SUFFICES ASSUME Init PROVE IInv
    OBVIOUS
  <2>1. queue = <<>> /\ queue \in Seq(Elements) /\ Len(queue) = 0 /\ DOMAIN queue = {}
    BY DEF Init
  <2>2. TypeOK
    BY <2>1 DEF Init, TypeOK, ProducerStep, ConsumerStep, Fate, Threads
  <2>3. /\ Overrun = {} /\ Discarded = {} /\ Discarding = {} /\ Pushed = {}
        /\ Looking = {} /\ Popped = {} /\ Entering = {}
    BY DEF Init, Overrun, Discarded, Discarding, Pushed, Looking, Popped, Entering,
           Threads, DequeueOps
  <2>4. FinitelyMany
    BY <2>3, FS_EmptySet DEF FinitelyMany
  <2>5. OffersOwnElement
    BY DEF Init, OffersOwnElement, EnqueueOps, Threads
  <2>6. Accounted
    BY <2>1, <2>3, <2>5, FS_EmptySet DEF Init, Accounted, Distinct, Holds
  <2>7. OnPushCv = {} /\ OnPopCv = {}
    BY DEF Init, OnPushCv, OnPopCv, Threads
  <2> QED BY <2>2, <2>4, <2>6, <2>7 DEF IInv, Owed
<1>2. IInv /\ [Next]_vars => IInv'
  <2> SUFFICES ASSUME IInv, [Next]_vars PROVE IInv'
    OBVIOUS
  <2>1. ASSUME NEW p \in Producers, NEW e \in Elements, Offer(p, e) PROVE IInv'
    BY <2>1, OfferStep
  <2>2. ASSUME NEW p \in Producers, Enqueue(p) PROVE IInv'
    <3>1. CASE IsFull(queue, Capacity)
      BY <2>2, <3>1, SleepStep DEF Enqueue
    <3>2. CASE ~IsFull(queue, Capacity)
      BY <2>2, <3>2, PushStep DEF Enqueue, EnqueueOps
    <3> QED BY <3>1, <3>2
  <2>3. ASSUME NEW p \in Producers, EnqueueNoWait(p) PROVE IInv'
    BY <2>3, PushStep DEF EnqueueNoWait, EnqueueOps
  <2>4. ASSUME NEW p \in Producers, EnqueueIfNotFull(p) PROVE IInv'
    <3>1. CASE IsFull(queue, Capacity)
      BY <2>4, <3>1, RefuseStep
    <3>2. CASE ~IsFull(queue, Capacity)
      BY <2>4, <3>2, PushStep DEF EnqueueIfNotFull, EnqueueOps
    <3> QED BY <3>1, <3>2
  <2>5. ASSUME NEW p \in Producers, CountDiscard(p) PROVE IInv'
    BY <2>5, CountDiscardStep
  <2>6. ASSUME NEW p \in Producers, NotifyPush(p) PROVE IInv'
    BY <2>6, NotifyPushStep
  <2>7. ASSUME NEW c \in Consumers, Request(c) PROVE IInv'
    <3>1. PICK op \in Pops : Goes(c, op)
      BY <2>7 DEF Request
    <3>2. op \in DequeueOps /\ op \in ConsumerStep /\ op # "notifyPop"
      BY DEF ConsumerStep, DequeueOps
    <3> QED BY <2>7, <3>1, <3>2, ConsumerLooksStep DEF Request
  <2>8. ASSUME NEW c \in Consumers, Dequeue(c) PROVE IInv'
    <3>1. CASE queue = <<>>
      BY <2>8, <3>1, ConsumerLooksStep DEF Dequeue, ConsumerStep
    <3>2. CASE queue # <<>>
      BY <2>8, <3>2, PopStep DEF Dequeue, DequeueOps
    <3> QED BY <3>1, <3>2
  <2>9. ASSUME NEW c \in Consumers, DequeueWaitFor(c) PROVE IInv'
    <3>1. CASE queue = <<>>
      BY <2>9, <3>1, ConsumerLooksStep DEF DequeueWaitFor, ConsumerStep
    <3>2. CASE queue # <<>>
      BY <2>9, <3>2, PopStep DEF DequeueWaitFor, DequeueOps
    <3> QED BY <3>1, <3>2
  <2>10. ASSUME NEW c \in Consumers, LastLook(c) PROVE IInv'
    <3>1. CASE queue = <<>>
      BY <2>10, <3>1, ConsumerLooksStep DEF LastLook, ConsumerStep
    <3>2. CASE queue # <<>>
      BY <2>10, <3>2, PopStep DEF LastLook
    <3> QED BY <3>1, <3>2
  <2>11. ASSUME NEW c \in Consumers, TimeOut(c) PROVE IInv'
    BY <2>11, ConsumerLooksStep DEF TimeOut, ConsumerStep
  <2>12. ASSUME NEW c \in Consumers, NotifyPop(c) PROVE IInv'
    BY <2>12, NotifyPopStep
  <2>13. ASSUME WakeSpuriously PROVE IInv'
    <3>1. ASSUME NEW c \in OnPushCv, Goes(c, Woken(c)) PROVE IInv'
      <4>1. /\ c \in Consumers /\ pc[c] # "notifyPop"
            /\ Woken(c) \in DequeueOps /\ Woken(c) \in ConsumerStep
            /\ Woken(c) # "notifyPop"
        BY DEF OnPushCv, Woken, DequeueOps, ConsumerStep
      <4> QED BY <2>13, <3>1, <4>1, ConsumerLooksStep DEF WakeSpuriously
    <3>2. ASSUME NEW p \in OnPopCv, Goes(p, "enqueue") PROVE IInv'
      BY <2>13, <3>2, SleepStep DEF WakeSpuriously, OnPopCv
    <3> QED BY <2>13, <3>1, <3>2 DEF WakeSpuriously
  <2>14. CASE UNCHANGED vars
    BY <2>14 DEF vars, IInv, TypeOK, FinitelyMany, Accounted, OffersOwnElement, Owed,
         Overrun, Discarded, Discarding, Pushed, Looking, Popped, Entering,
         OnPushCv, OnPopCv
  <2> QED BY <2>1, <2>2, <2>3, <2>4, <2>5, <2>6, <2>7, <2>8, <2>9, <2>10, <2>11,
             <2>12, <2>13, <2>14 DEF Next, ProducerRuns, ConsumerRuns
<1> QED BY <1>1, <1>2, PTL DEF Spec

\* The variables keep their types, and the queue never holds more than it may
\* (enqueue, enqueueNoWait, enqueueIfNotFull).
THEOREM Typing == Spec => []TypeOK
<1>1. IInv => TypeOK
  BY DEF IInv
<1> QED BY Invariance, <1>1, PTL

\* No element is lost, doubled or counted twice, whichever of the operations
\* the threads mix and however they interleave: each is in the queue, with a
\* consumer, or in one of the two counters of lost ones.
THEOREM Accounting == Spec => []EveryElementAccounted
<1>1. IInv => EveryElementAccounted
  BY DEF IInv, Accounted, EveryElementAccounted, Overrun, Discarded, Discarding
<1> QED BY Invariance, <1>1, PTL

\* notify_one after every push is enough for push_cv_, though the notification
\* comes after the unlock and a waiter that has timed out may swallow it.
THEOREM NoWakeUpLostOnPush == Spec => []ConsumersOwed
<1>1. IInv => ConsumersOwed
  BY DEF IInv, Owed, ConsumersOwed, Pushed, Looking
<1> QED BY Invariance, <1>1, PTL

\* notify_one after every pop is enough for pop_cv_.
THEOREM NoWakeUpLostOnPop == Spec => []ProducersOwed
<1>1. IInv => ProducersOwed
  BY DEF IInv, Owed, ProducersOwed, Popped, Entering
<1> QED BY Invariance, <1>1, PTL

=============================================================================
