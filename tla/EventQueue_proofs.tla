------------------------- MODULE EventQueue_proofs -------------------------
(***************************************************************************)
(* Proofs about the ring buffer of EventQueue, for every MAX_QUEUE_DEPTH,  *)
(* BatchMax and set of events: its fields stay in range, they agree with   *)
(* one another, and the ring implements BoundedFifo.                       *)
(***************************************************************************)
EXTENDS EventQueue, SequenceTheorems, TLAPS

(* The texts queue_enqueue lets in. *)
Accepted == {e \in Events : Fits(e)}

(* One turn round the ring: (slot + i) % MAX_QUEUE_DEPTH stays in the ring  *)
(* and subtracts the depth at most once.                                   *)
LEMMA AdvanceValue ==
    ASSUME NEW s \in Slots, NEW i \in 0 .. MAX_QUEUE_DEPTH
    PROVE  /\ Advance(s, i) \in Slots
           /\ Advance(s, i) = IF s + i < MAX_QUEUE_DEPTH
                                THEN s + i ELSE s + i - MAX_QUEUE_DEPTH
  BY DepthAssumption DEF Advance, Slots

(* The copy loop of queue_dequeue_batch takes no more than the caller's    *)
(* array holds and no more than the queue holds.                           *)
LEMMA BatchLenRange ==
    ASSUME TypeOK
    PROVE  BatchLen \in 0 .. BatchMax /\ BatchLen <= count
                /\ BatchLen \in 0 .. MAX_QUEUE_DEPTH
  BY BatchAssumption, DepthAssumption DEF TypeOK, BatchLen

(* queue_enqueue keeps the fields in range, with and without a drop.       *)
LEMMA EnqueueType ==
    ASSUME TypeOK, NEW e \in Events, emitted_count < MaxAccepted,
           queue_enqueue(e)
    PROVE  TypeOK'
<1> USE DepthAssumption, BoundAssumption DEF TypeOK
<1>1. head' \in Slots /\ tail' \in Slots
  BY AdvanceValue DEF queue_enqueue, DropOldest
<1>2. entries' \in [Slots -> Entry]
  BY DEF queue_enqueue, Entry
<1>3. count' \in 0 .. MAX_QUEUE_DEPTH /\ dropped_count' \in Nat
  BY DEF queue_enqueue, Full
<1>4. emitted_count' \in 0 .. MaxAccepted
  BY DEF queue_enqueue
<1>5. QED
  BY <1>1, <1>2, <1>3, <1>4 DEF queue_enqueue

(* queue_dequeue_batch keeps the fields and the caller's array in range.   *)
LEMMA DequeueType ==
    ASSUME TypeOK, queue_dequeue_batch
    PROVE  TypeOK'
<1> USE DepthAssumption, BatchAssumption DEF TypeOK
<1>1. head' \in Slots
  BY AdvanceValue, BatchLenRange DEF queue_dequeue_batch
<1>2. count' \in 0 .. MAX_QUEUE_DEPTH /\ out_count' \in 0 .. BatchMax
  BY BatchLenRange DEF queue_dequeue_batch
<1>3. out' \in [OutSlots -> Entry]
  <2>1. ASSUME NEW i \in OutSlots, i < BatchLen
        PROVE  entries[Advance(head, i)] \in Entry
    BY <2>1, AdvanceValue, BatchLenRange DEF OutSlots
  <2>2. QED
    BY <2>1 DEF queue_dequeue_batch
<1>4. QED
  BY <1>1, <1>2, <1>3 DEF queue_dequeue_batch

(***************************************************************************)
(* head and tail stay inside the entries array and count never exceeds     *)
(* MAX_QUEUE_DEPTH, for every depth, batch limit and set of events.        *)
(***************************************************************************)
THEOREM TypeCorrect == Spec => []TypeOK
<1>1. Init => TypeOK
  BY DepthAssumption, BatchAssumption, BoundAssumption
     DEF Init, queue_create, TypeOK, Slots, OutSlots, Entry
<1>2. TypeOK /\ [Next]_vars => TypeOK'
  <2> SUFFICES ASSUME TypeOK, [Next]_vars PROVE TypeOK'
    OBVIOUS
  <2>1. CASE \E e \in Events : emitted_count < MaxAccepted /\ queue_enqueue(e)
    BY <2>1, EnqueueType
  <2>2. CASE queue_dequeue_batch
    BY <2>2, DequeueType
  <2>3. CASE UNCHANGED vars
    BY <2>3 DEF vars, TypeOK
  <2>4. QED
    BY <2>1, <2>2, <2>3 DEF Next
<1>3. QED
  BY <1>1, <1>2, PTL DEF Spec

-----------------------------------------------------------------------------
(* Advancing twice is advancing once by the sum: the loop of               *)
(* queue_dequeue_batch moves head one slot at a time.                      *)
LEMMA AdvanceAdd ==
    ASSUME NEW s \in Slots, NEW i \in 0 .. MAX_QUEUE_DEPTH,
           NEW j \in 0 .. MAX_QUEUE_DEPTH, i + j <= MAX_QUEUE_DEPTH
    PROVE  Advance(Advance(s, i), j) = Advance(s, i + j)
<1> DEFINE t == Advance(s, i)
<1>1. /\ t \in Slots
      /\ t = IF s + i < MAX_QUEUE_DEPTH THEN s + i ELSE s + i - MAX_QUEUE_DEPTH
  BY AdvanceValue
<1>2. Advance(t, j) = IF t + j < MAX_QUEUE_DEPTH THEN t + j ELSE t + j - MAX_QUEUE_DEPTH
  BY <1>1, AdvanceValue
<1>3. i + j \in 0 .. MAX_QUEUE_DEPTH
  BY DepthAssumption
<1>4. Advance(s, i + j) = IF s + (i + j) < MAX_QUEUE_DEPTH
                            THEN s + (i + j) ELSE s + (i + j) - MAX_QUEUE_DEPTH
  BY <1>3, AdvanceValue
<1> HIDE DEF t
<1>5. Advance(t, j) = Advance(s, i + j)
  BY <1>1, <1>2, <1>4, DepthAssumption DEF Slots
<1>6. QED
  BY <1>5 DEF t

(* A whole turn, like none at all, comes back to the same slot: in a full  *)
(* ring tail is head.                                                      *)
LEMMA AdvanceFull ==
    ASSUME NEW s \in Slots
    PROVE  Advance(s, MAX_QUEUE_DEPTH) = s /\ Advance(s, 0) = s
  BY AdvanceValue, DepthAssumption DEF Slots

(* Less than a turn apart is a different slot: a write at tail overwrites  *)
(* no other queued entry.                                                  *)
LEMMA AdvanceDistinct ==
    ASSUME NEW s \in Slots, NEW i \in 0 .. MAX_QUEUE_DEPTH,
           NEW j \in 0 .. MAX_QUEUE_DEPTH, i < j, j - i < MAX_QUEUE_DEPTH
    PROVE  Advance(s, i) # Advance(s, j)
<1>1. Advance(s, i) = IF s + i < MAX_QUEUE_DEPTH THEN s + i ELSE s + i - MAX_QUEUE_DEPTH
  BY AdvanceValue
<1>2. Advance(s, j) = IF s + j < MAX_QUEUE_DEPTH THEN s + j ELSE s + j - MAX_QUEUE_DEPTH
  BY AdvanceValue
<1>3. QED
  BY <1>1, <1>2, DepthAssumption DEF Slots

(* queue_create leaves head, tail and count in agreement.                  *)
LEMMA InitRing == Init => RingInv
  BY DepthAssumption, AdvanceFull DEF Init, queue_create, RingInv, Slots

(* What queue_enqueue does to the queued entries, by their place counted   *)
(* from head: the new one is last, and the others keep their place, or     *)
(* move up by one when the oldest was dropped.                             *)
LEMMA EnqueueEffect ==
    ASSUME TypeOK, RingInv, NEW e \in Events, queue_enqueue(e)
    PROVE  /\ e \in Accepted
           /\ tail' = Advance(head', count')
           /\ count' \in 1 .. MAX_QUEUE_DEPTH
           /\ entries'[Advance(head', count' - 1)] = e
           /\ \A i \in 0 .. count' - 2 :
                entries'[Advance(head', i)] =
                  entries[Advance(head, IF count = MAX_QUEUE_DEPTH THEN i + 1 ELSE i)]
<1> USE DepthAssumption DEF TypeOK
<1>1. /\ Fits(e)
      /\ entries' = [entries EXCEPT ![tail] = e]
      /\ tail' = Advance(tail, 1)
      /\ tail = Advance(head, count)
  BY DEF queue_enqueue, RingInv
<1>2. CASE count = MAX_QUEUE_DEPTH
  <2>1. head' = Advance(head, 1) /\ count' = count
    BY <1>2 DEF queue_enqueue, Full, DropOldest
  <2>2. tail = head
    BY <1>1, <1>2, AdvanceFull
  <2>3. head' \in Slots /\ Advance(head', count') = head'
    BY <1>2, <2>1, AdvanceValue, AdvanceFull
  <2>4. Advance(head', count' - 1) = tail
    BY <1>2, <2>1, <2>2, AdvanceAdd, AdvanceFull
  <2>5. ASSUME NEW i \in 0 .. count' - 2
        PROVE  entries'[Advance(head', i)] = entries[Advance(head, i + 1)]
    <3>1. Advance(head', i) = Advance(head, i + 1)
      BY <1>2, <2>1, AdvanceAdd
    <3>2. Advance(head, i + 1) # Advance(head, MAX_QUEUE_DEPTH)
      BY <1>2, <2>1, AdvanceDistinct
    <3>3. Advance(head, i + 1) # tail /\ Advance(head, i + 1) \in Slots
      BY <1>2, <2>1, <2>2, <3>2, AdvanceFull, AdvanceValue
    <3>4. QED
      BY <1>1, <3>1, <3>3
  <2>6. QED
    BY <1>1, <1>2, <2>1, <2>2, <2>3, <2>4, <2>5 DEF Accepted
<1>3. CASE count # MAX_QUEUE_DEPTH
  <2>1. head' = head /\ count' = count + 1
    BY <1>3 DEF queue_enqueue, Full
  <2>2. Advance(head', count') = tail'
    BY <1>1, <1>3, <2>1, AdvanceAdd
  <2>3. ASSUME NEW i \in 0 .. count' - 2
        PROVE  entries'[Advance(head', i)] = entries[Advance(head, i)]
    <3>1. Advance(head, i) # Advance(head, count)
      BY <1>3, <2>1, AdvanceDistinct
    <3>2. Advance(head, i) \in Slots
      BY <1>3, <2>1, AdvanceValue
    <3>3. QED
      BY <1>1, <2>1, <3>1, <3>2
  <2>4. QED
    BY <1>1, <1>3, <2>1, <2>2, <2>3 DEF Accepted
<1>4. QED
  BY <1>2, <1>3

(* queue_enqueue keeps the ring's indices in agreement.                    *)
LEMMA EnqueueRing ==
    ASSUME TypeOK, RingInv, NEW e \in Events, queue_enqueue(e)
    PROVE  RingInv'
<1>1. ASSUME NEW i \in 0 .. count' - 1
      PROVE  entries'[Advance(head', i)] \in Accepted
  <2>1. CASE i = count' - 1
    BY <2>1, EnqueueEffect
  <2>2. CASE i # count' - 1
    <3> DEFINE k == IF count = MAX_QUEUE_DEPTH THEN i + 1 ELSE i
    <3>1. i \in 0 .. count' - 2 /\ k \in 0 .. count - 1
      BY <2>2, EnqueueEffect, DepthAssumption DEF TypeOK, queue_enqueue, Full
    <3>2. entries[Advance(head, k)] \in Accepted
      BY <3>1 DEF RingInv, Accepted
    <3>3. QED
      BY <3>1, <3>2, EnqueueEffect
  <2>3. QED
    BY <2>1, <2>2
<1>2. QED
  BY <1>1, EnqueueEffect DEF RingInv, Accepted, Fits, Advance

(* What queue_dequeue_batch leaves: the entries after the batch, in order. *)
LEMMA DequeueEffect ==
    ASSUME TypeOK, RingInv, queue_dequeue_batch
    PROVE  /\ tail' = Advance(head', count')
           /\ count' = count - BatchLen
           /\ \A i \in 0 .. count' - 1 :
                entries'[Advance(head', i)] = entries[Advance(head, BatchLen + i)]
<1> USE DepthAssumption DEF TypeOK
<1>1. /\ entries' = entries /\ tail' = tail /\ tail = Advance(head, count)
      /\ head' = Advance(head, BatchLen)
      /\ count' = count - BatchLen
  BY DEF queue_dequeue_batch, RingInv
<1>2. Advance(head', count') = Advance(head, BatchLen + count')
  BY <1>1, AdvanceAdd, BatchLenRange
<1>3. BatchLen + count' = count
  BY <1>1, BatchLenRange
<1>4. ASSUME NEW i \in 0 .. count' - 1
      PROVE  Advance(head', i) = Advance(head, BatchLen + i)
  BY <1>1, AdvanceAdd, BatchLenRange
<1>5. QED
  BY <1>1, <1>2, <1>3, <1>4

(* queue_dequeue_batch keeps the ring's indices in agreement.              *)
LEMMA DequeueRing ==
    ASSUME TypeOK, RingInv, queue_dequeue_batch
    PROVE  RingInv'
<1>1. ASSUME NEW i \in 0 .. count' - 1
      PROVE  entries'[Advance(head', i)] \in Accepted
  <2>1. BatchLen + i \in 0 .. count - 1
    BY DequeueEffect, BatchLenRange DEF TypeOK
  <2>2. QED
    BY <2>1, DequeueEffect DEF RingInv, Accepted
<1>2. QED
  BY <1>1, DequeueEffect DEF RingInv, Accepted, Fits, Advance

(***************************************************************************)
(* tail is always count slots after head, and every entry between them is  *)
(* one that queue_enqueue accepted and wrote: RingInv is inductive on top  *)
(* of TypeOK.                                                              *)
(***************************************************************************)
THEOREM RingCorrect == Spec => []RingInv
<1>1. TypeOK /\ RingInv /\ [Next]_vars => RingInv'
  <2> SUFFICES ASSUME TypeOK, RingInv, [Next]_vars PROVE RingInv'
    OBVIOUS
  <2>1. CASE \E e \in Events : emitted_count < MaxAccepted /\ queue_enqueue(e)
    BY <2>1, EnqueueRing
  <2>2. CASE queue_dequeue_batch
    BY <2>2, DequeueRing
  <2>3. CASE UNCHANGED vars
    BY <2>3 DEF vars, RingInv, Advance, Fits
  <2>4. QED
    BY <2>1, <2>2, <2>3 DEF Next
<1>2. QED
  BY InitRing, TypeCorrect, <1>1, PTL DEF Spec
-----------------------------------------------------------------------------
(* The refinement mapping's queue, as a sequence. *)
ContentsFacts ==
    /\ Contents \in Seq(Accepted)
    /\ Len(Contents) = count
    /\ \A i \in 1 .. count : Contents[i] = entries[Advance(head, i - 1)]

(* Under the invariant the abstract queue is a sequence of accepted events *)
(* of length count, entry by entry the slots from head on.                 *)
LEMMA ContentsSeq == TypeOK /\ RingInv => ContentsFacts
<1> SUFFICES ASSUME TypeOK, RingInv PROVE ContentsFacts
  OBVIOUS
<1>1. ASSUME NEW i \in 1 .. count
      PROVE  entries[Advance(head, i - 1)] \in Accepted
  BY DEF RingInv, Accepted, TypeOK
<1>2. Contents \in [1 .. count -> Accepted] /\ count \in Nat
  BY <1>1 DEF Contents, TypeOK
<1>3. QED
  BY <1>2 DEF Contents, ContentsFacts

(* The same after a step of queue.c. *)
LEMMA ContentsSeqNext == TypeOK' /\ RingInv' => ContentsFacts'
  BY ContentsSeq, PTL

(* A queue_enqueue is a Put: on a full ring it drops the head of the       *)
(* abstract queue and appends, otherwise it appends.                       *)
LEMMA EnqueueRefines ==
    ASSUME TypeOK, RingInv, NEW e \in Events, queue_enqueue(e),
           TypeOK', RingInv'
    PROVE  Fifo!Put(e) /\ Taken' = Taken
<1> USE DepthAssumption
<1>0. count \in 0 .. MAX_QUEUE_DEPTH
  BY DEF TypeOK
<1>a. /\ Contents' \in Seq(Accepted)
      /\ Len(Contents') = count'
      /\ \A i \in 1 .. count' : Contents'[i] = entries'[Advance(head', i - 1)]
  BY ContentsSeqNext DEF ContentsFacts, Accepted, Fits, Advance
<1>b. ContentsFacts
  BY ContentsSeq
<1>1. CASE count = MAX_QUEUE_DEPTH
  <2>1. count' = count /\ dropped_count' = dropped_count + 1
    BY <1>1 DEF queue_enqueue, Full, TypeOK
  <2>2. Contents # << >>
    BY <1>1, <1>b DEF ContentsFacts
  <2>3. /\ Tail(Contents) \in Seq(Accepted)
        /\ Len(Tail(Contents)) = count - 1
        /\ \A i \in 1 .. count - 1 : Tail(Contents)[i] = Contents[i + 1]
    BY <2>2, <1>b, HeadTailProperties DEF ContentsFacts
  <2>4. Contents' = Append(Tail(Contents), e)
    <3> DEFINE t == Append(Tail(Contents), e)
    <3>1. /\ t \in Seq(Accepted)
          /\ Len(t) = count
          /\ t[count] = e
          /\ \A i \in 1 .. count - 1 : t[i] = Tail(Contents)[i]
      BY <1>0, <1>1, <2>3, EnqueueEffect
    <3>2. ASSUME NEW i \in 1 .. count PROVE Contents'[i] = t[i]
      <4>1. CASE i = count
        BY <1>a, <2>1, <3>1, <4>1, EnqueueEffect
      <4>2. CASE i # count
        <5>1. i - 1 \in 0 .. count' - 2 /\ i + 1 \in 1 .. count /\ i \in 1 .. count - 1
          BY <1>0, <2>1, <4>2
        <5>2. Contents'[i] = entries[Advance(head, (i - 1) + 1)]
          BY <1>1, <1>a, <2>1, <5>1, EnqueueEffect
        <5>3. t[i] = entries[Advance(head, (i + 1) - 1)]
          BY <2>3, <3>1, <5>1, <1>b DEF ContentsFacts
        <5>4. (i - 1) + 1 = (i + 1) - 1
          BY <5>1
        <5>5. QED
          BY <5>2, <5>3, <5>4
      <4>3. QED
        BY <4>1, <4>2
    <3> HIDE DEF t
    <3>3. Contents' = t
      BY <1>a, <2>1, <3>1, <3>2, SeqEqual
    <3>4. QED
      BY <3>3 DEF t
  <2>5. QED
    BY <1>1, <2>1, <2>4, <1>b DEF ContentsFacts, Fifo!Put, queue_enqueue, Taken
<1>2. CASE count # MAX_QUEUE_DEPTH
  <2>1. count' = count + 1 /\ dropped_count' = dropped_count
    BY <1>2 DEF queue_enqueue, Full, TypeOK
  <2>2. Contents' = Append(Contents, e)
    <3> DEFINE t == Append(Contents, e)
    <3>1. /\ t \in Seq(Accepted)
          /\ Len(t) = count + 1
          /\ t[count + 1] = e
          /\ \A i \in 1 .. count : t[i] = Contents[i]
      BY <1>0, EnqueueEffect, <1>b DEF ContentsFacts
    <3>2. ASSUME NEW i \in 1 .. count + 1 PROVE Contents'[i] = t[i]
      <4>1. CASE i = count + 1
        BY <1>a, <2>1, <3>1, <4>1, EnqueueEffect
      <4>2. CASE i # count + 1
        <5>1. i - 1 \in 0 .. count' - 2 /\ i \in 1 .. count
          BY <1>0, <2>1, <4>2
        <5>2. Contents'[i] = entries[Advance(head, i - 1)]
          BY <1>2, <1>a, <2>1, <5>1, EnqueueEffect
        <5>3. QED
          BY <3>1, <5>1, <5>2, <1>b DEF ContentsFacts
      <4>3. QED
        BY <4>1, <4>2
    <3> HIDE DEF t
    <3>3. Contents' = t
      BY <1>a, <2>1, <3>1, <3>2, SeqEqual
    <3>4. QED
      BY <3>3 DEF t
  <2>3. QED
    BY <1>2, <2>1, <2>2, <1>b DEF ContentsFacts, Fifo!Put, queue_enqueue, Taken
<1>3. QED
  BY <1>1, <1>2

(* A queue_dequeue_batch is a Take: the caller's array holds the first     *)
(* entries in order and the queue keeps the rest.                          *)
LEMMA DequeueRefines ==
    ASSUME TypeOK, RingInv, queue_dequeue_batch, TypeOK', RingInv'
    PROVE  Fifo!Take
<1> DEFINE k == BatchLen
           n == Fifo!TakeCount(Len(Contents))
<1>1. ContentsFacts /\ count \in Nat /\ k \in 0 .. BatchMax /\ k \in 0 .. count
  BY ContentsSeq, BatchLenRange DEF TypeOK
<1>2. n = k
  BY <1>1 DEF ContentsFacts, BatchLen, Fifo!TakeCount
<1>3. /\ out_count' = k
      /\ count' = count - k
      /\ \A i \in 0 .. k - 1 : out'[i] = entries[Advance(head, i)]
      /\ UNCHANGED <<dropped_count, emitted_count>>
  <2>1. ASSUME NEW i \in 0 .. k - 1
        PROVE  i \in OutSlots /\ i < BatchLen
    BY <1>1, BatchAssumption DEF OutSlots
  <2>2. QED
    BY <2>1 DEF queue_dequeue_batch
<1>a. /\ Contents' \in Seq(Accepted)
      /\ Len(Contents') = count'
      /\ \A i \in 1 .. count' : Contents'[i] = entries'[Advance(head', i - 1)]
  BY ContentsSeqNext DEF ContentsFacts, Accepted, Fits, Advance
<1> HIDE DEF k, n
<1>4. Taken' = SubSeq(Contents, 1, k)
  <2> DEFINE t == SubSeq(Contents, 1, k)
  <2>1. /\ t \in Seq(Accepted)
        /\ Len(t) = k
        /\ \A i \in 1 .. k : t[i] = Contents[i]
    BY <1>1 DEF ContentsFacts
  <2>2. ASSUME NEW i \in 1 .. k
        PROVE  Taken'[i] = entries[Advance(head, i - 1)]
    BY <1>1, <1>3 DEF Taken
  <2>3. ASSUME NEW i \in 1 .. k
        PROVE  Contents[i] = entries[Advance(head, i - 1)] /\ Contents[i] \in Accepted
    BY <1>1 DEF ContentsFacts
  <2>4. Taken' = [i \in 1 .. k |-> out'[i - 1]]
    BY <1>3 DEF Taken
  <2>5. Taken' \in Seq(Accepted) /\ Len(Taken') = k
    <3>1. Taken' \in [1 .. k -> Accepted]
      BY <2>2, <2>3, <2>4
    <3>2. QED
      BY <1>1, <2>4, <3>1
  <2> HIDE DEF t
  <2>6. Taken' = t
    <3>1. \A i \in 1 .. k : Taken'[i] = t[i]
      BY <2>1, <2>2, <2>3
    <3>2. QED
      BY <2>1, <2>5, <3>1, SeqEqual
  <2>7. QED
    BY <2>6 DEF t
<1>5. Contents' = SubSeq(Contents, k + 1, Len(Contents))
  <2> DEFINE t == SubSeq(Contents, k + 1, Len(Contents))
  <2>1. /\ t \in Seq(Accepted)
        /\ Len(t) = count - k
        /\ \A i \in 1 .. count - k : t[i] = Contents[k + i]
    BY <1>1 DEF ContentsFacts
  <2>2. ASSUME NEW i \in 1 .. count - k
        PROVE  Contents'[i] = t[i]
    <3>1. i - 1 \in 0 .. count' - 1 /\ k + i \in 1 .. count /\ i \in 1 .. count'
      BY <1>1, <1>3
    <3>2. Contents'[i] = entries[Advance(head, k + (i - 1))]
      BY <1>a, <3>1, DequeueEffect DEF k
    <3>3. Contents[k + i] = entries[Advance(head, (k + i) - 1)]
      BY <1>1, <3>1 DEF ContentsFacts
    <3>4. (k + i) - 1 = k + (i - 1)
      BY <1>1, <3>1
    <3>5. QED
      BY <2>1, <3>2, <3>3, <3>4
  <2> HIDE DEF t
  <2>3. Contents' = t
    BY <1>3, <1>a, <2>1, <2>2, SeqEqual
  <2>4. QED
    BY <2>3 DEF t
<1>6. QED
  BY <1>2, <1>3, <1>4, <1>5 DEF Fifo!Take, n

(***************************************************************************)
(* The ring buffer of queue.c implements the drop-oldest FIFO, for every   *)
(* depth, batch limit and set of events.                                   *)
(***************************************************************************)
THEOREM RingRefinesFifo == Spec => RefinesBoundedFifo
<1>1. Init => Fifo!Init
  <2> SUFFICES ASSUME Init PROVE Fifo!Init
    OBVIOUS
  <2>1. count = 0 /\ out_count = 0 /\ emitted_count = 0 /\ dropped_count = 0
    BY DEF Init, queue_create
  <2>2. Contents = << >> /\ Taken = << >>
    BY <2>1 DEF Contents, Taken
  <2>3. QED
    BY <2>1, <2>2 DEF Fifo!Init, Fifo!Empty
<1>2. TypeOK /\ RingInv /\ TypeOK' /\ RingInv' /\ [Next]_vars
        => [Fifo!Next]_(Fifo!fifoVars)
  <2> SUFFICES ASSUME TypeOK, RingInv, TypeOK', RingInv', [Next]_vars
               PROVE  [Fifo!Next]_(Fifo!fifoVars)
    OBVIOUS
  <2>1. ASSUME NEW e \in Events, emitted_count < MaxAccepted, queue_enqueue(e)
        PROVE  Fifo!Next
    <3>1. e \in {x \in Events : Fits(x)}
      BY <2>1 DEF queue_enqueue
    <3>2. Fifo!Put(e) /\ Taken' = Taken
      BY <2>1, EnqueueRefines
    <3>3. QED
      BY <2>1, <3>1, <3>2 DEF Fifo!Next
  <2>2. ASSUME queue_dequeue_batch
        PROVE  Fifo!Next
    BY <2>2, DequeueRefines DEF Fifo!Next
  <2>3. CASE UNCHANGED vars
    BY <2>3 DEF vars, Fifo!fifoVars, Contents, Taken, Advance
  <2>4. QED
    BY <2>1, <2>2, <2>3 DEF Next
<1>3. QED
  BY <1>1, <1>2, TypeCorrect, RingCorrect, PTL
     DEF Spec, RefinesBoundedFifo, Fifo!Spec
=============================================================================
