----------------------------- MODULE EventQueue -----------------------------
(***************************************************************************)
(* The bounded event queue of src/queue.c: a ring of MAX_QUEUE_DEPTH       *)
(* entries with a head, a tail and a count, shared by one producer (the    *)
(* collector thread) and one consumer (the delivery thread).               *)
(*                                                                         *)
(* Every function of queue.c takes q->lock on entry and releases it on     *)
(* return, and no other code touches the fields: each critical section is  *)
(* one action here.  The pointer q is not NULL; what the threads do when   *)
(* queue_create failed is in Pipeline.                                     *)
(***************************************************************************)
EXTENDS Integers, Sequences

CONSTANTS MAX_QUEUE_DEPTH,  \* slots of the ring
          MAX_EVENT_SIZE,   \* bytes of an entry's json_data, NUL included
          BatchMax,         \* the max_count of queue_dequeue_batch
          Events,           \* the JSON texts a producer may offer
          EventLen,         \* their lengths, as strlen gives them
          NoEvent,          \* what a slot holds before it is first written
          MaxAccepted       \* bound of the model: events accepted in a behaviour

ASSUME DepthAssumption == MAX_QUEUE_DEPTH \in Nat \ {0}
ASSUME BatchAssumption == BatchMax \in Nat \ {0}
ASSUME EventAssumption ==
    /\ NoEvent \notin Events
    /\ EventLen \in [Events -> Nat]
    /\ MAX_EVENT_SIZE \in Nat
ASSUME BoundAssumption == MaxAccepted \in Nat

VARIABLES entries,        \* q->entries[0 .. MAX_QUEUE_DEPTH - 1]
          head,           \* q->head: the oldest entry
          tail,           \* q->tail: the slot the next entry goes to
          count,          \* q->count
          dropped_count,  \* q->dropped_count
          emitted_count,  \* q->emitted_count
          out,            \* the consumer's array, out[0 .. BatchMax - 1]
          out_count       \* the consumer's *out_count

vars == <<entries, head, tail, count, dropped_count, emitted_count,
          out, out_count>>

Slots == 0 .. MAX_QUEUE_DEPTH - 1
OutSlots == 0 .. BatchMax - 1
Entry == Events \cup {NoEvent}

(* A text queue_enqueue accepts: not empty, and with room for its NUL. *)
Fits(e) == EventLen[e] # 0 /\ EventLen[e] < MAX_EVENT_SIZE

TypeOK ==
    /\ entries \in [Slots -> Entry]
    /\ head \in Slots
    /\ tail \in Slots
    /\ count \in 0 .. MAX_QUEUE_DEPTH
    /\ dropped_count \in Nat
    /\ emitted_count \in 0 .. MaxAccepted
    /\ out \in [OutSlots -> Entry]
    /\ out_count \in 0 .. BatchMax
-----------------------------------------------------------------------------
queue_create ==
    /\ entries = [i \in Slots |-> NoEvent]
    /\ head = 0
    /\ tail = 0
    /\ count = 0
    /\ dropped_count = 0
    /\ emitted_count = 0

Init ==
    /\ queue_create
    /\ out = [i \in OutSlots |-> NoEvent]
    /\ out_count = 0

(* i slots further round the ring. *)
Advance(slot, i) == (slot + i) % MAX_QUEUE_DEPTH

(* Slips in the full test, in the drop and in the copy loop's bound. *)
Bug_Full == count > MAX_QUEUE_DEPTH
Bug_DropOldest == head
Bug_BatchLen == BatchMax

(* The queue_enqueue test for a full ring, and the head after its drop. *)
Full == count >= MAX_QUEUE_DEPTH
DropOldest == Advance(head, 1)

(***************************************************************************)
(* An enqueue never waits: in a full ring it first gives up the oldest     *)
(* entry.  A text that does not fit is refused and changes nothing.        *)
(***************************************************************************)
queue_enqueue(e) ==
    /\ Fits(e)
    /\ IF Full
         THEN /\ head' = DropOldest
              /\ count' = (count - 1) + 1
              /\ dropped_count' = dropped_count + 1
         ELSE /\ count' = count + 1
              /\ UNCHANGED <<head, dropped_count>>
    /\ entries' = [entries EXCEPT ![tail] = e]
    /\ tail' = Advance(tail, 1)
    /\ emitted_count' = emitted_count + 1
    /\ UNCHANGED <<out, out_count>>

(* The entries the copy loop moves: it stops at max_count or when empty. *)
BatchLen == IF count <= BatchMax THEN count ELSE BatchMax

(***************************************************************************)
(* The copy loop runs to its end under one lock: out[0 .. BatchLen - 1] is *)
(* overwritten, and the rest of the caller's array keeps its old entries.  *)
(***************************************************************************)
queue_dequeue_batch ==
    /\ out' = [i \in OutSlots |->
                 IF i < BatchLen THEN entries[Advance(head, i)] ELSE out[i]]
    /\ out_count' = BatchLen
    /\ head' = Advance(head, BatchLen)
    /\ count' = count - BatchLen
    /\ UNCHANGED <<entries, tail, dropped_count, emitted_count>>

Next ==
    \/ \E e \in Events : emitted_count < MaxAccepted /\ queue_enqueue(e)
    \/ queue_dequeue_batch

Spec == Init /\ [][Next]_vars
-----------------------------------------------------------------------------
(* The queued entries, oldest first, and the consumer's last batch. *)
Contents == [i \in 1 .. count |-> entries[Advance(head, i - 1)]]
Taken == [i \in 1 .. out_count |-> out[i - 1]]

(***************************************************************************)
(* The redundant index fields of queue.c agree on its three paths          *)
(* (enqueue, enqueue with a drop, batch dequeue): the count entries from   *)
(* head on end just before tail, and each of them has been written, so the *)
(* consumer never sees the uninitialised memory malloc gave queue_create.  *)
(***************************************************************************)
RingInv ==
    /\ tail = Advance(head, count)
    /\ \A i \in 0 .. count - 1 : entries[Advance(head, i)] \in {e \in Events : Fits(e)}

(***************************************************************************)
(* The ring implements the drop-oldest FIFO of BoundedFifo: whatever the   *)
(* interleaving of enqueues and batch dequeues and wherever the indices    *)
(* have wrapped to, events leave in the order they came, only the oldest   *)
(* is ever discarded, and only from a full ring.                           *)
(***************************************************************************)
Fifo == INSTANCE BoundedFifo WITH
            Capacity <- MAX_QUEUE_DEPTH,
            Events   <- {e \in Events : Fits(e)},
            contents <- Contents,
            taken    <- Taken,
            accepted <- emitted_count,
            dropped  <- dropped_count

RefinesBoundedFifo == Fifo!Spec
=============================================================================
