-------------------------- MODULE Delivery_proofs --------------------------
(***************************************************************************)
(* Proofs about the way of an event from queue_enqueue through the         *)
(* http_post backend to the receiver, for every depth of the queue, batch  *)
(* array, batch size, batch interval, number of retries and number of      *)
(* events, whatever requests and allocations fail and however late a       *)
(* request arrives.                                                        *)
(*                                                                         *)
(* First the backend, in its own numbers: the batch, the requests that     *)
(* carried each event, what has arrived.  Then the threads: they make one  *)
(* call at a time; nothing overtakes; nothing goes missing uncounted.      *)
(***************************************************************************)
EXTENDS Delivery, FiniteSetTheorems, TLAPS

output_emit_event == (\E e \in EventIds : EmitEvent(e)) \/ MaybeFlush \/ AppendEvent

(* The steps of a backend that is not called while a call is going on. *)
Use ==
    \/ output_emit_event \/ http_post_batch \/ output_flush
    \/ pc = "idle" /\ output_shutdown
    \/ FreeAll \/ Tick \/ Arrive

Posting == {"post", "attempt", "backoff"}
Trying == {"attempt", "backoff"}

(* TypeOK, but for the requests. *)
CallType ==
    /\ batch \in Seq(EventIds)
    /\ batch_capacity \in Nat
    /\ batch_started \in BOOLEAN
    /\ age \in 0 .. batch_interval_seconds
    /\ pc \in {"idle", "maybe_flush", "post", "attempt", "backoff", "append", "closed"}
    /\ caller \in {"none", "maybe_flush", "full", "flush", "shutdown"}
    /\ attempt \in 0 .. retry_max_attempts
    /\ hand \in 0 .. MaxEvents
    /\ fate \in [EventIds -> Fates]

(* Where a call is, and what that says of the event in hand, of the batch  *)
(* and of the attempts.                                                    *)
CallInv ==
    /\ caller = "none" <=> pc \notin Posting
    /\ hand = 0 <=> pc \notin {"maybe_flush", "append"} /\ caller # "maybe_flush"
    /\ pc = "backoff" => attempt < retry_max_attempts
    /\ pc \in {"attempt", "backoff"} => batch # << >>
    /\ pc \notin {"attempt", "backoff"} => attempt = 0
    /\ pc = "append" => Len(batch) < batch_size
    /\ pc # "closed" => batch_capacity # 0

(* The batch fits, and fates tell what is in it and what is in hand. *)
BatchInv ==
    /\ Len(batch) <= batch_capacity /\ Len(batch) <= batch_size
    /\ \A e \in EventIds : e \in Elems(batch) <=> fate[e] = "batched"
    /\ \A e \in EventIds : e = hand <=> fate[e] = "hand"

HttpInv == CallType /\ CallInv /\ BatchInv

(* The elements of a sequence, of none and of one that grew. *)
LEMMA ElemsOf ==
    ASSUME NEW S, NEW s \in Seq(S), NEW x \in S
    PROVE  /\ Elems(s) \subseteq S
           /\ Elems(<< >>) = {}
           /\ Elems(Append(s, x)) = Elems(s) \cup {x}
           /\ s # << >> => Elems(s) # {}
<1>1. Elems(s) \subseteq S
  BY DEF Elems
<1>2. Elems(<< >>) = {}
  BY DEF Elems
<1>3. Elems(Append(s, x)) = Elems(s) \cup {x}
  <2>1. /\ Len(Append(s, x)) = Len(s) + 1 /\ Append(s, x)[Len(s) + 1] = x
        /\ \A p \in 1 .. Len(s) : Append(s, x)[p] = s[p]
        /\ Len(s) \in Nat
    OBVIOUS
  <2>2. QED
    BY <2>1 DEF Elems
<1>4. s # << >> => s[1] \in Elems(s)
  BY DEF Elems
<1>5. QED
  BY <1>1, <1>2, <1>3, <1>4

(* What a return from http_post_batch does, by its caller. *)
LEMMA Returned ==
    ASSUME HttpInv, pc \in Posting, NEW r \in {0, -1}, NEW S \in SUBSET EventIds, NEW f \in Fates,
           hand \notin S, PostReturn(r, S, f)
    PROVE  /\ caller' = "none" /\ attempt' = 0
           /\ fate' \in [EventIds -> Fates]
           /\ hand' \in {0, hand}
           /\ \/ caller = "maybe_flush" /\ pc' = "append" /\ r = 0 /\ hand' = hand
              \/ caller = "maybe_flush" /\ pc' = "idle" /\ r = -1 /\ hand' = 0
              \/ caller \in {"full", "flush"} /\ pc' = "idle" /\ hand = 0 /\ hand' = 0
              \/ caller = "shutdown" /\ pc' = "closed" /\ hand = 0 /\ hand' = 0
           /\ \A e \in EventIds :
                /\ e \in S => fate'[e] = f
                /\ e \notin S /\ (e # hand \/ hand' = hand) => fate'[e] = fate[e]
                /\ e \notin S /\ e = hand /\ hand' # hand => fate'[e] = "refused"
<1> USE DEF HttpInv
<1>1. /\ caller \in {"maybe_flush", "full", "flush", "shutdown"} /\ hand \in 0 .. MaxEvents
      /\ fate \in [EventIds -> Fates]
      /\ caller # "maybe_flush" => hand = 0
  BY DEF CallType, CallInv, Posting
<1>2. CASE caller = "maybe_flush" /\ r # 0
  <2>1. /\ pc' = "idle" /\ hand' = 0 /\ caller' = "none" /\ attempt' = 0
        /\ fate' = [e \in EventIds |-> CASE e \in S -> f [] e = hand -> "refused" [] OTHER -> fate[e]]
    BY <1>2 DEF PostReturn
  <2>2. ASSUME NEW e \in EventIds
        PROVE  fate'[e] = IF e \in S THEN f ELSE IF e = hand THEN "refused" ELSE fate[e]
    BY <2>1
  <2>3. hand # 0
    BY <1>2 DEF CallInv
  <2>4. fate' \in [EventIds -> Fates]
    <3>1. "refused" \in Fates
      BY DEF Fates
    <3>2. ASSUME NEW e \in EventIds PROVE fate'[e] \in Fates
      <4>1. fate[e] \in Fates
        BY <1>1
      <4>2. CASE e \in S
        BY <2>2, <4>2
      <4>3. CASE e \notin S
        BY <2>2, <3>1, <4>1, <4>3
      <4>4. QED
        BY <4>2, <4>3
    <3>3. QED
      BY <2>1, <3>2
  <2>5. QED
    BY <1>2, <2>1, <2>2, <2>3, <2>4
<1>3. CASE ~(caller = "maybe_flush" /\ r # 0)
  <2>1. /\ pc' = CASE caller = "maybe_flush" -> "append"
                   [] caller = "shutdown" -> "closed"
                   [] OTHER -> "idle"
        /\ hand' = hand /\ caller' = "none" /\ attempt' = 0
        /\ fate' = [e \in EventIds |-> IF e \in S THEN f ELSE fate[e]]
    BY <1>3 DEF PostReturn, Settle
  <2>2. ASSUME NEW e \in EventIds
        PROVE  fate'[e] = (IF e \in S THEN f ELSE fate[e]) /\ fate'[e] \in Fates
    <3>1. fate'[e] = IF e \in S THEN f ELSE fate[e]
      BY <2>1
    <3>2. fate[e] \in Fates
      BY <1>1
    <3>3. CASE e \in S
      BY <3>1, <3>3
    <3>4. CASE e \notin S
      BY <3>1, <3>2, <3>4
    <3>5. QED
      BY <3>3, <3>4
  <2>3. fate' \in [EventIds -> Fates]
    BY <2>1, <2>2
  <2>4. \/ caller = "maybe_flush" /\ pc' = "append" /\ r = 0 /\ hand' = hand
        \/ caller \in {"full", "flush"} /\ pc' = "idle" /\ hand = 0 /\ hand' = 0
        \/ caller = "shutdown" /\ pc' = "closed" /\ hand = 0 /\ hand' = 0
    <3>1. CASE caller = "maybe_flush"
      BY <1>3, <2>1, <3>1
    <3>2. CASE caller = "shutdown"
      BY <1>1, <2>1, <3>2
    <3>3. CASE caller \in {"full", "flush"}
      BY <1>1, <2>1, <3>3
    <3>4. QED
      BY <1>1, <3>1, <3>2, <3>3
  <2>5. QED
    BY <2>1, <2>2, <2>3, <2>4
<1>4. QED
  BY <1>2, <1>3

(* output_init leaves an empty batch and no call under way. *)
LEMMA HttpInit == Init => HttpInv
<1> SUFFICES ASSUME Init PROVE HttpInv
  OBVIOUS
<1> USE ConfigAssumption DEF Init, output_init
<1>1. CallType
  <2>1. fate \in [EventIds -> Fates]
    BY DEF Fates
  <2>2. /\ batch \in Seq(EventIds)
        /\ batch_capacity \in Nat /\ age \in 0 .. batch_interval_seconds
        /\ attempt \in 0 .. retry_max_attempts /\ hand \in 0 .. MaxEvents
    OBVIOUS
  <2>3. QED
    BY <2>1, <2>2 DEF CallType
<1>2. CallInv
  BY DEF CallInv, Posting
<1>3. BatchInv
  BY DEF BatchInv, Elems, EventIds
<1>4. QED
  BY <1>1, <1>2, <1>3 DEF HttpInv

(* The steps of output_emit_event, http_post_batch, output_flush and       *)
(* output_shutdown, one by one.                                            *)
LEMMA HttpStep == HttpInv /\ [Use]_vars => HttpInv'
<1> SUFFICES ASSUME HttpInv, [Use]_vars PROVE HttpInv'
  OBVIOUS
<1> USE ConfigAssumption DEF HttpInv
<1>1. /\ batch \in Seq(EventIds) /\ Len(batch) \in Nat /\ batch_capacity \in Nat
      /\ hand \in 0 .. MaxEvents /\ fate \in [EventIds -> Fates]
      /\ attempt \in 0 .. retry_max_attempts
  BY DEF CallType
<1>2. {"hand", "batched", "refused", "acked", "rejected", "exhausted", "freed"} \subseteq Fates
  BY DEF Fates
<1>3. hand # 0 => hand \in EventIds
  BY <1>1 DEF EventIds
<1>4. ASSUME NEW S \in SUBSET EventIds, NEW f \in Fates, Settle(S, f)
      PROVE  /\ fate' \in [EventIds -> Fates]
             /\ \A e \in EventIds : fate'[e] = IF e \in S THEN f ELSE fate[e]
  BY <1>1, <1>4 DEF Settle
<1>5. hand \notin Elems(batch) /\ Elems(batch) \in SUBSET EventIds
  <2>1. Elems(batch) \subseteq EventIds
    BY <1>1 DEF Elems
  <2>2. QED
    BY <2>1 DEF BatchInv
<1>6. ASSUME NEW e \in EventIds, EmitEvent(e) PROVE HttpInv'
  <2>1. /\ pc = "idle" /\ pc' = "maybe_flush" /\ hand' = e /\ fate[e] = "unborn"
        /\ UNCHANGED <<batch_vars, caller, attempt>>
        /\ Settle({e}, "hand")
    BY <1>6 DEF EmitEvent, Goto
  <2>2. /\ fate' \in [EventIds -> Fates]
        /\ \A d \in EventIds : fate'[d] = IF d \in {e} THEN "hand" ELSE fate[d]
    BY <1>2, <1>4, <2>1
  <2>3. hand = 0 /\ caller = "none" /\ hand' \in 0 .. MaxEvents /\ hand' # 0
    BY <2>1 DEF CallInv, EventIds, Posting
  <2>4. CallType'
    BY <2>1, <2>2, <2>3 DEF CallType, batch_vars
  <2>5. CallInv'
    BY <2>1, <2>3 DEF CallInv, batch_vars, Posting
  <2>6. BatchInv'
    <3>1. batch' = batch /\ batch_capacity' = batch_capacity
      BY <2>1 DEF batch_vars
    <3>2. 0 \notin EventIds
      BY DEF EventIds
    <3>3. QED
      BY <2>1, <2>2, <2>3, <3>1, <3>2 DEF BatchInv
  <2>7. QED
    BY <2>4, <2>5, <2>6
<1>7. CASE MaybeFlush
  <2>1. /\ UNCHANGED <<batch_vars, hand, fate>>
        /\ pc = "maybe_flush"
        /\ \/ pc' = "post" /\ caller' = "maybe_flush" /\ attempt' = 0
           \/ /\ pc' = "append" /\ UNCHANGED <<caller, attempt>>
              /\ batch = << >> \/ Len(batch) < batch_size
    BY <1>1, <1>7 DEF MaybeFlush, CallPost, Goto, BatchFull
  <2>2. batch = << >> => Len(batch) < batch_size
    OBVIOUS
  <2>3. CallType'
    BY <1>1, <2>1 DEF CallType, batch_vars
  <2>4. CallInv'
    BY <2>1, <2>2 DEF CallInv, batch_vars, Posting
  <2>5. BatchInv'
    BY <2>1 DEF BatchInv, batch_vars
  <2>6. QED
    BY <2>3, <2>4, <2>5
<1>8. CASE AppendEvent
  <2>1. /\ pc = "append" /\ UNCHANGED age
        /\ batch_started' \in {batch_started, TRUE}
        /\ caller = "none" /\ hand # 0 /\ hand \in EventIds
        /\ Len(batch) < batch_size /\ batch_capacity # 0
    <3>1. /\ pc = "append" /\ UNCHANGED age
          /\ batch_started' \in {batch_started, TRUE}
      BY <1>8 DEF AppendEvent, StartIfNeeded
    <3>2. /\ caller = "none" /\ hand # 0
          /\ Len(batch) < batch_size /\ batch_capacity # 0
      BY <3>1 DEF CallInv, Posting
    <3>3. QED
      BY <1>3, <3>1, <3>2
  <2>2. /\ GrownCapacity(Len(batch) + 1) \in Nat
        /\ Len(batch) + 1 <= GrownCapacity(Len(batch) + 1)
        /\ batch_capacity <= GrownCapacity(Len(batch) + 1)
        /\ GrownCapacity(Len(batch) + 1) # 0
    BY <1>1, <2>1 DEF GrownCapacity, BatchInv
  <2>3. batch_started' \in BOOLEAN /\ age' \in 0 .. batch_interval_seconds
    BY <2>1 DEF CallType
  <2>4. CASE /\ batch' = Append(batch, hand)
             /\ batch_capacity' = GrownCapacity(Len(batch) + 1)
             /\ Settle({hand}, "batched")
             /\ hand' = 0
             /\ \/ pc' = "post" /\ caller' = "full" /\ attempt' = 0
                \/ pc' = "idle" /\ UNCHANGED <<caller, attempt>>
    <3>1. /\ batch' \in Seq(EventIds) /\ Len(batch') = Len(batch) + 1
          /\ Elems(batch') = Elems(batch) \cup {hand}
      BY <1>1, <2>1, <2>4, ElemsOf
    <3>2. /\ fate' \in [EventIds -> Fates]
          /\ \A d \in EventIds : fate'[d] = IF d \in {hand} THEN "batched" ELSE fate[d]
      <4>1. {hand} \in SUBSET EventIds /\ "batched" \in Fates /\ Settle({hand}, "batched")
        BY <1>2, <2>1, <2>4
      <4>2. QED
        BY <1>4, <4>1
    <3>3. CallType'
      BY <1>1, <2>1, <2>2, <2>3, <2>4, <3>1, <3>2 DEF CallType
    <3>4. CallInv'
      BY <2>1, <2>2, <2>4 DEF CallInv, Posting
    <3>5. BatchInv'
      <4>1. Len(batch') <= batch_capacity' /\ Len(batch') <= batch_size
        BY <1>1, <2>1, <2>2, <2>4, <3>1
      <4>2. 0 \notin EventIds
        BY DEF EventIds
      <4>3. QED
        BY <2>4, <3>1, <3>2, <4>1, <4>2 DEF BatchInv
    <3>6. QED
      BY <3>3, <3>4, <3>5
  <2>5. CASE /\ batch_capacity' \in {batch_capacity, GrownCapacity(Len(batch) + 1)}
             /\ Refuse
             /\ UNCHANGED <<batch, caller, attempt>>
    <3>1. pc' = "idle" /\ hand' = 0 /\ Settle({hand}, "refused")
      BY <2>5 DEF Refuse
    <3>2. /\ fate' \in [EventIds -> Fates]
          /\ \A d \in EventIds : fate'[d] = IF d \in {hand} THEN "refused" ELSE fate[d]
      <4>1. {hand} \in SUBSET EventIds /\ "refused" \in Fates /\ Settle({hand}, "refused")
        BY <1>2, <2>1, <3>1
      <4>2. QED
        BY <1>4, <4>1
    <3>3. CallType'
      BY <1>1, <2>1, <2>2, <2>3, <2>5, <3>1, <3>2 DEF CallType
    <3>4. CallInv'
      BY <2>1, <2>2, <2>5, <3>1 DEF CallInv, Posting
    <3>5. BatchInv'
      <4>1. Len(batch') <= batch_capacity' /\ Len(batch') <= batch_size
        BY <1>1, <2>1, <2>2, <2>5 DEF BatchInv
      <4>2. 0 \notin EventIds
        BY DEF EventIds
      <4>3. QED
        BY <1>5, <2>5, <3>1, <3>2, <4>1, <4>2 DEF BatchInv
    <3>6. QED
      BY <3>3, <3>4, <3>5
  <2>6. QED
    BY <1>8, <2>4, <2>5 DEF AppendEvent, CallPost, Goto
<1>9. ASSUME NEW r \in {0, -1}, NEW S \in SUBSET EventIds, NEW f \in Fates \ {"hand"},
             pc \in {"post", "attempt"}, PostReturn(r, S, f),
             batch_capacity' = batch_capacity,
             \/ batch' = << >> /\ batch_started' = FALSE /\ age' = 0 /\ S = Elems(batch) /\ f # "batched"
             \/ UNCHANGED batch_vars /\ S = {} /\ (r = 0 => batch = << >>)
      PROVE  HttpInv'
  <2>1. hand \notin S /\ pc \in Posting /\ f \in Fates
    BY <1>5, <1>9 DEF Posting
  <2>2. /\ caller' = "none" /\ attempt' = 0
        /\ fate' \in [EventIds -> Fates]
        /\ hand' \in {0, hand}
        /\ \/ caller = "maybe_flush" /\ pc' = "append" /\ r = 0 /\ hand' = hand
           \/ caller = "maybe_flush" /\ pc' = "idle" /\ r = -1 /\ hand' = 0
           \/ caller \in {"full", "flush"} /\ pc' = "idle" /\ hand = 0 /\ hand' = 0
           \/ caller = "shutdown" /\ pc' = "closed" /\ hand = 0 /\ hand' = 0
        /\ \A e \in EventIds :
             /\ e \in S => fate'[e] = f
             /\ e \notin S /\ (e # hand \/ hand' = hand) => fate'[e] = fate[e]
             /\ e \notin S /\ e = hand /\ hand' # hand => fate'[e] = "refused"
    BY <1>9, <2>1, Returned
  <2>3. /\ batch' \in Seq(EventIds) /\ Len(batch') <= Len(batch) /\ Len(batch') \in Nat
        /\ batch_started' \in BOOLEAN /\ age' \in 0 .. batch_interval_seconds
        /\ r = 0 => Len(batch') = 0
    <3>1. CASE batch' = << >> /\ batch_started' = FALSE /\ age' = 0
      <4>1. batch' \in Seq(EventIds) /\ Len(batch') = 0 /\ age' \in 0 .. batch_interval_seconds
        BY <3>1
      <4>2. batch_started' \in BOOLEAN
        BY <3>1
      <4>3. QED
        BY <1>1, <4>1, <4>2
    <3>2. CASE UNCHANGED batch_vars /\ (r = 0 => batch = << >>)
      BY <1>1, <3>2 DEF batch_vars, CallType
    <3>3. QED
      BY <1>9, <3>1, <3>2
  <2>4. CallType'
    BY <1>1, <1>9, <2>2, <2>3 DEF CallType
  <2>5. CallInv'
    BY <1>9, <2>2, <2>3 DEF CallInv, Posting
  <2>6. BatchInv'
    <3>1. Len(batch') <= batch_capacity' /\ Len(batch') <= batch_size
      BY <1>1, <1>9, <2>3 DEF BatchInv
    <3>2. ASSUME NEW e \in EventIds PROVE e \in Elems(batch') <=> fate'[e] = "batched"
      <4>1. CASE batch' = << >> /\ S = Elems(batch) /\ f # "batched"
        <5>1. Elems(batch') = {}
          BY <4>1 DEF Elems
        <5>2. QED
          BY <2>2, <4>1, <5>1 DEF BatchInv
      <4>2. CASE UNCHANGED batch_vars /\ S = {}
        BY <1>5, <2>2, <4>2 DEF BatchInv, batch_vars
      <4>3. QED
        BY <1>9, <4>1, <4>2
    <3>3. ASSUME NEW e \in EventIds PROVE e = hand' <=> fate'[e] = "hand"
      <4>1. 0 \notin EventIds
        BY DEF EventIds
      <4>2. QED
        BY <1>9, <2>1, <2>2, <4>1 DEF BatchInv
    <3>4. QED
      BY <3>1, <3>2, <3>3 DEF BatchInv
  <2>7. QED
    BY <2>4, <2>5, <2>6
<1>10. {} \in SUBSET EventIds
  OBVIOUS
<1>11. CASE PostNoMemory
  <2>1. pc = "post" /\ PostReturn(-1, {}, "batched") /\ UNCHANGED batch_vars
    BY <1>11 DEF PostNoMemory
  <2>2. -1 \in {0, -1} /\ -1 # 0 /\ "batched" \in Fates \ {"hand"} /\ batch_capacity' = batch_capacity
    BY <1>1, <1>2, <2>1 DEF batch_vars
  <2>3. QED
    BY <1>9, <1>10, <2>1, <2>2
<1>12. CASE PostBegin
  <2>1. CASE batch = << >> /\ pc = "post" /\ PostReturn(0, {}, "batched")
    BY <1>1, <1>2, <1>9, <1>10, <1>12, <2>1 DEF PostBegin, batch_vars
  <2>2. CASE batch # << >> /\ pc = "post" /\ pc' = "attempt" /\ UNCHANGED <<caller, attempt, hand, fate>>
    <3>1. UNCHANGED batch_vars
      BY <1>12 DEF PostBegin
    <3>2. QED
      BY <2>2, <3>1 DEF CallType, CallInv, BatchInv, batch_vars, Posting
  <2>3. QED
    BY <1>12, <2>1, <2>2 DEF PostBegin, Goto
<1>13. CASE Acked
  BY <1>2, <1>5, <1>9, <1>13 DEF Acked, free_batch_items
<1>14. CASE Rejected
  BY <1>2, <1>5, <1>9, <1>14 DEF Rejected, free_batch_items
<1>15. CASE Failed
  <2>1. pc = "attempt"
    BY <1>15 DEF Failed
  <2>2. CASE /\ attempt < retry_max_attempts /\ pc' = "backoff"
             /\ UNCHANGED <<batch_vars, caller, attempt, hand, fate>>
    BY <2>1, <2>2 DEF CallType, CallInv, BatchInv, batch_vars, Posting
  <2>3. CASE PostReturn(-1, Elems(batch), "exhausted") /\ free_batch_items
    <3>1. -1 \in {0, -1} /\ "exhausted" \in Fates \ {"hand"} /\ "exhausted" # "batched"
      BY <1>2
    <3>2. batch_capacity' = batch_capacity /\ batch' = << >> /\ batch_started' = FALSE /\ age' = 0
      BY <2>3 DEF free_batch_items
    <3>3. QED
      BY <1>5, <1>9, <2>1, <2>3, <3>1, <3>2
  <2>4. QED
    BY <1>15, <2>2, <2>3 DEF Failed, MoreAttempts, Goto
<1>16. CASE Retry
  <2>1. /\ pc = "backoff" /\ pc' = "attempt" /\ attempt' = attempt + 1
        /\ UNCHANGED <<batch_vars, caller, hand, fate>>
    BY <1>16 DEF Retry, Goto
  <2>2. attempt' \in 0 .. retry_max_attempts
    BY <1>1, <2>1 DEF CallInv
  <2>3. QED
    BY <2>1, <2>2 DEF CallType, CallInv, BatchInv, batch_vars, Posting
<1>17. CASE output_flush \/ (pc = "idle" /\ output_shutdown)
  <2>1. /\ pc = "idle" /\ pc' = "post" /\ caller' \in {"flush", "shutdown"} /\ attempt' = 0
        /\ UNCHANGED <<batch_vars, hand, fate>>
    BY <1>17 DEF output_flush, output_shutdown, CallPost, Goto
  <2>2. QED
    BY <1>1, <2>1 DEF CallType, CallInv, BatchInv, batch_vars, Posting
<1>18. CASE FreeAll
  <2>1. /\ pc = "closed" /\ batch' = << >> /\ batch_started' = FALSE /\ age' = 0 /\ batch_capacity' = 0
        /\ UNCHANGED call_vars
        /\ Settle(Elems(batch), "freed")
    BY <1>18 DEF FreeAll
  <2>2. /\ fate' \in [EventIds -> Fates]
        /\ \A e \in EventIds : fate'[e] = IF e \in Elems(batch) THEN "freed" ELSE fate[e]
    BY <1>2, <1>4, <1>5, <2>1
  <2>3. CallType'
    <3>1. batch' \in Seq(EventIds) /\ batch_capacity' \in Nat /\ age' \in 0 .. batch_interval_seconds
      BY <2>1
    <3>2. batch_started' \in BOOLEAN
      BY <2>1
    <3>3. QED
      BY <2>1, <2>2, <3>1, <3>2 DEF CallType, call_vars
  <2>4. CallInv'
    BY <2>1 DEF CallInv, call_vars, Posting
  <2>5. BatchInv'
    <3>1. Elems(batch') = {} /\ Len(batch') = 0
      BY <2>1 DEF Elems
    <3>2. QED
      BY <1>5, <2>1, <2>2, <3>1 DEF BatchInv, call_vars
  <2>6. QED
    BY <2>3, <2>4, <2>5
<1>19. CASE Tick
  <2>1. age' \in 0 .. batch_interval_seconds
    BY <1>19 DEF Tick, CallType
  <2>2. QED
    BY <1>19, <2>1 DEF Tick, CallType, CallInv, BatchInv, call_vars
<1>20. CASE Arrive \/ UNCHANGED vars
  BY <1>20 DEF Arrive, CallType, CallInv, BatchInv, vars, batch_vars, call_vars
<1>21. QED
  BY <1>6, <1>7, <1>8, <1>11, <1>12, <1>13, <1>14, <1>15, <1>16, <1>17, <1>18, <1>19, <1>20
     DEF Use, output_emit_event, http_post_batch

(* The batch of a reachable state fits, whoever calls. *)
LEMMA BatchBounded == HttpInv => BatchBound
<1> SUFFICES ASSUME HttpInv PROVE BatchBound
  OBVIOUS
<1>1. Elems(batch) \subseteq EventIds
  BY DEF HttpInv, CallType, Elems
<1>2. QED
  BY <1>1 DEF HttpInv, BatchInv, BatchBound
-----------------------------------------------------------------------------
(* A request arrives once at most, and then it is no longer on the way. *)
NetInv ==
    /\ requests \in Seq(Seq(EventIds))
    /\ on_the_way \subseteq 1 .. Len(requests)
    /\ received \in Seq(1 .. Len(requests))
    /\ faulted \in BOOLEAN
    /\ \A p \in 1 .. Len(received) : received[p] \notin on_the_way
    /\ \A p, q \in 1 .. Len(received) : received[p] = received[q] => p = q

Lands(i) ==
    /\ i \in on_the_way
    /\ received' = Append(received, i)
    /\ on_the_way' = on_the_way \ {i}
    /\ requests' = requests /\ batch' = batch /\ fate' = fate

(* What a step does to the requests. *)
LEMMA NetMoves ==
    ASSUME [Use]_vars
    PROVE  /\ \/ UNCHANGED net_vars
              \/ Send
              \/ UNCHANGED <<requests, received>> /\ on_the_way' \subseteq on_the_way
              \/ \E i \in on_the_way : Lands(i)
           /\ faulted' \in {faulted, TRUE}
<1>1. CASE output_emit_event
  BY <1>1 DEF output_emit_event, EmitEvent, MaybeFlush, AppendEvent
<1>2. CASE PostNoMemory \/ PostBegin
  BY <1>2 DEF PostNoMemory, PostBegin
<1>3. CASE Acked \/ Rejected \/ Failed \/ Retry
  BY <1>3 DEF Acked, Rejected, Failed, Retry
<1>4. CASE output_flush \/ output_shutdown \/ FreeAll \/ Tick
  BY <1>4 DEF output_flush, output_shutdown, FreeAll, Tick
<1>5. CASE Arrive
  BY <1>5 DEF Arrive, Lands, batch_vars
<1>6. CASE UNCHANGED vars
  BY <1>6 DEF vars
<1>7. QED
  BY <1>1, <1>2, <1>3, <1>4, <1>5, <1>6 DEF Use, http_post_batch

(* A new request has a number of its own. *)
LEMMA NetStep ==
    ASSUME HttpInv, NetInv, [Use]_vars
    PROVE  NetInv'
<1> USE DEF NetInv
<1>1. faulted' \in BOOLEAN
  BY NetMoves
<1>2. CASE UNCHANGED net_vars
  BY <1>1, <1>2 DEF net_vars
<1>3. CASE Send
  <2>1. batch \in Seq(EventIds) /\ Len(requests) \in Nat
    BY DEF HttpInv, CallType
  <2>2. /\ requests' \in Seq(Seq(EventIds)) /\ Len(requests') = Len(requests) + 1
        /\ on_the_way' = on_the_way \cup {Len(requests) + 1} /\ received' = received
    BY <1>3, <2>1 DEF Send
  <2>3. \A p \in 1 .. Len(received) : received[p] \in 1 .. Len(requests)
    OBVIOUS
  <2>4. received \in Seq(1 .. Len(requests) + 1)
    <3>1. Len(received) \in Nat /\ received = [p \in 1 .. Len(received) |-> received[p]]
      OBVIOUS
    <3>2. \A p \in 1 .. Len(received) : received[p] \in 1 .. Len(requests) + 1
      BY <2>1, <2>3
    <3>3. QED
      BY <3>1, <3>2
  <2>5. /\ \A p \in 1 .. Len(received) : received[p] \notin on_the_way'
        /\ on_the_way' \subseteq 1 .. Len(requests')
    <3> DEFINE m == Len(requests)
    <3>1. /\ m \in Nat /\ Len(requests') = m + 1 /\ on_the_way' = on_the_way \cup {m + 1}
          /\ on_the_way \subseteq 1 .. m
          /\ \A p \in 1 .. Len(received) : received[p] \in 1 .. m /\ received[p] \notin on_the_way
      BY <2>1, <2>2, <2>3
    <3> HIDE DEF m, NetInv
    <3>2. m + 1 \in 1 .. m + 1 /\ m + 1 \notin 1 .. m /\ 1 .. m \subseteq 1 .. m + 1
      BY <3>1
    <3>3. QED
      BY <3>1, <3>2
  <2>6. received' \in Seq(1 .. Len(requests'))
    BY <2>2, <2>4
  <2>7. QED
    BY <1>1, <2>2, <2>5, <2>6
<1>4. CASE UNCHANGED <<requests, received>> /\ on_the_way' \subseteq on_the_way
  BY <1>1, <1>4
<1>5. ASSUME NEW i \in on_the_way, Lands(i) PROVE NetInv'
  <2>1. /\ received' = Append(received, i) /\ on_the_way' = on_the_way \ {i} /\ requests' = requests
        /\ i \in 1 .. Len(requests) /\ i \in on_the_way
    BY <1>5 DEF Lands
  <2>2. /\ received' \in Seq(1 .. Len(requests)) /\ Len(received') = Len(received) + 1 /\ Len(received) \in Nat
        /\ received'[Len(received) + 1] = i
        /\ \A p \in 1 .. Len(received) : received'[p] = received[p]
    BY <2>1
  <2>3. ASSUME NEW p \in 1 .. Len(received') PROVE received'[p] \notin on_the_way'
    BY <2>1, <2>2
  <2>4. ASSUME NEW p \in 1 .. Len(received'), NEW q \in 1 .. Len(received'), received'[p] = received'[q]
        PROVE  p = q
    BY <2>1, <2>2, <2>4
  <2>5. QED
    BY <1>1, <2>1, <2>2, <2>3, <2>4
<1>6. QED
  BY <1>2, <1>3, <1>4, <1>5, NetMoves

(* No request has been sent. *)
LEMMA NetInit == Init => NetInv
<1> SUFFICES ASSUME Init PROVE NetInv
  OBVIOUS
<1>1. requests = << >> /\ on_the_way = {} /\ received = << >> /\ faulted = FALSE
  BY DEF Init
<1>2. Len(received) = 0 /\ received \in Seq(1 .. Len(requests)) /\ requests \in Seq(Seq(EventIds))
  BY <1>1
<1>3. faulted \in BOOLEAN /\ on_the_way \subseteq 1 .. Len(requests)
  BY <1>1
<1>4. \A p \in 1 .. Len(received) : FALSE
  BY <1>2
<1>5. QED
  BY <1>2, <1>3, <1>4 DEF NetInv

(* The parts of the type invariant. *)
LEMMA TypeMeans == HttpInv /\ NetInv => TypeOK
  BY DEF HttpInv, NetInv, CallType, TypeOK
-----------------------------------------------------------------------------
(***************************************************************************)
(* What the steps of the backend do, by kind.                              *)
(***************************************************************************)

(* An event is handed over. *)
Born == \E d \in EventIds :
    /\ pc \notin Trying /\ pc' \notin Trying
    /\ hand' = d /\ fate[d] = "unborn" /\ \A e \in 1 .. d - 1 : fate[e] # "unborn"
    /\ \A e \in EventIds : fate'[e] = IF e = d THEN "hand" ELSE fate[e]
    /\ batch' = batch /\ requests' = requests /\ received' = received

(* The event in hand joins the batch. *)
Joined ==
    /\ pc \notin Trying /\ pc' \notin Trying
    /\ hand \in EventIds /\ hand' = 0
    /\ \A e \in EventIds : fate'[e] = IF e = hand THEN "batched" ELSE fate[e]
    /\ batch' = Append(batch, hand) /\ requests' = requests /\ received' = received

(* Nothing happens, but that the event in hand may be refused. *)
Quiet ==
    /\ pc \notin Trying /\ pc' \notin Trying /\ hand' \in {0, hand}
    /\ \A e \in EventIds : fate'[e] = fate[e] \/ (fate[e] = "hand" /\ fate'[e] = "refused")
    /\ batch' = batch /\ requests' = requests /\ received' = received

(* The batch goes out, for the first time or once more. *)
Sent ==
    /\ pc \in {"post", "backoff"} /\ pc' = "attempt"
    /\ attempt' = IF pc = "post" THEN 0 ELSE attempt + 1
    /\ batch' = batch /\ hand' = hand /\ fate' = fate
    /\ requests' = Append(requests, batch) /\ received' = received

(* An attempt has failed and is not the last. *)
Paused ==
    /\ pc = "attempt" /\ pc' = "backoff" /\ attempt' = attempt
    /\ batch' = batch /\ hand' = hand /\ fate' = fate
    /\ requests' = requests /\ received' = received

(* The batch has its end. *)
Settled(f) ==
    /\ pc = "attempt" /\ pc' \notin Trying
    /\ f = "acked" => HasArrived
    /\ f = "exhausted" => attempt = retry_max_attempts
    /\ batch' = << >> /\ hand' \in {0, hand} /\ requests' = requests /\ received' = received
    /\ \A e \in EventIds :
         IF fate[e] = "batched" THEN fate'[e] = f
         ELSE fate'[e] = fate[e] \/ (fate[e] = "hand" /\ fate'[e] = "refused")

(* What could not be sent is freed. *)
Freed ==
    /\ pc = "closed" /\ pc' = "closed"
    /\ batch' = << >> /\ hand' = hand /\ requests' = requests /\ received' = received
    /\ \A e \in EventIds : fate'[e] = IF fate[e] = "batched" THEN "freed" ELSE fate[e]

(* Time passes, or a request arrives. *)
Waits ==
    /\ UNCHANGED <<pc, attempt, batch, hand, fate, requests>>
    /\ received' = received \/ \E i \in on_the_way : received' = Append(received, i)

Ends == {"acked", "rejected", "exhausted"}

(* Every step of the backend is of one of these kinds. *)
LEMMA SendMoves ==
    ASSUME HttpInv, [Use]_vars
    PROVE  Born \/ Joined \/ Quiet \/ Sent \/ Paused \/ (\E f \in Ends : Settled(f)) \/ Freed \/ Waits
<1> USE DEF HttpInv
<1>1. /\ Elems(batch) \subseteq EventIds /\ hand \notin Elems(batch)
      /\ \A e \in EventIds : e \in Elems(batch) <=> fate[e] = "batched"
      /\ \A e \in EventIds : e = hand <=> fate[e] = "hand"
      /\ fate \in [EventIds -> Fates]
  <2>1. Elems(batch) \subseteq EventIds /\ fate \in [EventIds -> Fates]
    BY DEF CallType, Elems
  <2>2. /\ \A e \in EventIds : e \in Elems(batch) <=> fate[e] = "batched"
        /\ \A e \in EventIds : e = hand <=> fate[e] = "hand"
    BY DEF BatchInv
  <2>3. QED
    BY <2>1, <2>2
<1>2. ASSUME NEW S, NEW f, Settle(S, f)
      PROVE  \A e \in EventIds : fate'[e] = IF e \in S THEN f ELSE fate[e]
  BY <1>2 DEF Settle
<1>3. ASSUME NEW r \in {0, -1}, NEW S \in SUBSET EventIds, NEW f \in Fates,
             pc \in {"post", "attempt"}, PostReturn(r, S, f), hand \notin S
      PROVE  /\ hand' \in {0, hand} /\ pc' \notin Trying
             /\ \A e \in EventIds :
                  /\ e \in S => fate'[e] = f
                  /\ e \notin S => fate'[e] = fate[e] \/ (fate[e] = "hand" /\ fate'[e] = "refused")
  BY <1>1, <1>3, Returned DEF Posting, Trying
<1>4. /\ {} \in SUBSET EventIds /\ Elems(batch) \in SUBSET EventIds /\ hand \notin {}
      /\ 0 \in {0, -1} /\ -1 \in {0, -1}
      /\ "batched" \in Fates /\ "acked" \in Fates /\ "rejected" \in Fates /\ "exhausted" \in Fates
  BY <1>1 DEF Fates
<1>5. ASSUME NEW r \in {0, -1}, NEW f \in Ends,
             pc = "attempt", PostReturn(r, Elems(batch), f), batch' = << >>,
             requests' = requests, received' = received,
             f = "acked" => HasArrived, f = "exhausted" => attempt = retry_max_attempts
      PROVE  \E g \in Ends : Settled(g)
  <2>1. /\ hand' \in {0, hand} /\ pc' \notin Trying
        /\ \A e \in EventIds :
             /\ e \in Elems(batch) => fate'[e] = f
             /\ e \notin Elems(batch) => fate'[e] = fate[e] \/ (fate[e] = "hand" /\ fate'[e] = "refused")
    BY <1>1, <1>3, <1>4, <1>5 DEF Ends
  <2>2. Settled(f)
    BY <1>1, <1>5, <2>1 DEF Settled
  <2>3. QED
    BY <2>2
<1>6. ASSUME NEW r \in {0, -1}, pc = "post", PostReturn(r, {}, "batched"), batch' = batch,
             requests' = requests, received' = received
      PROVE  Quiet
  <2>1. /\ hand' \in {0, hand} /\ pc' \notin Trying
        /\ \A e \in EventIds : fate'[e] = fate[e] \/ (fate[e] = "hand" /\ fate'[e] = "refused")
    BY <1>3, <1>4, <1>6
  <2>2. QED
    BY <1>6, <2>1 DEF Quiet, Trying
<1>7. ASSUME NEW d \in EventIds, EmitEvent(d) PROVE Born
  <2>1. /\ pc = "idle" /\ pc' = "maybe_flush" /\ hand' = d /\ fate[d] = "unborn"
        /\ \A e \in 1 .. d - 1 : fate[e] # "unborn"
        /\ Settle({d}, "hand") /\ batch' = batch /\ requests' = requests /\ received' = received
    BY <1>7 DEF EmitEvent, Goto, batch_vars, net_vars
  <2>2. QED
    BY <1>2, <2>1 DEF Born, Trying
<1>8. CASE AppendEvent
  <2>1. /\ pc = "append" /\ pc' \in {"post", "idle"} /\ hand' = 0 /\ requests' = requests /\ received' = received
        /\ \/ Settle({hand}, "batched") /\ batch' = Append(batch, hand)
           \/ Settle({hand}, "refused") /\ batch' = batch
    BY <1>8 DEF AppendEvent, Refuse, CallPost, Goto, net_vars
  <2>2. hand \in EventIds
    BY <2>1 DEF CallInv, CallType, EventIds
  <2>3. QED
    BY <1>1, <1>2, <2>1, <2>2 DEF Joined, Quiet, Trying
<1>9. CASE PostNoMemory
  BY <1>4, <1>6, <1>9 DEF PostNoMemory, batch_vars, net_vars
<1>10. CASE PostBegin
  <2>1. CASE pc = "post" /\ PostReturn(0, {}, "batched") /\ UNCHANGED net_vars
    BY <1>4, <1>6, <1>10, <2>1 DEF PostBegin, batch_vars, net_vars
  <2>2. CASE pc = "post" /\ pc' = "attempt" /\ Send /\ UNCHANGED <<caller, attempt, hand, fate>>
    BY <1>10, <2>2 DEF PostBegin, Send, Sent, batch_vars, CallInv
  <2>3. QED
    BY <1>10, <2>1, <2>2 DEF PostBegin, Goto
<1>11. CASE Acked
  BY <1>4, <1>5, <1>11 DEF Acked, free_batch_items, net_vars, Ends
<1>12. CASE Rejected
  BY <1>4, <1>5, <1>12 DEF Rejected, free_batch_items, Ends
<1>13. CASE Failed
  <2>1. pc = "attempt" /\ requests' = requests /\ received' = received
    BY <1>13 DEF Failed, net_vars
  <2>2. CASE pc' = "backoff" /\ UNCHANGED <<batch_vars, caller, attempt, hand, fate>>
    BY <2>1, <2>2 DEF Paused, batch_vars
  <2>3. CASE ~MoreAttempts /\ PostReturn(-1, Elems(batch), "exhausted") /\ batch' = << >>
    <3>1. attempt = retry_max_attempts
      BY <2>3, ConfigAssumption DEF MoreAttempts, CallType
    <3>2. QED
      BY <1>4, <1>5, <2>1, <2>3, <3>1 DEF Ends
  <2>4. QED
    BY <1>13, <2>2, <2>3 DEF Failed, Goto, free_batch_items
<1>14. CASE Retry
  BY <1>14 DEF Retry, Goto, Send, Sent, batch_vars
<1>15. CASE FreeAll
  <2>1. /\ pc = "closed" /\ pc' = "closed" /\ requests' = requests /\ received' = received
        /\ Settle(Elems(batch), "freed") /\ batch' = << >> /\ hand' = hand
    BY <1>15 DEF FreeAll, call_vars, net_vars
  <2>2. QED
    BY <1>1, <1>2, <2>1 DEF Freed
<1>16. CASE MaybeFlush \/ output_flush \/ (pc = "idle" /\ output_shutdown)
  BY <1>16 DEF MaybeFlush, output_flush, output_shutdown, CallPost, Goto, Quiet, Trying, batch_vars, net_vars
<1>17. CASE Tick \/ Arrive \/ UNCHANGED vars
  BY <1>17 DEF Tick, Arrive, vars, batch_vars, call_vars, net_vars, Waits
<1>18. QED
  BY <1>7, <1>8, <1>9, <1>10, <1>11, <1>12, <1>13, <1>14, <1>15, <1>16, <1>17
     DEF Use, output_emit_event, http_post_batch
-----------------------------------------------------------------------------
(***************************************************************************)
(* The backend's side of the order, in the backend's own numbers.          *)
(***************************************************************************)

(* Events are handed over in order, and the event in hand is the last. *)
BirthInv ==
    /\ \A d, e \in EventIds : d < e /\ fate[d] = "unborn" => fate[e] = "unborn"
    /\ hand # 0 => \A e \in EventIds : fate[e] # "unborn" => e <= hand

(* A new event comes after all others; no other step makes one. *)
LEMMA BirthStep ==
    ASSUME HttpInv, BirthInv, [Use]_vars
    PROVE  BirthInv'
<1>1. CASE Born
  <2>1. PICK d \in EventIds :
          /\ hand' = d /\ fate[d] = "unborn" /\ \A e \in 1 .. d - 1 : fate[e] # "unborn"
          /\ \A e \in EventIds : fate'[e] = IF e = d THEN "hand" ELSE fate[e]
    BY <1>1 DEF Born
  <2>2. \A e \in EventIds :
           /\ e < d => fate[e] # "unborn"
           /\ e > d => fate[e] = "unborn"
    BY <2>1 DEF BirthInv, EventIds
  <2>3. QED
    BY <2>1, <2>2 DEF BirthInv, EventIds
<1>2. CASE ~Born
  <2>1. hand' \in {0, hand}
    BY <1>2, SendMoves DEF Joined, Quiet, Sent, Paused, Settled, Freed, Waits
  <2>2. ASSUME NEW e \in EventIds PROVE fate'[e] = "unborn" <=> fate[e] = "unborn"
    BY <1>2, SendMoves DEF Joined, Quiet, Sent, Paused, Settled, Freed, Waits, Ends, HttpInv, BatchInv
  <2>3. QED
    BY <2>1, <2>2 DEF BirthInv
<1>3. QED
  BY <1>1, <1>2
-----------------------------------------------------------------------------
(***************************************************************************)
(* The requests that carry each event: those of one call of                *)
(* http_post_batch, one after the other.                                   *)
(***************************************************************************)
TriesInv ==
    /\ pc \in Trying =>
         /\ attempt < Len(requests)
         /\ \A i \in Len(requests) - attempt .. Len(requests) : requests[i] = batch
    /\ \A e \in EventIds :
         /\ fate[e] \in {"unborn", "hand", "refused", "freed"} => Tries(e) = {}
         /\ fate[e] = "batched" =>
              Tries(e) = IF pc \in Trying THEN Len(requests) - attempt .. Len(requests) ELSE {}
         /\ fate[e] \in {"acked", "rejected"} =>
              \E a \in Nat, k \in 0 .. retry_max_attempts : Tries(e) = a .. a + k
         /\ fate[e] = "exhausted" =>
              \E a \in Nat : Tries(e) = a .. a + retry_max_attempts

(* A request that is sent carries the events of the batch. *)
LEMMA TriesAppend ==
    ASSUME HttpInv, NetInv, requests' = Append(requests, batch), NEW e \in EventIds
    PROVE  Tries(e)' = Tries(e) \cup (IF fate[e] = "batched" THEN {Len(requests) + 1} ELSE {})
<1>1. requests \in Seq(Seq(EventIds)) /\ batch \in Seq(EventIds) /\ (e \in Elems(batch) <=> fate[e] = "batched")
  BY DEF NetInv, HttpInv, CallType, BatchInv
<1>2. /\ Len(requests) \in Nat /\ Len(requests') = Len(requests) + 1 /\ requests'[Len(requests) + 1] = batch
      /\ \A i \in 1 .. Len(requests) : requests'[i] = requests[i]
  BY <1>1
<1>3. Tries(e)' = {i \in 1 .. Len(requests) + 1 : e \in Elems(requests'[i])}
  BY <1>2 DEF Tries, Elems
<1>4. \A i : i \in Tries(e)' <=> i \in Tries(e) \/ (i = Len(requests) + 1 /\ fate[e] = "batched")
  <2>1. ASSUME NEW i \in 1 .. Len(requests) PROVE i \in Tries(e)' <=> i \in Tries(e)
    BY <1>2, <1>3, <2>1 DEF Tries
  <2>2. Len(requests) + 1 \in Tries(e)' <=> fate[e] = "batched"
    BY <1>1, <1>2, <1>3
  <2>3. ASSUME NEW i \in Tries(e)' PROVE i \in 1 .. Len(requests) \/ i = Len(requests) + 1
    BY <1>2, <1>3
  <2>4. ASSUME NEW i \in Tries(e) PROVE i \in 1 .. Len(requests)
    BY DEF Tries
  <2>5. QED
    BY <2>1, <2>2, <2>3, <2>4
<1>5. QED
  BY <1>4

(* A batch is sent again only within the call that sent it, and at the end *)
(* of that call its events leave the batch.                                *)
LEMMA TriesStep ==
    ASSUME HttpInv, NetInv, TriesInv, [Use]_vars
    PROVE  TriesInv'
<1>1. /\ attempt \in 0 .. retry_max_attempts /\ Len(requests) \in Nat /\ retry_max_attempts \in Nat
      /\ fate \in [EventIds -> Fates]
  BY ConfigAssumption DEF HttpInv, CallType, NetInv
<1>2. ASSUME requests' = requests, NEW e \in EventIds PROVE Tries(e)' = Tries(e)
  BY <1>2 DEF Tries
<1>3. ASSUME Born \/ Joined \/ Quiet \/ Freed PROVE TriesInv'
  <2>1. /\ requests' = requests /\ pc \notin Trying /\ pc' \notin Trying
        /\ \A e \in EventIds :
             \/ fate'[e] = fate[e]
             \/ /\ fate[e] \in {"unborn", "hand", "batched"}
                /\ fate'[e] \in {"hand", "refused", "batched", "freed"}
    <3>1. CASE Born
      BY <3>1 DEF Born
    <3>2. CASE Joined
      BY <3>2 DEF Joined, HttpInv, BatchInv
    <3>3. CASE Quiet
      BY <3>3 DEF Quiet
    <3>4. CASE Freed
      BY <3>4 DEF Freed, Trying
    <3>5. QED
      BY <1>3, <3>1, <3>2, <3>3, <3>4
  <2>2. ASSUME NEW e \in EventIds
        PROVE /\ fate'[e] \in {"unborn", "hand", "refused", "freed"} => Tries(e)' = {}
              /\ fate'[e] = "batched" => Tries(e)' = {}
              /\ fate'[e] \in {"acked", "rejected"} =>
                   \E a \in Nat, k \in 0 .. retry_max_attempts : Tries(e)' = a .. a + k
              /\ fate'[e] = "exhausted" => \E a \in Nat : Tries(e)' = a .. a + retry_max_attempts
    <3>1. Tries(e)' = Tries(e)
      BY <1>2, <2>1
    <3>2. CASE fate'[e] = fate[e]
      BY <2>1, <3>1, <3>2 DEF TriesInv
    <3>3. CASE /\ fate[e] \in {"unborn", "hand", "batched"}
               /\ fate'[e] \in {"hand", "refused", "batched", "freed"}
      BY <2>1, <3>1, <3>3 DEF TriesInv
    <3>4. QED
      BY <2>1, <3>2, <3>3
  <2>3. QED
    BY <2>1, <2>2 DEF TriesInv
<1>4. CASE Paused \/ Waits
  <2>1. /\ requests' = requests /\ fate' = fate /\ batch' = batch /\ attempt' = attempt
        /\ pc' \in Trying <=> pc \in Trying
    BY <1>4 DEF Paused, Waits, Trying
  <2>2. \A e \in EventIds : Tries(e)' = Tries(e)
    BY <1>2, <2>1
  <2>3. QED
    BY <2>1, <2>2 DEF TriesInv
<1>5. CASE Sent
  <2>1. /\ pc \in {"post", "backoff"} /\ pc' \in Trying /\ batch' = batch /\ fate' = fate
        /\ attempt' = (IF pc = "post" THEN 0 ELSE attempt + 1)
        /\ requests' = Append(requests, batch) /\ (pc = "backoff" => pc \in Trying) /\ (pc = "post" => pc \notin Trying)
    BY <1>5 DEF Sent, Trying
  <2>2. /\ Len(requests') = Len(requests) + 1 /\ requests'[Len(requests) + 1] = batch
        /\ \A i \in 1 .. Len(requests) : requests'[i] = requests[i]
    BY <2>1 DEF NetInv, HttpInv, CallType
  <2>3. /\ attempt' < Len(requests')
        /\ \A i \in Len(requests') - attempt' .. Len(requests') : requests'[i] = batch'
    <3>1. CASE pc = "post"
      <4>1. attempt' = 0 /\ Len(requests') - attempt' = Len(requests) + 1
        BY <1>1, <2>1, <2>2, <3>1
      <4>2. QED
        BY <1>1, <2>1, <2>2, <4>1
    <3>2. CASE pc = "backoff"
      <4>1. attempt < Len(requests) /\ \A i \in Len(requests) - attempt .. Len(requests) : requests[i] = batch
        BY <2>1, <3>2 DEF TriesInv
      <4>2. attempt' = attempt + 1 /\ Len(requests') - attempt' = Len(requests) - attempt
        BY <1>1, <2>1, <2>2, <3>2
      <4>3. QED
        BY <1>1, <2>1, <2>2, <4>1, <4>2
    <3>3. QED
      BY <2>1, <3>1, <3>2
  <2>4. ASSUME NEW e \in EventIds, fate[e] # "batched" PROVE Tries(e)' = Tries(e)
    BY <2>1, <2>4, TriesAppend
  <2>5. ASSUME NEW e \in EventIds, fate[e] = "batched"
        PROVE  Tries(e)' = Len(requests') - attempt' .. Len(requests')
    <3>1. Tries(e)' = Tries(e) \cup {Len(requests) + 1}
      BY <2>1, <2>5, TriesAppend
    <3>2. CASE pc = "post"
      <4>1. Tries(e) = {} /\ attempt' = 0
        BY <2>1, <2>5, <3>2 DEF TriesInv
      <4>2. QED
        BY <1>1, <2>2, <3>1, <4>1
    <3>3. CASE pc = "backoff"
      <4>1. Tries(e) = Len(requests) - attempt .. Len(requests) /\ attempt' = attempt + 1
        BY <2>1, <2>5, <3>3 DEF TriesInv
      <4>2. QED
        BY <1>1, <2>2, <3>1, <4>1
    <3>4. QED
      BY <2>1, <3>2, <3>3
  <2>6. ASSUME NEW e \in EventIds
        PROVE /\ fate'[e] \in {"unborn", "hand", "refused", "freed"} => Tries(e)' = {}
              /\ fate'[e] = "batched" => Tries(e)' = Len(requests') - attempt' .. Len(requests')
              /\ fate'[e] \in {"acked", "rejected"} =>
                   \E a \in Nat, k \in 0 .. retry_max_attempts : Tries(e)' = a .. a + k
              /\ fate'[e] = "exhausted" => \E a \in Nat : Tries(e)' = a .. a + retry_max_attempts
    <3>1. CASE fate[e] = "batched"
      BY <2>1, <2>5, <3>1
    <3>2. CASE fate[e] # "batched"
      <4>1. Tries(e)' = Tries(e) /\ fate'[e] = fate[e]
        BY <2>1, <2>4, <3>2
      <4>2. QED
        BY <3>2, <4>1 DEF TriesInv
    <3>3. QED
      BY <3>1, <3>2
  <2>7. QED
    BY <2>1, <2>3, <2>6 DEF TriesInv
<1>6. ASSUME NEW f \in Ends, Settled(f) PROVE TriesInv'
  <2>1. /\ requests' = requests /\ pc \in Trying /\ pc' \notin Trying
        /\ f = "exhausted" => attempt = retry_max_attempts
        /\ \A e \in EventIds :
             IF fate[e] = "batched" THEN fate'[e] = f
             ELSE fate'[e] = fate[e] \/ (fate[e] = "hand" /\ fate'[e] = "refused")
    BY <1>6 DEF Settled, Trying
  <2>2. ASSUME NEW e \in EventIds
        PROVE /\ fate'[e] \in {"unborn", "hand", "refused", "freed"} => Tries(e)' = {}
              /\ fate'[e] = "batched" => Tries(e)' = {}
              /\ fate'[e] \in {"acked", "rejected"} =>
                   \E a \in Nat, k \in 0 .. retry_max_attempts : Tries(e)' = a .. a + k
              /\ fate'[e] = "exhausted" => \E a \in Nat : Tries(e)' = a .. a + retry_max_attempts
    <3>1. Tries(e)' = Tries(e)
      BY <1>2, <2>1
    <3>2. CASE fate[e] = "batched"
      <4>1. /\ Tries(e)' = Len(requests) - attempt .. Len(requests) /\ attempt < Len(requests)
            /\ fate'[e] = f
        BY <2>1, <3>1, <3>2 DEF TriesInv
      <4>2. Len(requests) - attempt \in Nat /\ Len(requests) = (Len(requests) - attempt) + attempt
        BY <1>1, <4>1
      <4>3. \E a \in Nat, k \in 0 .. retry_max_attempts : k = attempt /\ Tries(e)' = a .. a + k
        BY <1>1, <4>1, <4>2
      <4>4. f = "exhausted" => \E a \in Nat : Tries(e)' = a .. a + retry_max_attempts
        BY <2>1, <4>3
      <4>5. f \in {"acked", "rejected", "exhausted"}
        BY DEF Ends
      <4>6. QED
        BY <4>1, <4>3, <4>4, <4>5
    <3>3. CASE fate[e] # "batched"
      <4>1. fate'[e] = fate[e] \/ (fate[e] = "hand" /\ fate'[e] = "refused")
        BY <2>1, <3>3
      <4>2. QED
        BY <3>1, <3>3, <4>1 DEF TriesInv
    <3>4. QED
      BY <3>2, <3>3
  <2>3. QED
    BY <2>1, <2>2 DEF TriesInv
<1>7. QED
  BY <1>3, <1>4, <1>5, <1>6, SendMoves

(* Nothing has been sent. *)
LEMMA TriesInit == Init => TriesInv
<1> SUFFICES ASSUME Init PROVE TriesInv
  OBVIOUS
<1>1. requests = << >> /\ pc = "idle" /\ \A e \in EventIds : fate[e] = "unborn"
  BY DEF Init
<1>2. \A e \in EventIds : Tries(e) = {}
  BY <1>1 DEF Tries
<1>3. QED
  BY <1>1, <1>2 DEF TriesInv, Trying
-----------------------------------------------------------------------------
(***************************************************************************)
(* The order of the requests.                                              *)
(***************************************************************************)
BatchOrder ==
    /\ Ascending(batch)
    /\ \A e \in EventIds : Tries(e) # {} /\ fate[e] # "batched" =>
         \A x \in Elems(batch) : e < x

RequestOrder ==
    /\ \A i \in 1 .. Len(requests) : Ascending(requests[i])
    /\ \A i, j \in 1 .. Len(requests) :
         i < j => \/ requests[i] = requests[j]
                  \/ \A x \in Elems(requests[i]), y \in Elems(requests[j]) : x < y

(* The event in hand goes behind the others. *)
LEMMA BatchOrderStep ==
    ASSUME HttpInv, NetInv, BirthInv, TriesInv, BatchOrder, [Use]_vars
    PROVE  BatchOrder'
<1>1. batch \in Seq(EventIds) /\ Elems(batch) \subseteq EventIds
  BY DEF HttpInv, CallType, Elems
<1>2. ASSUME requests' = requests, NEW e \in EventIds PROVE Tries(e)' = Tries(e)
  BY <1>2 DEF Tries
<1>3. ASSUME requests' = requests, batch' = batch,
             \A e \in EventIds : fate'[e] # "batched" => fate[e] # "batched" \/ Tries(e) = {}
      PROVE  BatchOrder'
  <2>1. Ascending(batch')
    BY <1>3 DEF BatchOrder
  <2>2. ASSUME NEW e \in EventIds, Tries(e)' # {}, fate'[e] # "batched", NEW x \in Elems(batch') PROVE e < x
    BY <1>2, <1>3, <2>2 DEF BatchOrder
  <2>3. QED
    BY <2>1, <2>2 DEF BatchOrder
<1>4. CASE Joined
  <2>1. /\ hand \in EventIds /\ batch' = Append(batch, hand) /\ requests' = requests
        /\ \A e \in EventIds : fate'[e] = IF e = hand THEN "batched" ELSE fate[e]
    BY <1>4 DEF Joined
  <2>2. /\ Len(batch') = Len(batch) + 1 /\ Len(batch) \in Nat /\ batch'[Len(batch) + 1] = hand
        /\ \A p \in 1 .. Len(batch) : batch'[p] = batch[p] /\ batch[p] \in Elems(batch)
        /\ Elems(batch') = Elems(batch) \cup {hand}
    <3>1. Elems(batch') = Elems(batch) \cup {hand}
      BY <1>1, <2>1, ElemsOf
    <3>2. QED
      BY <1>1, <2>1, <3>1 DEF Elems
  <2>3. \A e \in EventIds : fate[e] # "unborn" /\ e # hand => e < hand
    <3>1. hand # 0 /\ hand \in Nat
      BY <2>1 DEF EventIds
    <3>2. QED
      BY <3>1 DEF BirthInv, EventIds
  <2>4. \A x \in Elems(batch) : x < hand
    <3>1. \A x \in Elems(batch) : x \in EventIds /\ fate[x] = "batched" /\ x # hand
      BY <1>1, <2>1 DEF HttpInv, BatchInv
    <3>2. QED
      BY <2>3, <3>1
  <2>5. Ascending(batch')
    <3>1. ASSUME NEW p \in 1 .. Len(batch'), NEW q \in 1 .. Len(batch'), p < q PROVE batch'[p] < batch'[q]
      <4>1. CASE q \in 1 .. Len(batch)
        <5>1. p \in 1 .. Len(batch)
          BY <2>2, <3>1, <4>1
        <5>2. batch[p] < batch[q]
          BY <3>1, <4>1, <5>1 DEF BatchOrder, Ascending
        <5>3. QED
          BY <2>2, <4>1, <5>1, <5>2
      <4>2. CASE q = Len(batch) + 1
        <5>1. p \in 1 .. Len(batch)
          BY <2>2, <3>1, <4>2
        <5>2. QED
          BY <2>2, <2>4, <4>2, <5>1
      <4>3. QED
        BY <2>2, <4>1, <4>2
    <3>2. QED
      BY <3>1 DEF Ascending
  <2>6. ASSUME NEW e \in EventIds, Tries(e)' # {}, fate'[e] # "batched", NEW x \in Elems(batch') PROVE e < x
    <3>1. Tries(e) # {} /\ e # hand /\ fate[e] # "batched"
      BY <1>2, <2>1, <2>6
    <3>2. fate[e] # "unborn"
      BY <3>1 DEF TriesInv
    <3>3. CASE x = hand
      BY <2>3, <3>1, <3>2, <3>3
    <3>4. CASE x \in Elems(batch)
      BY <3>1, <3>4 DEF BatchOrder
    <3>5. QED
      BY <2>2, <2>6, <3>3, <3>4
  <2>7. QED
    BY <2>5, <2>6 DEF BatchOrder
<1>5. CASE Born
  BY <1>3, <1>5 DEF Born
<1>6. CASE Quiet
  BY <1>3, <1>6 DEF Quiet
<1>7. CASE Paused \/ Waits
  BY <1>3, <1>7 DEF Paused, Waits
<1>8. CASE Sent
  <2>1. batch' = batch /\ fate' = fate /\ requests' = Append(requests, batch)
    BY <1>8 DEF Sent
  <2>2. \A e \in EventIds : fate[e] # "batched" => Tries(e)' = Tries(e)
    BY <2>1, TriesAppend
  <2>3. QED
    BY <2>1, <2>2 DEF BatchOrder
<1>9. CASE Freed \/ \E f \in Ends : Settled(f)
  <2>1. batch' = << >>
    BY <1>9 DEF Freed, Settled
  <2>2. Ascending(batch') /\ Elems(batch') = {}
    BY <2>1 DEF Ascending, Elems
  <2>3. QED
    BY <2>2 DEF BatchOrder
<1>10. QED
  BY <1>4, <1>5, <1>6, <1>7, <1>8, <1>9, SendMoves

(* A request carries the batch of the one before, or events behind all     *)
(* that were sent.                                                         *)
LEMMA RequestOrderStep ==
    ASSUME HttpInv, NetInv, TriesInv, BatchOrder, RequestOrder, [Use]_vars
    PROVE  RequestOrder'
<1>1. CASE requests' = requests
  BY <1>1 DEF RequestOrder
<1>2. CASE Sent
  <2>1. batch \in Seq(EventIds) /\ requests \in Seq(Seq(EventIds)) /\ requests' = Append(requests, batch)
    BY <1>2 DEF Sent, HttpInv, CallType, NetInv
  <2>2. /\ Len(requests) \in Nat /\ Len(requests') = Len(requests) + 1 /\ requests'[Len(requests) + 1] = batch
        /\ \A i \in 1 .. Len(requests) : requests'[i] = requests[i] /\ requests[i] \in Seq(EventIds)
    BY <2>1
  <2>3. ASSUME NEW i \in 1 .. Len(requests), requests[i] # batch,
               NEW x \in Elems(requests[i]), NEW y \in Elems(batch)
        PROVE  x < y
    <3>1. x \in EventIds /\ y \in EventIds /\ i \in Tries(x)
      <4>1. requests[i] \in Seq(EventIds) /\ batch \in Seq(EventIds)
        BY <2>1, <2>2
      <4>2. x \in EventIds /\ y \in EventIds
        BY <2>3, <4>1 DEF Elems
      <4>3. QED
        BY <2>3, <4>2 DEF Tries
    <3>2. CASE fate[x] = "batched"
      <4>1. /\ pc \in Trying
            /\ Tries(x) = Len(requests) - attempt .. Len(requests)
        BY <3>1, <3>2 DEF TriesInv
      <4>2. requests[i] = batch
        BY <3>1, <4>1 DEF TriesInv
      <4>3. QED
        BY <2>3, <4>2
    <3>3. CASE fate[x] # "batched"
      BY <3>1, <3>3, <2>3 DEF BatchOrder
    <3>4. QED
      BY <3>2, <3>3
  <2>4. ASSUME NEW i \in 1 .. Len(requests') PROVE Ascending(requests'[i])
    <3>1. CASE i \in 1 .. Len(requests)
      BY <2>2, <3>1 DEF RequestOrder
    <3>2. CASE i = Len(requests) + 1
      BY <2>2, <3>2 DEF BatchOrder
    <3>3. QED
      BY <2>2, <3>1, <3>2
  <2>5. ASSUME NEW i \in 1 .. Len(requests'), NEW j \in 1 .. Len(requests'), i < j
        PROVE \/ requests'[i] = requests'[j]
              \/ \A x \in Elems(requests'[i]), y \in Elems(requests'[j]) : x < y
    <3>1. i \in 1 .. Len(requests) /\ requests'[i] = requests[i]
      BY <2>2, <2>5
    <3>2. CASE j \in 1 .. Len(requests)
      BY <2>2, <2>5, <3>1, <3>2 DEF RequestOrder
    <3>3. CASE j = Len(requests) + 1
      BY <2>2, <2>3, <3>1, <3>3
    <3>4. QED
      BY <2>2, <3>2, <3>3
  <2>6. QED
    BY <2>4, <2>5 DEF RequestOrder
<1>3. QED
  BY <1>1, <1>2, SendMoves DEF Born, Joined, Quiet, Paused, Settled, Freed, Waits

(* What has arrived of an acknowledged event, and of those behind it. *)
ArrivalInv ==
    \A x \in EventIds : fate[x] = "acked" =>
        /\ Arrivals(x) # {}
        /\ \A y \in EventIds : x < y => \A q \in Arrivals(y) : \E p \in Arrivals(x) : p <= q

(* An arrival shows a request that was sent, and is the last so far. *)
LEMMA ArrivalMoves ==
    ASSUME HttpInv, NetInv, [Use]_vars, NEW e \in EventIds
    PROVE  /\ Arrivals(e) \subseteq Arrivals(e)'
           /\ \A q \in Arrivals(e)' : q \notin Arrivals(e) => \A p \in 1 .. Len(received) : p <= q
           /\ Arrivals(e) \subseteq 1 .. Len(received)
           /\ (received' = received => Arrivals(e)' = Arrivals(e))
<1>1. /\ received \in Seq(1 .. Len(requests)) /\ Len(received) \in Nat /\ requests \in Seq(Seq(EventIds))
      /\ batch \in Seq(EventIds)
  BY DEF NetInv, HttpInv, CallType
<1>2. ASSUME NEW i \in 1 .. Len(requests) PROVE requests'[i] = requests[i]
  <2>1. CASE requests' = requests
    BY <2>1
  <2>2. CASE requests' = Append(requests, batch)
    BY <1>1, <2>2
  <2>3. QED
    BY <2>1, <2>2, SendMoves DEF Born, Joined, Quiet, Sent, Paused, Settled, Freed, Waits
<1>3. \A p \in 1 .. Len(received) : received[p] \in 1 .. Len(requests)
  BY <1>1
<1>4. Arrivals(e) \subseteq 1 .. Len(received)
  BY DEF Arrivals
<1>5. ASSUME received' = received PROVE Arrivals(e)' = Arrivals(e)
  BY <1>2, <1>3, <1>5 DEF Arrivals
<1>6. ASSUME NEW i \in on_the_way, received' = Append(received, i)
      PROVE  /\ Arrivals(e) \subseteq Arrivals(e)'
             /\ \A q \in Arrivals(e)' : q \notin Arrivals(e) => q = Len(received) + 1
  <2>1. /\ Len(received') = Len(received) + 1
        /\ \A p \in 1 .. Len(received) : received'[p] = received[p]
    BY <1>1, <1>6 DEF NetInv
  <2>2. ASSUME NEW p \in 1 .. Len(received) PROVE p \in Arrivals(e)' <=> p \in Arrivals(e)
    <3>1. received'[p] = received[p] /\ requests'[received[p]] = requests[received[p]] /\ p \in 1 .. Len(received')
      BY <1>1, <1>2, <1>3, <2>1
    <3>2. QED
      BY <3>1 DEF Arrivals
  <2>3. \A q \in Arrivals(e)' : q \in 1 .. Len(received) + 1
    BY <2>1 DEF Arrivals
  <2>4. QED
    BY <1>1, <1>4, <2>2, <2>3
<1>7. CASE received' = received
  BY <1>4, <1>5, <1>7
<1>8. CASE \E i \in on_the_way : received' = Append(received, i)
  BY <1>1, <1>4, <1>5, <1>6, <1>8
<1>9. QED
  BY <1>7, <1>8, SendMoves DEF Born, Joined, Quiet, Sent, Paused, Settled, Freed, Waits

(* The answer is to the last request, whose events are ahead of all that   *)
(* are yet to be sent.                                                     *)
LEMMA ArrivalStep ==
    ASSUME HttpInv, NetInv, TriesInv, RequestOrder, ArrivalInv, [Use]_vars
    PROVE  ArrivalInv'
<1>1. ASSUME NEW x \in EventIds, fate'[x] = "acked"
      PROVE  /\ Arrivals(x) # {}
             /\ \A y \in EventIds : x < y => \A q \in Arrivals(y) : \E p \in Arrivals(x) : p <= q
  <2>1. CASE fate[x] = "acked"
    BY <2>1 DEF ArrivalInv
  <2>2. CASE fate[x] # "acked"
    <3>1. Settled("acked") /\ fate[x] = "batched"
      BY <1>1, <2>2, SendMoves DEF Born, Joined, Quiet, Sent, Paused, Settled, Freed, Waits, Ends
    <3>2. /\ pc = "attempt" /\ pc \in Trying /\ Len(requests) \in Elems(received)
          /\ attempt \in Nat /\ Len(requests) \in Nat /\ x \in Elems(batch)
      BY <3>1 DEF Settled, HasArrived, Trying, HttpInv, CallType, BatchInv, NetInv
    <3>3. requests[Len(requests)] = batch /\ attempt < Len(requests)
      BY <3>2 DEF TriesInv
    <3>4. PICK p0 \in 1 .. Len(received) : received[p0] = Len(requests)
      BY <3>2 DEF Elems
    <3>5. p0 \in Arrivals(x)
      BY <3>2, <3>3, <3>4 DEF Arrivals
    <3>6. ASSUME NEW y \in EventIds, x < y, NEW q \in Arrivals(y)
          PROVE  q \in Arrivals(x)
      <4>1. /\ q \in 1 .. Len(received) /\ y \in Elems(requests[received[q]])
            /\ received[q] \in 1 .. Len(requests)
        BY <3>6 DEF Arrivals, NetInv
      <4>2. CASE requests[received[q]] = batch
        BY <3>2, <4>1, <4>2 DEF Arrivals
      <4>3. CASE requests[received[q]] # batch
        <5>1. received[q] < Len(requests) /\ Len(requests) \in 1 .. Len(requests)
          BY <3>2, <3>3, <4>1, <4>3
        <5>2. y < x
          BY <3>2, <3>3, <4>1, <4>3, <5>1 DEF RequestOrder
        <5>3. QED
          BY <3>6, <5>2 DEF EventIds
      <4>4. QED
        BY <4>2, <4>3
    <3>7. ASSUME NEW y \in EventIds, x < y, NEW q \in Arrivals(y)
          PROVE  \E p \in Arrivals(x) : p <= q
      <4>1. q \in Arrivals(x) /\ q \in Nat
        BY <3>6, <3>7 DEF Arrivals
      <4>2. QED
        BY <4>1
    <3>8. QED
      BY <3>5, <3>7
  <2>3. QED
    BY <2>1, <2>2
<1>2. ASSUME NEW x \in EventIds, fate'[x] = "acked"
      PROVE  /\ Arrivals(x)' # {}
             /\ \A y \in EventIds : x < y => \A q \in Arrivals(y)' : \E p \in Arrivals(x)' : p <= q
  <2>1. /\ Arrivals(x) # {} /\ Arrivals(x) \subseteq Arrivals(x)' /\ Arrivals(x) \subseteq 1 .. Len(received)
    BY <1>1, <1>2, ArrivalMoves
  <2>2. ASSUME NEW y \in EventIds, x < y, NEW q \in Arrivals(y)' PROVE \E p \in Arrivals(x)' : p <= q
    <3>1. CASE q \in Arrivals(y)
      BY <1>1, <1>2, <2>1, <2>2, <3>1
    <3>2. CASE q \notin Arrivals(y)
      <4>1. \A p \in 1 .. Len(received) : p <= q
        BY <2>2, <3>2, ArrivalMoves
      <4>2. QED
        BY <2>1, <4>1
    <3>3. QED
      BY <3>1, <3>2
  <2>3. QED
    BY <2>1, <2>2
<1>3. QED
  BY <1>2 DEF ArrivalInv
-----------------------------------------------------------------------------
(***************************************************************************)
(* While nothing has failed every batch is acknowledged at once.           *)
(***************************************************************************)
CleanInv ==
    ~faulted =>
        /\ pc # "backoff" /\ attempt = 0
        /\ pc = "closed" => batch = << >>
        /\ \A e \in EventIds :
             /\ fate[e] \in {"unborn", "hand", "batched", "acked"}
             /\ fate[e] = "acked" => \E i \in Nat : Tries(e) = {i}

(* A return from http_post_batch: the batch is acknowledged, or there was  *)
(* none.                                                                   *)
Emptied ==
    /\ pc \in {"post", "attempt"} /\ pc' \notin Posting
    /\ attempt' = 0 /\ batch' = << >> /\ requests' = requests
    /\ pc = "post" => Elems(batch) = {}
    /\ \A e \in EventIds : fate'[e] = IF fate[e] = "batched" THEN "acked" ELSE fate[e]

(* What a step can do without a failure. *)
LEMMA CleanMoves ==
    ASSUME HttpInv, CleanInv, [Use]_vars, ~faulted'
    PROVE  /\ ~faulted /\ pc' # "backoff" /\ attempt' = 0
           /\ pc' \in {"idle", "closed"} =>
                \/ batch' = << >>
                \/ batch' = batch /\ pc' = pc
                \/ pc = "append" /\ pc' = "idle"
           /\ \/ Emptied
              \/ Sent /\ pc = "post"
              \/ requests' = requests /\ \A e \in EventIds : fate'[e] \in {fate[e], "hand", "batched"}
<1> USE DEF HttpInv
<1>1. ~faulted
  BY NetMoves
<1>2. pc # "backoff" /\ attempt = 0
  BY <1>1 DEF CleanInv
<1>3. ASSUME NEW e \in EventIds, EmitEvent(e)
      PROVE  /\ pc' = "maybe_flush" /\ attempt' = attempt /\ requests' = requests
             /\ \A d \in EventIds : fate'[d] \in {fate[d], "hand"}
  BY <1>3 DEF EmitEvent, Goto, batch_vars, net_vars, Settle
<1>4. CASE AppendEvent
  <2>1. /\ pc = "append" /\ pc' \in {"post", "idle"} /\ requests' = requests
        /\ attempt' \in {0, attempt}
        /\ Settle({hand}, "batched")
    BY <1>1, <1>4 DEF AppendEvent, CallPost, Goto, net_vars
  <2>2. QED
    BY <1>1, <1>2, <2>1 DEF Settle
<1>5. ASSUME NEW S \in SUBSET EventIds, NEW f \in Fates, PostReturn(0, S, f), pc \in {"post", "attempt"},
             S = Elems(batch), S # {} => f = "acked", batch' = << >>, requests' = requests,
             pc = "post" => S = {}
      PROVE  Emptied /\ pc' # "backoff" /\ attempt' = 0 /\ batch' = << >>
  <2>1. hand \notin S /\ pc \in Posting /\ 0 \in {0, -1}
    BY <1>5 DEF BatchInv, Posting
  <2>2. /\ hand' \in {0, hand} /\ pc' \in {"append", "idle", "closed"} /\ attempt' = 0
        /\ caller = "maybe_flush" => hand' = hand
        /\ caller # "maybe_flush" => hand = 0
        /\ hand' = hand \/ hand = 0
        /\ \A e \in EventIds :
             /\ e \in S => fate'[e] = f
             /\ e \notin S /\ (e # hand \/ hand' = hand) => fate'[e] = fate[e]
    BY <1>5, <2>1, Returned
  <2>3. ASSUME NEW e \in EventIds PROVE fate'[e] = IF fate[e] = "batched" THEN "acked" ELSE fate[e]
    <3>1. e # 0
      BY DEF EventIds
    <3>2. e \in S <=> fate[e] = "batched"
      BY <1>5 DEF BatchInv
    <3>3. e # hand \/ hand' = hand
      BY <2>2, <3>1
    <3>4. QED
      BY <1>5, <2>2, <3>2, <3>3
  <2>4. QED
    BY <1>5, <2>2, <2>3 DEF Emptied, Posting
<1>6. CASE PostBegin
  <2>1. CASE batch = << >> /\ pc = "post" /\ PostReturn(0, {}, "batched") /\ UNCHANGED net_vars
    <3>1. Elems(batch) = {} /\ batch' = << >> /\ requests' = requests
      BY <1>6, <2>1 DEF Elems, PostBegin, batch_vars, net_vars
    <3>2. {} \in SUBSET EventIds /\ "batched" \in Fates
      BY DEF Fates
    <3>3. QED
      BY <1>1, <1>5, <2>1, <3>1, <3>2
  <2>2. CASE pc = "post" /\ pc' = "attempt" /\ Send /\ UNCHANGED <<caller, attempt, hand, fate>>
    BY <1>1, <1>6, <2>2 DEF PostBegin, Send, Sent, batch_vars, CallInv
  <2>3. QED
    BY <1>6, <2>1, <2>2 DEF PostBegin, Goto
<1>7. CASE Acked
  <2>1. Elems(batch) \in SUBSET EventIds /\ "acked" \in Fates
    BY DEF Elems, CallType, Fates
  <2>2. QED
    BY <1>1, <1>5, <1>7, <2>1 DEF Acked, free_batch_items, net_vars
<1>8. CASE Retry
  BY <1>2, <1>8 DEF Retry, Goto
<1>9. CASE PostNoMemory \/ Rejected \/ Failed
  BY <1>9 DEF PostNoMemory, Rejected, Failed
<1>10. CASE FreeAll
  <2>1. /\ pc = "closed" /\ pc' = "closed" /\ requests' = requests /\ batch = << >> /\ batch' = << >>
        /\ Settle(Elems(batch), "freed") /\ attempt' = attempt
    BY <1>1, <1>10 DEF FreeAll, call_vars, net_vars, CleanInv
  <2>2. \A e \in EventIds : fate'[e] = fate[e]
    BY <2>1 DEF Settle, Elems
  <2>3. QED
    BY <1>1, <1>2, <2>1, <2>2
<1>11. CASE MaybeFlush \/ output_flush \/ (pc = "idle" /\ output_shutdown)
  <2>1. /\ pc' \in {"post", "append"} /\ attempt' \in {0, attempt} /\ UNCHANGED <<fate, net_vars>>
    BY <1>11 DEF MaybeFlush, output_flush, output_shutdown, CallPost, Goto
  <2>2. QED
    BY <1>1, <1>2, <2>1 DEF net_vars
<1>12. CASE Tick \/ Arrive \/ UNCHANGED vars
  <2>1. pc' = pc /\ attempt' = attempt /\ batch' = batch /\ requests' = requests /\ fate' = fate
    BY <1>12 DEF Tick, Arrive, vars, batch_vars, call_vars, net_vars
  <2>2. QED
    BY <1>1, <1>2, <2>1
<1>13. QED
  BY <1>1, <1>2, <1>3, <1>4, <1>6, <1>7, <1>8, <1>9, <1>10, <1>11, <1>12
     DEF Use, output_emit_event, http_post_batch

(* The one request of a batch is the one that is acknowledged. *)
LEMMA CleanStep ==
    ASSUME HttpInv, NetInv, TriesInv, CleanInv, [Use]_vars
    PROVE  CleanInv'
<1> SUFFICES ASSUME ~faulted'
    PROVE  /\ pc' # "backoff" /\ attempt' = 0
           /\ pc' = "closed" => batch' = << >>
           /\ \A e \in EventIds :
                /\ fate'[e] \in {"unborn", "hand", "batched", "acked"}
                /\ fate'[e] = "acked" => \E i \in Nat : Tries(e)' = {i}
  BY DEF CleanInv
<1>1. /\ ~faulted /\ attempt = 0 /\ pc' # "backoff" /\ attempt' = 0
      /\ pc' = "closed" => batch' = << >>
      /\ \A e \in EventIds :
           /\ fate[e] \in {"unborn", "hand", "batched", "acked"}
           /\ fate[e] = "acked" => \E i \in Nat : Tries(e) = {i}
  BY CleanMoves DEF CleanInv
<1>2. ASSUME requests' = requests, NEW e \in EventIds PROVE Tries(e)' = Tries(e)
  BY <1>2 DEF Tries
<1>3. CASE Emptied
  <2>1. /\ pc \in {"post", "attempt"} /\ requests' = requests
        /\ \A e \in EventIds : fate'[e] = IF fate[e] = "batched" THEN "acked" ELSE fate[e]
    BY <1>3 DEF Emptied
  <2>2. ASSUME NEW e \in EventIds, fate[e] = "batched" PROVE \E i \in Nat : Tries(e) = {i}
    <3>1. pc = "attempt" /\ pc \in Trying
      BY <1>3, <2>1, <2>2 DEF Emptied, HttpInv, BatchInv, Trying
    <3>2. Tries(e) = Len(requests) - attempt .. Len(requests) /\ Len(requests) \in Nat
      BY <2>2, <3>1 DEF TriesInv, NetInv
    <3>3. QED
      BY <1>1, <3>2
  <2>3. QED
    BY <1>1, <1>2, <2>1, <2>2
<1>4. CASE Sent /\ pc = "post"
  <2>1. fate' = fate /\ requests' = Append(requests, batch)
    BY <1>4 DEF Sent
  <2>2. \A e \in EventIds : fate[e] = "acked" => Tries(e)' = Tries(e)
    BY <2>1, TriesAppend
  <2>3. QED
    BY <1>1, <2>1, <2>2
<1>5. CASE requests' = requests /\ \A e \in EventIds : fate'[e] \in {fate[e], "hand", "batched"}
  BY <1>1, <1>2, <1>5
<1>6. QED
  BY <1>3, <1>4, <1>5, CleanMoves
-----------------------------------------------------------------------------
(* All that is known of the backend is kept by each of its steps. *)
BackendInv ==
    /\ HttpInv /\ NetInv /\ BirthInv /\ TriesInv /\ BatchOrder /\ RequestOrder
    /\ ArrivalInv /\ CleanInv

(* The backend starts with nothing in hand, batched or sent. *)
LEMMA BackendInit == Init => BackendInv
<1> SUFFICES ASSUME Init PROVE BackendInv
  OBVIOUS
<1>1. /\ batch = << >> /\ requests = << >> /\ received = << >> /\ hand = 0 /\ pc = "idle" /\ attempt = 0
      /\ \A e \in EventIds : fate[e] = "unborn"
  BY DEF Init, output_init
<1>2. BirthInv /\ ArrivalInv /\ CleanInv
  BY <1>1 DEF BirthInv, ArrivalInv, CleanInv
<1>3. BatchOrder /\ RequestOrder
  BY <1>1 DEF BatchOrder, RequestOrder, Ascending, Elems
<1>4. QED
  BY <1>2, <1>3, HttpInit, NetInit, TriesInit DEF BackendInv

(* BackendInv is inductive. *)
LEMMA BackendStep == BackendInv /\ [Use]_vars => BackendInv'
<1> SUFFICES ASSUME BackendInv, [Use]_vars PROVE BackendInv'
  OBVIOUS
<1> USE DEF BackendInv
<1>1. HttpInv' /\ NetInv' /\ BirthInv' /\ TriesInv'
  BY HttpStep, NetStep, BirthStep, TriesStep
<1>2. BatchOrder' /\ RequestOrder'
  BY BatchOrderStep, RequestOrderStep
<1>3. ArrivalInv' /\ CleanInv'
  BY ArrivalStep, CleanStep
<1>4. QED
  BY <1>1, <1>2, <1>3

(* The requests of one call are at most retry_max_attempts + 1. *)
LEMMA AttemptsMean == BackendInv => AttemptsAccounted
<1> SUFFICES ASSUME BackendInv, NEW e \in EventIds
             PROVE  /\ Cardinality(Tries(e)) <= retry_max_attempts + 1
                    /\ fate[e] = "exhausted" => Cardinality(Tries(e)) = retry_max_attempts + 1
                    /\ fate[e] \in {"unborn", "hand", "refused", "freed"} => Tries(e) = {}
                    /\ fate[e] = "acked" => Arrivals(e) # {}
  BY DEF AttemptsAccounted
<1> USE DEF BackendInv
<1>1. /\ fate[e] \in Fates /\ attempt \in 0 .. retry_max_attempts /\ Len(requests) \in Nat
      /\ retry_max_attempts \in Nat
  BY ConfigAssumption DEF HttpInv, CallType, NetInv
<1>2. ASSUME NEW a \in Nat, NEW k \in Nat PROVE Cardinality(a .. a + k) = k + 1
  <2>1. a \in Int /\ a + k \in Int /\ ~(a > a + k) /\ a + k - a + 1 = k + 1
    OBVIOUS
  <2>2. QED
    BY <2>1, FS_Interval
<1>3. Cardinality({}) = 0
  BY FS_EmptySet
<1>4. ASSUME NEW a \in Nat, NEW k \in 0 .. retry_max_attempts, Tries(e) = a .. a + k
      PROVE  Cardinality(Tries(e)) = k + 1 /\ k + 1 <= retry_max_attempts + 1
  <2>1. k \in Nat /\ k + 1 <= retry_max_attempts + 1
    BY <1>1
  <2>2. Cardinality(a .. a + k) = k + 1
    BY <1>2, <2>1
  <2>3. QED
    BY <1>4, <2>1, <2>2
<1>5. fate[e] \in {"unborn", "hand", "refused", "freed"} => Tries(e) = {}
  BY DEF TriesInv
<1>6. fate[e] = "acked" => Arrivals(e) # {}
  BY DEF ArrivalInv
<1>7. CASE fate[e] \in {"unborn", "hand", "refused", "freed"}
  <2>1. Tries(e) = {} /\ fate[e] # "exhausted" /\ fate[e] # "acked"
    BY <1>5, <1>7
  <2>2. Cardinality(Tries(e)) = 0 /\ 0 <= retry_max_attempts + 1
    BY <1>1, <1>3, <2>1
  <2>3. QED
    BY <2>1, <2>2
<1>8. CASE fate[e] = "batched"
  <2>1. CASE pc \in Trying
    <3>1. Tries(e) = Len(requests) - attempt .. Len(requests) /\ attempt < Len(requests)
      BY <1>8, <2>1 DEF TriesInv
    <3>2. /\ Len(requests) - attempt \in Nat /\ Len(requests) = (Len(requests) - attempt) + attempt
          /\ attempt \in 0 .. retry_max_attempts
      BY <1>1, <3>1
    <3>3. QED
      BY <1>4, <1>8, <3>1, <3>2
  <2>2. CASE pc \notin Trying
    <3>1. Tries(e) = {}
      BY <1>8, <2>2 DEF TriesInv
    <3>2. QED
      BY <1>1, <1>3, <1>8, <3>1
  <2>3. QED
    BY <2>1, <2>2
<1>9. CASE fate[e] \in {"acked", "rejected"}
  <2>1. PICK a \in Nat, k \in 0 .. retry_max_attempts : Tries(e) = a .. a + k
    BY <1>9 DEF TriesInv
  <2>2. QED
    BY <1>4, <1>6, <1>9, <2>1
<1>10. CASE fate[e] = "exhausted"
  <2>1. PICK a \in Nat : Tries(e) = a .. a + retry_max_attempts
    BY <1>10 DEF TriesInv
  <2>2. retry_max_attempts \in 0 .. retry_max_attempts
    BY <1>1
  <2>3. Cardinality(Tries(e)) = retry_max_attempts + 1
    BY <1>4, <2>1, <2>2
  <2>4. QED
    BY <1>1, <1>10, <2>3
<1>11. QED
  BY <1>1, <1>7, <1>8, <1>9, <1>10 DEF Fates
-----------------------------------------------------------------------------
(***************************************************************************)
(* The delivery thread's side: the queue, the batch taken from it and the  *)
(* events handed over.                                                     *)
(***************************************************************************)

(* The queue and the batch are within their arrays, and every event the    *)
(* queue accepted is in one place.                                         *)
QueueInv ==
    /\ contents \in Seq(EventIds) /\ Len(contents) <= Capacity
    /\ taken \in Seq(EventIds) /\ Len(taken) <= BatchMax
    /\ handed \in Seq(EventIds)
    /\ accepted \in 0 .. MaxEvents /\ dropped \in Nat
    /\ Len(handed) + Len(taken) + Len(contents) + dropped = accepted
    /\ delivery # "emit" => taken = << >>

(* The backend knows exactly the events handed over. *)
HandInv == \A i \in EventIds : fate[i] = "unborn" <=> i > Len(handed)

(* Threads end in order: only a signal, or a delivery thread that was      *)
(* never there, raises the flag before the collector is done, and the      *)
(* delivery thread leaves nothing in the queue of a collector that is.     *)
EndInv ==
    /\ g_stop \in BOOLEAN /\ signalled \in BOOLEAN
    /\ collector \in {"running", "done"} /\ delivery \in {"test", "emit", "final", "done", "none"}
    /\ g_stop /\ ~signalled /\ delivery # "none" => collector = "done"
    /\ delivery \in {"final", "done"} => g_stop
    /\ delivery \in {"final", "done"} /\ ~signalled => contents = << >>

(* Whose call it is: one at a time, output_shutdown when the delivery      *)
(* thread is gone.                                                         *)
CallerInv ==
    /\ pc \in {"maybe_flush", "append"} \/ caller \in {"maybe_flush", "full"} => delivery = "emit"
    /\ pc = "closed" \/ caller = "shutdown" => delivery \in {"done", "none"}
    /\ delivery \in {"done", "none"} => pc \in {"idle", "closed"} \/ caller = "shutdown"

(* The flush after each dequeued batch has left nothing. *)
FlushInv == ~faulted /\ pc \in {"idle", "closed"} /\ delivery # "emit" => batch = << >>

(* What the queue's Put does, by places: the new event is last, and the    *)
(* others move up by one if the oldest was dropped.                        *)
LEMMA PutEffect ==
    ASSUME QueueInv, NEW e \in EventIds, Fifo!Put(e)
    PROVE  /\ contents' \in Seq(EventIds) /\ Len(contents') <= Capacity
           /\ accepted' = accepted + 1
           /\ \E d \in {0, 1} :
                /\ Len(contents') = Len(contents) + 1 - d
                /\ dropped' = dropped + d
                /\ contents'[Len(contents')] = e
                /\ \A i \in 1 .. Len(contents') - 1 :
                     i + d \in 1 .. Len(contents) /\ contents'[i] = contents[i + d]
<1>1. contents \in Seq(EventIds) /\ Capacity \in Nat \ {0} /\ Len(contents) <= Capacity /\ dropped \in Nat
  BY QueueAssumption DEF QueueInv
<1>2. CASE Len(contents) = Capacity
  <2>1. contents' = Append(Tail(contents), e) /\ dropped' = dropped + 1 /\ accepted' = accepted + 1
    BY <1>2 DEF Fifo!Put
  <2>2. /\ contents' \in Seq(EventIds) /\ Len(contents') = Len(contents)
        /\ contents'[Len(contents')] = e
        /\ \A i \in 1 .. Len(contents') - 1 :
             i + 1 \in 1 .. Len(contents) /\ contents'[i] = contents[i + 1]
    BY <1>1, <1>2, <2>1
  <2>3. QED
    BY <1>1, <1>2, <2>1, <2>2
<1>3. CASE Len(contents) # Capacity
  <2>1. contents' = Append(contents, e) /\ dropped' = dropped /\ accepted' = accepted + 1
    BY <1>3 DEF Fifo!Put
  <2>2. /\ contents' \in Seq(EventIds) /\ Len(contents') = Len(contents) + 1
        /\ contents'[Len(contents')] = e
        /\ \A i \in 1 .. Len(contents') - 1 :
             i + 0 \in 1 .. Len(contents) /\ contents'[i] = contents[i + 0]
    BY <1>1, <1>3, <2>1
  <2>3. QED
    BY <1>1, <1>3, <2>1, <2>2
<1>4. QED
  BY <1>2, <1>3

(* What the queue's Take moves: the first events of the queue. *)
LEMMA TakeEffect ==
    ASSUME QueueInv, Fifo!Take
    PROVE  /\ taken' \in Seq(EventIds) /\ contents' \in Seq(EventIds)
           /\ accepted' = accepted /\ dropped' = dropped
           /\ Len(taken') <= BatchMax
           /\ Len(taken') + Len(contents') = Len(contents)
           /\ contents = << >> => taken' = << >> /\ contents' = << >>
           /\ \A i \in 1 .. Len(taken') : i \in 1 .. Len(contents) /\ taken'[i] = contents[i]
           /\ \A i \in 1 .. Len(contents') :
                /\ i + Len(taken') \in 1 .. Len(contents)
                /\ contents'[i] = contents[i + Len(taken')]
<1> DEFINE k == Fifo!TakeCount(Len(contents))
<1>1. k \in 0 .. Len(contents) /\ k <= BatchMax
  BY QueueAssumption DEF QueueInv, Fifo!TakeCount
<1>2. /\ taken' = SubSeq(contents, 1, k)
      /\ contents' = SubSeq(contents, k + 1, Len(contents))
      /\ accepted' = accepted /\ dropped' = dropped
  BY DEF Fifo!Take
<1>3. contents \in Seq(EventIds)
  BY DEF QueueInv
<1> HIDE DEF k
<1>4. taken' \in Seq(EventIds) /\ Len(taken') = k
      /\ \A i \in 1 .. k : taken'[i] = contents[i]
  BY <1>1, <1>2, <1>3
<1>5. contents' \in Seq(EventIds) /\ Len(contents') = Len(contents) - k
      /\ \A i \in 1 .. Len(contents) - k : contents'[i] = contents[i + k]
  BY <1>1, <1>2, <1>3
<1>6. contents = << >> => taken' = << >> /\ contents' = << >>
  BY <1>1, <1>4, <1>5
<1>7. /\ \A i \in 1 .. Len(taken') : i \in 1 .. Len(contents) /\ taken'[i] = contents[i]
      /\ \A i \in 1 .. Len(contents') :
           /\ i + Len(taken') \in 1 .. Len(contents)
           /\ contents'[i] = contents[i + Len(taken')]
  BY <1>1, <1>3, <1>4, <1>5
<1>8. Len(taken') <= BatchMax /\ Len(taken') + Len(contents') = Len(contents)
  BY <1>1, <1>3, <1>4, <1>5
<1>9. QED
  BY <1>2, <1>4, <1>5, <1>6, <1>7, <1>8

(* The backend numbers the event it is handed next within its range,       *)
(* because the queue accepted it before.                                   *)
LEMMA HandedFits ==
    ASSUME QueueInv, taken # << >>
    PROVE  Len(handed) + 1 \in EventIds
<1>1. Len(taken) \in Nat /\ Len(taken) > 0 /\ Len(handed) \in Nat /\ Len(contents) \in Nat
  BY DEF QueueInv
<1>2. QED
  BY <1>1, ConfigAssumption DEF QueueInv, EventIds

(* Every step of the threads is a step of the backend, or none of its,     *)
(* and calls do not overlap.                                               *)
LEMMA BackendUse ==
    ASSUME QueueInv, CallerInv, HttpInv, [DeliveryNext]_delivery_vars
    PROVE  [Use]_vars
<1>1. CASE Hand
  <2>1. Len(handed) + 1 \in EventIds /\ EmitEvent(Len(handed) + 1)
    BY <1>1, HandedFits DEF Hand
  <2>2. QED
    BY <2>1 DEF Use, output_emit_event
<1>2. CASE FlushBatch \/ FinalFlush
  BY <1>2 DEF FlushBatch, FinalFlush, Use
<1>3. CASE Shutdown
  BY <1>3 DEF Shutdown, Use, CallerInv
<1>4. CASE Backend \/ Environment
  BY <1>4 DEF Backend, Environment, Use, output_emit_event
<1>5. CASE Collect \/ CollectorEnds \/ handle_sigint \/ JoinCollector \/ Dequeue \/ ThreadEnds
  BY <1>5 DEF Collect, CollectorEnds, handle_sigint, JoinCollector, Dequeue, ThreadEnds
<1>6. CASE Ended \/ UNCHANGED delivery_vars
  BY <1>6 DEF Ended, delivery_vars
<1>7. QED
  BY <1>1, <1>2, <1>3, <1>4, <1>5, <1>6 DEF DeliveryNext, delivery_thread

(* Which step moves the queue, the batch and the events handed over. *)
LEMMA QueueMoves ==
    ASSUME [DeliveryNext]_delivery_vars
    PROVE  \/ UNCHANGED <<contents, taken, accepted, dropped, handed>> /\ (delivery # "emit" => delivery' # "emit")
              /\ (delivery' # "emit" => delivery # "emit" \/ taken = << >>)
           \/ Collect \/ Dequeue \/ Hand
<1>1. CASE CollectorEnds \/ handle_sigint \/ JoinCollector
  BY <1>1 DEF CollectorEnds, handle_sigint, JoinCollector, queue_vars
<1>2. CASE FlushBatch \/ FinalFlush \/ ThreadEnds \/ Shutdown
  BY <1>2 DEF FlushBatch, FinalFlush, ThreadEnds, Shutdown, queue_vars, thread_vars
<1>3. CASE Backend \/ Environment
  BY <1>3 DEF Backend, Environment, queue_vars, thread_vars
<1>4. CASE Ended \/ UNCHANGED delivery_vars
  BY <1>4 DEF Ended, delivery_vars, queue_vars, thread_vars
<1>5. QED
  BY <1>1, <1>2, <1>3, <1>4 DEF DeliveryNext, delivery_thread

(* Every event stays accounted for. *)
LEMMA QueueStep ==
    ASSUME QueueInv, [DeliveryNext]_delivery_vars
    PROVE  QueueInv'
<1>1. CASE UNCHANGED <<contents, taken, accepted, dropped, handed>> /\ (delivery # "emit" => delivery' # "emit")
              /\ (delivery' # "emit" => delivery # "emit" \/ taken = << >>)
  BY <1>1 DEF QueueInv
<1>2. CASE Collect
  <2>1. /\ accepted < MaxEvents /\ Fifo!Put(accepted + 1)
        /\ UNCHANGED <<taken, handed, delivery>>
    BY <1>2 DEF Collect, thread_vars
  <2>2. accepted \in 0 .. MaxEvents /\ accepted + 1 \in EventIds
    BY <2>1, ConfigAssumption DEF QueueInv, EventIds
  <2>3. /\ contents' \in Seq(EventIds) /\ Len(contents') <= Capacity /\ accepted' = accepted + 1
        /\ \E d \in {0, 1} : Len(contents') = Len(contents) + 1 - d /\ dropped' = dropped + d
    BY <2>1, <2>2, PutEffect
  <2>4. Len(handed) \in Nat /\ Len(taken) \in Nat /\ Len(contents) \in Nat /\ dropped \in Nat
    BY DEF QueueInv
  <2>5. /\ accepted' \in 0 .. MaxEvents /\ dropped' \in Nat
        /\ Len(handed) + Len(taken) + Len(contents') + dropped' = accepted'
    BY <2>1, <2>2, <2>3, <2>4, ConfigAssumption DEF QueueInv
  <2>6. QED
    BY <2>1, <2>3, <2>5 DEF QueueInv
<1>3. CASE Dequeue
  <2>1. /\ delivery = "test" /\ Fifo!Take /\ handed' = handed
        /\ delivery' = IF contents # << >> THEN "emit" ELSE "test"
    BY <1>3 DEF Dequeue
  <2>2. /\ taken' \in Seq(EventIds) /\ contents' \in Seq(EventIds)
        /\ accepted' = accepted /\ dropped' = dropped
        /\ Len(taken') <= BatchMax /\ Len(taken') + Len(contents') = Len(contents)
        /\ contents = << >> => taken' = << >>
    BY <2>1, TakeEffect
  <2>3. /\ Len(handed) \in Nat /\ Len(contents) \in Nat /\ Len(taken) = 0 /\ dropped \in Nat
        /\ Len(taken') \in Nat /\ Len(contents') \in Nat
    BY <2>1, <2>2 DEF QueueInv
  <2>4. /\ Len(contents') <= Capacity
        /\ Len(handed) + Len(taken') + Len(contents') + dropped = accepted
    <3>1. /\ Len(contents) <= Capacity /\ Capacity \in Nat /\ accepted \in Int
          /\ Len(handed) + Len(taken) + Len(contents) + dropped = accepted
      BY QueueAssumption DEF QueueInv
    <3>2. Len(contents') <= Capacity
      BY <2>2, <2>3, <3>1
    <3>3. QED
      BY <2>2, <2>3, <3>1, <3>2
  <2>5. QED
    BY <2>1, <2>2, <2>4 DEF QueueInv
<1>4. CASE Hand
  <2>1. /\ delivery = "emit" /\ taken # << >> /\ delivery' = delivery
        /\ handed' = Append(handed, Head(taken)) /\ taken' = Tail(taken)
        /\ UNCHANGED <<contents, accepted, dropped>>
    BY <1>4 DEF Hand
  <2>2. taken \in Seq(EventIds) /\ handed \in Seq(EventIds)
    BY DEF QueueInv
  <2>3. /\ taken' \in Seq(EventIds) /\ Len(taken') = Len(taken) - 1
        /\ handed' \in Seq(EventIds) /\ Len(handed') = Len(handed) + 1
        /\ Len(taken) \in Nat /\ Len(handed) \in Nat
    BY <2>1, <2>2
  <2>4. /\ Len(taken') <= BatchMax
        /\ Len(handed') + Len(taken') + Len(contents) + dropped = accepted
    <3>1. /\ Len(contents) \in Nat /\ dropped \in Nat /\ Len(taken) <= BatchMax /\ BatchMax \in Nat
          /\ Len(handed) + Len(taken) + Len(contents) + dropped = accepted
      BY QueueAssumption DEF QueueInv
    <3>2. QED
      BY <2>3, <3>1
  <2>5. QED
    BY <2>1, <2>3, <2>4 DEF QueueInv
<1>5. QED
  BY <1>1, <1>2, <1>3, <1>4, QueueMoves

(* An event is born in the backend when it is handed over, and only then. *)
LEMMA HandStep ==
    ASSUME HttpInv, QueueInv, CallerInv, HandInv, [DeliveryNext]_delivery_vars
    PROVE  HandInv'
<1>1. CASE Hand
  <2>1. /\ taken # << >> /\ EmitEvent(Len(handed) + 1) /\ handed' = Append(handed, Head(taken))
        /\ Len(handed) \in Nat
    BY <1>1 DEF Hand, QueueInv
  <2>2. Len(handed') = Len(handed) + 1
    BY <2>1 DEF QueueInv
  <2>3. \A e \in EventIds : fate'[e] = IF e = Len(handed) + 1 THEN "hand" ELSE fate[e]
    BY <2>1 DEF EmitEvent, Settle
  <2>4. QED
    BY <2>1, <2>2, <2>3 DEF HandInv, EventIds
<1>2. CASE ~Hand
  <2>1. handed' = handed
    BY <1>2, QueueMoves DEF Collect, Dequeue, thread_vars
  <2>2. hand' \in {0, hand}
    <3>1. CASE Backend
      <4>1. ASSUME NEW r, NEW S, NEW f, PostReturn(r, S, f) PROVE hand' \in {0, hand}
        BY <4>1 DEF PostReturn
      <4>2. QED
        BY <3>1, <4>1 DEF Backend, MaybeFlush, AppendEvent, Refuse, http_post_batch, PostNoMemory, PostBegin,
           Acked, Rejected, Failed, Retry, FreeAll, call_vars
    <3>2. CASE FlushBatch \/ FinalFlush \/ Shutdown \/ Environment
      BY <3>2 DEF FlushBatch, FinalFlush, Shutdown, output_flush, output_shutdown, Environment, Tick, Arrive, call_vars
    <3>3. CASE Collect \/ CollectorEnds \/ handle_sigint \/ JoinCollector \/ Dequeue \/ ThreadEnds
      BY <3>3 DEF Collect, CollectorEnds, handle_sigint, JoinCollector, Dequeue, ThreadEnds, vars, call_vars
    <3>4. CASE Ended \/ UNCHANGED delivery_vars
      BY <3>4 DEF Ended, delivery_vars, vars, call_vars
    <3>5. QED
      BY <1>2, <3>1, <3>2, <3>3, <3>4 DEF DeliveryNext, delivery_thread
  <2>3. [Use]_vars
    BY BackendUse
  <2>4. ~Born
    <3>1. \A e \in EventIds : e = hand <=> fate[e] = "hand"
      BY DEF HttpInv, BatchInv
    <3>2. 0 \notin EventIds
      BY DEF EventIds
    <3>3. QED
      BY <2>2, <3>1, <3>2 DEF Born
  <2>5. \A e \in EventIds : fate'[e] = "unborn" <=> fate[e] = "unborn"
    BY <2>3, <2>4, SendMoves DEF Joined, Quiet, Sent, Paused, Settled, Freed, Waits, Ends, HttpInv, BatchInv
  <2>6. QED
    BY <2>1, <2>5 DEF HandInv
<1>3. QED
  BY <1>1, <1>2

(* Without a signal the delivery thread ends last, with an empty queue. *)
LEMMA EndStep ==
    ASSUME EndInv, [DeliveryNext]_delivery_vars
    PROVE  EndInv'
<1> USE DEF EndInv
<1>1. CASE Collect
  BY <1>1 DEF Collect, thread_vars
<1>2. CASE CollectorEnds \/ handle_sigint \/ JoinCollector
  BY <1>2 DEF CollectorEnds, handle_sigint, JoinCollector, queue_vars
<1>3. CASE Dequeue
  BY <1>3 DEF Dequeue
<1>4. CASE Hand \/ FlushBatch \/ ThreadEnds
  BY <1>4 DEF Hand, FlushBatch, ThreadEnds, queue_vars
<1>5. CASE FinalFlush
  BY <1>5 DEF FinalFlush, queue_vars, Wanted
<1>6. CASE Shutdown \/ Backend \/ Environment \/ Ended \/ UNCHANGED delivery_vars
  <2>1. UNCHANGED <<queue_vars, thread_vars>>
    BY <1>6 DEF Shutdown, Backend, Environment, Ended, delivery_vars
  <2>2. QED
    BY <2>1 DEF queue_vars, thread_vars
<1>7. QED
  BY <1>1, <1>2, <1>3, <1>4, <1>5, <1>6 DEF DeliveryNext, delivery_thread

(* How a call of the backend goes on. *)
LEMMA CallMoves ==
    ASSUME HttpInv, Backend \/ Environment
    PROVE  /\ pc' = "maybe_flush" => pc = "maybe_flush"
           /\ pc' = "append" => pc \in {"maybe_flush", "append"} \/ caller = "maybe_flush"
           /\ caller' = "maybe_flush" => pc = "maybe_flush" \/ caller = "maybe_flush"
           /\ caller' = "full" => pc = "append" \/ caller = "full"
           /\ caller' = "shutdown" => caller = "shutdown"
           /\ pc' = "closed" => pc = "closed" \/ caller = "shutdown"
           /\ pc \in {"idle", "closed"} => pc' = pc
           /\ caller = "shutdown" => caller' = "shutdown" \/ pc' = "closed"
<1> USE DEF HttpInv
<1>1. ASSUME NEW r \in {0, -1}, NEW S, NEW f, pc \in {"post", "attempt"}, PostReturn(r, S, f)
      PROVE  /\ caller' = "none" /\ pc' \in {"append", "idle", "closed"}
             /\ pc' = "append" => caller = "maybe_flush"
             /\ pc' = "closed" <=> caller = "shutdown"
  BY <1>1 DEF PostReturn
<1>2. 0 \in {0, -1} /\ -1 \in {0, -1}
  OBVIOUS
<1>3. CASE PostNoMemory
  BY <1>1, <1>2, <1>3 DEF PostNoMemory
<1>4. CASE PostBegin
  BY <1>1, <1>2, <1>4 DEF PostBegin, Goto
<1>5. CASE Acked \/ Rejected
  BY <1>1, <1>2, <1>5 DEF Acked, Rejected
<1>6. CASE Failed
  BY <1>1, <1>2, <1>6 DEF Failed, Goto
<1>7. CASE Retry
  BY <1>7 DEF Retry, Goto
<1>8. CASE MaybeFlush
  BY <1>8 DEF MaybeFlush, CallPost, Goto, CallInv, Posting
<1>9. CASE AppendEvent
  BY <1>9 DEF AppendEvent, Refuse, CallPost, Goto, CallInv, Posting
<1>10. CASE FreeAll
  BY <1>10 DEF FreeAll, call_vars
<1>11. CASE Environment
  BY <1>11 DEF Environment, Tick, Arrive, call_vars
<1>12. QED
  BY <1>3, <1>4, <1>5, <1>6, <1>7, <1>8, <1>9, <1>10, <1>11 DEF Backend, http_post_batch

(* A thread calls the backend when its call before has returned. *)
LEMMA CallerStep ==
    ASSUME HttpInv, EndInv, CallerInv, [DeliveryNext]_delivery_vars
    PROVE  CallerInv'
<1>1. CASE Hand
  <2>1. delivery = "emit" /\ delivery' = "emit" /\ pc = "idle" /\ pc' = "maybe_flush" /\ caller' = caller
    BY <1>1 DEF Hand, EmitEvent, Goto
  <2>2. caller = "none"
    BY <2>1 DEF HttpInv, CallInv, Posting
  <2>3. QED
    BY <2>1, <2>2 DEF CallerInv
<1>2. CASE FlushBatch \/ FinalFlush
  <2>1. delivery' \in {"test", "final"} /\ pc' = "post" /\ caller' = "flush"
    BY <1>2 DEF FlushBatch, FinalFlush, output_flush, CallPost, Goto
  <2>2. QED
    BY <2>1 DEF CallerInv
<1>3. CASE Shutdown
  <2>1. delivery' = delivery /\ delivery \in {"done", "none"} /\ pc' = "post" /\ caller' = "shutdown"
    BY <1>3 DEF Shutdown, output_shutdown, CallPost, Goto, thread_vars
  <2>2. QED
    BY <2>1 DEF CallerInv
<1>4. CASE Dequeue
  <2>1. /\ delivery = "test" /\ pc = "idle" /\ delivery' \in {"test", "emit"} /\ pc' = pc /\ caller' = caller
    BY <1>4 DEF Dequeue, vars, call_vars
  <2>2. QED
    BY <2>1 DEF CallerInv
<1>5. CASE ThreadEnds
  <2>1. /\ delivery = "final" /\ pc = "idle" /\ delivery' = "done" /\ pc' = pc /\ caller' = caller
    BY <1>5 DEF ThreadEnds, vars, call_vars
  <2>2. QED
    BY <2>1 DEF CallerInv
<1>6. CASE Backend \/ Environment
  <2>1. delivery' = delivery
    BY <1>6 DEF Backend, Environment, thread_vars
  <2>2. QED
    BY <1>6, <2>1, CallMoves DEF CallerInv
<1>7. CASE Collect \/ CollectorEnds \/ handle_sigint \/ JoinCollector \/ Ended \/ UNCHANGED delivery_vars
  <2>1. delivery' = delivery /\ pc' = pc /\ caller' = caller
    BY <1>7 DEF Collect, CollectorEnds, handle_sigint, JoinCollector, Ended, delivery_vars, thread_vars, vars, call_vars
  <2>2. QED
    BY <2>1 DEF CallerInv
<1>8. QED
  BY <1>1, <1>2, <1>3, <1>4, <1>5, <1>6, <1>7 DEF DeliveryNext, delivery_thread

(* A call that nothing fails in returns with an empty batch. *)
LEMMA FlushStep ==
    ASSUME HttpInv, NetInv, CleanInv, QueueInv, CallerInv, FlushInv, [DeliveryNext]_delivery_vars
    PROVE  FlushInv'
<1>1. CASE Hand
  BY <1>1 DEF Hand, FlushInv
<1>2. CASE FlushBatch \/ FinalFlush \/ Shutdown
  BY <1>2 DEF FlushBatch, FinalFlush, Shutdown, output_flush, output_shutdown, CallPost, Goto, FlushInv
<1>3. CASE Dequeue \/ ThreadEnds
  <2>1. delivery # "emit" /\ pc' = pc /\ batch' = batch /\ faulted' = faulted
    BY <1>3 DEF Dequeue, ThreadEnds, vars, batch_vars, call_vars
  <2>2. QED
    BY <2>1 DEF FlushInv
<1>4. CASE Backend \/ Environment
  <2>1. delivery' = delivery
    BY <1>4 DEF Backend, Environment, thread_vars
  <2>2. SUFFICES ASSUME ~faulted', pc' \in {"idle", "closed"}, delivery # "emit"
                 PROVE  batch' = << >>
    BY <2>1 DEF FlushInv
  <2>3. [Use]_vars
    BY BackendUse
  <2>4. ~faulted /\ (batch' = << >> \/ (batch' = batch /\ pc' = pc) \/ pc = "append")
    BY <2>2, <2>3, CleanMoves
  <2>5. QED
    BY <2>2, <2>4 DEF FlushInv, CallerInv
<1>5. CASE Collect \/ CollectorEnds \/ handle_sigint \/ JoinCollector \/ Ended \/ UNCHANGED delivery_vars
  <2>1. delivery' = delivery /\ pc' = pc /\ batch' = batch /\ faulted' = faulted
    BY <1>5 DEF Collect, CollectorEnds, handle_sigint, JoinCollector, Ended, delivery_vars, thread_vars, vars, call_vars, batch_vars
  <2>2. QED
    BY <2>1 DEF FlushInv
<1>6. QED
  BY <1>1, <1>2, <1>3, <1>4, <1>5 DEF DeliveryNext, delivery_thread
-----------------------------------------------------------------------------
Precedes(s, t) == \A i \in 1 .. Len(s), j \in 1 .. Len(t) : s[i] < t[j]
UpTo(s, b) == \A i \in 1 .. Len(s) : s[i] <= b

(* What was handed over, what is in the batch and what is queued, in the   *)
(* order it was enqueued; and nothing else was enqueued after it.          *)
Line(h, t, c, b) ==
    /\ Ascending(h) /\ Ascending(t) /\ Ascending(c)
    /\ Precedes(h, t) /\ Precedes(h, c) /\ Precedes(t, c)
    /\ UpTo(h, b) /\ UpTo(t, b) /\ UpTo(c, b)

(* The next event the collector enqueues goes to the end, whether or not   *)
(* the oldest of the queue is dropped for it.                              *)
LEMMA LinePut ==
    ASSUME NEW h \in Seq(EventIds), NEW t \in Seq(EventIds), NEW c \in Seq(EventIds),
           NEW c2 \in Seq(EventIds), NEW b \in Nat, NEW d \in {0, 1}, Line(h, t, c, b),
           Len(c2) = Len(c) + 1 - d, c2[Len(c2)] = b + 1,
           \A i \in 1 .. Len(c2) - 1 : i + d \in 1 .. Len(c) /\ c2[i] = c[i + d]
    PROVE  Line(h, t, c2, b + 1)
<1>1. /\ \A i \in 1 .. Len(h) : h[i] \in Nat
      /\ \A i \in 1 .. Len(t) : t[i] \in Nat
      /\ \A i \in 1 .. Len(c) : c[i] \in Nat
  <2>1. \A x \in EventIds : x \in Nat
    BY ConfigAssumption DEF EventIds
  <2>2. /\ \A i \in 1 .. Len(h) : h[i] \in EventIds
        /\ \A i \in 1 .. Len(t) : t[i] \in EventIds
        /\ \A i \in 1 .. Len(c) : c[i] \in EventIds
    OBVIOUS
  <2>3. QED
    BY <2>1, <2>2
<1>2. ASSUME NEW i \in 1 .. Len(c2)
      PROVE  (i = Len(c2) /\ c2[i] = b + 1) \/ (i < Len(c2) /\ i + d \in 1 .. Len(c) /\ c2[i] = c[i + d])
  <2>1. i = Len(c2) \/ (i < Len(c2) /\ i \in 1 .. Len(c2) - 1)
    OBVIOUS
  <2>2. CASE i = Len(c2)
    BY <2>2
  <2>3. CASE i < Len(c2) /\ i \in 1 .. Len(c2) - 1
    BY <2>3
  <2>4. QED
    BY <2>1, <2>2, <2>3
<1>3. Ascending(c2)
  <2> SUFFICES ASSUME NEW i \in 1 .. Len(c2), NEW j \in 1 .. Len(c2), i < j
               PROVE  c2[i] < c2[j]
    BY DEF Ascending
  <2>1. i + d \in 1 .. Len(c) /\ c2[i] = c[i + d]
    BY <1>2
  <2>2. CASE j = Len(c2)
    <3>1. c[i + d] <= b /\ c[i + d] \in Nat
      BY <1>1, <2>1 DEF Line, UpTo
    <3>2. c2[j] = b + 1
      BY <2>2
    <3>3. c[i + d] < b + 1
      BY <3>1
    <3>4. QED
      BY <2>1, <3>2, <3>3
  <2>3. CASE j # Len(c2)
    <3>1. j + d \in 1 .. Len(c) /\ c2[j] = c[j + d] /\ i + d < j + d
      BY <1>2, <2>3
    <3>2. QED
      BY <2>1, <3>1 DEF Line, Ascending
  <2>4. QED
    BY <2>2, <2>3
<1>4. ASSUME NEW s \in Seq(EventIds), Precedes(s, c), UpTo(s, b)
      PROVE  Precedes(s, c2) /\ UpTo(s, b + 1)
  <2>1. ASSUME NEW i \in 1 .. Len(s) PROVE s[i] \in Nat /\ s[i] <= b /\ s[i] < b + 1 /\ s[i] <= b + 1
    <3>1. s[i] \in EventIds /\ s[i] <= b
      BY <1>4 DEF UpTo
    <3>2. \A x \in EventIds : x \in Nat
      BY ConfigAssumption DEF EventIds
    <3>3. s[i] \in Nat
      BY <3>1, <3>2
    <3>4. \A x \in Nat : x <= b => x < b + 1 /\ x <= b + 1
      OBVIOUS
    <3>5. QED
      BY <3>1, <3>3, <3>4, Zenon
  <2>2. ASSUME NEW i \in 1 .. Len(s), NEW j \in 1 .. Len(c2) PROVE s[i] < c2[j]
    BY <1>2, <1>4, <2>1 DEF Precedes
  <2>3. QED
    BY <2>1, <2>2 DEF Precedes, UpTo
<1>5. UpTo(c2, b + 1)
  <2> SUFFICES ASSUME NEW i \in 1 .. Len(c2) PROVE c2[i] <= b + 1
    BY DEF UpTo
  <2>1. CASE c2[i] = b + 1
    BY <2>1
  <2>2. CASE i + d \in 1 .. Len(c) /\ c2[i] = c[i + d]
    <3>1. c[i + d] <= b /\ c[i + d] \in Nat
      BY <1>1, <2>2 DEF Line, UpTo
    <3>2. QED
      BY <2>2, <3>1
  <2>3. QED
    BY <1>2, <2>1, <2>2
<1>6. QED
  BY <1>3, <1>4, <1>5 DEF Line

(* A batch taken off the front of the queue comes after all handed over. *)
LEMMA LineTake ==
    ASSUME NEW h \in Seq(EventIds), NEW t \in Seq(EventIds), NEW c \in Seq(EventIds),
           NEW t2 \in Seq(EventIds), NEW c2 \in Seq(EventIds), NEW b \in Nat,
           Line(h, t, c, b), Len(t2) + Len(c2) = Len(c),
           \A i \in 1 .. Len(t2) : i \in 1 .. Len(c) /\ t2[i] = c[i],
           \A i \in 1 .. Len(c2) : i + Len(t2) \in 1 .. Len(c) /\ c2[i] = c[i + Len(t2)]
    PROVE  Line(h, t2, c2, b)
<1>1. Ascending(c) /\ Precedes(h, c) /\ Ascending(h) /\ UpTo(h, b) /\ UpTo(c, b)
  BY DEF Line
<1>2. Ascending(t2) /\ Ascending(c2)
  <2>1. ASSUME NEW i \in 1 .. Len(t2), NEW j \in 1 .. Len(t2), i < j PROVE t2[i] < t2[j]
    <3>1. i \in 1 .. Len(c) /\ j \in 1 .. Len(c) /\ t2[i] = c[i] /\ t2[j] = c[j]
      OBVIOUS
    <3>2. QED
      BY <1>1, <2>1, <3>1 DEF Ascending
  <2>2. ASSUME NEW i \in 1 .. Len(c2), NEW j \in 1 .. Len(c2), i < j PROVE c2[i] < c2[j]
    <3>1. /\ i + Len(t2) \in 1 .. Len(c) /\ j + Len(t2) \in 1 .. Len(c)
          /\ c2[i] = c[i + Len(t2)] /\ c2[j] = c[j + Len(t2)]
      OBVIOUS
    <3>2. i + Len(t2) < j + Len(t2)
      BY <2>2
    <3>3. QED
      BY <1>1, <3>1, <3>2 DEF Ascending
  <2>3. QED
    BY <2>1, <2>2 DEF Ascending
<1>3. Precedes(h, t2) /\ Precedes(h, c2) /\ UpTo(t2, b) /\ UpTo(c2, b)
  BY <1>1 DEF Precedes, UpTo
<1>4. Precedes(t2, c2)
  <2> SUFFICES ASSUME NEW i \in 1 .. Len(t2), NEW j \in 1 .. Len(c2)
               PROVE  t2[i] < c2[j]
    BY DEF Precedes
  <2>1. t2[i] = c[i] /\ c2[j] = c[j + Len(t2)] /\ i \in 1 .. Len(c) /\ j + Len(t2) \in 1 .. Len(c)
        /\ i < j + Len(t2)
    OBVIOUS
  <2>2. QED
    BY <1>1, <2>1 DEF Ascending
<1>5. QED
  BY <1>1, <1>2, <1>3, <1>4 DEF Line

(* Handing over the first event of the batch changes nothing in the order. *)
LEMMA LineHand ==
    ASSUME NEW h \in Seq(EventIds), NEW t \in Seq(EventIds), NEW c \in Seq(EventIds), t # << >>,
           NEW b \in Nat, Line(h, t, c, b)
    PROVE  Line(Append(h, Head(t)), Tail(t), c, b)
<1> DEFINE h2 == Append(h, Head(t))
           t2 == Tail(t)
<1>1. /\ h2 \in Seq(EventIds) /\ Len(h2) = Len(h) + 1 /\ h2[Len(h) + 1] = t[1]
      /\ \A i \in 1 .. Len(h) : h2[i] = h[i]
      /\ 1 \in 1 .. Len(t)
  OBVIOUS
<1>2. t2 \in Seq(EventIds) /\ Len(t2) = Len(t) - 1 /\ \A i \in 1 .. Len(t2) : t2[i] = t[i + 1]
  OBVIOUS
<1> HIDE DEF h2, t2
<1>3. ASSUME NEW i \in 1 .. Len(h2) PROVE (i = Len(h2) /\ h2[i] = t[1]) \/ (i \in 1 .. Len(h) /\ h2[i] = h[i])
  BY <1>1
<1>4. ASSUME NEW i \in 1 .. Len(t2) PROVE i + 1 \in 1 .. Len(t) /\ t2[i] = t[i + 1] /\ 1 < i + 1
  BY <1>2
<1>5. Ascending(h2)
  <2> SUFFICES ASSUME NEW i \in 1 .. Len(h2), NEW j \in 1 .. Len(h2), i < j
               PROVE  h2[i] < h2[j]
    BY DEF Ascending
  <2>1. i \in 1 .. Len(h) /\ h2[i] = h[i]
    BY <1>1, <1>3
  <2>2. CASE j = Len(h2)
    BY <1>1, <2>1, <2>2 DEF Line, Precedes
  <2>3. CASE j # Len(h2)
    BY <1>3, <2>1, <2>3 DEF Line, Ascending
  <2>4. QED
    BY <2>2, <2>3
<1>6. Ascending(t2)
  BY <1>4 DEF Line, Ascending
<1>7. Precedes(h2, t2)
  <2> SUFFICES ASSUME NEW i \in 1 .. Len(h2), NEW j \in 1 .. Len(t2)
               PROVE  h2[i] < t2[j]
    BY DEF Precedes
  <2>1. CASE h2[i] = t[1]
    BY <1>1, <1>4, <2>1 DEF Line, Ascending
  <2>2. CASE i \in 1 .. Len(h) /\ h2[i] = h[i]
    BY <1>4, <2>2 DEF Line, Precedes
  <2>3. QED
    BY <1>3, <2>1, <2>2
<1>8. Precedes(h2, c) /\ Precedes(t2, c)
  BY <1>1, <1>3, <1>4 DEF Line, Precedes
<1>9. UpTo(h2, b) /\ UpTo(t2, b)
  BY <1>1, <1>3, <1>4 DEF Line, UpTo
<1>10. Line(h2, t2, c, b)
  BY <1>5, <1>6, <1>7, <1>8, <1>9 DEF Line
<1>11. QED
  BY <1>10 DEF h2, t2

(* The order of the parts is the order of the whole. *)
LEMMA LineWhole ==
    ASSUME NEW h \in Seq(EventIds), NEW t \in Seq(EventIds), NEW c \in Seq(EventIds), NEW b, Line(h, t, c, b)
    PROVE  Ascending(h \o t \o c)
<1> DEFINE s == h \o t \o c
<1>1. /\ s \in Seq(EventIds) /\ Len(s) = Len(h) + Len(t) + Len(c)
      /\ \A i \in 1 .. Len(s) :
           s[i] = IF i <= Len(h) THEN h[i]
                  ELSE IF i <= Len(h) + Len(t) THEN t[i - Len(h)]
                  ELSE c[i - Len(h) - Len(t)]
  OBVIOUS
<1> HIDE DEF s
<1> SUFFICES ASSUME NEW i \in 1 .. Len(s), NEW j \in 1 .. Len(s), i < j
             PROVE  s[i] < s[j]
  BY DEF Ascending, s
<1>2. CASE i <= Len(h)
  <2>1. s[i] = h[i] /\ i \in 1 .. Len(h)
    BY <1>1, <1>2
  <2>2. CASE j <= Len(h)
    <3>1. s[j] = h[j] /\ j \in 1 .. Len(h)
      BY <1>1, <2>2
    <3>2. QED
      BY <2>1, <3>1 DEF Line, Ascending
  <2>3. CASE j > Len(h) /\ j <= Len(h) + Len(t)
    <3>1. s[j] = t[j - Len(h)] /\ j - Len(h) \in 1 .. Len(t)
      BY <1>1, <2>3
    <3>2. QED
      BY <2>1, <3>1 DEF Line, Precedes
  <2>4. CASE j > Len(h) + Len(t)
    <3>1. s[j] = c[j - Len(h) - Len(t)] /\ j - Len(h) - Len(t) \in 1 .. Len(c)
      BY <1>1, <2>4
    <3>2. QED
      BY <2>1, <3>1 DEF Line, Precedes
  <2>5. QED
    BY <1>1, <2>2, <2>3, <2>4
<1>3. CASE i > Len(h) /\ i <= Len(h) + Len(t)
  <2>1. s[i] = t[i - Len(h)] /\ i - Len(h) \in 1 .. Len(t)
    BY <1>1, <1>3
  <2>2. CASE j <= Len(h) + Len(t)
    <3>1. s[j] = t[j - Len(h)] /\ j - Len(h) \in 1 .. Len(t) /\ i - Len(h) < j - Len(h)
      BY <1>1, <1>3, <2>2
    <3>2. QED
      BY <2>1, <3>1 DEF Line, Ascending
  <2>3. CASE j > Len(h) + Len(t)
    <3>1. s[j] = c[j - Len(h) - Len(t)] /\ j - Len(h) - Len(t) \in 1 .. Len(c)
      BY <1>1, <2>3
    <3>2. QED
      BY <2>1, <3>1 DEF Line, Precedes
  <2>4. QED
    BY <1>1, <2>2, <2>3
<1>4. CASE i > Len(h) + Len(t)
  <2>1. /\ s[i] = c[i - Len(h) - Len(t)] /\ i - Len(h) - Len(t) \in 1 .. Len(c)
        /\ s[j] = c[j - Len(h) - Len(t)] /\ j - Len(h) - Len(t) \in 1 .. Len(c)
        /\ i - Len(h) - Len(t) < j - Len(h) - Len(t)
    BY <1>1, <1>4
  <2>2. QED
    BY <2>1 DEF Line, Ascending
<1>5. QED
  BY <1>1, <1>2, <1>3, <1>4

LineInv == Line(handed, taken, contents, accepted)

(* No step of the three threads disturbs the order. *)
LEMMA LineStep ==
    ASSUME QueueInv, LineInv, [DeliveryNext]_delivery_vars, QueueInv'
    PROVE  LineInv'
<1>1. /\ handed \in Seq(EventIds) /\ taken \in Seq(EventIds) /\ contents \in Seq(EventIds)
      /\ handed' \in Seq(EventIds) /\ taken' \in Seq(EventIds) /\ contents' \in Seq(EventIds)
      /\ accepted \in Nat /\ Line(handed, taken, contents, accepted)
  BY ConfigAssumption DEF QueueInv, LineInv
<1>2. SUFFICES Line(handed', taken', contents', accepted')
  BY DEF LineInv, Line, Ascending, Precedes, UpTo
<1>3. CASE UNCHANGED <<contents, taken, accepted, dropped, handed>>
  BY <1>1, <1>3
<1>4. CASE Collect
  <2>1. Fifo!Put(accepted + 1) /\ taken' = taken /\ handed' = handed /\ accepted < MaxEvents
    BY <1>4 DEF Collect, thread_vars
  <2>2. accepted + 1 \in EventIds
    BY <1>1, <2>1, ConfigAssumption DEF EventIds
  <2>3. PICK d \in {0, 1} :
          /\ Len(contents') = Len(contents) + 1 - d /\ contents'[Len(contents')] = accepted + 1
          /\ \A i \in 1 .. Len(contents') - 1 :
               i + d \in 1 .. Len(contents) /\ contents'[i] = contents[i + d]
    BY <2>1, <2>2, PutEffect
  <2>4. accepted' = accepted + 1
    BY <2>1, <2>2, PutEffect
  <2>5. Line(handed, taken, contents', accepted + 1)
    BY <1>1, <2>3, LinePut
  <2>6. QED
    BY <2>1, <2>4, <2>5
<1>5. CASE Dequeue
  <2>1. Fifo!Take /\ handed' = handed
    BY <1>5 DEF Dequeue
  <2>2. /\ Len(taken') + Len(contents') = Len(contents) /\ accepted' = accepted
        /\ \A i \in 1 .. Len(taken') : i \in 1 .. Len(contents) /\ taken'[i] = contents[i]
        /\ \A i \in 1 .. Len(contents') :
             i + Len(taken') \in 1 .. Len(contents) /\ contents'[i] = contents[i + Len(taken')]
    BY <2>1, TakeEffect
  <2>3. Line(handed, taken', contents', accepted)
    BY <1>1, <2>2, LineTake
  <2>4. QED
    BY <2>1, <2>2, <2>3
<1>6. CASE Hand
  <2>1. /\ taken # << >> /\ handed' = Append(handed, Head(taken)) /\ taken' = Tail(taken)
        /\ contents' = contents /\ accepted' = accepted
    BY <1>6 DEF Hand
  <2>2. Line(Append(handed, Head(taken)), Tail(taken), contents, accepted)
    BY <1>1, <2>1, LineHand
  <2>3. QED
    BY <2>1, <2>2
<1>7. QED
  BY <1>3, <1>4, <1>5, <1>6, QueueMoves
-----------------------------------------------------------------------------
DeliveryInv ==
    /\ BackendInv /\ QueueInv /\ HandInv /\ EndInv /\ CallerInv /\ FlushInv /\ LineInv

(* Nothing has been enqueued, taken or handed over. *)
LEMMA DeliveryStart == DeliveryInit => DeliveryInv
<1> SUFFICES ASSUME DeliveryInit PROVE DeliveryInv
  OBVIOUS
<1>1. BackendInv
  BY BackendInit DEF DeliveryInit
<1>2. /\ contents = << >> /\ taken = << >> /\ handed = << >> /\ accepted = 0 /\ dropped = 0
      /\ collector = "running" /\ signalled = FALSE /\ delivery \in {"test", "none"}
      /\ g_stop = (delivery = "none") /\ fate = [e \in EventIds |-> "unborn"]
      /\ pc = "idle" /\ caller = "none" /\ batch = << >>
  BY DEF DeliveryInit, Fifo!Empty, Init, output_init
<1>3. QueueInv
  BY <1>2, ConfigAssumption, QueueAssumption DEF QueueInv
<1>4. HandInv
  BY <1>2 DEF HandInv, EventIds
<1>5. EndInv /\ CallerInv /\ FlushInv
  BY <1>2 DEF EndInv, CallerInv, FlushInv
<1>6. LineInv
  BY <1>2 DEF LineInv, Line, Ascending, Precedes, UpTo
<1>7. QED
  BY <1>1, <1>3, <1>4, <1>5, <1>6 DEF DeliveryInv

(* Every step of the threads, of main, of the backend and of the network   *)
(* keeps it all.                                                           *)
LEMMA DeliveryStep == DeliveryInv /\ [DeliveryNext]_delivery_vars => DeliveryInv'
<1> SUFFICES ASSUME DeliveryInv, [DeliveryNext]_delivery_vars PROVE DeliveryInv'
  OBVIOUS
<1> USE DEF DeliveryInv
<1>1. HttpInv /\ NetInv /\ CleanInv
  BY DEF BackendInv
<1>2. BackendInv'
  BY <1>1, BackendUse, BackendStep
<1>3. QueueInv'
  BY QueueStep
<1>4. HandInv'
  BY <1>1, HandStep
<1>5. EndInv' /\ CallerInv' /\ FlushInv'
  BY <1>1, EndStep, CallerStep, FlushStep
<1>6. LineInv'
  BY <1>3, LineStep
<1>7. QED
  BY <1>2, <1>3, <1>4, <1>5, <1>6

(* DeliveryInv holds throughout. *)
LEMMA DeliveryInvariant == DeliverySpec => []DeliveryInv
  BY DeliveryStart, DeliveryStep, PTL DEF DeliverySpec

(* A request carries events that were handed over. *)
LEMMA SentWasHanded ==
    ASSUME DeliveryInv, NEW e \in EventIds, Tries(e) # {}
    PROVE  e \in 1 .. Len(handed)
<1>1. fate[e] # "unborn"
  BY DEF DeliveryInv, BackendInv, TriesInv
<1>2. ~(e > Len(handed)) /\ Len(handed) \in Nat
  BY <1>1 DEF DeliveryInv, HandInv, QueueInv
<1>3. QED
  BY <1>2, ConfigAssumption DEF EventIds

(* So does an arrival. *)
LEMMA ArrivedWasSent ==
    ASSUME NetInv, NEW e \in EventIds, NEW p \in Arrivals(e)
    PROVE  p \in 1 .. Len(received) /\ received[p] \in Tries(e)
  BY DEF NetInv, Arrivals, Tries

(***************************************************************************)
(* batch_items is never written past its end and never holds more than     *)
(* batch_size events, for every batch size and initial capacity, whatever  *)
(* allocations fail and however main, the delivery thread and a signal     *)
(* interleave.                                                             *)
(***************************************************************************)
THEOREM BatchFits == DeliverySpec => []BatchBound
<1>1. DeliveryInv => BatchBound
  BY BatchBounded DEF DeliveryInv, BackendInv
<1>2. QED
  BY <1>1, DeliveryInvariant, PTL

(***************************************************************************)
(* No event is sent more than retry_max_attempts + 1 times, given up for   *)
(* want of an answer before all of these, or sent again after its batch    *)
(* came to an end; and a 2xx is only ever for what has arrived.  For every *)
(* batch size and number of retries.                                       *)
(***************************************************************************)
THEOREM Attempts == DeliverySpec => []AttemptsAccounted
<1>1. DeliveryInv => AttemptsAccounted
  BY AttemptsMean DEF DeliveryInv
<1>2. QED
  BY <1>1, DeliveryInvariant, PTL

(***************************************************************************)
(* The queue stays within MAX_QUEUE_DEPTH, the batch taken from it within  *)
(* the delivery thread's array, and the backend's variables in range.      *)
(***************************************************************************)
THEOREM DeliveryTypes == DeliverySpec => []DeliveryTypeOK
<1>1. DeliveryInv => DeliveryTypeOK
  <2> SUFFICES ASSUME DeliveryInv PROVE DeliveryTypeOK
    OBVIOUS
  <2>1. TypeOK
    BY TypeMeans DEF DeliveryInv, BackendInv
  <2>2. /\ contents \in Seq(EventIds) /\ Len(contents) <= Capacity
        /\ taken \in Seq(EventIds) /\ Len(taken) <= BatchMax
        /\ accepted \in 0 .. MaxEvents /\ handed \in Seq(EventIds)
    BY DEF DeliveryInv, QueueInv
  <2>3. dropped \in 0 .. MaxEvents
    <3>1. /\ dropped \in Nat /\ Len(handed) \in Nat /\ Len(taken) \in Nat /\ Len(contents) \in Nat
          /\ Len(handed) + Len(taken) + Len(contents) + dropped = accepted
      BY <2>2 DEF DeliveryInv, QueueInv
    <3>2. QED
      BY <2>2, <3>1, ConfigAssumption
  <2>4. /\ g_stop \in BOOLEAN /\ signalled \in BOOLEAN
        /\ collector \in {"running", "done"} /\ delivery \in {"test", "emit", "final", "done", "none"}
    BY DEF DeliveryInv, EndInv
  <2>5. QED
    BY <2>1, <2>2, <2>3, <2>4 DEF DeliveryTypeOK
<1>2. QED
  BY <1>1, DeliveryInvariant, PTL

(***************************************************************************)
(* Without a failed request or allocation each flush delivers everything   *)
(* handed over so far exactly once, for every batch size, queue depth and  *)
(* number of events, although the network takes its time.                  *)
(***************************************************************************)
THEOREM CleanRun == DeliverySpec => []CleanRunDelivers
<1>1. DeliveryInv => CleanRunDelivers
  <2> SUFFICES ASSUME DeliveryInv, ~faulted, pc = "idle", delivery # "emit"
               PROVE  /\ batch = << >>
                      /\ \A e \in 1 .. Len(handed) :
                           fate[e] = "acked" /\ \E p \in 1 .. Len(received) : Arrivals(e) = {p}
    BY DEF CleanRunDelivers
  <2> USE DEF DeliveryInv, BackendInv
  <2>1. batch = << >>
    BY DEF FlushInv
  <2>2. ASSUME NEW e \in 1 .. Len(handed)
        PROVE  fate[e] = "acked" /\ \E p \in 1 .. Len(received) : Arrivals(e) = {p}
    <3>1. e \in EventIds /\ ~(e > Len(handed))
      <4>1. /\ Len(handed) \in Nat /\ Len(taken) \in Nat /\ Len(contents) \in Nat /\ dropped \in Nat
            /\ Len(handed) + Len(taken) + Len(contents) + dropped = accepted /\ accepted \in 0 .. MaxEvents
        BY DEF QueueInv
      <4>2. QED
        BY <4>1, ConfigAssumption DEF EventIds
    <3>2. fate[e] # "unborn"
      BY <3>1 DEF HandInv
    <3>3. e # hand /\ e \notin Elems(batch)
      BY <2>1, <3>1 DEF HttpInv, CallInv, Posting, EventIds, Elems
    <3>4. fate[e] = "acked"
      BY <3>1, <3>2, <3>3 DEF CleanInv, HttpInv, BatchInv
    <3>5. PICK i \in Nat : Tries(e) = {i}
      BY <3>1, <3>4 DEF CleanInv
    <3>6. PICK p : p \in Arrivals(e)
      BY <3>1, <3>4 DEF ArrivalInv
    <3>7. ASSUME NEW q \in Arrivals(e) PROVE q = p
      BY <3>1, <3>5, <3>6, ArrivedWasSent DEF NetInv
    <3>8. QED
      BY <3>1, <3>4, <3>6, <3>7, ArrivedWasSent
  <2>3. QED
    BY <2>1, <2>2
<1>2. QED
  BY <1>1, DeliveryInvariant, PTL

(***************************************************************************)
(* From end to end, for every depth of the queue, batch array, batch size  *)
(* and number of retries: requests go out in the order the collector       *)
(* enqueued the events, repeating a batch or moving on behind it, and no   *)
(* arrival, however late, shows an event before an acknowledged one that   *)
(* goes ahead of it.                                                       *)
(***************************************************************************)
THEOREM EndToEnd == DeliverySpec => []EndToEndOrder
<1>1. DeliveryInv => EndToEndOrder
  <2> SUFFICES ASSUME DeliveryInv PROVE EndToEndOrder
    OBVIOUS
  <2>1. /\ handed \in Seq(EventIds) /\ taken \in Seq(EventIds) /\ contents \in Seq(EventIds)
        /\ Line(handed, taken, contents, accepted)
        /\ requests \in Seq(Seq(EventIds))
    BY DEF DeliveryInv, QueueInv, LineInv, BackendInv, NetInv
  <2>2. Ascending(handed \o taken \o contents) /\ Ascending(handed)
    BY <2>1, LineWhole DEF Line
  <2>3. RequestOrder /\ ArrivalInv
    BY DEF DeliveryInv, BackendInv
  <2>4. ASSUME NEW i \in 1 .. Len(requests), NEW x \in Elems(requests[i])
        PROVE  x \in 1 .. Len(handed)
    <3>1. requests[i] \in Seq(EventIds)
      BY <2>1
    <3>2. x \in EventIds
      BY <3>1 DEF Elems
    <3>3. i \in Tries(x)
      BY DEF Tries
    <3>4. QED
      BY <3>2, <3>3, SentWasHanded
  <2>5. ASSUME NEW x \in 1 .. Len(handed), NEW y \in 1 .. Len(handed), x < y
        PROVE  handed[x] < handed[y]
    BY <2>2, <2>5 DEF Ascending
  <2>6. ASSUME NEW i \in 1 .. Len(requests), NEW p \in 1 .. Len(requests[i]), NEW q \in 1 .. Len(requests[i]), p < q
        PROVE  handed[requests[i][p]] < handed[requests[i][q]]
    <3>1. requests[i][p] \in Elems(requests[i]) /\ requests[i][q] \in Elems(requests[i])
      BY DEF Elems
    <3>2. requests[i][p] < requests[i][q]
      BY <2>3, <2>6 DEF RequestOrder, Ascending
    <3>3. QED
      BY <2>4, <2>5, <3>1, <3>2
  <2>7. ASSUME NEW i \in 1 .. Len(requests), NEW j \in 1 .. Len(requests), i < j
        PROVE  \/ requests[i] = requests[j]
               \/ \A x \in Elems(requests[i]), y \in Elems(requests[j]) : handed[x] < handed[y]
    <3>1. CASE \A x \in Elems(requests[i]), y \in Elems(requests[j]) : x < y
      <4>1. ASSUME NEW x \in Elems(requests[i]), NEW y \in Elems(requests[j])
            PROVE  handed[x] < handed[y]
        BY <2>4, <2>5, <3>1
      <4>2. QED
        BY <4>1
    <3>2. QED
      BY <2>3, <2>7, <3>1 DEF RequestOrder
  <2>8. QED
    BY <2>2, <2>3, <2>6, <2>7 DEF EndToEndOrder, ArrivalInv
<1>2. QED
  BY <1>1, DeliveryInvariant, PTL

(***************************************************************************)
(* No event goes missing without being counted, for every depth of the     *)
(* queue and every number of events: each is dropped and counted, queued,  *)
(* taken or handed over, and after a run that no signal cut short and in   *)
(* which no request and no allocation failed the receiver has every event  *)
(* that the queue did not count as dropped.                                *)
(***************************************************************************)
THEOREM Accounted == DeliverySpec => []NothingUnaccounted
<1>1. DeliveryInv => NothingUnaccounted
  <2> SUFFICES ASSUME DeliveryInv PROVE NothingUnaccounted
    OBVIOUS
  <2> USE DEF DeliveryInv, BackendInv
  <2>1. Len(handed) + Len(taken) + Len(contents) + dropped = accepted
    BY DEF QueueInv
  <2>2. \A i \in EventIds : fate[i] = "unborn" <=> i > Len(handed)
    BY DEF HandInv
  <2> DEFINE Seen == {handed[i] : i \in {e \in EventIds : Arrivals(e) # {}}}
  <2>3. ASSUME Closed, delivery # "none", ~signalled, ~faulted
        PROVE  Cardinality(Seen) + dropped = accepted
    <3>1. handed \in Seq(EventIds) /\ Len(handed) \in Nat /\ dropped \in Nat /\ accepted \in 0 .. MaxEvents
      BY DEF QueueInv
    <3>2. pc = "closed"
      BY <2>3 DEF Closed
    <3>3. delivery = "done" /\ contents = << >> /\ taken = << >>
      BY <2>3, <3>2 DEF CallerInv, EndInv, QueueInv
    <3>4. Len(handed) + dropped = accepted
      <4>1. Len(contents) = 0 /\ Len(taken) = 0
        BY <3>3
      <4>2. QED
        BY <2>1, <3>1, <4>1
    <3>5. batch = << >> /\ hand = 0
      BY <2>3, <3>2 DEF CleanInv, HttpInv, CallInv, Posting
    <3>6. ASSUME NEW e \in EventIds PROVE fate[e] \in {"unborn", "acked"}
      <4>1. fate[e] \in {"unborn", "hand", "batched", "acked"}
        BY <2>3 DEF CleanInv
      <4>2. e \notin Elems(batch) /\ e # hand
        BY <3>5 DEF Elems, EventIds
      <4>3. fate[e] # "hand" /\ fate[e] # "batched"
        BY <4>2 DEF HttpInv, BatchInv
      <4>4. QED
        BY <4>1, <4>3
    <3>7. {e \in EventIds : Arrivals(e) # {}} = 1 .. Len(handed)
      <4>1. ASSUME NEW e \in EventIds, Arrivals(e) # {} PROVE e \in 1 .. Len(handed)
        BY <4>1, ArrivedWasSent, SentWasHanded
      <4>2. ASSUME NEW e \in 1 .. Len(handed) PROVE e \in EventIds /\ Arrivals(e) # {}
        <5>1. e \in EventIds
          BY <3>1, <3>4, ConfigAssumption DEF EventIds
        <5>2. fate[e] # "unborn"
          BY <2>2, <3>1, <5>1
        <5>3. QED
          BY <3>6, <5>1, <5>2 DEF ArrivalInv
      <4>3. QED
        BY <4>1, <4>2
    <3>8. Seen = {handed[i] : i \in 1 .. Len(handed)}
      BY <3>7
    <3>9. Cardinality(Seen) = Len(handed)
      <4> DEFINE f == [i \in 1 .. Len(handed) |-> handed[i]]
      <4>1. Ascending(handed) /\ \A i \in 1 .. Len(handed) : handed[i] \in Int
        <5>1. \A x \in EventIds : x \in Int
          BY ConfigAssumption DEF EventIds
        <5>2. \A i \in 1 .. Len(handed) : handed[i] \in EventIds
          BY <3>1
        <5>3. QED
          BY <5>1, <5>2 DEF LineInv, Line
      <4>2. ASSUME NEW i \in 1 .. Len(handed), NEW j \in 1 .. Len(handed), handed[i] = handed[j] PROVE i = j
        <5>1. i < j => handed[i] < handed[j]
          BY <4>1 DEF Ascending
        <5>2. j < i => handed[j] < handed[i]
          BY <4>1 DEF Ascending
        <5>3. handed[i] \in Int /\ handed[j] \in Int /\ i \in Int /\ j \in Int
          BY <4>1
        <5>4. QED
          BY <4>2, <5>1, <5>2, <5>3
      <4>3. f \in Bijection(1 .. Len(handed), Seen)
        BY <3>8, <4>2 DEF Bijection, Injection, Surjection, IsInjective
      <4>4. ExistsBijection(1 .. Len(handed), Seen)
        BY <4>3 DEF ExistsBijection
      <4>5. QED
        BY <3>1, <4>4, FS_CountingElements
    <3>10. QED
      BY <3>4, <3>9
  <2>4. QED
    BY <2>1, <2>2, <2>3 DEF NothingUnaccounted
<1>2. QED
  BY <1>1, DeliveryInvariant, PTL
=============================================================================
