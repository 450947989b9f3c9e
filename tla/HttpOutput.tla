----------------------------- MODULE HttpOutput -----------------------------
(***************************************************************************)
(* The http_post backend of src/output.c: the batch in g_output, its       *)
(* growing array, its age, and the retry loop of http_post_batch, with a   *)
(* receiver on the other end of an unreliable connection.                  *)
(*                                                                         *)
(* A call is a walk of pc from "idle" back to "idle", one step per         *)
(* decision of the code, so that time may pass in between; who calls, and  *)
(* in which order, is up to the threads (Delivery).  Events are numbered   *)
(* as they are handed over.                                                *)
(*                                                                         *)
(* Requests are asynchronous, as they are on a network: one that was sent  *)
(* may arrive at any time after, once or never.  curl_easy_perform gives   *)
(* up after CURLOPT_TIMEOUT, and then the retry, or the requests of later  *)
(* batches, may get there before it does.                                  *)
(***************************************************************************)
EXTENDS Integers, Sequences, FiniteSets

CONSTANTS batch_size,              \* g_output.batch_size
          batch_interval_seconds,  \* g_output.batch_interval_seconds
          retry_max_attempts,      \* g_output.retry_max_attempts
          InitialCapacity,         \* slots batch_reset allocates: 16
          MaxEvents                \* bound of the model: events handed over

(* The ranges output_init lets through: 0 stands for the defaults. *)
ASSUME ConfigAssumption ==
    /\ batch_size \in Nat \ {0}
    /\ batch_interval_seconds \in Nat \ {0}
    /\ retry_max_attempts \in Nat
    /\ InitialCapacity \in Nat \ {0}
    /\ MaxEvents \in Nat

VARIABLES batch,           \* batch_items[0 .. batch_count - 1]
          batch_capacity,
          batch_started,   \* the age of the batch is being counted
          age,             \* in seconds, up to batch_interval_seconds
          pc,              \* where the current call is
          caller,          \* who called http_post_batch
          attempt,         \* http_post_batch's loop counter
          hand,            \* the event output_emit_event was given
          fate,            \* what became of each event
          requests,        \* the batch in each request sent so far, in order
          on_the_way,      \* the requests that may yet arrive
          received,        \* the requests the receiver took in, as they came
          faulted          \* a request or an allocation has failed

batch_vars == <<batch, batch_capacity, batch_started, age>>
call_vars == <<pc, caller, attempt, hand>>
net_vars == <<requests, on_the_way, received>>
vars == <<batch_vars, call_vars, fate, net_vars, faulted>>

EventIds == 1 .. MaxEvents
Fates == {"unborn", "hand", "batched", "acked", "rejected", "exhausted", "refused", "freed"}

Elems(s) == {s[p] : p \in 1 .. Len(s)}

(* The batch and the event in hand, with a new fate. *)
Settle(events, f) == fate' = [e \in EventIds |-> IF e \in events THEN f ELSE fate[e]]

TypeOK ==
    /\ batch \in Seq(EventIds)
    /\ batch_capacity \in Nat
    /\ batch_started \in BOOLEAN
    /\ age \in 0 .. batch_interval_seconds
    /\ pc \in {"idle", "maybe_flush", "post", "attempt", "backoff", "append", "closed"}
    /\ caller \in {"none", "maybe_flush", "full", "flush", "shutdown"}
    /\ attempt \in 0 .. retry_max_attempts
    /\ hand \in 0 .. MaxEvents
    /\ fate \in [EventIds -> Fates]
    /\ requests \in Seq(Seq(EventIds))
    /\ on_the_way \subseteq 1 .. Len(requests)
    /\ received \in Seq(1 .. Len(requests))
    /\ faulted \in BOOLEAN
-----------------------------------------------------------------------------
(* output_init with output.type http_post; batch_reset allocates the array. *)
output_init ==
    /\ batch = << >>
    /\ batch_capacity = InitialCapacity
    /\ batch_started = FALSE
    /\ age = 0

Init ==
    /\ output_init
    /\ pc = "idle" /\ caller = "none" /\ attempt = 0 /\ hand = 0
    /\ fate = [e \in EventIds |-> "unborn"]
    /\ requests = << >> /\ on_the_way = {} /\ received = << >>
    /\ faulted = FALSE

Goto(from, to) == pc = from /\ pc' = to

(* free_batch_items: the batch is given up, whatever became of it. *)
free_batch_items ==
    /\ batch' = << >>
    /\ batch_started' = FALSE
    /\ age' = 0
    /\ UNCHANGED batch_capacity

(* http_post_batch is called: an empty batch is a success at once. *)
CallPost(from, who) ==
    /\ Goto(from, "post")
    /\ caller' = who
    /\ attempt' = 0
-----------------------------------------------------------------------------
(* output_emit_event(e), up to the call of maybe_flush_http_batch. *)
EmitEvent(e) ==
    /\ Goto("idle", "maybe_flush")
    /\ fate[e] = "unborn" /\ \A d \in 1 .. e - 1 : fate[d] # "unborn"
    /\ hand' = e
    /\ Settle({e}, "hand")
    /\ UNCHANGED <<batch_vars, caller, attempt, net_vars, faulted>>

BatchFull == Len(batch) >= batch_size
BatchOld == batch_started /\ age >= batch_interval_seconds

(* A batch that is full (its last post failed for want of memory) or old   *)
(* goes out before the new event joins it.  The clock may fail to tell     *)
(* that the batch is old.                                                  *)
MaybeFlush ==
    /\ \/ /\ batch # << >> /\ (BatchFull \/ BatchOld)
          /\ CallPost("maybe_flush", "maybe_flush")
       \/ /\ batch = << >> \/ ~BatchFull
          /\ Goto("maybe_flush", "append")
          /\ UNCHANGED <<caller, attempt>>
    /\ UNCHANGED <<batch_vars, hand, fate, net_vars, faulted>>

(* The event in hand is lost: output_emit_event returns -1 and the         *)
(* delivery thread does not look.                                          *)
Refuse ==
    /\ pc' = "idle"
    /\ hand' = 0
    /\ Settle({hand}, "refused")

(* batch_start_if_needed; the clock may fail to start. *)
StartIfNeeded ==
    /\ batch_started' \in {batch_started, TRUE}
    /\ UNCHANGED age

(* Growing one event too late. *)
Bug_GrownCapacity(needed) ==
    IF needed <= batch_capacity + 1 THEN batch_capacity ELSE 2 * batch_capacity

(* batch_ensure_capacity: enough for one more is one doubling at most. *)
GrownCapacity(needed) == IF needed <= batch_capacity THEN batch_capacity ELSE 2 * batch_capacity

(* The new event joins the batch, unless memory runs out; a batch that is  *)
(* full now goes out before output_emit_event returns.                     *)
AppendEvent ==
    /\ pc = "append"
    /\ StartIfNeeded
    /\ \/ /\ batch' = Append(batch, hand)
          /\ batch_capacity' = GrownCapacity(Len(batch) + 1)
          /\ Settle({hand}, "batched")
          /\ hand' = 0
          /\ IF Len(batch') >= batch_size
               THEN CallPost("append", "full")
               ELSE pc' = "idle" /\ UNCHANGED <<caller, attempt>>
          /\ UNCHANGED faulted
       \/ /\ batch_capacity' \in {batch_capacity, GrownCapacity(Len(batch) + 1)}
          /\ Refuse
          /\ faulted' = TRUE
          /\ UNCHANGED <<batch, caller, attempt>>
    /\ UNCHANGED net_vars
-----------------------------------------------------------------------------
(* http_post_batch returns r to its caller: a failed post before an append *)
(* costs the event in hand, any other result is ignored.                   *)
PostReturn(r, settled, f) ==
    /\ IF caller = "maybe_flush" /\ r # 0
         THEN /\ pc' = "idle"
              /\ hand' = 0
              /\ fate' = [e \in EventIds |-> CASE e \in settled -> f
                                               [] e = hand -> "refused"
                                               [] OTHER -> fate[e]]
         ELSE /\ pc' = CASE caller = "maybe_flush" -> "append"
                         [] caller = "shutdown" -> "closed"
                         [] OTHER -> "idle"
              /\ UNCHANGED hand
              /\ Settle(settled, f)
    /\ caller' = "none"
    /\ attempt' = 0

(* The body, or the curl handle, cannot be allocated: -1, the batch stays. *)
PostNoMemory ==
    /\ pc = "post" /\ batch # << >>
    /\ PostReturn(-1, {}, "batched")
    /\ faulted' = TRUE
    /\ UNCHANGED <<batch_vars, net_vars>>

(* curl_easy_perform sets out with the whole batch as its body. *)
Send ==
    /\ requests' = Append(requests, batch)
    /\ on_the_way' = on_the_way \cup {Len(requests) + 1}
    /\ UNCHANGED received

PostBegin ==
    /\ \/ /\ batch = << >> /\ pc = "post"
          /\ PostReturn(0, {}, "batched")
          /\ UNCHANGED net_vars
       \/ /\ batch # << >> /\ Goto("post", "attempt")
          /\ Send
          /\ UNCHANGED <<caller, attempt, hand, fate>>
    /\ UNCHANGED <<batch_vars, faulted>>

(* The receiver takes in a request that was sent, whatever has become of   *)
(* the curl_easy_perform that sent it.                                     *)
Arrive ==
    /\ \E i \in on_the_way :
         /\ received' = Append(received, i)
         /\ on_the_way' = on_the_way \ {i}
    /\ UNCHANGED <<batch_vars, call_vars, fate, requests, faulted>>

HasArrived == Len(requests) \in Elems(received)

(* The answer's code is not looked at. *)
Bug_Acked ==
    /\ pc = "attempt"
    /\ PostReturn(0, Elems(batch), "acked")
    /\ free_batch_items
    /\ UNCHANGED <<net_vars, faulted>>

(* A 2xx answer to the request under way: the receiver has the batch. *)
Acked ==
    /\ pc = "attempt" /\ HasArrived
    /\ PostReturn(0, Elems(batch), "acked")
    /\ free_batch_items
    /\ UNCHANGED <<net_vars, faulted>>

(* Dropped for the client error, but kept for the next flush. *)
Bug_Rejected ==
    /\ pc = "attempt" /\ ~HasArrived
    /\ on_the_way' = on_the_way \ {Len(requests)}
    /\ PostReturn(0, Elems(batch), "rejected")
    /\ faulted' = TRUE
    /\ UNCHANGED <<batch_vars, requests, received>>

(* A 4xx other than 429: the receiver will not have it.  The batch is      *)
(* dropped, and to the caller that is a success.                           *)
Rejected ==
    /\ pc = "attempt" /\ ~HasArrived
    /\ on_the_way' = on_the_way \ {Len(requests)}
    /\ PostReturn(0, Elems(batch), "rejected")
    /\ free_batch_items
    /\ faulted' = TRUE
    /\ UNCHANGED <<requests, received>>

(* One attempt too many. *)
Bug_MoreAttempts == attempt <= retry_max_attempts

MoreAttempts == attempt < retry_max_attempts

(* No answer, a timeout, 429, 5xx: the request may have got through all    *)
(* the same, or may still do so.  After the last attempt the batch is      *)
(* given up.                                                               *)
Failed ==
    /\ pc = "attempt"
    /\ IF MoreAttempts
         THEN Goto("attempt", "backoff")
              /\ UNCHANGED <<batch_vars, caller, attempt, hand, fate>>
         ELSE PostReturn(-1, Elems(batch), "exhausted") /\ free_batch_items
    /\ faulted' = TRUE
    /\ UNCHANGED net_vars

(* sleep(backoff_seconds), then the same body again; the wait itself is    *)
(* RetryBackoff.                                                           *)
Retry ==
    /\ Goto("backoff", "attempt")
    /\ attempt' = attempt + 1
    /\ Send
    /\ UNCHANGED <<batch_vars, caller, hand, fate, faulted>>

http_post_batch == PostNoMemory \/ PostBegin \/ Acked \/ Rejected \/ Failed \/ Retry
-----------------------------------------------------------------------------
Bug_output_flush ==
    /\ IF BatchFull
         THEN CallPost("idle", "flush")
         ELSE pc = "idle" /\ UNCHANGED <<pc, caller, attempt>>
    /\ UNCHANGED <<batch_vars, hand, fate, net_vars, faulted>>

(* output_flush sends what there is, also a batch that is not full. *)
output_flush ==
    /\ CallPost("idle", "flush")
    /\ UNCHANGED <<batch_vars, hand, fate, net_vars, faulted>>

(* output_shutdown flushes a last time.  Nothing in it waits for a call    *)
(* that another thread is in the middle of.                                *)
output_shutdown ==
    /\ CallPost(pc, "shutdown")
    /\ UNCHANGED <<batch_vars, hand, fate, net_vars, faulted>>

(* ... and frees what its own flush could not send. *)
FreeAll ==
    /\ pc = "closed" /\ batch_capacity # 0
    /\ batch' = << >> /\ batch_started' = FALSE /\ age' = 0 /\ batch_capacity' = 0
    /\ Settle(Elems(batch), "freed")
    /\ UNCHANGED <<call_vars, net_vars, faulted>>

Tick ==
    /\ batch_started /\ age < batch_interval_seconds
    /\ age' = age + 1
    /\ UNCHANGED <<batch, batch_capacity, batch_started, call_vars, fate, net_vars, faulted>>

Closed == pc = "closed" /\ batch_capacity = 0
-----------------------------------------------------------------------------
(***************************************************************************)
(* batch_items is never written past its end, however the batch grows,     *)
(* keeps events over a failed allocation and is emptied: the batch fits    *)
(* the array and never exceeds batch_size, and the events in it are the    *)
(* ones nobody has settled yet.                                            *)
(***************************************************************************)
BatchBound ==
    /\ Len(batch) <= batch_capacity
    /\ Len(batch) <= batch_size
    /\ Elems(batch) = {e \in EventIds : fate[e] = "batched"}

(* The requests that carry an event, and the arrivals that do. *)
Tries(e) == {i \in 1 .. Len(requests) : e \in Elems(requests[i])}
Arrivals(e) == {p \in 1 .. Len(received) : e \in Elems(requests[received[p]])}

(***************************************************************************)
(* How often an event is sent, whichever call of http_post_batch it got    *)
(* into and however the calls before it ended: never again once it has     *)
(* been acknowledged, rejected or given up, at most retry_max_attempts + 1 *)
(* times, given up for want of an answer only after all of these, and not  *)
(* at all if output_emit_event refused it or output_shutdown freed it.  An *)
(* event the 2xx was for has arrived; http_post_batch returns 0 for one    *)
(* that was rejected (4xx) as well, of which that cannot be said.          *)
(***************************************************************************)
AttemptsAccounted ==
    \A e \in EventIds :
        /\ Cardinality(Tries(e)) <= retry_max_attempts + 1
        /\ fate[e] = "exhausted" => Cardinality(Tries(e)) = retry_max_attempts + 1
        /\ fate[e] \in {"unborn", "hand", "refused", "freed"} => Tries(e) = {}
        /\ fate[e] = "acked" => Arrivals(e) # {}
=============================================================================
