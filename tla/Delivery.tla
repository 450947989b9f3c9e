------------------------------ MODULE Delivery ------------------------------
(***************************************************************************)
(* The way of an event from queue_enqueue to the receiver: the queue, the  *)
(* delivery thread and the http_post backend at work together, with a      *)
(* collector that goes on filling the queue while requests time out and    *)
(* are retried.                                                            *)
(*                                                                         *)
(* The backend is HttpOutput, whose calls last as many steps as they need; *)
(* the queue is BoundedFifo; of the collector and main only what concerns  *)
(* the two is kept (Pipeline has the rest).  Events are numbered in the    *)
(* order the collector enqueues them.  HttpOutput numbers them in the      *)
(* order they are handed over: its event i is event handed[i] here.        *)
(***************************************************************************)
EXTENDS HttpOutput

CONSTANTS Capacity,   \* MAX_QUEUE_DEPTH
          BatchMax    \* the size of the delivery thread's batch array

(* The queue holds at least one event, and so does the batch array. *)
ASSUME QueueAssumption == Capacity \in Nat \ {0} /\ BatchMax \in Nat \ {0}

VARIABLES contents, taken, accepted, dropped,   \* the queue, and the batch taken from it
          handed,         \* events passed to output_emit_event, in order
          g_stop,
          collector,      \* running or done
          delivery,       \* test, emit, final, done, or none if it was not created
          signalled       \* g_stop was set by a signal

queue_vars == <<contents, taken, accepted, dropped>>
thread_vars == <<handed, g_stop, collector, delivery, signalled>>
delivery_vars == <<vars, queue_vars, thread_vars>>

Fifo == INSTANCE BoundedFifo WITH Events <- EventIds, MaxAccepted <- MaxEvents

DeliveryTypeOK ==
    /\ TypeOK
    /\ contents \in Seq(EventIds) /\ Len(contents) <= Capacity
    /\ taken \in Seq(EventIds) /\ Len(taken) <= BatchMax
    /\ accepted \in 0 .. MaxEvents /\ dropped \in 0 .. MaxEvents
    /\ handed \in Seq(EventIds)
    /\ g_stop \in BOOLEAN /\ signalled \in BOOLEAN
    /\ collector \in {"running", "done"}
    /\ delivery \in {"test", "emit", "final", "done", "none"}

(* pthread_create has succeeded twice, or the second time it has not. *)
DeliveryInit ==
    /\ Init
    /\ Fifo!Empty /\ taken = << >>
    /\ handed = << >> /\ collector = "running" /\ signalled = FALSE
    /\ delivery \in {"test", "none"}
    /\ g_stop = (delivery = "none")
-----------------------------------------------------------------------------
Collect ==
    /\ collector = "running" /\ accepted < MaxEvents
    /\ Fifo!Put(accepted + 1)
    /\ UNCHANGED <<vars, taken, thread_vars>>

(* After the last row (-n), or early because of the flag. *)
CollectorEnds ==
    /\ collector = "running" /\ (g_stop \/ accepted = MaxEvents)
    /\ collector' = "done"
    /\ UNCHANGED <<vars, queue_vars, handed, g_stop, delivery, signalled>>

handle_sigint ==
    /\ ~g_stop
    /\ g_stop' = TRUE /\ signalled' = TRUE
    /\ UNCHANGED <<vars, queue_vars, handed, collector, delivery>>

(* main forgets to tell the delivery thread. *)
Bug_JoinCollector ==
    /\ collector = "done" /\ ~g_stop
    /\ UNCHANGED delivery_vars

(* main has joined the collector, and tells the delivery thread. *)
JoinCollector ==
    /\ collector = "done" /\ ~g_stop
    /\ g_stop' = TRUE
    /\ UNCHANGED <<vars, queue_vars, handed, collector, delivery, signalled>>

(* while (!g_stop || queue_size > 0) *)
Wanted == ~g_stop \/ contents # << >>

(* The loop test and queue_dequeue_batch; an empty queue is a short sleep. *)
Dequeue ==
    /\ delivery = "test" /\ pc = "idle" /\ Wanted
    /\ Fifo!Take
    /\ delivery' = IF contents # << >> THEN "emit" ELSE "test"
    /\ UNCHANGED <<vars, handed, g_stop, collector, signalled>>

(* output_emit_event, whose result is ignored, for the next of the batch *)
Hand ==
    /\ delivery = "emit" /\ taken # << >>
    /\ EmitEvent(Len(handed) + 1)
    /\ handed' = Append(handed, Head(taken))
    /\ taken' = Tail(taken)
    /\ UNCHANGED <<contents, accepted, dropped, g_stop, collector, delivery, signalled>>

FlushBatch ==
    /\ delivery = "emit" /\ taken = << >>
    /\ output_flush
    /\ delivery' = "test"
    /\ UNCHANGED <<queue_vars, handed, g_stop, collector, signalled>>

FinalFlush ==
    /\ delivery = "test" /\ ~Wanted
    /\ output_flush
    /\ delivery' = "final"
    /\ UNCHANGED <<queue_vars, handed, g_stop, collector, signalled>>

ThreadEnds ==
    /\ delivery = "final" /\ pc = "idle"
    /\ delivery' = "done"
    /\ UNCHANGED <<vars, queue_vars, handed, g_stop, collector, signalled>>

(* main does not wait for the delivery thread. *)
Bug_Shutdown ==
    /\ collector = "done" /\ g_stop
    /\ caller # "shutdown" /\ pc # "closed"
    /\ output_shutdown
    /\ UNCHANGED <<queue_vars, thread_vars>>

(* main, once it has joined both threads *)
Shutdown ==
    /\ collector = "done" /\ g_stop /\ delivery \in {"done", "none"}
    /\ caller # "shutdown" /\ pc # "closed"
    /\ output_shutdown
    /\ UNCHANGED <<queue_vars, thread_vars>>

delivery_thread == Dequeue \/ Hand \/ FlushBatch \/ FinalFlush \/ ThreadEnds

(* A call of the backend goes on. *)
Backend ==
    /\ MaybeFlush \/ AppendEvent \/ http_post_batch \/ FreeAll
    /\ UNCHANGED <<queue_vars, thread_vars>>

(* Time passes, and the network delivers. *)
Environment == (Tick \/ Arrive) /\ UNCHANGED <<queue_vars, thread_vars>>

Ended == Closed /\ UNCHANGED delivery_vars

DeliveryNext ==
    \/ Collect \/ CollectorEnds \/ handle_sigint \/ JoinCollector
    \/ delivery_thread \/ Shutdown \/ Backend \/ Environment \/ Ended

(* Every thread is scheduled, every request ends (CURLOPT_TIMEOUT is 10 s) *)
(* and so does every sleep.                                                *)
DeliverySpec ==
    /\ DeliveryInit /\ [][DeliveryNext]_delivery_vars
    /\ WF_delivery_vars(Collect \/ CollectorEnds)
    /\ WF_delivery_vars(JoinCollector \/ Shutdown)
    /\ WF_delivery_vars(delivery_thread \/ Backend)
-----------------------------------------------------------------------------
Ascending(s) == \A p, q \in 1 .. Len(s) : p < q => s[p] < s[q]

(***************************************************************************)
(* From end to end, through drops of a full queue, batches cut at BatchMax *)
(* and again at batch_size, and retries: requests go out in the order the  *)
(* collector enqueued the events, and two requests carry the same batch or *)
(* have no event in common, the earlier one the earlier events.  What the  *)
(* network then does, late answers and requests that outlive their timeout *)
(* included, never shows a receiver an event before an acknowledged one    *)
(* that goes ahead of it; copies, and events that were never acknowledged, *)
(* can come late.                                                          *)
(***************************************************************************)
EndToEndOrder ==
    /\ Ascending(handed \o taken \o contents)
    /\ \A i \in 1 .. Len(requests) :
         \A p, q \in 1 .. Len(requests[i]) :
             p < q => handed[requests[i][p]] < handed[requests[i][q]]
    /\ \A i, j \in 1 .. Len(requests) :
         i < j => \/ requests[i] = requests[j]
                  \/ \A x \in Elems(requests[i]), y \in Elems(requests[j]) :
                       handed[x] < handed[y]
    /\ \A x, y \in EventIds :
         fate[x] = "acked" /\ x < y =>
             \A q \in Arrivals(y) : \E p \in Arrivals(x) : p <= q

(***************************************************************************)
(* As long as no request and no allocation has failed, the flush after     *)
(* each dequeued batch leaves nothing behind: all events handed over so    *)
(* far have arrived, each of them once.                                    *)
(***************************************************************************)
CleanRunDelivers ==
    ~faulted /\ pc = "idle" /\ delivery # "emit" =>
        /\ batch = << >>
        /\ \A e \in 1 .. Len(handed) :
             fate[e] = "acked" /\ \E p \in 1 .. Len(received) : Arrivals(e) = {p}

(***************************************************************************)
(* Every event is accounted for at every moment: dropped by the queue and  *)
(* counted, still queued, taken, or handed over.  When a run that no       *)
(* signal cut short and in which no request failed is over, the receiver   *)
(* has every event the queue did not count as dropped, however slow it     *)
(* was.                                                                    *)
(***************************************************************************)
NothingUnaccounted ==
    /\ Len(handed) + Len(taken) + Len(contents) + dropped = accepted
    /\ \A i \in EventIds : fate[i] = "unborn" <=> i > Len(handed)
    /\ Closed /\ delivery # "none" /\ ~signalled /\ ~faulted =>
         Cardinality({handed[i] : i \in {e \in EventIds : Arrivals(e) # {}}}) + dropped = accepted

(***************************************************************************)
(* The program ends after a signal or its last row, however many requests  *)
(* fail on the way, and whatever was handed over has a known end: it was   *)
(* acknowledged, rejected, refused or given up.                            *)
(***************************************************************************)
EverythingSettles ==
    <>[](Closed /\ \A i \in 1 .. Len(handed) : fate[i] \notin {"hand", "batched"})
=============================================================================
