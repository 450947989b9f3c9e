------------------------------ MODULE Pipeline ------------------------------
(***************************************************************************)
(* The running program of src/main.c: the main thread, the collector       *)
(* thread and the delivery thread, the event queue between the last two,   *)
(* the stop flag g_stop, and the signals that set it.                      *)
(*                                                                         *)
(* The queue is the drop-oldest FIFO that EventQueue implements: one step  *)
(* per call of queue.c, each of which holds the queue's lock throughout.   *)
(* Two calls are two steps, and so are two reads of g_stop: whatever other *)
(* threads can do in between, they do here.  handed is the sequence of     *)
(* events the delivery thread has passed to output_emit_event; what the    *)
(* output backend then does with them is HttpOutput.                       *)
(*                                                                         *)
(* Time is only told where the code waits for it, in seconds: timer is     *)
(* what is left of the collector's sleep, waiting what is left of the      *)
(* requests and backoff sleeps of an output call.  A second may pass       *)
(* whatever a thread that does not wait is about to do, so the threads may *)
(* be arbitrarily slow.  late counts the seconds the collector still       *)
(* sleeps after g_stop was set, grace those after a signal in which every  *)
(* thread did nothing but wait.                                            *)
(***************************************************************************)
EXTENDS Integers, Sequences, FiniteSets

CONSTANTS MetricOrder,   \* the metric categories in the order they are emitted
          DeltaMetrics,  \* those computed from two snapshots
          Capacity,      \* MAX_QUEUE_DEPTH
          BatchMax,      \* the size of the delivery thread's batch array
          Interval,      \* cfg->interval_sec
          OutputWait,    \* the longest an output call waits: 0 but for http_post
          Sigs,          \* the signals with a handler: SIGINT and SIGTERM
          MaxRows,       \* bound of the model: rows an endless run collects
          LateCap,       \* bounds of the model: where late and grace
          GraceCap       \* stop counting

Metrics == {MetricOrder[p] : p \in 1 .. Len(MetricOrder)}

(* The code has four categories, each with an event type of its own. *)
ASSUME MetricAssumption ==
    /\ MetricOrder \in Seq(STRING)
    /\ Len(MetricOrder) <= 4
    /\ \A p, q \in 1 .. Len(MetricOrder) : MetricOrder[p] = MetricOrder[q] => p = q
    /\ Metrics \cap {"warming_up", "ready", "internal"} = {}
    /\ DeltaMetrics \subseteq Metrics
ASSUME QueueAssumption == Capacity \in Nat \ {0} /\ BatchMax \in Nat \ {0}
ASSUME TimeAssumption ==
    /\ Interval \in Nat \ {0} /\ OutputWait \in Nat
    /\ MaxRows \in Nat \ {0} /\ LateCap \in Nat /\ GraceCap \in Nat

VARIABLES
    cfg,               \* iterations, the shown metrics, and whether queue_create worked
    g_stop,            \* the stop flag
    armed,             \* the signals whose handler is installed
    m_pc, rc,          \* main thread: where it is, and its exit code
    c_pc,              \* collector thread: where it is,
    timer, rows, first_iteration, ready,             \* its locals,
    pending,           \* the places in MetricOrder it has yet to emit in this row,
    internal_metrics,  \* and the self-metrics it keeps
    d_pc,              \* delivery thread: where it is
    contents, accepted, dropped,                     \* the queue
    taken,             \* what is left to emit of the delivery thread's batch
    handed,            \* events passed to output_emit_event
    waiting,           \* what is left of the waits of the output call under way
    late,              \* seconds of the collector's sleep since g_stop was set
    grace              \* idle seconds since the first signal

main_vars == <<m_pc, rc>>
collector_vars == <<c_pc, timer, rows, first_iteration, ready, pending, internal_metrics>>
delivery_vars == <<d_pc, handed, waiting>>
queue_vars == <<contents, taken, accepted, dropped>>
env_vars == <<armed, late, grace>>
vars == <<cfg, g_stop, main_vars, collector_vars, delivery_vars, queue_vars, env_vars>>

(* An event is told apart by its type and by the row it belongs to. *)
Event == [kind : Metrics \cup {"warming_up", "ready", "internal"}, row : 0 .. MaxRows]

(* All a behaviour can enqueue: the warm-up, ready, and MaxRows rows. *)
MaxEvents == 2 + MaxRows * (Len(MetricOrder) + 1)

Fifo == INSTANCE BoundedFifo WITH Events <- Event, MaxAccepted <- MaxEvents

TypeOK ==
    /\ cfg \in [iterations : 0 .. MaxRows, show : SUBSET Metrics, queue : BOOLEAN]
    /\ g_stop \in BOOLEAN
    /\ armed \subseteq Sigs
    /\ m_pc \in {"spawn_collector", "spawn_delivery", "join_collector", "join_delivery",
                 "join_abandoned", "shutdown", "closing", "exited", "killed"}
    /\ rc \in {0, 5, 6}
    /\ c_pc \in {"unborn", "warm_up", "baseline", "test", "sleep", "collect",
                 "emit", "dropped", "internal", "done"}
    /\ timer \in 0 .. Interval
    /\ rows \in 0 .. MaxRows
    /\ first_iteration \in BOOLEAN
    /\ ready \subseteq DeltaMetrics
    /\ pending \subseteq 1 .. Len(MetricOrder)
    /\ internal_metrics \in [buffer_depth : -1 .. Capacity,
                             events_dropped_total : 0 .. MaxEvents,
                             events_emitted_total : Nat]
    /\ d_pc \in {"unborn", "enter", "test", "size", "dequeue", "emit", "flush", "pause",
                 "final", "return", "done"}
    /\ contents \in Seq(Event) /\ Len(contents) <= Capacity
    /\ taken \in Seq(Event) /\ Len(taken) <= BatchMax
    /\ accepted \in 0 .. MaxEvents
    /\ dropped \in 0 .. MaxEvents
    /\ handed \in Seq(Event)
    /\ waiting \in 0 .. OutputWait
    /\ late \in 0 .. LateCap /\ grace \in 0 .. GraceCap
-----------------------------------------------------------------------------
(* main has installed the handlers and called queue_create, which may have *)
(* returned NULL: main does not look.                                      *)
Init ==
    /\ cfg \in [iterations : 0 .. MaxRows, show : SUBSET Metrics, queue : BOOLEAN]
    /\ g_stop = FALSE /\ armed = Sigs /\ late = 0 /\ grace = 0
    /\ m_pc = "spawn_collector" /\ rc = 0
    /\ c_pc = "unborn" /\ timer = 0 /\ rows = 0 /\ first_iteration = TRUE
    /\ ready = {} /\ pending = {}
    /\ internal_metrics = [buffer_depth |-> 0, events_dropped_total |-> 0,
                           events_emitted_total |-> 0]
    /\ d_pc = "unborn" /\ handed = << >> /\ waiting = 0
    /\ Fifo!Empty /\ taken = << >>

Alive == m_pc \notin {"exited", "killed"}
-----------------------------------------------------------------------------
(* queue_enqueue as the collector calls it, ignoring the result: without a *)
(* queue it does nothing.                                                  *)
Enqueue(kind, row) ==
    /\ IF cfg.queue
         THEN Fifo!Put([kind |-> kind, row |-> row])
         ELSE UNCHANGED <<contents, accepted, dropped>>
    /\ UNCHANGED taken

(* What the two read-only calls return; the -1 of a missing queue wraps to *)
(* 2^64 - 1, in an event nobody ever gets.                                 *)
queue_size == IF cfg.queue THEN Len(contents) ELSE -1
queue_dropped_count == IF cfg.queue THEN dropped ELSE 0

C_Move(from, to) ==
    /\ Alive
    /\ c_pc = from
    /\ c_pc' = to
    /\ UNCHANGED <<cfg, g_stop, main_vars, delivery_vars, env_vars>>

C_WarmUp ==
    /\ C_Move("warm_up", "baseline")
    /\ Enqueue("warming_up", 0)
    /\ UNCHANGED <<timer, rows, first_iteration, ready, pending, internal_metrics>>

(* The first snapshots; each may fail to be read. *)
C_Baseline ==
    /\ C_Move("baseline", "test")
    /\ ready' \in SUBSET (cfg.show \cap DeltaMetrics)
    /\ UNCHANGED <<timer, rows, first_iteration, pending, internal_metrics, queue_vars>>

(* A slip in the row count, and a loop that does not look at the flag. *)
Bug_MoreRows == cfg.iterations = 0 \/ rows <= cfg.iterations

MoreRows == cfg.iterations = 0 \/ rows < cfg.iterations

Bug_KeepSampling == MoreRows

KeepSampling == ~g_stop /\ MoreRows

(* The loop test, then the call of sleep.  A signal that lands between the *)
(* two cuts nothing short: it is the one that leaves c_pc alone while the  *)
(* sleep is still at its full length.                                      *)
C_Test ==
    /\ \/ /\ KeepSampling
          /\ cfg.iterations = 0 => rows < MaxRows
          /\ C_Move("test", "sleep")
          /\ timer' = Interval
       \/ /\ ~KeepSampling
          /\ C_Move("test", "done")
          /\ UNCHANGED timer
    /\ UNCHANGED <<rows, first_iteration, ready, pending, internal_metrics, queue_vars>>

(* sleep returns 0: the row is collected whatever g_stop says, and before  *)
(* the first row "ready" is announced.                                     *)
C_Ready ==
    /\ timer = 0
    /\ C_Move("sleep", "collect")
    /\ IF first_iteration
         THEN Enqueue("ready", rows + 1)
         ELSE UNCHANGED queue_vars
    /\ first_iteration' = FALSE
    /\ UNCHANGED <<timer, rows, ready, pending, internal_metrics>>

(* Any read may fail.  A delta metric yields an event only if an earlier   *)
(* snapshot is at hand; a successful read leaves one for the next row.     *)
C_Collect ==
    /\ C_Move("collect", "emit")
    /\ \E read \in SUBSET cfg.show :
         /\ pending' = {p \in 1 .. Len(MetricOrder) :
                          /\ MetricOrder[p] \in read
                          /\ MetricOrder[p] \in DeltaMetrics => MetricOrder[p] \in ready}
         /\ ready' = ready \cup (read \cap DeltaMetrics)
    /\ UNCHANGED <<timer, rows, first_iteration, internal_metrics, queue_vars>>

(* One event for each category that was read, in the order of the code. *)
C_EmitMetric ==
    /\ C_Move("emit", "emit")
    /\ \E p \in pending :
         /\ \A q \in pending : p <= q
         /\ Enqueue(MetricOrder[p], rows + 1)
         /\ pending' = pending \ {p}
    /\ UNCHANGED <<timer, rows, first_iteration, ready, internal_metrics>>

(* The self-metrics are read under two separate lock acquisitions. *)
C_ReadSize ==
    /\ pending = {}
    /\ C_Move("emit", "dropped")
    /\ internal_metrics' = [internal_metrics EXCEPT !.buffer_depth = queue_size]
    /\ UNCHANGED <<timer, rows, first_iteration, ready, pending, queue_vars>>

Bug_C_ReadDropped ==
    /\ C_Move("dropped", "internal")
    /\ UNCHANGED <<timer, rows, first_iteration, ready, pending, internal_metrics, queue_vars>>

C_ReadDropped ==
    /\ C_Move("dropped", "internal")
    /\ internal_metrics' = [internal_metrics EXCEPT !.events_dropped_total = queue_dropped_count]
    /\ UNCHANGED <<timer, rows, first_iteration, ready, pending, queue_vars>>

C_EmitInternal ==
    /\ C_Move("internal", "test")
    /\ Enqueue("internal", rows + 1)
    /\ internal_metrics' = [internal_metrics EXCEPT !.events_emitted_total = @ + 5]
    /\ rows' = rows + 1
    /\ UNCHANGED <<timer, first_iteration, ready, pending>>

collector_thread ==
    \/ C_WarmUp \/ C_Baseline \/ C_Test \/ C_Ready \/ C_Collect
    \/ C_EmitMetric \/ C_ReadSize \/ C_ReadDropped \/ C_EmitInternal
-----------------------------------------------------------------------------
(* A call of the output: with nothing handed over there is nothing to send *)
(* and nothing to wait for.  An http_post call waits for the answers to    *)
(* its requests (CURLOPT_TIMEOUT) and sleeps between them.                 *)
OutputCall == waiting' \in IF handed' = << >> THEN {0} ELSE 0 .. OutputWait

(* The thread goes on when the output call it made has returned.           *)
D_Move(from, to) ==
    /\ Alive
    /\ waiting = 0
    /\ d_pc = from
    /\ d_pc' = to
    /\ UNCHANGED <<cfg, g_stop, main_vars, collector_vars, env_vars>>

D_Enter ==
    /\ D_Move("enter", IF cfg.queue THEN "test" ELSE "done")
    /\ UNCHANGED <<handed, waiting, queue_vars>>

Bug_D_TestStop ==
    /\ D_Move("test", IF g_stop THEN "final" ELSE "dequeue")
    /\ UNCHANGED <<handed, waiting, queue_vars>>

(* while (!g_stop || queue_size > 0): the flag first, then the queue. *)
D_TestStop ==
    /\ D_Move("test", IF g_stop THEN "size" ELSE "dequeue")
    /\ UNCHANGED <<handed, waiting, queue_vars>>

Bug_D_TestSize ==
    /\ D_Move("size", IF queue_size >= 0 THEN "dequeue" ELSE "final")
    /\ UNCHANGED <<handed, waiting, queue_vars>>

D_TestSize ==
    /\ D_Move("size", IF queue_size > 0 THEN "dequeue" ELSE "final")
    /\ UNCHANGED <<handed, waiting, queue_vars>>

D_Dequeue ==
    /\ D_Move("dequeue", IF contents # << >> THEN "emit" ELSE "pause")
    /\ Fifo!Take
    /\ UNCHANGED <<handed, waiting>>

Bug_D_Emit ==
    /\ D_Move("emit", IF Len(taken) > 2 THEN "emit" ELSE "flush")
    /\ handed' = Append(handed, Head(taken))
    /\ taken' = Tail(taken)
    /\ OutputCall
    /\ UNCHANGED <<contents, accepted, dropped>>

(* output_emit_event, whose result is ignored *)
D_Emit ==
    /\ D_Move("emit", IF Len(taken) > 1 THEN "emit" ELSE "flush")
    /\ handed' = Append(handed, Head(taken))
    /\ taken' = Tail(taken)
    /\ OutputCall
    /\ UNCHANGED <<contents, accepted, dropped>>

(* output_flush, after a batch and before the thread returns *)
D_Flush ==
    /\ D_Move("flush", "test") \/ D_Move("final", "return")
    /\ UNCHANGED <<handed, queue_vars>>
    /\ OutputCall

D_Return ==
    /\ D_Move("return", "done")
    /\ UNCHANGED <<handed, waiting, queue_vars>>

(* nanosleep for 10 ms; a signal cuts it short, which is the same step. *)
D_Pause ==
    /\ D_Move("pause", "test")
    /\ UNCHANGED <<handed, waiting, queue_vars>>

delivery_thread ==
    \/ D_Enter \/ D_TestStop \/ D_TestSize \/ D_Dequeue \/ D_Emit \/ D_Flush
    \/ D_Pause \/ D_Return
-----------------------------------------------------------------------------
M_Move(from, to) ==
    /\ m_pc = from
    /\ m_pc' = to
    /\ UNCHANGED <<cfg, queue_vars, env_vars>>

(* pthread_create may fail: without a collector the program ends with 5. *)
M_SpawnCollector ==
    /\ \/ /\ M_Move("spawn_collector", "spawn_delivery")
          /\ c_pc' = "warm_up"
          /\ UNCHANGED rc
       \/ /\ M_Move("spawn_collector", "shutdown")
          /\ rc' = 5
          /\ UNCHANGED c_pc
    /\ UNCHANGED <<g_stop, timer, rows, first_iteration, ready, pending, internal_metrics,
                   delivery_vars>>

(* Without a delivery thread main stops the collector and ends with 6. *)
M_SpawnDelivery ==
    /\ \/ /\ M_Move("spawn_delivery", "join_collector")
          /\ d_pc' = "enter"
          /\ UNCHANGED <<rc, g_stop>>
       \/ /\ M_Move("spawn_delivery", "join_abandoned")
          /\ rc' = 6
          /\ g_stop' = TRUE
          /\ UNCHANGED d_pc
    /\ UNCHANGED <<handed, waiting, collector_vars>>

M_JoinAbandoned ==
    /\ c_pc = "done"
    /\ M_Move("join_abandoned", "shutdown")
    /\ UNCHANGED <<g_stop, rc, collector_vars, delivery_vars>>

(* Only now may the delivery thread wrap up. *)
M_JoinCollector ==
    /\ c_pc = "done"
    /\ M_Move("join_collector", "join_delivery")
    /\ g_stop' = TRUE
    /\ UNCHANGED <<rc, collector_vars, delivery_vars>>

Bug_M_JoinDelivery ==
    /\ M_Move("join_delivery", "shutdown")
    /\ UNCHANGED <<g_stop, rc, collector_vars, delivery_vars>>

M_JoinDelivery ==
    /\ d_pc = "done"
    /\ M_Move("join_delivery", "shutdown")
    /\ UNCHANGED <<g_stop, rc, collector_vars, delivery_vars>>

(* output_shutdown, which may have events to send as well, ... *)
M_Shutdown ==
    /\ M_Move("shutdown", "closing")
    /\ UNCHANGED <<g_stop, rc, collector_vars, d_pc, handed>>
    /\ OutputCall

(* ... then queue_destroy and return. *)
M_Exit ==
    /\ waiting = 0
    /\ M_Move("closing", "exited")
    /\ UNCHANGED <<g_stop, rc, collector_vars, delivery_vars>>

main_thread ==
    \/ M_SpawnCollector \/ M_SpawnDelivery \/ M_JoinAbandoned \/ M_JoinCollector
    \/ M_JoinDelivery \/ M_Shutdown \/ M_Exit
-----------------------------------------------------------------------------
(***************************************************************************)
(* SIGINT or SIGTERM, to whichever thread the kernel picks.  The handler   *)
(* sets g_stop; only the thread it runs on has its sleep cut short: the    *)
(* collector's, or one between two requests.  sleep returns the whole      *)
(* seconds left, so a cut in the last second looks like a sleep that ran   *)
(* its course.  The build (-std=c11, _POSIX_C_SOURCE and nothing else)     *)
(* gets the System V signal(): the handler is good for one signal, and the *)
(* next of its kind kills the process.                                     *)
(***************************************************************************)
handle_sigint(sig) ==
    /\ Alive
    /\ sig \in armed
    /\ armed' = armed \ {sig}
    /\ g_stop' = TRUE
    /\ \/ UNCHANGED <<c_pc, timer, waiting>>
       \/ /\ c_pc = "sleep" /\ timer > 0
          /\ c_pc' = IF timer - 1 # 0 THEN "done" ELSE "sleep"
          /\ timer' = 0
          /\ UNCHANGED waiting
       \/ /\ waiting' \in 0 .. waiting - 1
          /\ UNCHANGED <<c_pc, timer>>
    /\ UNCHANGED <<cfg, main_vars, rows, first_iteration, ready, pending, internal_metrics,
                   d_pc, handed, queue_vars, late, grace>>

DefaultAction(sig) ==
    /\ Alive
    /\ sig \in Sigs \ armed
    /\ m_pc' = "killed"
    /\ UNCHANGED <<cfg, g_stop, rc, collector_vars, delivery_vars, queue_vars, env_vars>>

Signalled == armed # Sigs

(* No thread has anything to do but to wait. *)
Idle ==
    /\ c_pc = "done" \/ timer > 0
    /\ d_pc \in {"unborn", "pause", "done"} \/ waiting > 0
    /\ \/ m_pc \in {"join_collector", "join_delivery", "join_abandoned"}
       \/ m_pc = "closing" /\ waiting > 0

Less(n) == IF n > 0 THEN n - 1 ELSE 0

Count(n, condition, cap) == IF condition /\ n < cap THEN n + 1 ELSE n

(* A second passes for every thread that sleeps or waits for an answer. *)
Tick ==
    /\ Alive
    /\ timer > 0 \/ waiting > 0
    /\ timer' = Less(timer)
    /\ waiting' = Less(waiting)
    /\ late' = Count(late, g_stop /\ timer > 0, LateCap)
    /\ grace' = Count(grace, Signalled /\ Idle, GraceCap)
    /\ UNCHANGED <<cfg, g_stop, armed, main_vars, c_pc, rows, first_iteration, ready,
                   pending, internal_metrics, d_pc, handed, queue_vars>>

Terminated == ~Alive /\ UNCHANGED vars

Next ==
    \/ main_thread \/ collector_thread \/ delivery_thread \/ Tick
    \/ \E sig \in Sigs : handle_sigint(sig) \/ DefaultAction(sig)
    \/ Terminated

(* Every thread is scheduled and time passes.  Signals need not come. *)
Spec ==
    /\ Init /\ [][Next]_vars
    /\ WF_vars(main_thread) /\ WF_vars(collector_thread)
    /\ WF_vars(delivery_thread) /\ WF_vars(Tick)
-----------------------------------------------------------------------------
(* The events still around, in the order the output gets or got them. *)
Surviving == handed \o taken \o contents

(* The place of an event in the order the collector produces them. *)
Rank(e) ==
    LET place == CASE e.kind \in {"warming_up", "ready"} -> 0
                   [] e.kind = "internal" -> Len(MetricOrder) + 1
                   [] OTHER -> CHOOSE p \in 1 .. Len(MetricOrder) : MetricOrder[p] = e.kind
    IN  e.row * (Len(MetricOrder) + 2) + place

(***************************************************************************)
(* From queue_enqueue to output_emit_event no event is duplicated or       *)
(* overtaken, across the batches the delivery thread copies out and the    *)
(* drops of a full queue, and every event not handed on is queued, in the  *)
(* batch being emitted, or counted in dropped_count.  In particular ready  *)
(* comes before any metric and warming_up before ready.                    *)
(***************************************************************************)
DeliveryInOrder ==
    /\ \A p, q \in 1 .. Len(Surviving) : p < q => Rank(Surviving[p]) < Rank(Surviving[q])
    /\ Len(Surviving) + dropped = accepted

(***************************************************************************)
(* A run that ends by itself (-n N, no signal) loses nothing silently:     *)
(* when main returns 0 every event was handed to the output or counted as  *)
(* dropped.  It rests on main setting g_stop only after it has joined the  *)
(* collector, and on the delivery thread looking at the queue after it has *)
(* seen the flag.                                                          *)
(***************************************************************************)
DrainedAtExit ==
    m_pc = "exited" /\ rc = 0 /\ ~Signalled => Len(handed) + dropped = accepted

(***************************************************************************)
(* After a signal the delivery thread may leave before the collector has   *)
(* finished its row.  What is left in the queue is then from that one row: *)
(* no earlier event is ever left behind by main's normal return.           *)
(***************************************************************************)
LossWithinOneRow ==
    m_pc = "exited" /\ rc = 0 =>
        \A p, q \in 1 .. Len(contents) : contents[p].row = contents[q].row

(***************************************************************************)
(* main reaches output_shutdown and queue_destroy only when no thread that *)
(* uses the output or the queue is left, on the error paths too.           *)
(***************************************************************************)
ThreadsJoined ==
    m_pc \in {"shutdown", "closing", "exited"} =>
        c_pc \in {"unborn", "done"} /\ d_pc \in {"unborn", "done"}

(***************************************************************************)
(* The numbers of one syswatch.internal event fit together although        *)
(* queue.c is asked for them separately: the collector is the only         *)
(* producer, so between the two calls the queue only shrinks and nothing   *)
(* is dropped.  The five events a row is counted as are an upper bound, so *)
(* the total falls behind by the lifecycle events and this row at most.    *)
(***************************************************************************)
SelfMetricsConsistent ==
    c_pc = "internal" /\ cfg.queue =>
        /\ internal_metrics.events_dropped_total = dropped
        /\ Len(contents) <= internal_metrics.buffer_depth
        /\ internal_metrics.buffer_depth + dropped <= accepted
        /\ accepted <= internal_metrics.events_emitted_total + 2 + Len(MetricOrder)

(***************************************************************************)
(* Once g_stop is set, by a signal, by a failed pthread_create or by main, *)
(* the collector sleeps at most one more poll interval, whatever the other *)
(* threads wait for meanwhile: even a flag that slips in between its loop  *)
(* test and its sleep costs one sleep, never two.  (What the delivery      *)
(* thread and output_shutdown wait for an http_post receiver comes on top: *)
(* ExitWithinFiveSeconds.)                                                 *)
(***************************************************************************)
StopLatency == late <= Interval

(***************************************************************************)
(* A signal, a thread that cannot be created, or a limit on the rows ends  *)
(* the program: no thread waits for ever, whichever goes first.            *)
(***************************************************************************)
Termination == g_stop \/ cfg.iterations > 0 ~> ~Alive
-----------------------------------------------------------------------------
(***************************************************************************)
(* What docs/CONTRACT.md says of SIGTERM and SIGINT, one clause each.      *)
(***************************************************************************)
(* "flush buffers": a graceful shutdown leaves no event in the queue. *)
FlushedAtExit ==
    m_pc = "exited" /\ rc = 0 => contents = << >>

(* "exit 0 within 5s": after a signal the program does not wait any longer *)
(* than that, be it for the collector's sleep or for the output's retries. *)
ExitWithinFiveSeconds == cfg.queue => grace <= 5
=============================================================================
