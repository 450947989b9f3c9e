-------------------------- MODULE Pipeline_proofs --------------------------
(***************************************************************************)
(* Proofs about the three threads of Pipeline, for every number of metric  *)
(* categories up to the four of the code, every capacity, batch size, poll *)
(* interval, wait of the output, set of signals and number of rows.        *)
(*                                                                         *)
(* The inductive invariant is built in layers: the types together with the *)
(* counting they rest on (CountInv, AccountInv), then the order of events, *)
(* the life of the threads, and what may be left in the queue.             *)
(***************************************************************************)
EXTENDS Pipeline, TLAPS

n == Len(MetricOrder)

(* The events of one full row: every category, and the self-metrics. *)
RowLen == n + 1

(* The lengths of a row and of the queue are natural numbers. *)
LEMMA Sizes ==
    /\ n \in Nat /\ n <= 4 /\ RowLen \in 1 .. 5
    /\ MaxEvents \in Nat /\ MaxEvents = 2 + MaxRows * RowLen
  BY MetricAssumption, TimeAssumption DEF n, RowLen, MaxEvents

(* A row that is still allowed fits below the bound on all events. *)
LEMMA RowFits ==
    ASSUME NEW r \in 0 .. MaxRows
    PROVE  /\ r * RowLen \in Nat
           /\ r < MaxRows => r * RowLen + RowLen <= MaxRows * RowLen
           /\ (r + 1) * RowLen = r * RowLen + RowLen
<1>1. RowLen \in Nat /\ MaxRows \in Nat /\ r \in Nat
  BY Sizes, TimeAssumption
<1>2. ASSUME NEW a \in Nat, NEW b \in Nat, NEW c \in Nat
      PROVE  /\ a * c \in Nat
             /\ (a + 1) * c = a * c + c
             /\ a <= b => a * c <= b * c
  OBVIOUS
<1>3. r < MaxRows => (r + 1) * RowLen <= MaxRows * RowLen
  BY <1>1, <1>2
<1>4. QED
  BY <1>1, <1>2, <1>3
-----------------------------------------------------------------------------
(* Which threads can be there, by where main is. *)
ThreadInv ==
    /\ m_pc = "spawn_collector" => c_pc = "unborn" /\ d_pc = "unborn"
    /\ m_pc = "spawn_delivery" => d_pc = "unborn"
    /\ m_pc = "join_abandoned" => d_pc = "unborn" /\ rc = 6
    /\ m_pc = "join_delivery" => c_pc = "done"
    /\ m_pc \in {"shutdown", "closing", "exited"} =>
         /\ c_pc \in {"unborn", "done"} /\ d_pc \in {"unborn", "done"}
         /\ rc = 0 => c_pc = "done" /\ d_pc = "done"

(* What a step may change of the places of the three threads, whatever     *)
(* else it does: only one of them moves, and none leaves its last place.   *)
LEMMA Moves ==
    ASSUME [Next]_vars
    PROVE  \/ main_thread
           \/ /\ collector_thread
              /\ Alive /\ c_pc \notin {"unborn", "done"}
              /\ c_pc' \in {"baseline", "test", "sleep", "collect", "emit", "dropped",
                            "internal", "done"}
              /\ UNCHANGED <<cfg, g_stop, main_vars, delivery_vars, env_vars>>
           \/ /\ delivery_thread
              /\ Alive /\ d_pc \notin {"unborn", "done"}
              /\ d_pc' \in {"test", "size", "dequeue", "emit", "flush", "pause", "final", "return",
                            "done"}
              /\ UNCHANGED <<cfg, g_stop, main_vars, collector_vars, env_vars>>
           \/ Tick
           \/ \E sig \in Sigs : handle_sigint(sig)
           \/ /\ m_pc' = "killed"
              /\ UNCHANGED <<cfg, g_stop, rc, collector_vars, delivery_vars, queue_vars, env_vars>>
           \/ UNCHANGED vars
<1>1. CASE collector_thread
  <2>1. ASSUME NEW f \in {"warm_up", "baseline", "test", "sleep", "collect", "emit", "dropped",
                          "internal"},
               NEW t \in {"baseline", "test", "sleep", "collect", "emit", "dropped", "internal",
                          "done"},
               C_Move(f, t)
        PROVE  /\ Alive /\ c_pc \notin {"unborn", "done"}
               /\ c_pc' \in {"baseline", "test", "sleep", "collect", "emit", "dropped",
                             "internal", "done"}
               /\ UNCHANGED <<cfg, g_stop, main_vars, delivery_vars, env_vars>>
    BY <2>1 DEF C_Move
  <2>2. QED
    BY <1>1, <2>1 DEF collector_thread, C_WarmUp, C_Baseline, C_Test, C_Ready, C_Collect,
       C_EmitMetric, C_ReadSize, C_ReadDropped, C_EmitInternal
<1>2. CASE delivery_thread
  <2>1. ASSUME NEW f \in {"enter", "test", "size", "dequeue", "emit", "flush", "pause", "final",
                          "return"},
               NEW t \in {"test", "size", "dequeue", "emit", "flush", "pause", "final", "return",
                          "done"},
               D_Move(f, t)
        PROVE  /\ Alive /\ d_pc \notin {"unborn", "done"}
               /\ d_pc' \in {"test", "size", "dequeue", "emit", "flush", "pause", "final", "return",
                             "done"}
               /\ UNCHANGED <<cfg, g_stop, main_vars, collector_vars, env_vars>>
    BY <2>1 DEF D_Move
  <2>2. QED
    BY <1>2, <2>1 DEF delivery_thread, D_Enter, D_TestStop, D_TestSize, D_Dequeue, D_Emit,
       D_Flush, D_Pause, D_Return
<1>3. QED
  BY <1>1, <1>2 DEF Next, DefaultAction, Terminated

(* Threads are created and joined in main's order, whatever else happens. *)
LEMMA ThreadStep == ThreadInv /\ [Next]_vars => ThreadInv'
<1> SUFFICES ASSUME ThreadInv, [Next]_vars PROVE ThreadInv'
  OBVIOUS
<1> USE DEF ThreadInv, main_vars, delivery_vars, collector_vars
<1>1. CASE main_thread
  BY <1>1 DEF main_thread, M_SpawnCollector, M_SpawnDelivery, M_JoinAbandoned, M_JoinCollector,
     M_JoinDelivery, M_Shutdown, M_Exit, M_Move
<1>2. CASE collector_thread /\ c_pc \notin {"unborn", "done"}
             /\ UNCHANGED <<main_vars, delivery_vars>>
             /\ c_pc' # "unborn"
  BY <1>2
<1>3. CASE delivery_thread /\ d_pc \notin {"unborn", "done"}
             /\ UNCHANGED <<main_vars, collector_vars>>
  BY <1>3
<1>4. CASE Tick
  BY <1>4 DEF Tick
<1>5. ASSUME NEW sig \in Sigs, handle_sigint(sig) PROVE ThreadInv'
  BY <1>5 DEF handle_sigint
<1>6. CASE m_pc' = "killed" 
  BY <1>6
<1>7. CASE UNCHANGED vars
  BY <1>7 DEF vars
<1>8. QED
  BY <1>1, <1>2, <1>3, <1>4, <1>5, <1>6, <1>7, Moves

(***************************************************************************)
(* main calls output_shutdown and queue_destroy only when no thread that   *)
(* uses them is left, whichever pthread_create failed and whenever the     *)
(* signals came.                                                           *)
(***************************************************************************)
THEOREM Joined == Spec => []ThreadsJoined
<1>1. Init => ThreadInv
  BY DEF Init, ThreadInv
<1>2. ThreadInv => ThreadsJoined
  BY DEF ThreadInv, ThreadsJoined
<1>3. QED
  BY <1>1, <1>2, ThreadStep, PTL DEF Spec
-----------------------------------------------------------------------------
(* How far the collector can have come with its calls of queue_enqueue. *)
CountInv ==
    /\ c_pc \in {"unborn", "warm_up"} => accepted = 0 /\ rows = 0
    /\ c_pc \in {"baseline", "test", "sleep", "done"} =>
         accepted <= (IF first_iteration THEN 1 ELSE 2) + rows * RowLen
    /\ c_pc \in {"collect", "emit", "dropped", "internal"} => ~first_iteration
    /\ c_pc = "collect" => accepted <= 2 + rows * RowLen
    /\ c_pc \in {"emit", "dropped", "internal"} => accepted <= 2 + rows * RowLen + n
    /\ c_pc = "emit" => \A p \in pending : accepted < 2 + rows * RowLen + p
    /\ c_pc \in {"sleep", "collect", "emit", "dropped", "internal"} => rows < MaxRows
    /\ internal_metrics.events_emitted_total = 5 * rows

(* Every accepted event is handed on, in the batch, queued or dropped. *)
AccountInv ==
    /\ Len(handed) + Len(taken) + Len(contents) + dropped = accepted
    /\ d_pc = "emit" <=> taken # << >>
    /\ ~cfg.queue => contents = << >>

CoreInv == TypeOK /\ CountInv /\ AccountInv

(* What queue_enqueue does to the queued events, by their places: the new  *)
(* one is last, and the others move up by one if the oldest was dropped.   *)
LEMMA EnqueueEffect ==
    ASSUME TypeOK, AccountInv, NEW k, NEW r, [kind |-> k, row |-> r] \in Event, Enqueue(k, r)
    PROVE  /\ taken' = taken
           /\ contents' \in Seq(Event) /\ Len(contents') <= Capacity
           /\ accepted' \in Nat /\ dropped' \in Nat
           /\ ~cfg.queue => contents' = contents /\ accepted' = accepted /\ dropped' = dropped
           /\ cfg.queue =>
                \E d \in {0, 1} :
                   /\ Len(contents') = Len(contents) + 1 - d
                   /\ dropped' = dropped + d
                   /\ accepted' = accepted + 1
                   /\ contents'[Len(contents')] = [kind |-> k, row |-> r]
                   /\ \A i \in 1 .. Len(contents') - 1 :
                        i + d \in 1 .. Len(contents) /\ contents'[i] = contents[i + d]
<1> DEFINE e == [kind |-> k, row |-> r]
<1> HIDE DEF e
<1>0. e \in Event /\ contents \in Seq(Event) /\ Capacity \in Nat \ {0} /\ Len(contents) <= Capacity
      /\ accepted \in Nat /\ dropped \in Nat /\ taken' = taken
  BY QueueAssumption DEF TypeOK, e, Enqueue
<1>1. CASE ~cfg.queue
  BY <1>0, <1>1 DEF Enqueue
<1>2. CASE cfg.queue /\ Len(contents) = Capacity
  <2>1. contents' = Append(Tail(contents), e) /\ dropped' = dropped + 1 /\ accepted' = accepted + 1
    BY <1>2 DEF Enqueue, Fifo!Put, e
  <2>2. /\ contents' \in Seq(Event) /\ Len(contents') = Len(contents)
        /\ contents'[Len(contents')] = e
        /\ \A i \in 1 .. Len(contents') - 1 :
             i + 1 \in 1 .. Len(contents) /\ contents'[i] = contents[i + 1]
    BY <1>0, <1>2, <2>1
  <2>3. QED
    BY <1>0, <1>2, <2>1, <2>2 DEF e
<1>3. CASE cfg.queue /\ Len(contents) # Capacity
  <2>1. contents' = Append(contents, e) /\ dropped' = dropped /\ accepted' = accepted + 1
    BY <1>3 DEF Enqueue, Fifo!Put, e
  <2>2. /\ contents' \in Seq(Event) /\ Len(contents') = Len(contents) + 1
        /\ contents'[Len(contents')] = e
        /\ \A i \in 1 .. Len(contents') - 1 :
             i + 0 \in 1 .. Len(contents) /\ contents'[i] = contents[i + 0]
    BY <1>0, <1>3, <2>1
  <2>3. QED
    BY <1>0, <1>3, <2>1, <2>2 DEF e
<1>4. QED
  BY <1>1, <1>2, <1>3

(* What queue_dequeue_batch moves: the first events of the queue. *)
LEMMA TakeEffect ==
    ASSUME TypeOK, Fifo!Take
    PROVE  /\ taken' \in Seq(Event) /\ contents' \in Seq(Event)
           /\ accepted' = accepted /\ dropped' = dropped
           /\ Len(taken') <= BatchMax
           /\ Len(taken') + Len(contents') = Len(contents)
           /\ taken' = << >> <=> contents = << >>
           /\ \A i \in 1 .. Len(taken') : i \in 1 .. Len(contents) /\ taken'[i] = contents[i]
           /\ \A i \in 1 .. Len(contents') :
                /\ i + Len(taken') \in 1 .. Len(contents)
                /\ contents'[i] = contents[i + Len(taken')]
<1> DEFINE k == Fifo!TakeCount(Len(contents))
<1>1. k \in 0 .. Len(contents) /\ k <= BatchMax /\ (k = 0 <=> contents = << >>)
  <2>1. contents \in Seq(Event)
    BY DEF TypeOK
  <2>2. Len(contents) \in Nat /\ (Len(contents) = 0 <=> contents = << >>)
    BY <2>1
  <2>3. BatchMax \in Nat \ {0}
    BY QueueAssumption
  <2>4. QED
    BY <2>2, <2>3 DEF Fifo!TakeCount
<1>2. /\ taken' = SubSeq(contents, 1, k)
      /\ contents' = SubSeq(contents, k + 1, Len(contents))
      /\ accepted' = accepted /\ dropped' = dropped
  BY DEF Fifo!Take
<1>3. contents \in Seq(Event)
  BY DEF TypeOK
<1> HIDE DEF k
<1>4. taken' \in Seq(Event) /\ Len(taken') = k
      /\ \A i \in 1 .. k : taken'[i] = contents[i]
  BY <1>1, <1>2, <1>3
<1>5. contents' \in Seq(Event) /\ Len(contents') = Len(contents) - k
      /\ \A i \in 1 .. Len(contents) - k : contents'[i] = contents[i + k]
  BY <1>1, <1>2, <1>3
<1>6. taken' = << >> <=> contents = << >>
  BY <1>1, <1>4
<1>7. /\ \A i \in 1 .. Len(taken') : i \in 1 .. Len(contents) /\ taken'[i] = contents[i]
      /\ \A i \in 1 .. Len(contents') :
           /\ i + Len(taken') \in 1 .. Len(contents)
           /\ contents'[i] = contents[i + Len(taken')]
  BY <1>1, <1>3, <1>4, <1>5
<1>8. Len(taken') <= BatchMax /\ Len(taken') + Len(contents') = Len(contents)
  BY <1>1, <1>3, <1>4, <1>5
<1>9. QED
  BY <1>2, <1>4, <1>5, <1>6, <1>7, <1>8
-----------------------------------------------------------------------------
(* The types, by the steps that touch them. *)
ControlType ==
    /\ cfg \in [iterations : 0 .. MaxRows, show : SUBSET Metrics, queue : BOOLEAN]
    /\ g_stop \in BOOLEAN
    /\ armed \subseteq Sigs
    /\ m_pc \in {"spawn_collector", "spawn_delivery", "join_collector", "join_delivery",
                 "join_abandoned", "shutdown", "closing", "exited", "killed"}
    /\ rc \in {0, 5, 6}
    /\ late \in 0 .. LateCap /\ grace \in 0 .. GraceCap

CollectorType ==
    /\ c_pc \in {"unborn", "warm_up", "baseline", "test", "sleep", "collect",
                 "emit", "dropped", "internal", "done"}
    /\ timer \in 0 .. Interval
    /\ rows \in 0 .. MaxRows
    /\ first_iteration \in BOOLEAN
    /\ ready \subseteq DeltaMetrics
    /\ pending \subseteq 1 .. Len(MetricOrder)
    /\ internal_metrics \in [buffer_depth : -1 .. Capacity,
                             events_dropped_total : 0 .. MaxEvents,
                             events_emitted_total : Nat]

QueueType ==
    /\ d_pc \in {"unborn", "enter", "test", "size", "dequeue", "emit", "flush", "pause",
                 "final", "return", "done"}
    /\ waiting \in 0 .. OutputWait
    /\ contents \in Seq(Event) /\ Len(contents) <= Capacity
    /\ taken \in Seq(Event) /\ Len(taken) <= BatchMax
    /\ accepted \in 0 .. MaxEvents
    /\ dropped \in 0 .. MaxEvents
    /\ handed \in Seq(Event)

(* The type invariant in three parts, for the provers. *)
LEMMA TypeParts == TypeOK <=> ControlType /\ CollectorType /\ QueueType
  BY DEF TypeOK, ControlType, CollectorType, QueueType

(* Before main creates anything all counters are zero and the queue empty. *)
LEMMA CoreInit == Init => CoreInv
<1> SUFFICES ASSUME Init PROVE CoreInv
  OBVIOUS
<1>1. TypeOK
  <2>1. ControlType
    <3>1. /\ cfg \in [iterations : 0 .. MaxRows, show : SUBSET Metrics, queue : BOOLEAN]
          /\ g_stop = FALSE /\ armed = Sigs /\ late = 0 /\ grace = 0 /\ m_pc = "spawn_collector" /\ rc = 0
      BY DEF Init
    <3>2. late \in 0 .. LateCap /\ grace \in 0 .. GraceCap /\ rc \in {0, 5, 6}
      BY <3>1, TimeAssumption
    <3>3. armed \subseteq Sigs /\ g_stop \in BOOLEAN
      BY <3>1
    <3>4. QED
      BY <3>1, <3>2, <3>3 DEF ControlType
  <2>2. CollectorType
    BY Sizes, QueueAssumption, TimeAssumption DEF Init, CollectorType
  <2>3. QueueType
    BY Sizes, QueueAssumption, TimeAssumption DEF Init, QueueType, Fifo!Empty
  <2>4. QED
    BY <2>1, <2>2, <2>3, TypeParts
<1>2. CountInv
  BY Sizes DEF Init, CountInv, Fifo!Empty
<1>3. AccountInv
  BY DEF Init, AccountInv, Fifo!Empty
<1>4. QED
  BY <1>1, <1>2, <1>3 DEF CoreInv

(* A call of the output waits no longer than any may. *)
LEMMA CallWaits == OutputCall => waiting' \in 0 .. OutputWait
  BY TimeAssumption DEF OutputCall

(* The main thread leaves the queue and all counters alone. *)
LEMMA CoreMain ==
    ASSUME CoreInv, ThreadInv, main_thread
    PROVE  CoreInv'
<1>1. /\ UNCHANGED <<cfg, queue_vars, env_vars, timer, rows, first_iteration, ready, pending,
                     internal_metrics, handed>>
      /\ m_pc' \in {"spawn_delivery", "join_collector", "join_delivery", "shutdown",
                    "join_abandoned", "closing", "exited"}
      /\ rc' \in {rc, 5, 6}
      /\ g_stop' \in {g_stop, TRUE}
      /\ c_pc' = c_pc \/ (c_pc = "unborn" /\ c_pc' = "warm_up")
      /\ d_pc' = d_pc \/ (d_pc = "unborn" /\ d_pc' = "enter")
      /\ waiting' = waiting \/ waiting' \in 0 .. OutputWait
  BY CallWaits DEF ThreadInv, main_thread, M_SpawnCollector, M_SpawnDelivery, M_JoinAbandoned,
     M_JoinCollector, M_JoinDelivery, M_Shutdown, M_Exit, M_Move, delivery_vars, collector_vars
<1>2. TypeOK'
  <2> USE TypeParts DEF CoreInv
  <2>1. ControlType'
    BY <1>1 DEF ControlType, env_vars
  <2>2. CollectorType'
    BY <1>1 DEF CollectorType
  <2>3. QueueType'
    BY <1>1 DEF QueueType, queue_vars
  <2>4. QED
    BY <2>1, <2>2, <2>3 DEF TypeOK, ControlType, CollectorType, QueueType
<1>3. CountInv'
  BY <1>1 DEF CoreInv, CountInv, queue_vars
<1>4. AccountInv'
  BY <1>1 DEF CoreInv, AccountInv, queue_vars
<1>5. QED
  BY <1>2, <1>3, <1>4 DEF CoreInv

(* Nor do the clock and the signals touch them. *)
LEMMA CoreEnvironment ==
    ASSUME CoreInv,
           \/ Tick
           \/ \E sig \in Sigs : handle_sigint(sig)
           \/ /\ m_pc' = "killed"
              /\ UNCHANGED <<cfg, g_stop, rc, collector_vars, delivery_vars, queue_vars, env_vars>>
           \/ UNCHANGED vars
    PROVE  CoreInv'
<1>1. /\ UNCHANGED <<cfg, rc, queue_vars, d_pc, handed, rows, first_iteration, ready, pending,
                     internal_metrics>>
      /\ m_pc' \in {m_pc, "killed"}
      /\ armed' \subseteq armed
      /\ g_stop' \in {g_stop, TRUE}
      /\ c_pc' = c_pc \/ (c_pc = "sleep" /\ c_pc' = "done")
      /\ timer' \in 0 .. Interval
      /\ waiting' \in 0 .. OutputWait
      /\ late' \in 0 .. LateCap /\ grace' \in 0 .. GraceCap
  <2> USE TimeAssumption DEF CoreInv, TypeOK, collector_vars, delivery_vars, env_vars
  <2>1. CASE Tick
    BY <2>1 DEF Tick, main_vars, Less, Count
  <2>2. CASE \E sig \in Sigs : handle_sigint(sig)
    <3>1. PICK sig \in Sigs : handle_sigint(sig)
      BY <2>2
    <3>2. /\ UNCHANGED <<cfg, main_vars, queue_vars, d_pc, handed, rows, first_iteration, ready,
                         pending, internal_metrics, late, grace>>
          /\ armed' = armed \ {sig} /\ g_stop' = TRUE
      BY <3>1 DEF handle_sigint
    <3>3. c_pc' = c_pc \/ (c_pc = "sleep" /\ c_pc' = "done")
      BY <3>1 DEF handle_sigint
    <3>4. timer' = timer \/ timer' = 0
      BY <3>1 DEF handle_sigint
    <3>5. waiting' = waiting \/ waiting' \in 0 .. waiting - 1
      BY <3>1 DEF handle_sigint
    <3>6. timer' \in 0 .. Interval /\ waiting' \in 0 .. OutputWait
      <4>1. /\ timer \in 0 .. Interval /\ waiting \in 0 .. OutputWait
            /\ Interval \in Nat /\ OutputWait \in Nat
        OBVIOUS
      <4> HIDE DEF CoreInv, TypeOK
      <4>2. QED
        BY <3>4, <3>5, <4>1
    <3>7. QED
      BY <3>2, <3>3, <3>6 DEF main_vars
  <2>3. CASE UNCHANGED vars
    BY <2>3 DEF vars, main_vars
  <2>4. QED
    BY <2>1, <2>2, <2>3
<1>2. TypeOK'
  <2> USE TypeParts DEF CoreInv
  <2>1. ControlType'
    BY <1>1 DEF ControlType
  <2>2. CollectorType'
    BY <1>1 DEF CollectorType
  <2>3. QueueType'
    BY <1>1 DEF QueueType, queue_vars
  <2>4. QED
    BY <2>1, <2>2, <2>3 DEF TypeOK, ControlType, CollectorType, QueueType
<1>3. CountInv'
  BY <1>1 DEF CoreInv, CountInv, queue_vars
<1>4. AccountInv'
  BY <1>1 DEF CoreInv, AccountInv, queue_vars, delivery_vars
<1>5. QED
  BY <1>2, <1>3, <1>4 DEF CoreInv

(* What the delivery thread leaves alone keeps its type. *)
LEMMA TypesKept ==
    ASSUME TypeOK, UNCHANGED <<cfg, g_stop, main_vars, collector_vars, env_vars>>
    PROVE  ControlType' /\ CollectorType'
<1>1. ControlType /\ CollectorType
  BY TypeParts
<1>2. ControlType'
  BY <1>1 DEF ControlType, main_vars, env_vars
<1>3. CollectorType'
  BY <1>1 DEF CollectorType, collector_vars
<1>4. QED
  BY <1>2, <1>3

(* The delivery thread moves events along and loses none. *)
LEMMA CoreDelivery ==
    ASSUME CoreInv, delivery_thread
    PROVE  CoreInv'
<1> USE DEF CoreInv
<1>1. CASE D_Enter \/ D_TestStop \/ D_TestSize \/ D_Flush \/ D_Pause \/ D_Return
  <2>1. /\ UNCHANGED <<cfg, g_stop, main_vars, collector_vars, env_vars, handed, queue_vars>>
        /\ d_pc # "emit"
        /\ d_pc' \in {"test", "size", "dequeue", "final", "return", "done"}
        /\ waiting' = waiting \/ waiting' \in 0 .. OutputWait
    BY <1>1, CallWaits DEF D_Enter, D_TestStop, D_TestSize, D_Flush, D_Pause, D_Return, D_Move
  <2>2. TypeOK'
    <3>1. ControlType' /\ CollectorType'
      BY <2>1, TypesKept
    <3>2. QueueType'
      BY <2>1, TypeParts DEF QueueType, collector_vars, queue_vars
    <3>3. QED
      BY <3>1, <3>2 DEF TypeOK, ControlType, CollectorType, QueueType
  <2>3. CountInv' /\ AccountInv'
    BY <2>1 DEF CountInv, AccountInv, collector_vars, queue_vars
  <2>4. QED
    BY <2>2, <2>3
<1>2. CASE D_Dequeue
  <2>1. /\ UNCHANGED <<cfg, g_stop, main_vars, collector_vars, env_vars, handed, waiting>>
        /\ d_pc = "dequeue"
        /\ d_pc' = IF contents # << >> THEN "emit" ELSE "pause"
        /\ Fifo!Take
    BY <1>2 DEF D_Dequeue, D_Move
  <2>2. TypeOK'
    <3>1. ControlType' /\ CollectorType'
      BY <2>1, TypesKept
    <3>2. QueueType'
      BY <2>1, TypeParts, TakeEffect, QueueAssumption DEF QueueType
    <3>3. QED
      BY <3>1, <3>2 DEF TypeOK, ControlType, CollectorType, QueueType
  <2>3. CountInv'
    BY <2>1, TakeEffect DEF CountInv, collector_vars
  <2>4. Len(taken) = 0 /\ (d_pc' = "emit" <=> taken' # << >>)
    BY <2>1, TakeEffect DEF AccountInv
  <2>5. Len(taken') + Len(contents') = Len(contents) /\ accepted' = accepted /\ dropped' = dropped
    BY <2>1, TakeEffect
  <2>6. ~cfg.queue => contents' = << >>
    BY <2>1, TakeEffect DEF AccountInv
  <2>7. AccountInv'
    BY <2>1, <2>2, <2>4, <2>5, <2>6, TypeParts DEF AccountInv, QueueType
  <2>8. QED
    BY <2>2, <2>3, <2>7
<1>3. CASE D_Emit
  <2>1. /\ UNCHANGED <<cfg, g_stop, main_vars, collector_vars, env_vars, contents, accepted, dropped>>
        /\ d_pc = "emit"
        /\ d_pc' = IF Len(taken) > 1 THEN "emit" ELSE "flush"
        /\ handed' = Append(handed, Head(taken))
        /\ taken' = Tail(taken)
        /\ waiting' \in 0 .. OutputWait
    BY <1>3, CallWaits DEF D_Emit, D_Move
  <2>2. taken \in Seq(Event) /\ taken # << >> /\ handed \in Seq(Event) /\ BatchMax \in Nat
    BY <2>1, QueueAssumption DEF AccountInv, TypeOK
  <2>3. /\ taken' \in Seq(Event) /\ handed' \in Seq(Event)
        /\ Len(taken') = Len(taken) - 1 /\ Len(handed') = Len(handed) + 1
    BY <2>1, <2>2
  <2>4. TypeOK'
    <3>1. ControlType' /\ CollectorType'
      BY <2>1, TypesKept
    <3>2. QueueType'
      BY <2>1, <2>2, <2>3, TypeParts DEF QueueType
    <3>3. QED
      BY <3>1, <3>2 DEF TypeOK, ControlType, CollectorType, QueueType
  <2>5. CountInv'
    BY <2>1 DEF CountInv, collector_vars
  <2>6. d_pc' = "emit" <=> taken' # << >>
    BY <2>1, <2>2, <2>3
  <2>7. AccountInv'
    <3>1. Len(handed') + Len(taken') = Len(handed) + Len(taken)
      <4>1. Len(handed) \in Nat /\ Len(taken) \in Nat
        BY <2>2
      <4>2. QED
        BY <2>3, <4>1
    <3>2. QED
      BY <2>1, <2>6, <3>1 DEF AccountInv
  <2>8. QED
    BY <2>4, <2>5, <2>7
<1>4. QED
  BY <1>1, <1>2, <1>3 DEF delivery_thread

(* An enqueue keeps the books, as long as the bound on events allows it. *)
LEMMA EnqueueCore ==
    ASSUME CoreInv, NEW k, NEW r, [kind |-> k, row |-> r] \in Event, accepted < MaxEvents,
           Enqueue(k, r), UNCHANGED <<cfg, delivery_vars>>
    PROVE  QueueType' /\ AccountInv' /\ accepted' <= accepted + 1 /\ accepted' \in Nat
<1> USE DEF CoreInv, delivery_vars
<1>1. QueueType /\ AccountInv
  BY TypeParts
<1>2. /\ taken' = taken
      /\ contents' \in Seq(Event) /\ Len(contents') <= Capacity
      /\ accepted' \in Nat /\ dropped' \in Nat
      /\ ~cfg.queue => contents' = contents /\ accepted' = accepted /\ dropped' = dropped
      /\ cfg.queue =>
           \E d \in {0, 1} : /\ Len(contents') = Len(contents) + 1 - d
                             /\ dropped' = dropped + d
                             /\ accepted' = accepted + 1
  BY <1>1, EnqueueEffect
<1>3. AccountInv' /\ accepted' <= accepted + 1
  <2>1. /\ Len(contents) \in Nat /\ Len(contents') \in Nat /\ Len(handed) \in Nat /\ Len(taken) \in Nat
        /\ accepted \in Nat /\ dropped \in Nat
        /\ Len(handed) + Len(taken) + Len(contents) + dropped = accepted
    <3> HIDE DEF CoreInv
    <3>1. Len(contents) \in Nat /\ Len(handed) \in Nat /\ Len(taken) \in Nat /\ accepted \in Nat /\ dropped \in Nat
      BY <1>1, Sizes DEF QueueType
    <3>2. Len(contents') \in Nat
      BY <1>2
    <3>3. QED
      BY <1>1, <3>1, <3>2 DEF AccountInv
  <2>2. \/ Len(contents') = Len(contents) /\ dropped' = dropped /\ accepted' = accepted
        \/ Len(contents') = Len(contents) + 1 /\ dropped' = dropped /\ accepted' = accepted + 1
        \/ Len(contents') = Len(contents) /\ dropped' = dropped + 1 /\ accepted' = accepted + 1
    BY <1>2, <2>1
  <2>3. Len(handed) + Len(taken) + Len(contents') + dropped' = accepted' /\ accepted' <= accepted + 1
    BY <2>1, <2>2
  <2>4. QED
    BY <1>1, <1>2, <2>3 DEF AccountInv
<1>4. dropped' <= accepted'
  BY <1>1, <1>2, <1>3 DEF AccountInv, QueueType
<1>5. QueueType'
  <2>1. accepted' \in 0 .. MaxEvents /\ dropped' \in 0 .. MaxEvents
    <3>1. accepted \in Nat /\ MaxEvents \in Nat
      BY <1>1, Sizes DEF QueueType
    <3>2. QED
      BY <1>2, <1>4, <3>1
  <2>2. QED
    BY <1>1, <1>2, <2>1 DEF QueueType
<1>6. QED
  BY <1>1, <1>2, <1>3, <1>5 DEF QueueType

(* The events of the code are events of the model. *)
LEMMA EventTypes ==
    ASSUME NEW r \in 0 .. MaxRows
    PROVE  /\ [kind |-> "warming_up", row |-> r] \in Event
           /\ [kind |-> "ready", row |-> r] \in Event
           /\ [kind |-> "internal", row |-> r] \in Event
           /\ \A p \in 1 .. n : [kind |-> MetricOrder[p], row |-> r] \in Event
  BY DEF Event, Metrics, n

(* The collector puts in what a row calls for and no more. *)
LEMMA CoreCollector ==
    ASSUME CoreInv, collector_thread, UNCHANGED <<cfg, g_stop, main_vars, delivery_vars, env_vars>>
    PROVE  CoreInv'
<1> USE DEF CoreInv
<1>1. CollectorType /\ QueueType /\ CountInv /\ AccountInv
  BY TypeParts
<1>2. ControlType'
  BY TypeParts DEF ControlType, main_vars, env_vars
<1>3. rows \in 0 .. MaxRows /\ accepted \in Nat
  BY <1>1 DEF CollectorType, QueueType
<1>4. /\ rows * RowLen \in Nat
      /\ (rows + 1) * RowLen = rows * RowLen + RowLen
      /\ rows < MaxRows =>
           2 + rows * RowLen + n < MaxEvents /\ rows + 1 \in 0 .. MaxRows /\ 0 \in 0 .. MaxRows
      /\ 2 <= MaxEvents
  BY <1>3, RowFits, Sizes, TimeAssumption DEF RowLen
<1> USE Sizes, TimeAssumption, QueueAssumption
<1>5. ASSUME UNCHANGED queue_vars PROVE QueueType' /\ AccountInv'
  BY <1>1, <1>5 DEF QueueType, AccountInv, queue_vars, delivery_vars
<1>6. ASSUME CollectorType', QueueType', CountInv', AccountInv' PROVE CoreInv'
  BY <1>2, <1>6 DEF TypeOK, ControlType, CollectorType, QueueType
<1>7. CASE C_WarmUp
  <2>1. /\ c_pc = "warm_up" /\ c_pc' = "baseline" /\ Enqueue("warming_up", 0)
        /\ UNCHANGED <<timer, rows, first_iteration, ready, pending, internal_metrics>>
    BY <1>7 DEF C_WarmUp, C_Move
  <2>2. accepted = 0 /\ rows = 0 /\ accepted < MaxEvents
    BY <1>1, <1>4, <2>1 DEF CountInv
  <2>3. QueueType' /\ AccountInv' /\ accepted' <= 1 /\ accepted' \in Nat
    <3>1. [kind |-> "warming_up", row |-> 0] \in Event
      BY <1>3, <2>2, EventTypes
    <3>2. QED
      BY <2>1, <2>2, <3>1, EnqueueCore
  <2>4. CollectorType'
    BY <1>1, <2>1 DEF CollectorType
  <2>5. CountInv'
    BY <1>1, <1>4, <2>1, <2>2, <2>3 DEF CountInv
  <2>6. QED
    BY <1>6, <2>3, <2>4, <2>5
<1>8. CASE C_Baseline
  <2>1. /\ c_pc = "baseline" /\ c_pc' = "test" /\ ready' \subseteq DeltaMetrics
        /\ UNCHANGED <<timer, rows, first_iteration, pending, internal_metrics, queue_vars>>
    BY <1>8 DEF C_Baseline, C_Move
  <2>2. CollectorType'
    BY <1>1, <2>1 DEF CollectorType
  <2>3. CountInv'
    BY <1>1, <2>1 DEF CountInv, queue_vars
  <2>4. QED
    BY <1>5, <1>6, <2>1, <2>2, <2>3
<1>9. CASE C_Test
  <2>1. /\ c_pc = "test"
        /\ \/ c_pc' = "sleep" /\ timer' = Interval /\ KeepSampling /\ (cfg.iterations = 0 => rows < MaxRows)
           \/ c_pc' = "done" /\ timer' = timer
        /\ UNCHANGED <<rows, first_iteration, ready, pending, internal_metrics, queue_vars>>
    BY <1>9 DEF C_Test, C_Move
  <2>2. c_pc' = "sleep" => rows < MaxRows
    <3>1. cfg.iterations \in 0 .. MaxRows
      BY TypeParts DEF ControlType
    <3>2. QED
      BY <1>3, <2>1, <3>1 DEF KeepSampling, MoreRows
  <2>3. CollectorType'
    BY <1>1, <2>1 DEF CollectorType
  <2>4. CountInv'
    BY <1>1, <2>1, <2>2 DEF CountInv, queue_vars
  <2>5. QED
    BY <1>5, <1>6, <2>1, <2>3, <2>4
<1>10. CASE C_Ready
  <2>1. /\ c_pc = "sleep" /\ c_pc' = "collect"
        /\ IF first_iteration THEN Enqueue("ready", rows + 1) ELSE UNCHANGED queue_vars
        /\ first_iteration' = FALSE
        /\ UNCHANGED <<timer, rows, ready, pending, internal_metrics>>
    BY <1>10 DEF C_Ready, C_Move
  <2>2. rows < MaxRows /\ accepted <= (IF first_iteration THEN 1 ELSE 2) + rows * RowLen
    BY <1>1, <2>1 DEF CountInv
  <2>3. QueueType' /\ AccountInv' /\ accepted' <= 2 + rows * RowLen
    <3>1. CASE first_iteration
      <4>1. [kind |-> "ready", row |-> rows + 1] \in Event
        BY <1>4, <2>2, EventTypes
      <4>2. accepted < MaxEvents
        BY <1>3, <1>4, <2>2, <3>1
      <4>3. QueueType' /\ AccountInv' /\ accepted' <= accepted + 1 /\ accepted' \in Nat
        BY <2>1, <3>1, <4>1, <4>2, EnqueueCore
      <4>4. QED
        BY <1>3, <1>4, <2>2, <3>1, <4>3
    <3>2. CASE ~first_iteration
      BY <1>5, <2>1, <2>2, <3>2 DEF queue_vars
    <3>3. QED
      BY <3>1, <3>2
  <2>4. CollectorType'
    BY <1>1, <2>1 DEF CollectorType
  <2>5. CountInv'
    BY <1>1, <2>1, <2>2, <2>3 DEF CountInv
  <2>6. QED
    BY <1>6, <2>3, <2>4, <2>5
<1>11. CASE C_Collect
  <2>1. /\ c_pc = "collect" /\ c_pc' = "emit"
        /\ pending' \subseteq 1 .. n
        /\ ready' \subseteq ready \cup DeltaMetrics
        /\ UNCHANGED <<timer, rows, first_iteration, internal_metrics, queue_vars>>
    BY <1>11 DEF C_Collect, C_Move, n
  <2>2. CollectorType'
    BY <1>1, <2>1 DEF CollectorType, n
  <2>3. CountInv'
    BY <1>1, <1>3, <1>4, <2>1 DEF CountInv, queue_vars
  <2>4. QED
    BY <1>5, <1>6, <2>1, <2>2, <2>3
<1>12. CASE C_EmitMetric
  <2>1. PICK p \in pending :
          /\ c_pc = "emit" /\ c_pc' = "emit"
          /\ \A q \in pending : p <= q
          /\ Enqueue(MetricOrder[p], rows + 1)
          /\ pending' = pending \ {p}
          /\ UNCHANGED <<timer, rows, first_iteration, ready, internal_metrics>>
    BY <1>12 DEF C_EmitMetric, C_Move
  <2>2. p \in 1 .. n /\ \A q \in pending : q \in 1 .. n
    BY <1>1 DEF CollectorType, n
  <2>3. rows < MaxRows /\ accepted < 2 + rows * RowLen + p
    BY <1>1, <2>1 DEF CountInv
  <2>4. QueueType' /\ AccountInv' /\ accepted' <= accepted + 1 /\ accepted' \in Nat
    <3>1. [kind |-> MetricOrder[p], row |-> rows + 1] \in Event
      BY <1>4, <2>2, <2>3, EventTypes
    <3>2. accepted < MaxEvents
      BY <1>3, <1>4, <2>2, <2>3
    <3>3. QED
      BY <2>1, <3>1, <3>2, EnqueueCore
  <2>5. CollectorType'
    BY <1>1, <2>1 DEF CollectorType
  <2>6. CountInv'
    <3>1. accepted' <= 2 + rows * RowLen + n
      BY <1>3, <1>4, <2>2, <2>3, <2>4
    <3>2. ASSUME NEW q \in pending' PROVE accepted' < 2 + rows * RowLen + q
      <4>1. q \in 1 .. n /\ p < q
        BY <2>1, <2>2, <3>2
      <4>2. QED
        BY <1>3, <1>4, <2>2, <2>3, <2>4, <4>1
    <3>3. QED
      BY <1>1, <2>1, <2>3, <3>1, <3>2 DEF CountInv
  <2>7. QED
    BY <1>6, <2>4, <2>5, <2>6
<1>13. CASE C_ReadSize \/ C_ReadDropped
  <2>1. /\ c_pc \in {"emit", "dropped"} /\ c_pc' \in {"dropped", "internal"}
        /\ UNCHANGED <<timer, rows, first_iteration, ready, pending, queue_vars>>
        /\ internal_metrics' = [internal_metrics EXCEPT !.buffer_depth = queue_size]
             \/ internal_metrics' = [internal_metrics EXCEPT !.events_dropped_total = queue_dropped_count]
    BY <1>13 DEF C_ReadSize, C_ReadDropped, C_Move
  <2>2. queue_size \in -1 .. Capacity /\ queue_dropped_count \in 0 .. MaxEvents
    BY <1>1 DEF QueueType, queue_size, queue_dropped_count
  <2>3. CollectorType' /\ internal_metrics'.events_emitted_total = internal_metrics.events_emitted_total
    BY <1>1, <2>1, <2>2 DEF CollectorType
  <2>4. CountInv'
    BY <1>1, <2>1, <2>3 DEF CountInv, queue_vars
  <2>5. QED
    BY <1>5, <1>6, <2>1, <2>3, <2>4
<1>14. CASE C_EmitInternal
  <2>1. /\ c_pc = "internal" /\ c_pc' = "test"
        /\ Enqueue("internal", rows + 1)
        /\ internal_metrics' = [internal_metrics EXCEPT !.events_emitted_total = @ + 5]
        /\ rows' = rows + 1
        /\ UNCHANGED <<timer, first_iteration, ready, pending>>
    BY <1>14 DEF C_EmitInternal, C_Move
  <2>2. rows < MaxRows /\ ~first_iteration /\ accepted <= 2 + rows * RowLen + n
    BY <1>1, <2>1 DEF CountInv
  <2>3. QueueType' /\ AccountInv' /\ accepted' <= accepted + 1 /\ accepted' \in Nat
    <3>1. [kind |-> "internal", row |-> rows + 1] \in Event
      BY <1>4, <2>2, EventTypes
    <3>2. accepted < MaxEvents
      BY <1>3, <1>4, <2>2
    <3>3. QED
      BY <2>1, <3>1, <3>2, EnqueueCore
  <2>4. CollectorType' /\ internal_metrics'.events_emitted_total = internal_metrics.events_emitted_total + 5
    <3>1. rows' \in 0 .. MaxRows
      BY <1>4, <2>1, <2>2
    <3>2. /\ internal_metrics' \in [buffer_depth : -1 .. Capacity, events_dropped_total : 0 .. MaxEvents,
                                   events_emitted_total : Nat]
          /\ internal_metrics'.events_emitted_total = internal_metrics.events_emitted_total + 5
      <4>1. internal_metrics \in [buffer_depth : -1 .. Capacity, events_dropped_total : 0 .. MaxEvents,
                                 events_emitted_total : Nat]
        BY <1>1 DEF CollectorType
      <4>2. internal_metrics.events_emitted_total + 5 \in Nat
        BY <4>1
      <4>3. QED
        BY <2>1, <4>1, <4>2
    <3>3. QED
      BY <1>1, <2>1, <3>1, <3>2 DEF CollectorType
  <2>5. CountInv'
    <3>1. accepted' <= 2 + rows' * RowLen
      BY <1>3, <1>4, <2>1, <2>2, <2>3 DEF RowLen
    <3>2. internal_metrics'.events_emitted_total = 5 * rows'
      BY <1>1, <1>3, <2>1, <2>4 DEF CountInv
    <3>3. QED
      BY <2>1, <2>2, <3>1, <3>2 DEF CountInv
  <2>6. QED
    BY <1>6, <2>3, <2>4, <2>5
<1>15. QED
  BY <1>7, <1>8, <1>9, <1>10, <1>11, <1>12, <1>13, <1>14 DEF collector_thread

(* Types and the accounts of the queue are kept by main, by the             *)
(* environment and by both threads.                                        *)
LEMMA CoreStep == CoreInv /\ ThreadInv /\ [Next]_vars => CoreInv'
  BY Moves, CoreMain, CoreCollector, CoreDelivery, CoreEnvironment

(***************************************************************************)
(* All state of the three threads and the queue stays in range: the        *)
(* collector never puts in more than two lifecycle events and a full row   *)
(* for each row, and the queue never holds more than its capacity.         *)
(***************************************************************************)
THEOREM TypeCorrect == Spec => []TypeOK
<1>1. Init => ThreadInv
  BY DEF Init, ThreadInv
<1>2. CoreInv => TypeOK
  BY DEF CoreInv
<1>3. QED
  BY <1>1, <1>2, CoreInit, CoreStep, ThreadStep, PTL DEF Spec
-----------------------------------------------------------------------------
(* The ranks of row r start here, and a row takes up Stride of them. *)
Stride == n + 2
RowStart(r) == r * Stride

(* Ranks of later rows start above all ranks of earlier ones. *)
LEMMA RowStarts ==
    ASSUME NEW r \in Nat
    PROVE  RowStart(r) \in Nat /\ RowStart(r + 1) = RowStart(r) + n + 2 /\ RowStart(0) = 0
<1>1. ASSUME NEW a \in Nat, NEW c \in Nat
      PROVE  a * c \in Nat /\ (a + 1) * c = a * c + c /\ 0 * c = 0
  OBVIOUS
<1>2. Stride \in Nat
  BY Sizes DEF Stride
<1>3. RowStart(r) \in Nat /\ RowStart(r + 1) = RowStart(r) + Stride /\ RowStart(0) = 0
  BY <1>1, <1>2 DEF RowStart
<1>4. QED
  BY <1>3, Sizes DEF Stride

(* The rank of each event the collector composes. *)
LEMMA RankOf ==
    ASSUME NEW r \in 0 .. MaxRows
    PROVE  /\ Rank([kind |-> "warming_up", row |-> r]) = RowStart(r)
           /\ Rank([kind |-> "ready", row |-> r]) = RowStart(r)
           /\ Rank([kind |-> "internal", row |-> r]) = RowStart(r) + (n + 1)
           /\ \A p \in 1 .. n : Rank([kind |-> MetricOrder[p], row |-> r]) = RowStart(r) + p
<1>1. RowStart(r) \in Nat /\ RowStart(r) = r * (Len(MetricOrder) + 2)
  BY RowStarts, TimeAssumption DEF RowStart, Stride, n
<1>2. RowStart(r) + 0 = RowStart(r)
  BY <1>1
<1>3. Rank([kind |-> "warming_up", row |-> r]) = RowStart(r)
  BY <1>1, <1>2 DEF Rank
<1>4. Rank([kind |-> "ready", row |-> r]) = RowStart(r)
  BY <1>1, <1>2 DEF Rank
<1>5. Rank([kind |-> "internal", row |-> r]) = RowStart(r) + (n + 1)
  BY <1>1 DEF Rank, n
<1>6. ASSUME NEW p \in 1 .. n
      PROVE  Rank([kind |-> MetricOrder[p], row |-> r]) = RowStart(r) + p
  <2>1. MetricOrder[p] \in Metrics
    BY DEF Metrics, n
  <2>2. MetricOrder[p] \notin {"warming_up", "ready", "internal"}
    BY <2>1, MetricAssumption
  <2>3. (CHOOSE q \in 1 .. Len(MetricOrder) : MetricOrder[q] = MetricOrder[p]) = p
    BY MetricAssumption DEF n
  <2>4. QED
    BY <1>1, <2>2, <2>3 DEF Rank
<1>7. QED
  BY <1>3, <1>4, <1>5, <1>6

(* Every event has a rank. *)
LEMMA RankNat ==
    ASSUME NEW e \in Event
    PROVE  Rank(e) \in Nat
<1>1. e = [kind |-> e.kind, row |-> e.row] /\ e.row \in 0 .. MaxRows
      /\ e.kind \in Metrics \cup {"warming_up", "ready", "internal"}
  BY DEF Event
<1>2. RowStart(e.row) \in Nat
  BY <1>1, RowStarts, TimeAssumption
<1>3. CASE e.kind \in Metrics
  <2>1. PICK p \in 1 .. n : e.kind = MetricOrder[p]
    BY <1>3 DEF Metrics, n
  <2>2. Rank(e) = RowStart(e.row) + p
    BY <1>1, <2>1, RankOf
  <2>3. QED
    BY <1>2, <2>2, Sizes
<1>4. CASE e.kind \in {"warming_up", "ready", "internal"}
  <2>1. Rank(e) = RowStart(e.row) \/ Rank(e) = RowStart(e.row) + (n + 1)
    BY <1>1, <1>4, RankOf
  <2>2. QED
    BY <1>2, <2>1, Sizes
<1>5. QED
  BY <1>1, <1>3, <1>4
-----------------------------------------------------------------------------
Rising(s) == \A i, j \in 1 .. Len(s) : i < j => Rank(s[i]) < Rank(s[j])
Before(s, t) == \A i \in 1 .. Len(s), j \in 1 .. Len(t) : Rank(s[i]) < Rank(t[j])
AllBelow(s, b) == \A i \in 1 .. Len(s) : Rank(s[i]) < b

(* What was handed on, what is in the batch and what is queued, in order. *)
Chain(h, t, c) ==
    /\ Rising(h) /\ Rising(t) /\ Rising(c)
    /\ Before(h, t) /\ Before(h, c) /\ Before(t, c)
Below(h, t, c, b) == AllBelow(h, b) /\ AllBelow(t, b) /\ AllBelow(c, b)

(* What is below a bound is below a larger one. *)
LEMMA BelowMore ==
    ASSUME NEW h \in Seq(Event), NEW t \in Seq(Event), NEW c \in Seq(Event),
           NEW b \in Int, NEW b2 \in Int, b <= b2, Below(h, t, c, b)
    PROVE  Below(h, t, c, b2)
<1>1. ASSUME NEW s \in Seq(Event), AllBelow(s, b) PROVE AllBelow(s, b2)
  <2> SUFFICES ASSUME NEW i \in 1 .. Len(s) PROVE Rank(s[i]) < b2
    BY DEF AllBelow
  <2>1. Rank(s[i]) \in Nat /\ Rank(s[i]) < b
    BY <1>1, RankNat DEF AllBelow
  <2>2. QED
    BY <2>1
<1>2. QED
  BY <1>1 DEF Below

(* An event of a rank above all others keeps the order, whether or not it  *)
(* pushes the oldest out of the queue.                                     *)
LEMMA ChainPut ==
    ASSUME NEW h \in Seq(Event), NEW t \in Seq(Event), NEW c \in Seq(Event),
           NEW c2 \in Seq(Event), NEW e \in Event, NEW d \in {0, 1},
           Chain(h, t, c), Below(h, t, c, Rank(e)),
           Len(c2) = Len(c) + 1 - d, c2[Len(c2)] = e,
           \A i \in 1 .. Len(c2) - 1 : i + d \in 1 .. Len(c) /\ c2[i] = c[i + d]
    PROVE  Chain(h, t, c2) /\ Below(h, t, c2, Rank(e) + 1)
<1>1. Rank(e) \in Nat /\ Below(h, t, c, Rank(e) + 1)
  <2>1. Rank(e) \in Int /\ Rank(e) + 1 \in Int /\ Rank(e) <= Rank(e) + 1 /\ Rank(e) \in Nat
    BY RankNat
  <2>2. QED
    BY <2>1, BelowMore
<1>2. ASSUME NEW i \in 1 .. Len(c2)
      PROVE  (i = Len(c2) /\ c2[i] = e) \/ (i < Len(c2) /\ i + d \in 1 .. Len(c) /\ c2[i] = c[i + d])
  OBVIOUS
<1>3. Rising(c2)
  <2> SUFFICES ASSUME NEW i \in 1 .. Len(c2), NEW j \in 1 .. Len(c2), i < j
               PROVE  Rank(c2[i]) < Rank(c2[j])
    BY DEF Rising
  <2>1. i + d \in 1 .. Len(c) /\ c2[i] = c[i + d]
    BY <1>2
  <2>2. CASE j = Len(c2)
    BY <2>1, <2>2 DEF Below, AllBelow
  <2>3. CASE j # Len(c2)
    <3>1. j + d \in 1 .. Len(c) /\ c2[j] = c[j + d] /\ i + d < j + d
      BY <1>2, <2>3
    <3>2. QED
      BY <2>1, <3>1 DEF Chain, Rising
  <2>4. QED
    BY <2>2, <2>3
<1>4. ASSUME NEW s \in Seq(Event), Before(s, c), AllBelow(s, Rank(e)) PROVE Before(s, c2)
  <2> SUFFICES ASSUME NEW i \in 1 .. Len(s), NEW j \in 1 .. Len(c2)
               PROVE  Rank(s[i]) < Rank(c2[j])
    BY DEF Before
  <2>1. QED
    BY <1>2, <1>4 DEF Before, AllBelow
<1>5. AllBelow(c2, Rank(e) + 1)
  <2> SUFFICES ASSUME NEW i \in 1 .. Len(c2) PROVE Rank(c2[i]) < Rank(e) + 1
    BY DEF AllBelow
  <2>1. CASE c2[i] = e
    BY <1>1, <2>1
  <2>2. CASE i + d \in 1 .. Len(c) /\ c2[i] = c[i + d]
    BY <1>1, <2>2 DEF Below, AllBelow
  <2>3. QED
    BY <1>2, <2>1, <2>2
<1>6. QED
  BY <1>1, <1>3, <1>4, <1>5 DEF Chain, Below

(* A batch taken off the front of the queue comes after all handed on. *)
LEMMA ChainTake ==
    ASSUME NEW h \in Seq(Event), NEW t \in Seq(Event), NEW c \in Seq(Event),
           NEW t2 \in Seq(Event), NEW c2 \in Seq(Event),
           Chain(h, t, c), Len(t2) + Len(c2) = Len(c),
           \A i \in 1 .. Len(t2) : i \in 1 .. Len(c) /\ t2[i] = c[i],
           \A i \in 1 .. Len(c2) : i + Len(t2) \in 1 .. Len(c) /\ c2[i] = c[i + Len(t2)]
    PROVE  /\ Chain(h, t2, c2)
           /\ \A b \in Int : Below(h, t, c, b) => Below(h, t2, c2, b)
<1>1. Rising(c) /\ Before(h, c) /\ Rising(h)
  BY DEF Chain
<1>2. Rising(t2) /\ Rising(c2)
  <2>1. ASSUME NEW i \in 1 .. Len(t2), NEW j \in 1 .. Len(t2), i < j PROVE Rank(t2[i]) < Rank(t2[j])
    <3>1. i \in 1 .. Len(c) /\ j \in 1 .. Len(c) /\ t2[i] = c[i] /\ t2[j] = c[j]
      OBVIOUS
    <3>2. QED
      BY <1>1, <2>1, <3>1 DEF Rising
  <2>2. ASSUME NEW i \in 1 .. Len(c2), NEW j \in 1 .. Len(c2), i < j PROVE Rank(c2[i]) < Rank(c2[j])
    <3>1. /\ i + Len(t2) \in 1 .. Len(c) /\ j + Len(t2) \in 1 .. Len(c)
          /\ c2[i] = c[i + Len(t2)] /\ c2[j] = c[j + Len(t2)]
      OBVIOUS
    <3>2. i + Len(t2) < j + Len(t2)
      BY <2>2
    <3>3. QED
      BY <1>1, <3>1, <3>2 DEF Rising
  <2>3. QED
    BY <2>1, <2>2 DEF Rising
<1>3. Before(h, t2) /\ Before(h, c2)
  BY <1>1 DEF Before
<1>4. Before(t2, c2)
  <2> SUFFICES ASSUME NEW i \in 1 .. Len(t2), NEW j \in 1 .. Len(c2)
               PROVE  Rank(t2[i]) < Rank(c2[j])
    BY DEF Before
  <2>1. t2[i] = c[i] /\ c2[j] = c[j + Len(t2)] /\ i \in 1 .. Len(c) /\ j + Len(t2) \in 1 .. Len(c)
        /\ i < j + Len(t2)
    OBVIOUS
  <2>2. QED
    BY <1>1, <2>1 DEF Rising
<1>5. ASSUME NEW b \in Int, Below(h, t, c, b) PROVE Below(h, t2, c2, b)
  BY <1>5 DEF Below, AllBelow
<1>6. QED
  BY <1>1, <1>2, <1>3, <1>4, <1>5 DEF Chain

(* Handing on the first event of the batch changes nothing in the order. *)
LEMMA ChainEmit ==
    ASSUME NEW h \in Seq(Event), NEW t \in Seq(Event), NEW c \in Seq(Event), t # << >>,
           Chain(h, t, c)
    PROVE  /\ Chain(Append(h, Head(t)), Tail(t), c)
           /\ \A b \in Int : Below(h, t, c, b) => Below(Append(h, Head(t)), Tail(t), c, b)
<1> DEFINE h2 == Append(h, Head(t))
           t2 == Tail(t)
<1>1. /\ h2 \in Seq(Event) /\ Len(h2) = Len(h) + 1 /\ h2[Len(h) + 1] = t[1]
      /\ \A i \in 1 .. Len(h) : h2[i] = h[i]
      /\ 1 \in 1 .. Len(t)
  OBVIOUS
<1>2. t2 \in Seq(Event) /\ Len(t2) = Len(t) - 1 /\ \A i \in 1 .. Len(t2) : t2[i] = t[i + 1]
  OBVIOUS
<1> HIDE DEF h2, t2
<1>3. ASSUME NEW i \in 1 .. Len(h2) PROVE (i = Len(h2) /\ h2[i] = t[1]) \/ (i \in 1 .. Len(h) /\ h2[i] = h[i])
  BY <1>1
<1>4. ASSUME NEW i \in 1 .. Len(t2) PROVE i + 1 \in 1 .. Len(t) /\ t2[i] = t[i + 1] /\ 1 < i + 1
  BY <1>2
<1>5. Rising(h2)
  <2> SUFFICES ASSUME NEW i \in 1 .. Len(h2), NEW j \in 1 .. Len(h2), i < j
               PROVE  Rank(h2[i]) < Rank(h2[j])
    BY DEF Rising
  <2>1. i \in 1 .. Len(h) /\ h2[i] = h[i]
    BY <1>1, <1>3
  <2>2. CASE j = Len(h2)
    BY <1>1, <2>1, <2>2 DEF Chain, Before
  <2>3. CASE j # Len(h2)
    BY <1>3, <2>1, <2>3 DEF Chain, Rising
  <2>4. QED
    BY <2>2, <2>3
<1>6. Rising(t2)
  BY <1>4 DEF Chain, Rising
<1>7. Before(h2, t2)
  <2> SUFFICES ASSUME NEW i \in 1 .. Len(h2), NEW j \in 1 .. Len(t2)
               PROVE  Rank(h2[i]) < Rank(t2[j])
    BY DEF Before
  <2>1. CASE h2[i] = t[1]
    BY <1>1, <1>4, <2>1 DEF Chain, Rising
  <2>2. CASE i \in 1 .. Len(h) /\ h2[i] = h[i]
    BY <1>4, <2>2 DEF Chain, Before
  <2>3. QED
    BY <1>3, <2>1, <2>2
<1>8. Before(h2, c) /\ Before(t2, c)
  BY <1>1, <1>3, <1>4 DEF Chain, Before
<1>9. ASSUME NEW b \in Int, Below(h, t, c, b) PROVE Below(h2, t2, c, b)
  BY <1>1, <1>3, <1>4, <1>9 DEF Below, AllBelow
<1>10. Chain(h2, t2, c)
  BY <1>5, <1>6, <1>7, <1>8 DEF Chain
<1>11. QED
  BY <1>9, <1>10 DEF h2, t2

(* The order of the parts is the order of the whole. *)
LEMMA ChainWhole ==
    ASSUME NEW h \in Seq(Event), NEW t \in Seq(Event), NEW c \in Seq(Event), Chain(h, t, c)
    PROVE  Rising(h \o t \o c)
<1> DEFINE s == h \o t \o c
<1>1. /\ s \in Seq(Event) /\ Len(s) = Len(h) + Len(t) + Len(c)
      /\ \A i \in 1 .. Len(s) :
           s[i] = IF i <= Len(h) THEN h[i]
                  ELSE IF i <= Len(h) + Len(t) THEN t[i - Len(h)]
                  ELSE c[i - Len(h) - Len(t)]
  OBVIOUS
<1> HIDE DEF s
<1> SUFFICES ASSUME NEW i \in 1 .. Len(s), NEW j \in 1 .. Len(s), i < j
             PROVE  Rank(s[i]) < Rank(s[j])
  BY DEF Rising, s
<1>2. CASE i <= Len(h)
  <2>1. s[i] = h[i] /\ i \in 1 .. Len(h)
    BY <1>1, <1>2
  <2>2. CASE j <= Len(h)
    <3>1. s[j] = h[j] /\ j \in 1 .. Len(h)
      BY <1>1, <2>2
    <3>2. QED
      BY <2>1, <3>1 DEF Chain, Rising
  <2>3. CASE j > Len(h) /\ j <= Len(h) + Len(t)
    <3>1. s[j] = t[j - Len(h)] /\ j - Len(h) \in 1 .. Len(t)
      BY <1>1, <2>3
    <3>2. QED
      BY <2>1, <3>1 DEF Chain, Before
  <2>4. CASE j > Len(h) + Len(t)
    <3>1. s[j] = c[j - Len(h) - Len(t)] /\ j - Len(h) - Len(t) \in 1 .. Len(c)
      BY <1>1, <2>4
    <3>2. QED
      BY <2>1, <3>1 DEF Chain, Before
  <2>5. QED
    BY <1>1, <2>2, <2>3, <2>4
<1>3. CASE i > Len(h) /\ i <= Len(h) + Len(t)
  <2>1. s[i] = t[i - Len(h)] /\ i - Len(h) \in 1 .. Len(t)
    BY <1>1, <1>3
  <2>2. CASE j <= Len(h) + Len(t)
    <3>1. s[j] = t[j - Len(h)] /\ j - Len(h) \in 1 .. Len(t) /\ i - Len(h) < j - Len(h)
      BY <1>1, <1>3, <2>2
    <3>2. QED
      BY <2>1, <3>1 DEF Chain, Rising
  <2>3. CASE j > Len(h) + Len(t)
    <3>1. s[j] = c[j - Len(h) - Len(t)] /\ j - Len(h) - Len(t) \in 1 .. Len(c)
      BY <1>1, <2>3
    <3>2. QED
      BY <2>1, <3>1 DEF Chain, Before
  <2>4. QED
    BY <1>1, <2>2, <2>3
<1>4. CASE i > Len(h) + Len(t)
  <2>1. /\ s[i] = c[i - Len(h) - Len(t)] /\ i - Len(h) - Len(t) \in 1 .. Len(c)
        /\ s[j] = c[j - Len(h) - Len(t)] /\ j - Len(h) - Len(t) \in 1 .. Len(c)
        /\ i - Len(h) - Len(t) < j - Len(h) - Len(t)
    BY <1>1, <1>4
  <2>2. QED
    BY <2>1 DEF Chain, Rising
<1>5. QED
  BY <1>1, <1>2, <1>3, <1>4
-----------------------------------------------------------------------------
(* All events that left the collector rank below the next one it composes. *)
Produced(b) == Below(handed, taken, contents, b)

OrderInv ==
    /\ Chain(handed, taken, contents)
    /\ c_pc \in {"baseline", "test", "sleep", "done"} => Produced(RowStart(rows + 1))
    /\ c_pc = "collect" => Produced(RowStart(rows + 1) + 1)
    /\ c_pc = "emit" => \A p \in pending : Produced(RowStart(rows + 1) + p)
    /\ c_pc \in {"emit", "dropped", "internal"} => Produced(RowStart(rows + 1) + (n + 1))

(* One event more, when it ranks above all the others. *)
LEMMA PutOrder ==
    ASSUME TypeOK, AccountInv, OrderInv, NEW k, NEW r, [kind |-> k, row |-> r] \in Event,
           Enqueue(k, r), handed' = handed, NEW b \in Int,
           Rank([kind |-> k, row |-> r]) = b, Produced(b)
    PROVE  /\ Chain(handed', taken', contents')
           /\ Below(handed', taken', contents', b + 1)
<1> DEFINE e == [kind |-> k, row |-> r]
<1>1. /\ handed \in Seq(Event) /\ taken \in Seq(Event) /\ contents \in Seq(Event)
      /\ Chain(handed, taken, contents) /\ Below(handed, taken, contents, Rank(e))
  BY DEF TypeOK, OrderInv, Produced
<1>2. CASE ~cfg.queue
  <2>1. contents' = contents /\ taken' = taken
    BY <1>2, EnqueueEffect
  <2>2. b + 1 \in Int /\ b <= b + 1 /\ Below(handed, taken, contents, b)
    BY DEF Produced
  <2>3. Below(handed, taken, contents, b + 1)
    BY <1>1, <2>2, BelowMore
  <2>4. QED
    BY <1>1, <2>1, <2>3
<1>3. CASE cfg.queue
  <2>1. PICK d \in {0, 1} :
          /\ Len(contents') = Len(contents) + 1 - d
          /\ contents'[Len(contents')] = e
          /\ \A i \in 1 .. Len(contents') - 1 :
               i + d \in 1 .. Len(contents) /\ contents'[i] = contents[i + d]
    BY <1>3, EnqueueEffect
  <2>2. contents' \in Seq(Event) /\ taken' = taken
    BY EnqueueEffect
  <2>3. e \in Event
    OBVIOUS
  <2> HIDE DEF e
  <2>4. Chain(handed, taken, contents') /\ Below(handed, taken, contents', Rank(e) + 1)
    BY <1>1, <2>1, <2>2, <2>3, ChainPut
  <2>5. QED
    BY <2>2, <2>4 DEF e
<1>4. QED
  BY <1>2, <1>3

(* The collector composes its events in the order of their ranks. *)
LEMMA OrderCollector ==
    ASSUME CoreInv, CoreInv', OrderInv, collector_thread,
           UNCHANGED <<cfg, g_stop, main_vars, delivery_vars, env_vars>>
    PROVE  OrderInv'
<1> USE DEF CoreInv
<1>1. /\ TypeOK /\ AccountInv /\ handed' = handed
      /\ rows \in 0 .. MaxRows /\ pending \subseteq 1 .. n
      /\ handed \in Seq(Event) /\ taken \in Seq(Event) /\ contents \in Seq(Event)
  BY DEF TypeOK, delivery_vars, n
<1>2. /\ RowStart(rows + 1) \in Nat
      /\ RowStart(rows + 1 + 1) = RowStart(rows + 1) + n + 2
      /\ n \in Nat
  <2>1. rows + 1 \in Nat
    BY <1>1
  <2>2. QED
    BY <2>1, RowStarts, Sizes
<1>5. rows < MaxRows => rows + 1 \in 0 .. MaxRows
  BY <1>1, TimeAssumption
<1>3. ASSUME UNCHANGED queue_vars
      PROVE  /\ Chain(handed', taken', contents')
             /\ \A b : Below(handed', taken', contents', b) <=> Produced(b)
  BY <1>1, <1>3 DEF OrderInv, Produced, queue_vars
<1>4. ASSUME NEW b \in Int, NEW b2 \in Int, b <= b2, Produced(b) PROVE Produced(b2)
  BY <1>1, <1>4, BelowMore DEF Produced
<1>7. CASE C_WarmUp
  <2>1. c_pc = "warm_up" /\ c_pc' = "baseline" /\ Enqueue("warming_up", 0) /\ rows' = rows
    BY <1>7 DEF C_WarmUp, C_Move
  <2>2. accepted = 0 /\ rows = 0
    BY <2>1 DEF CountInv
  <2>3. Len(handed) = 0 /\ Len(taken) = 0 /\ Len(contents) = 0
    <3>1. Len(handed) + Len(taken) + Len(contents) + dropped = 0 /\ dropped \in Nat
      BY <2>2 DEF AccountInv, TypeOK
    <3>2. Len(handed) \in Nat /\ Len(taken) \in Nat /\ Len(contents) \in Nat
      BY <1>1
    <3>3. QED
      BY <3>1, <3>2
  <2>4. Produced(0)
    BY <2>3 DEF Produced, Below, AllBelow
  <2>5. 0 \in 0 .. MaxRows /\ [kind |-> "warming_up", row |-> 0] \in Event
        /\ Rank([kind |-> "warming_up", row |-> 0]) = 0
    BY <1>1, <2>2, EventTypes, RankOf, RowStarts
  <2>6. Chain(handed', taken', contents') /\ Below(handed', taken', contents', 0 + 1)
    BY <1>1, <2>1, <2>4, <2>5, PutOrder
  <2>7. RowStart(0 + 1) = n + 2
    BY <1>2, RowStarts
  <2>8. handed' \in Seq(Event) /\ taken' \in Seq(Event) /\ contents' \in Seq(Event)
    BY DEF TypeOK
  <2>9. 0 + 1 \in Int /\ n + 2 \in Int /\ 0 + 1 <= n + 2
    BY <1>2
  <2>10. Below(handed', taken', contents', RowStart(rows' + 1))
    BY <2>1, <2>2, <2>6, <2>7, <2>8, <2>9, BelowMore
  <2>11. QED
    BY <2>1, <2>6, <2>10 DEF OrderInv, Produced
<1>8. CASE C_Baseline \/ C_Test
  <2>1. /\ UNCHANGED queue_vars /\ rows' = rows
        /\ c_pc \in {"baseline", "test"} /\ c_pc' \in {"test", "sleep", "done"}
    BY <1>8 DEF C_Baseline, C_Test, C_Move
  <2>2. QED
    BY <1>3, <2>1 DEF OrderInv, Produced
<1>10. CASE C_Ready
  <2>1. /\ c_pc = "sleep" /\ c_pc' = "collect" /\ rows' = rows
        /\ IF first_iteration THEN Enqueue("ready", rows + 1) ELSE UNCHANGED queue_vars
    BY <1>10 DEF C_Ready, C_Move
  <2>2. Produced(RowStart(rows + 1))
    BY <2>1 DEF OrderInv
  <2>3. CASE first_iteration
    <3>1. rows + 1 \in 0 .. MaxRows
      BY <1>5, <2>1 DEF CountInv
    <3>2. [kind |-> "ready", row |-> rows + 1] \in Event
          /\ Rank([kind |-> "ready", row |-> rows + 1]) = RowStart(rows + 1)
      BY <3>1, EventTypes, RankOf
    <3>3. Chain(handed', taken', contents') /\ Below(handed', taken', contents', RowStart(rows + 1) + 1)
      BY <1>1, <1>2, <2>1, <2>2, <2>3, <3>2, PutOrder
    <3>4. QED
      BY <2>1, <3>3 DEF OrderInv, Produced
  <2>4. CASE ~first_iteration
    <3>1. Produced(RowStart(rows + 1) + 1)
      BY <1>2, <1>4, <2>2
    <3>2. QED
      BY <1>3, <2>1, <2>4, <3>1 DEF OrderInv, Produced
  <2>5. QED
    BY <2>3, <2>4
<1>11. CASE C_Collect
  <2>1. c_pc = "collect" /\ c_pc' = "emit" /\ rows' = rows /\ UNCHANGED queue_vars
        /\ pending' \subseteq 1 .. n
    BY <1>11 DEF C_Collect, C_Move, n
  <2>2. Produced(RowStart(rows + 1) + 1)
    BY <2>1 DEF OrderInv
  <2>3. ASSUME NEW p \in 1 .. (n + 1) PROVE Produced(RowStart(rows + 1) + p)
    BY <1>2, <1>4, <2>2
  <2>4. n + 1 \in 1 .. (n + 1) /\ \A p \in pending' : p \in 1 .. (n + 1)
    BY <1>2, <2>1
  <2>5. QED
    BY <1>3, <2>1, <2>3, <2>4 DEF OrderInv, Produced
<1>12. CASE C_EmitMetric
  <2>1. PICK p \in pending :
          /\ c_pc = "emit" /\ c_pc' = "emit" /\ UNCHANGED <<rows, timer>>
          /\ \A q \in pending : p <= q
          /\ Enqueue(MetricOrder[p], rows + 1)
          /\ pending' = pending \ {p}
    BY <1>12 DEF C_EmitMetric, C_Move
  <2>2. p \in 1 .. n /\ rows + 1 \in 0 .. MaxRows
    BY <1>1, <1>5, <2>1 DEF CountInv
  <2>3. /\ [kind |-> MetricOrder[p], row |-> rows + 1] \in Event
        /\ Rank([kind |-> MetricOrder[p], row |-> rows + 1]) = RowStart(rows + 1) + p
    BY <2>2, EventTypes, RankOf
  <2>4. Produced(RowStart(rows + 1) + p) /\ RowStart(rows + 1) + p \in Int
    BY <1>2, <2>1, <2>2 DEF OrderInv
  <2>5. Chain(handed', taken', contents') /\ Below(handed', taken', contents', RowStart(rows + 1) + p + 1)
    BY <1>1, <2>1, <2>3, <2>4, PutOrder
  <2>6. handed' \in Seq(Event) /\ taken' \in Seq(Event) /\ contents' \in Seq(Event)
    BY DEF TypeOK
  <2>7. ASSUME NEW q \in 1 .. (n + 1), p < q
        PROVE  Below(handed', taken', contents', RowStart(rows + 1) + q)
    <3>1. /\ RowStart(rows + 1) + q \in Int /\ RowStart(rows + 1) + p + 1 \in Int
          /\ RowStart(rows + 1) + p + 1 <= RowStart(rows + 1) + q
      BY <1>2, <2>2, <2>7
    <3>2. QED
      BY <2>5, <2>6, <3>1, BelowMore
  <2>8. n + 1 \in 1 .. (n + 1) /\ p < n + 1 /\ \A q \in pending' : q \in 1 .. (n + 1) /\ p < q
    BY <1>1, <1>2, <2>1, <2>2
  <2>9. QED
    BY <2>1, <2>5, <2>7, <2>8 DEF OrderInv, Produced
<1>13. CASE C_ReadSize \/ C_ReadDropped
  <2>1. c_pc \in {"emit", "dropped"} /\ c_pc' \in {"dropped", "internal"} /\ rows' = rows
        /\ UNCHANGED queue_vars
    BY <1>13 DEF C_ReadSize, C_ReadDropped, C_Move
  <2>2. QED
    BY <1>3, <2>1 DEF OrderInv, Produced
<1>14. CASE C_EmitInternal
  <2>1. c_pc = "internal" /\ c_pc' = "test" /\ Enqueue("internal", rows + 1) /\ rows' = rows + 1
    BY <1>14 DEF C_EmitInternal, C_Move
  <2>2. rows + 1 \in 0 .. MaxRows /\ Produced(RowStart(rows + 1) + (n + 1))
    BY <1>5, <2>1 DEF CountInv, OrderInv
  <2>3. /\ [kind |-> "internal", row |-> rows + 1] \in Event
        /\ Rank([kind |-> "internal", row |-> rows + 1]) = RowStart(rows + 1) + (n + 1)
    BY <2>2, EventTypes, RankOf
  <2>4. Chain(handed', taken', contents')
        /\ Below(handed', taken', contents', RowStart(rows + 1) + (n + 1) + 1)
    <3>1. RowStart(rows + 1) + (n + 1) \in Int
      BY <1>2
    <3>2. QED
      BY <1>1, <2>1, <2>2, <2>3, <3>1, PutOrder
  <2>5. RowStart(rows + 1) + (n + 1) + 1 = RowStart(rows' + 1)
    BY <1>2, <2>1
  <2>6. QED
    BY <2>1, <2>4, <2>5 DEF OrderInv, Produced
<1>15. QED
  BY <1>7, <1>8, <1>10, <1>11, <1>12, <1>13, <1>14 DEF collector_thread

(* No step of the two threads disturbs the order. *)
LEMMA OrderStep ==
    ASSUME CoreInv, CoreInv', ThreadInv, OrderInv, [Next]_vars
    PROVE  OrderInv'
<1> USE DEF CoreInv
<1>1. /\ handed \in Seq(Event) /\ taken \in Seq(Event) /\ contents \in Seq(Event)
      /\ rows \in 0 .. MaxRows /\ pending \subseteq 1 .. n
      /\ RowStart(rows + 1) \in Nat /\ n \in Nat
      /\ RowStart(rows + 1) \in Int /\ RowStart(rows + 1) + 1 \in Int
      /\ RowStart(rows + 1) + (n + 1) \in Int
      /\ \A p \in pending : RowStart(rows + 1) + p \in Int
  <2>1. /\ handed \in Seq(Event) /\ taken \in Seq(Event) /\ contents \in Seq(Event)
        /\ rows \in 0 .. MaxRows /\ pending \subseteq 1 .. n
    BY DEF TypeOK, n
  <2>2. RowStart(rows + 1) \in Nat /\ n \in Nat
    <3>1. rows + 1 \in Nat
      BY <2>1
    <3>2. QED
      BY <3>1, RowStarts, Sizes
  <2>3. QED
    BY <2>1, <2>2
<1>2. ASSUME UNCHANGED <<queue_vars, handed, rows, pending>>,
             c_pc' = c_pc \/ c_pc' \in {"unborn", "warm_up"} \/ (c_pc = "sleep" /\ c_pc' = "done")
      PROVE  OrderInv'
  BY <1>2 DEF OrderInv, Produced, queue_vars
<1>3. CASE main_thread
  <2>1. /\ UNCHANGED <<queue_vars, handed, rows, pending>>
        /\ c_pc' = c_pc \/ c_pc' = "warm_up"
    BY <1>3 DEF main_thread, M_SpawnCollector, M_SpawnDelivery, M_JoinAbandoned,
       M_JoinCollector, M_JoinDelivery, M_Shutdown, M_Exit, M_Move, delivery_vars, collector_vars
  <2>2. QED
    BY <1>2, <2>1
<1>4. CASE collector_thread /\ UNCHANGED <<cfg, g_stop, main_vars, delivery_vars, env_vars>>
  BY <1>4, OrderCollector
<1>5. CASE delivery_thread /\ UNCHANGED collector_vars
  <2>1. CASE D_Enter \/ D_TestStop \/ D_TestSize \/ D_Flush \/ D_Pause \/ D_Return
    BY <1>2, <1>5, <2>1 DEF D_Enter, D_TestStop, D_TestSize, D_Flush, D_Pause, D_Return,
       collector_vars
  <2>2. ASSUME Chain(handed', taken', contents'),
               \A b \in Int : Produced(b) => Below(handed', taken', contents', b)
        PROVE  OrderInv'
    <3>1. UNCHANGED <<c_pc, rows, pending>>
      BY <1>5 DEF collector_vars
    <3>2. QED
      BY <1>1, <2>2, <3>1 DEF OrderInv, Produced
  <2>3. CASE D_Dequeue
    <3>1. Fifo!Take /\ handed' = handed /\ Chain(handed, taken, contents)
      BY <2>3 DEF D_Dequeue, OrderInv
    <3>2. /\ taken' \in Seq(Event) /\ contents' \in Seq(Event)
          /\ Len(taken') + Len(contents') = Len(contents)
          /\ \A i \in 1 .. Len(taken') : i \in 1 .. Len(contents) /\ taken'[i] = contents[i]
          /\ \A i \in 1 .. Len(contents') :
               i + Len(taken') \in 1 .. Len(contents) /\ contents'[i] = contents[i + Len(taken')]
      BY <3>1, TakeEffect
    <3>3. /\ Chain(handed, taken', contents')
          /\ \A b \in Int : Below(handed, taken, contents, b) => Below(handed, taken', contents', b)
      BY <1>1, <3>1, <3>2, ChainTake
    <3>4. QED
      BY <2>2, <3>1, <3>3 DEF Produced
  <2>4. CASE D_Emit
    <3>1. /\ handed' = Append(handed, Head(taken)) /\ taken' = Tail(taken) /\ contents' = contents
          /\ d_pc = "emit" /\ Chain(handed, taken, contents)
      BY <2>4 DEF D_Emit, D_Move, OrderInv
    <3>2. taken # << >>
      BY <3>1 DEF AccountInv
    <3>3. QED
      BY <1>1, <2>2, <3>1, <3>2, ChainEmit DEF Produced
  <2>5. QED
    BY <1>5, <2>1, <2>3, <2>4 DEF delivery_thread
<1>6. CASE Tick \/ \E sig \in Sigs : handle_sigint(sig)
  <2>1. /\ UNCHANGED <<queue_vars, handed, rows, pending>>
        /\ c_pc' = c_pc \/ (c_pc = "sleep" /\ c_pc' = "done")
    BY <1>6 DEF Tick, handle_sigint, delivery_vars
  <2>2. QED
    BY <1>2, <2>1
<1>7. CASE UNCHANGED <<collector_vars, delivery_vars, queue_vars>>
  BY <1>2, <1>7 DEF collector_vars, delivery_vars
<1>8. CASE UNCHANGED vars
  BY <1>7, <1>8 DEF vars
<1>9. QED
  BY Moves, <1>3, <1>4, <1>5, <1>6, <1>7, <1>8

(***************************************************************************)
(* From queue_enqueue to output_emit_event the events stay in the order    *)
(* they were composed, none comes twice, and each is handed on, in the     *)
(* batch, queued, or counted as dropped; for every capacity and batch size *)
(* and however the three threads and the signals interleave.               *)
(***************************************************************************)
THEOREM InOrder == Spec => []DeliveryInOrder
<1>1. Init => ThreadInv /\ OrderInv
  BY DEF Init, ThreadInv, OrderInv, Chain, Rising, Before, Fifo!Empty
<1>2. CoreInv /\ OrderInv => DeliveryInOrder
  <2> SUFFICES ASSUME CoreInv, OrderInv PROVE DeliveryInOrder
    OBVIOUS
  <2>1. handed \in Seq(Event) /\ taken \in Seq(Event) /\ contents \in Seq(Event)
    BY DEF CoreInv, TypeOK
  <2>2. Rising(Surviving)
    BY <2>1, ChainWhole DEF OrderInv, Surviving
  <2>3. Len(Surviving) = Len(handed) + Len(taken) + Len(contents)
    BY <2>1 DEF Surviving
  <2>4. QED
    BY <2>2, <2>3 DEF DeliveryInOrder, Rising, CoreInv, AccountInv
<1>3. QED
  BY <1>1, <1>2, CoreInit, CoreStep, ThreadStep, OrderStep, PTL DEF Spec
-----------------------------------------------------------------------------
(* Places at which the collector may still put an event into this row. *)
InRow == {"sleep", "collect", "emit", "dropped", "internal"}

(* What the steps of the collector have in common: a row is entered only   *)
(* through a loop test that found g_stop clear.                            *)
LEMMA CollectorMoves ==
    ASSUME TypeOK, collector_thread
    PROVE  /\ c_pc # "done" /\ c_pc # "unborn"
           /\ timer' = timer \/ c_pc' = "sleep"
           /\ c_pc = "sleep" => timer = 0
           /\ \/ /\ UNCHANGED <<queue_vars, rows>>
                 /\ c_pc' \in InRow =>
                      \/ c_pc \in InRow /\ c_pc' # "sleep"
                      \/ ~g_stop /\ c_pc = "test" /\ c_pc' = "sleep" /\ timer' = Interval
              \/ c_pc = "warm_up" /\ c_pc' = "baseline" /\ Enqueue("warming_up", 0) /\ rows' = rows
              \/ /\ c_pc \in InRow
                 /\ \E k \in Metrics \cup {"ready", "internal"} : Enqueue(k, rows + 1)
                 /\ \/ c_pc' \in InRow \ {"sleep"} /\ rows' = rows
                    \/ c_pc' = "test"
<1> USE DEF InRow
<1>1. CASE C_WarmUp
  BY <1>1 DEF C_WarmUp, C_Move
<1>2. CASE C_Baseline \/ C_Collect \/ C_ReadSize \/ C_ReadDropped
  BY <1>2 DEF C_Baseline, C_Collect, C_ReadSize, C_ReadDropped, C_Move
<1>3. CASE C_Test
  BY <1>3 DEF C_Test, C_Move, KeepSampling
<1>4. CASE C_Ready
  BY <1>4 DEF C_Ready, C_Move
<1>5. CASE C_EmitMetric
  <2>1. PICK p \in pending : Enqueue(MetricOrder[p], rows + 1) /\ c_pc = "emit" /\ c_pc' = "emit" /\ UNCHANGED <<rows, timer>>
    BY <1>5 DEF C_EmitMetric, C_Move
  <2>2. MetricOrder[p] \in Metrics
    BY DEF TypeOK, Metrics
  <2>3. QED
    BY <2>1, <2>2
<1>6. CASE C_EmitInternal
  BY <1>6 DEF C_EmitInternal, C_Move
<1>7. QED
  BY <1>1, <1>2, <1>3, <1>4, <1>5, <1>6 DEF collector_thread

(* What the steps of main have in common. *)
LEMMA MainMoves ==
    ASSUME main_thread
    PROVE  /\ UNCHANGED <<cfg, queue_vars, env_vars, timer, rows, first_iteration, ready, pending,
                          internal_metrics, handed>>
           /\ rc' # 0 \/ rc' = rc
           /\ \/ g_stop' = g_stop
              \/ g_stop' = TRUE /\ c_pc = "done" /\ c_pc' = "done"
              \/ g_stop' = TRUE /\ rc' # 0
           /\ c_pc' = c_pc \/ (m_pc = "spawn_collector" /\ c_pc' = "warm_up")
           /\ d_pc' = d_pc \/ (m_pc = "spawn_delivery" /\ d_pc' = "enter")
  BY DEF main_thread, M_SpawnCollector, M_SpawnDelivery, M_JoinAbandoned, M_JoinCollector,
     M_JoinDelivery, M_Shutdown, M_Exit, M_Move, collector_vars, delivery_vars
-----------------------------------------------------------------------------
(* A signal has set g_stop, and once that is set the sleep under way is    *)
(* the last one.                                                           *)
StopInv ==
    /\ Signalled => g_stop = TRUE
    /\ g_stop = FALSE => late = 0
    /\ late <= Interval
    /\ c_pc = "sleep" => late + timer <= Interval
    /\ timer > 0 => c_pc = "sleep"

(* Once the flag is up, the collector's time passes only while its last    *)
(* sleep runs out.                                                         *)
LEMMA StopStep ==
    ASSUME TypeOK, ThreadInv, StopInv, [Next]_vars
    PROVE  StopInv'
<1>1. /\ timer \in 0 .. Interval /\ late \in 0 .. LateCap /\ armed \subseteq Sigs
      /\ Interval \in Nat /\ LateCap \in Nat /\ g_stop \in BOOLEAN
  BY TimeAssumption DEF TypeOK
<1> USE DEF StopInv, Signalled
<1>2. CASE main_thread
  BY <1>1, <1>2, MainMoves DEF ThreadInv, env_vars
<1>3. CASE collector_thread /\ UNCHANGED <<g_stop, env_vars>>
  BY <1>1, <1>3, CollectorMoves DEF InRow, env_vars
<1>4. CASE UNCHANGED <<g_stop, collector_vars, env_vars>>
  BY <1>4 DEF collector_vars, env_vars
<1>5. CASE Tick
  <2>1. /\ UNCHANGED <<g_stop, armed, c_pc>>
        /\ timer' = IF timer > 0 THEN timer - 1 ELSE 0
        /\ late' = IF (g_stop /\ timer > 0) /\ late < LateCap THEN late + 1 ELSE late
    BY <1>5 DEF Tick, Less, Count
  <2>2. QED
    BY <1>1, <2>1
<1>6. ASSUME NEW sig \in Sigs, handle_sigint(sig) PROVE StopInv'
  BY <1>1, <1>6 DEF handle_sigint
<1>7. CASE UNCHANGED vars
  BY <1>7, <1>4 DEF vars
<1>8. QED
  BY Moves, <1>2, <1>3, <1>4, <1>5, <1>6, <1>7

(***************************************************************************)
(* Whoever sets g_stop and whenever, also between the collector's loop     *)
(* test and its sleep, the collector sleeps at most one more poll interval *)
(* before it ends, however long the output makes the other threads wait.   *)
(***************************************************************************)
THEOREM Latency == Spec => []StopLatency
<1>1. Init => ThreadInv /\ StopInv
  BY TimeAssumption DEF Init, ThreadInv, StopInv, Signalled
<1>2. CoreInv /\ StopInv => TypeOK /\ StopLatency
  BY DEF CoreInv, StopInv, StopLatency
<1>3. QED
  BY <1>1, <1>2, CoreInit, CoreStep, ThreadStep, StopStep, PTL DEF Spec
-----------------------------------------------------------------------------
(* Where the delivery thread is once it has left its loop. *)
Leaving == {"final", "return", "done"}

(* Without a signal or a failed pthread_create, g_stop is set only after   *)
(* the collector has ended; and the delivery thread leaves its loop only   *)
(* after it has seen g_stop and then an empty queue.                       *)
DrainInv ==
    /\ g_stop = TRUE /\ ~Signalled /\ rc = 0 => c_pc = "done"
    /\ d_pc = "size" => g_stop = TRUE
    /\ d_pc \in Leaving /\ cfg.queue => g_stop = TRUE
    /\ d_pc \in Leaving /\ ~Signalled /\ rc = 0 => contents = << >>

(* How the delivery thread comes to leave its loop. *)
LEMMA DeliveryMoves ==
    ASSUME TypeOK, delivery_thread
    PROVE  /\ Len(contents') <= Len(contents)
           /\ accepted' = accepted /\ dropped' = dropped
           /\ d_pc' = "size" => g_stop
           /\ d_pc' \in Leaving => contents' = contents
           /\ d_pc' \in Leaving /\ cfg.queue =>
                d_pc \in Leaving \/ (d_pc = "size" /\ contents = << >>)
<1>1. contents \in Seq(Event)
  BY DEF TypeOK
<1>2. CASE D_Enter \/ D_TestStop \/ D_Pause
  BY <1>1, <1>2 DEF D_Enter, D_TestStop, D_Pause, D_Move, queue_vars, Leaving
<1>3. CASE D_TestSize
  BY <1>1, <1>3 DEF D_TestSize, D_Move, queue_vars, queue_size, Leaving
<1>4. CASE D_Dequeue
  <2>1. Fifo!Take /\ d_pc' \in {"emit", "pause"}
    BY <1>4 DEF D_Dequeue, D_Move
  <2>2. /\ Len(taken') + Len(contents') = Len(contents) /\ accepted' = accepted /\ dropped' = dropped
        /\ taken' \in Seq(Event) /\ contents' \in Seq(Event)
    BY <2>1, TakeEffect
  <2>3. Len(contents') <= Len(contents)
    BY <1>1, <2>2
  <2>4. QED
    BY <2>1, <2>2, <2>3 DEF Leaving
<1>5. CASE D_Emit
  BY <1>1, <1>5 DEF D_Emit, D_Move, Leaving
<1>6. CASE D_Flush \/ D_Return
  BY <1>1, <1>6 DEF D_Flush, D_Return, D_Move, queue_vars, Leaving
<1>7. QED
  BY <1>2, <1>3, <1>4, <1>5, <1>6 DEF delivery_thread

(* Without a signal the flag waits for the collector, and the delivery     *)
(* thread for an empty queue.                                              *)
LEMMA DrainStep ==
    ASSUME CoreInv, CoreInv', ThreadInv, StopInv, DrainInv, [Next]_vars
    PROVE  DrainInv'
<1> USE DEF DrainInv, Signalled, Leaving
<1>1. CASE main_thread
  BY <1>1, MainMoves DEF ThreadInv, queue_vars, env_vars
<1>2. CASE collector_thread /\ UNCHANGED <<cfg, g_stop, main_vars, delivery_vars, env_vars>>
  <2>1. c_pc # "done"
    BY <1>2, CollectorMoves DEF CoreInv
  <2>2. ~cfg.queue => contents' = << >>
    BY <1>2 DEF CoreInv, AccountInv
  <2>3. QED
    BY <1>2, <2>1, <2>2 DEF main_vars, delivery_vars, env_vars
<1>3. CASE delivery_thread /\ d_pc # "done" /\ UNCHANGED <<cfg, g_stop, main_vars, collector_vars, env_vars>>
  <2>1. ~cfg.queue => contents' = << >>
    BY <1>3 DEF CoreInv, AccountInv
  <2>2. TypeOK
    BY DEF CoreInv
  <2>3. g_stop \in BOOLEAN
    BY <2>2 DEF TypeOK
  <2>4. QED
    BY <1>3, <2>1, <2>2, <2>3, DeliveryMoves DEF main_vars, collector_vars, env_vars
<1>4. CASE Tick
  BY <1>4 DEF Tick, main_vars, delivery_vars, queue_vars
<1>5. ASSUME NEW sig \in Sigs, handle_sigint(sig) PROVE DrainInv'
  BY <1>5 DEF handle_sigint, main_vars, delivery_vars, queue_vars
<1>6. CASE UNCHANGED <<cfg, g_stop, rc, collector_vars, delivery_vars, queue_vars, env_vars>>
  BY <1>6 DEF collector_vars, delivery_vars, queue_vars, env_vars
<1>7. CASE UNCHANGED vars
  BY <1>6, <1>7 DEF vars, main_vars
<1>8. QED
  BY Moves, <1>1, <1>2, <1>3, <1>4, <1>5, <1>6, <1>7

(***************************************************************************)
(* A run that ends by itself loses nothing silently: main sets g_stop only *)
(* after pthread_join of the collector, and the delivery thread looks at   *)
(* the queue after it has seen the flag.                                   *)
(***************************************************************************)
THEOREM Drained == Spec => []DrainedAtExit
<1>1. Init => ThreadInv /\ StopInv /\ DrainInv
  BY TimeAssumption DEF Init, ThreadInv, StopInv, DrainInv, Leaving, Signalled
<1>2. CoreInv => TypeOK
  BY DEF CoreInv
<1>3. CoreInv /\ ThreadInv /\ DrainInv => DrainedAtExit
  <2> SUFFICES ASSUME CoreInv, ThreadInv, DrainInv, m_pc = "exited", rc = 0, ~Signalled
               PROVE  Len(handed) + dropped = accepted
    BY DEF DrainedAtExit
  <2>1. contents = << >> /\ d_pc = "done"
    BY DEF ThreadInv, DrainInv, Leaving
  <2>2. taken = << >>
    BY <2>1 DEF CoreInv, AccountInv
  <2>3. Len(handed) + Len(taken) + Len(contents) + dropped = accepted
    BY DEF CoreInv, AccountInv
  <2>4. Len(taken) = 0 /\ Len(contents) = 0 /\ Len(handed) \in Nat /\ dropped \in Nat
    BY <2>1, <2>2 DEF CoreInv, TypeOK
  <2>5. QED
    BY <2>3, <2>4
<1>4. QED
  BY <1>1, <1>2, <1>3, CoreInit, CoreStep, ThreadStep, StopStep, DrainStep, PTL DEF Spec
-----------------------------------------------------------------------------
AllInRow(r) == \A i \in 1 .. Len(contents) : contents[i].row = r

(* Once the delivery thread has gone, what is queued is of one row, and of *)
(* the row the collector is in, if it is in one.                           *)
LossInv ==
    d_pc \in Leaving /\ cfg.queue =>
        /\ \A i, j \in 1 .. Len(contents) : contents[i].row = contents[j].row
        /\ c_pc \in InRow => AllInRow(rows + 1)

(* An event put among others of its row. *)
LEMMA PutRow ==
    ASSUME TypeOK, AccountInv, NEW k, NEW r, [kind |-> k, row |-> r] \in Event,
           Enqueue(k, r), AllInRow(r)
    PROVE  \A i \in 1 .. Len(contents') : contents'[i].row = r
<1>1. CASE ~cfg.queue
  BY <1>1, EnqueueEffect DEF AllInRow
<1>2. CASE cfg.queue
  <2>1. PICK d \in {0, 1} :
          /\ contents'[Len(contents')] = [kind |-> k, row |-> r]
          /\ \A i \in 1 .. Len(contents') - 1 :
               i + d \in 1 .. Len(contents) /\ contents'[i] = contents[i + d]
    BY <1>2, EnqueueEffect
  <2>2. contents' \in Seq(Event)
    BY EnqueueEffect
  <2>3. ASSUME NEW i \in 1 .. Len(contents') PROVE contents'[i].row = r
    <3>1. CASE i = Len(contents')
      BY <2>1, <3>1
    <3>2. CASE i # Len(contents')
      <4>1. i \in 1 .. Len(contents') - 1
        BY <2>2, <3>2
      <4>2. QED
        BY <2>1, <4>1 DEF AllInRow
    <3>3. QED
      BY <3>1, <3>2
  <2>4. QED
    BY <2>3
<1>3. QED
  BY <1>1, <1>2

(* What is enqueued after the delivery thread has gone is of one row. *)
LEMMA LossStep ==
    ASSUME CoreInv, CoreInv', ThreadInv, DrainInv, LossInv, [Next]_vars
    PROVE  LossInv'
<1>1. TypeOK /\ AccountInv /\ CountInv
  BY DEF CoreInv
<1>2. ASSUME UNCHANGED <<cfg, d_pc, contents, rows>>, c_pc' \in InRow => c_pc \in InRow
      PROVE  LossInv'
  BY <1>2 DEF LossInv, AllInRow
<1>3. CASE main_thread
  <2>1. /\ UNCHANGED <<cfg, contents, rows>>
        /\ c_pc' = c_pc \/ c_pc' = "warm_up"
        /\ d_pc' = d_pc \/ d_pc' = "enter"
    BY <1>3, MainMoves DEF queue_vars
  <2>2. CASE d_pc' = d_pc
    BY <1>2, <2>1, <2>2 DEF InRow
  <2>3. CASE d_pc' = "enter"
    BY <2>3 DEF LossInv, Leaving
  <2>4. QED
    BY <2>1, <2>2, <2>3
<1>4. CASE collector_thread /\ UNCHANGED <<cfg, g_stop, main_vars, delivery_vars, env_vars>>
  <2> SUFFICES ASSUME d_pc \in Leaving, cfg.queue
               PROVE  LossInv'
    BY <1>4 DEF LossInv, delivery_vars
  <2>1. g_stop = TRUE
    BY DEF DrainInv
  <2>2. CASE UNCHANGED <<queue_vars, rows>> /\ (c_pc' \in InRow => c_pc \in InRow)
    BY <1>2, <1>4, <2>2 DEF queue_vars, delivery_vars
  <2>3. CASE c_pc = "warm_up" /\ c_pc' = "baseline" /\ Enqueue("warming_up", 0)
    <3>1. accepted = 0 /\ rows = 0 /\ rows \in 0 .. MaxRows
      BY <1>1, <2>3 DEF CountInv, TypeOK
    <3>2. [kind |-> "warming_up", row |-> 0] \in Event
      BY <3>1, EventTypes
    <3>3. Len(contents) = 0
      <4>1. Len(handed) + Len(taken) + Len(contents) + dropped = 0
        BY <1>1, <3>1 DEF AccountInv
      <4>2. Len(handed) \in Nat /\ Len(taken) \in Nat /\ Len(contents) \in Nat /\ dropped \in Nat
        BY <1>1, TypeParts, Sizes DEF QueueType
      <4>3. QED
        BY <4>1, <4>2
    <3>4. AllInRow(0)
      BY <3>3 DEF AllInRow
    <3>5. \A i \in 1 .. Len(contents') : contents'[i].row = 0
      BY <1>1, <2>3, <3>2, <3>4, PutRow
    <3>6. QED
      BY <2>3, <3>5 DEF LossInv, InRow
  <2>4. CASE /\ c_pc \in InRow
             /\ \E k \in Metrics \cup {"ready", "internal"} : Enqueue(k, rows + 1)
             /\ rows' = rows \/ c_pc' \notin InRow
    <3>1. PICK k \in Metrics \cup {"ready", "internal"} : Enqueue(k, rows + 1)
      BY <2>4
    <3>2. rows + 1 \in 0 .. MaxRows
      BY <1>1, <2>4, TimeAssumption DEF CountInv, TypeOK, InRow
    <3>3. [kind |-> k, row |-> rows + 1] \in Event
      BY <3>2 DEF Event
    <3>4. AllInRow(rows + 1)
      BY <2>4 DEF LossInv
    <3>5. \A i \in 1 .. Len(contents') : contents'[i].row = rows + 1
      BY <1>1, <3>1, <3>3, <3>4, PutRow
    <3>6. QED
      BY <2>4, <3>5 DEF LossInv, AllInRow
  <2>5. QED
    BY <1>1, <1>4, <2>1, <2>2, <2>3, <2>4, CollectorMoves DEF InRow
<1>5. CASE delivery_thread /\ UNCHANGED <<cfg, collector_vars>>
  <2> SUFFICES ASSUME d_pc' \in Leaving, cfg.queue
               PROVE  LossInv'
    BY <1>5 DEF LossInv
  <2>1. /\ contents' = contents
        /\ d_pc \in Leaving \/ contents = << >>
    BY <1>1, <1>5, DeliveryMoves
  <2>2. CASE d_pc \in Leaving
    BY <1>5, <2>1, <2>2 DEF LossInv, AllInRow, collector_vars
  <2>3. CASE contents = << >>
    <3>1. Len(contents') = 0
      BY <2>1, <2>3
    <3>2. QED
      BY <3>1 DEF LossInv, AllInRow
  <2>4. QED
    BY <2>1, <2>2, <2>3
<1>6. CASE Tick \/ \E sig \in Sigs : handle_sigint(sig)
  <2>1. UNCHANGED <<cfg, d_pc, contents, rows>> /\ (c_pc' \in InRow => c_pc \in InRow)
    BY <1>6 DEF Tick, handle_sigint, delivery_vars, queue_vars, InRow
  <2>2. QED
    BY <1>2, <2>1
<1>7. CASE UNCHANGED <<cfg, collector_vars, delivery_vars, queue_vars>>
  BY <1>2, <1>7 DEF collector_vars, delivery_vars, queue_vars
<1>8. CASE UNCHANGED vars
  BY <1>7, <1>8 DEF vars
<1>9. QED
  BY Moves, <1>3, <1>4, <1>5, <1>6, <1>7, <1>8

(***************************************************************************)
(* What main's return with 0 leaves in the queue, after a signal, is all   *)
(* of one row: the one the collector was in when the delivery thread left. *)
(***************************************************************************)
THEOREM LossBounded == Spec => []LossWithinOneRow
<1>1. Init => ThreadInv /\ StopInv /\ DrainInv /\ LossInv
  BY TimeAssumption DEF Init, ThreadInv, StopInv, DrainInv, LossInv, Leaving, Signalled
<1>2. CoreInv => TypeOK
  BY DEF CoreInv
<1>3. CoreInv /\ ThreadInv /\ LossInv => LossWithinOneRow
  <2> SUFFICES ASSUME CoreInv, ThreadInv, LossInv, m_pc = "exited", rc = 0,
                      NEW i \in 1 .. Len(contents), NEW j \in 1 .. Len(contents)
               PROVE  contents[i].row = contents[j].row
    BY DEF LossWithinOneRow
  <2>1. d_pc = "done"
    BY DEF ThreadInv
  <2>2. CASE cfg.queue
    BY <2>1, <2>2 DEF LossInv, Leaving
  <2>3. CASE ~cfg.queue
    <3>1. Len(contents) = 0
      BY <2>3 DEF CoreInv, AccountInv
    <3>2. QED
      BY <3>1
  <2>4. QED
    BY <2>2, <2>3
<1>4. QED
  BY <1>1, <1>2, <1>3, CoreInit, CoreStep, ThreadStep, StopStep, DrainStep, LossStep, PTL DEF Spec
-----------------------------------------------------------------------------
(* Between its two questions to the queue the collector puts nothing in. *)
SelfInv ==
    cfg.queue =>
        /\ c_pc \in {"dropped", "internal"} =>
             /\ Len(contents) <= internal_metrics.buffer_depth
             /\ internal_metrics.buffer_depth + dropped <= accepted
        /\ c_pc = "internal" => internal_metrics.events_dropped_total = dropped

(* Between the two readings only the delivery thread moves the queue. *)
LEMMA SelfStep ==
    ASSUME CoreInv, ThreadInv, SelfInv, [Next]_vars
    PROVE  SelfInv'
<1>1. TypeOK /\ AccountInv
  BY DEF CoreInv
<1>2. ASSUME UNCHANGED <<cfg, contents, accepted, dropped, internal_metrics>>,
             c_pc' \in {"dropped", "internal"} => c_pc' = c_pc
      PROVE  SelfInv'
  BY <1>2 DEF SelfInv
<1>3. CASE main_thread
  BY <1>2, <1>3, MainMoves DEF queue_vars
<1>4. CASE collector_thread /\ UNCHANGED <<cfg, g_stop, main_vars, delivery_vars, env_vars>>
  <2>1. CASE c_pc' \notin {"dropped", "internal"}
    BY <2>1 DEF SelfInv
  <2>2. CASE C_ReadSize
    <3>1. /\ c_pc' = "dropped" /\ UNCHANGED <<contents, accepted, dropped>>
          /\ internal_metrics' = [internal_metrics EXCEPT !.buffer_depth = queue_size]
      BY <2>2 DEF C_ReadSize, C_Move, queue_vars
    <3>2. internal_metrics'.buffer_depth = queue_size
      BY <1>1, <3>1 DEF TypeOK
    <3>3. Len(contents) + dropped <= accepted
      <4>1. /\ Len(handed) \in Nat /\ Len(taken) \in Nat /\ Len(contents) \in Nat
            /\ dropped \in Nat /\ accepted \in Nat
        BY <1>1, TypeParts, Sizes DEF QueueType
      <4>2. Len(handed) + Len(taken) + Len(contents) + dropped = accepted
        BY <1>1 DEF AccountInv
      <4>3. QED
        BY <4>1, <4>2
    <3>4. Len(contents) \in Nat
      BY <1>1 DEF TypeOK
    <3>5. QED
      BY <1>4, <3>1, <3>2, <3>3, <3>4 DEF SelfInv, queue_size
  <2>3. CASE C_ReadDropped
    <3>1. /\ c_pc = "dropped" /\ c_pc' = "internal" /\ UNCHANGED <<contents, accepted, dropped>>
          /\ internal_metrics' = [internal_metrics EXCEPT !.events_dropped_total = queue_dropped_count]
      BY <2>3 DEF C_ReadDropped, C_Move, queue_vars
    <3>2. /\ internal_metrics'.events_dropped_total = queue_dropped_count
          /\ internal_metrics'.buffer_depth = internal_metrics.buffer_depth
      BY <1>1, <3>1 DEF TypeOK
    <3>3. QED
      BY <1>4, <3>1, <3>2 DEF SelfInv, queue_dropped_count
  <2>4. QED
    BY <1>4, <2>1, <2>2, <2>3 DEF collector_thread, C_WarmUp, C_Baseline, C_Test, C_Ready, C_Collect,
       C_EmitMetric, C_EmitInternal, C_Move
<1>5. CASE delivery_thread /\ UNCHANGED <<cfg, collector_vars>>
  <2>1. /\ Len(contents') <= Len(contents) /\ accepted' = accepted /\ dropped' = dropped
        /\ UNCHANGED <<cfg, c_pc, internal_metrics>>
    BY <1>1, <1>5, DeliveryMoves DEF collector_vars
  <2>2. /\ Len(contents) \in Int /\ Len(contents') \in Int
        /\ internal_metrics.buffer_depth \in Int
    <3>1. contents' \in Seq(Event)
      BY <1>5, CoreDelivery DEF CoreInv, TypeOK
    <3>2. QED
      BY <1>1, <3>1, QueueAssumption DEF TypeOK
  <2>3. QED
    BY <2>1, <2>2 DEF SelfInv
<1>6. CASE Tick \/ \E sig \in Sigs : handle_sigint(sig)
  <2>1. /\ UNCHANGED <<cfg, contents, accepted, dropped, internal_metrics>>
        /\ c_pc' \in {"dropped", "internal"} => c_pc' = c_pc
    BY <1>6 DEF Tick, handle_sigint, queue_vars
  <2>2. QED
    BY <1>2, <2>1
<1>7. CASE UNCHANGED <<cfg, collector_vars, queue_vars>>
  BY <1>2, <1>7 DEF collector_vars, queue_vars
<1>8. CASE UNCHANGED vars
  BY <1>7, <1>8 DEF vars
<1>9. QED
  BY Moves, <1>3, <1>4, <1>5, <1>6, <1>7, <1>8

(***************************************************************************)
(* The numbers of one syswatch.internal event fit together although they   *)
(* are read under two lock acquisitions while the delivery thread runs.    *)
(***************************************************************************)
THEOREM SelfConsistent == Spec => []SelfMetricsConsistent
<1>1. Init => ThreadInv /\ SelfInv
  BY DEF Init, ThreadInv, SelfInv
<1>2. CoreInv /\ SelfInv => SelfMetricsConsistent
  <2> SUFFICES ASSUME CoreInv, SelfInv, c_pc = "internal", cfg.queue
               PROVE  accepted <= internal_metrics.events_emitted_total + 2 + Len(MetricOrder)
    BY DEF SelfInv, SelfMetricsConsistent
  <2>1. accepted <= 2 + rows * RowLen + n /\ internal_metrics.events_emitted_total = 5 * rows
    BY DEF CoreInv, CountInv
  <2>2. rows \in Nat /\ accepted \in Nat
    BY TimeAssumption, Sizes DEF CoreInv, TypeOK
  <2>3. rows * RowLen \in Nat /\ rows * RowLen <= 5 * rows
    <3>1. ASSUME NEW a \in Nat, NEW c \in 1 .. 5 PROVE a * c \in Nat /\ a * c <= 5 * a
      <4>1. c = 1 \/ c = 2 \/ c = 3 \/ c = 4 \/ c = 5
        OBVIOUS
      <4>2. QED
        BY <4>1
    <3>2. QED
      BY <2>2, <3>1, Sizes
  <2>4. n = Len(MetricOrder) /\ n \in Nat
    BY Sizes DEF n
  <2>5. QED
    BY <2>1, <2>2, <2>3, <2>4
<1>3. QED
  BY <1>1, <1>2, CoreInit, CoreStep, ThreadStep, SelfStep, PTL DEF Spec
-----------------------------------------------------------------------------
(***************************************************************************)
(* The other side of the findings: what bounds them.                       *)
(***************************************************************************)

(* With an output that never waits, the program is idle after a signal     *)
(* only while the collector sleeps.                                        *)
GraceInv ==
    /\ waiting = 0
    /\ ~Signalled => grace = 0
    /\ grace <= Interval
    /\ c_pc = "sleep" => grace + timer <= Interval

(* The collector goes to sleep only while no signal has come. *)
LEMMA GraceStep ==
    ASSUME OutputWait = 0, TypeOK, TypeOK', ThreadInv, StopInv, GraceInv, [Next]_vars
    PROVE  GraceInv'
<1>1. /\ timer \in 0 .. Interval /\ grace \in 0 .. GraceCap /\ armed \subseteq Sigs
      /\ Interval \in Nat /\ GraceCap \in Nat /\ waiting' = 0
  BY TimeAssumption DEF TypeOK
<1> USE DEF GraceInv, StopInv, Signalled
<1>2. CASE main_thread
  BY <1>1, <1>2, MainMoves DEF ThreadInv, env_vars
<1>3. CASE collector_thread /\ UNCHANGED env_vars
  BY <1>1, <1>3, CollectorMoves DEF InRow, env_vars
<1>4. CASE UNCHANGED <<collector_vars, env_vars>>
  BY <1>1, <1>4 DEF collector_vars, env_vars
<1>5. CASE Tick
  <2>1. /\ UNCHANGED <<armed, c_pc>>
        /\ timer > 0
        /\ timer' = timer - 1
        /\ grace' = grace \/ (Signalled /\ grace' = grace + 1)
    BY <1>1, <1>5 DEF Tick, Less, Count
  <2>2. QED
    BY <1>1, <2>1
<1>6. ASSUME NEW sig \in Sigs, handle_sigint(sig) PROVE GraceInv'
  BY <1>1, <1>6 DEF handle_sigint
<1>7. CASE UNCHANGED vars
  BY <1>7, <1>4 DEF vars
<1>8. QED
  BY Moves, <1>2, <1>3, <1>4, <1>5, <1>6, <1>7

(***************************************************************************)
(* With an interval of at most five seconds the deadline of                *)
(* docs/CONTRACT.md is met by an output that does not wait (stdout, file:  *)
(* OutputWait = 0), whichever thread takes the signal.  Both conditions    *)
(* are needed: the collector's sleep and the requests and backoff sleeps   *)
(* of http_post (output.c) each pass the deadline on their own.            *)
(***************************************************************************)
THEOREM ExitsInTime ==
    ASSUME Interval <= 5, OutputWait = 0
    PROVE  Spec => []ExitWithinFiveSeconds
<1>1. Init => ThreadInv /\ StopInv /\ GraceInv
  BY TimeAssumption DEF Init, ThreadInv, StopInv, GraceInv, Signalled
<1>2. ThreadInv /\ StopInv /\ GraceInv /\ TypeOK /\ TypeOK' /\ [Next]_vars => GraceInv'
  BY GraceStep
<1>3. TypeOK /\ GraceInv => ExitWithinFiveSeconds
  <2> SUFFICES ASSUME TypeOK, GraceInv PROVE grace <= 5
    BY DEF ExitWithinFiveSeconds
  <2>1. grace \in Nat /\ Interval \in Nat /\ grace <= Interval
    BY TimeAssumption DEF TypeOK, GraceInv
  <2>2. QED
    BY <2>1
<1>4. CoreInv => TypeOK
  BY DEF CoreInv
<1>5. QED
  BY <1>1, <1>2, <1>3, <1>4, CoreInit, CoreStep, ThreadStep, StopStep, PTL DEF Spec

(***************************************************************************)
(* A normal exit that no signal brought about has flushed the queue: only  *)
(* a signal can make the delivery thread leave before the collector        *)
(* (delivery_thread, main).                                                *)
(***************************************************************************)
THEOREM FlushedWithoutSignal == Spec => [](~Signalled => FlushedAtExit)
<1>1. Init => ThreadInv /\ StopInv /\ DrainInv
  BY TimeAssumption DEF Init, ThreadInv, StopInv, DrainInv, Leaving, Signalled
<1>2. CoreInv => TypeOK
  BY DEF CoreInv
<1>3. ThreadInv /\ DrainInv => (~Signalled => FlushedAtExit)
  BY DEF ThreadInv, DrainInv, Leaving, FlushedAtExit
<1>4. QED
  BY <1>1, <1>2, <1>3, CoreInit, CoreStep, ThreadStep, StopStep, DrainStep, PTL DEF Spec
=============================================================================
