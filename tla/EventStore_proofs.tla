------------------------- MODULE EventStore_proofs -------------------------
(***************************************************************************)
(* Proofs about the web UI's event store, for every number of concurrent   *)
(* requests, every body, every limit and every size of the history.        *)
(***************************************************************************)
EXTENDS EventStore, FiniteSetTheorems, SequenceTheorems, TLAPS

(***************************************************************************)
(* What a request's place in its handler says of its query, its lock, its  *)
(* answer and the items it has yet to store.                               *)
(***************************************************************************)
AnswerInv ==
    /\ DOMAIN answer = Requests
    /\ \A r \in Requests : pc[r] \in {"idle", "stamp", "acquire", "store"} => answer[r] = None
BrowserInv ==
    \A r \in Browsers :
        /\ todo[r] = {} /\ pc[r] \in {"idle", "acquire", "dump", "done"}
        /\ pc[r] = "idle" => query[r] = NoQuery
        /\ pc[r] # "idle" => query[r] \in Reads
        /\ pc[r] = "dump" => query[r].kind = "latest"
SenderInv ==
    \A r \in Senders :
        /\ pc[r] # "dump"
        /\ pc[r] = "idle" => query[r] = NoQuery
        /\ query[r] \in {NoQuery, [kind |-> "malformed"]} \cup Writes
        /\ pc[r] \in {"stamp", "acquire", "store"} =>
             query[r] \in Writes /\ ToStore(r) # {} /\ todo[r] \subseteq ToStore(r)
        /\ pc[r] \in {"stamp", "acquire"} => todo[r] = ToStore(r)
LockInv == \A r \in Requests : pc[r] = "store" <=> lock = r
BeforeInv == \A r \in Requests : \A d \in before[r] : pc[d] = "done"

ThreadInv == AnswerInv /\ BrowserInv /\ SenderInv /\ LockInv /\ BeforeInv

(* The readings of a clock that has not been set back; the last of them    *)
(* that ingest stored is there as soon as there was a batch.               *)
ClockInv ==
    /\ last_ingested_at = None <=> received_batches = 0
    /\ ~stepped_back =>
         /\ \A r \in Requests : now[r] <= clock
         /\ last_ingested_at # None => last_ingested_at <= clock

CoreInv == TypeOK /\ ThreadInv /\ ClockInv
-----------------------------------------------------------------------------
(* What the queries are. *)
LEMMA Queries ==
    /\ NoQuery.kind = "none" /\ [kind |-> "malformed"].kind = "malformed"
    /\ \A q \in Writes : q.kind = "post" /\ q.body \in Seq(Objects \cup {NotAnObject})
    /\ \A q \in Reads : q.kind \in {"history", "latest", "health"}
<1>1. \A q \in Writes : q.kind = "post" /\ q.body \in Posts \cup {DemoBatch}
  BY DEF Writes
<1>2. \A b \in Posts \cup {DemoBatch} : b \in Seq(Objects \cup {NotAnObject})
  BY StoreAssumption
<1>3. \A q \in Reads : q.kind \in {"history", "latest", "health"}
  BY DEF Reads
<1>4. QED
  BY <1>1, <1>2, <1>3 DEF NoQuery

(* The objects of a body are among its items, and have a type. *)
LEMMA ObjectTypes ==
    ASSUME NEW q \in Writes
    PROVE  /\ ObjectsIn(q.body) \in SUBSET Nat
           /\ \A i \in ObjectsIn(q.body) : i \in 1 .. Len(q.body) /\ q.body[i] \in Objects
<1>1. q.body \in Seq(Objects \cup {NotAnObject})
  BY Queries
<1>2. QED
  BY <1>1 DEF ObjectsIn

(* An event has one of the keys. *)
LEMMA Keys == ASSUME NEW e \in Events PROVE Key(e) \in Types
  BY StoreAssumption DEF Events, Key

(* A reading of the clock. *)
LEMMA ReadsTypes == ReadClock => clock' \in 0 .. MaxClock /\ stepped_back' \in BOOLEAN
  BY DEF ReadClock

(* The end of a sequence of events. *)
LEMMA LastSeq ==
    ASSUME NEW s \in Seq(Events), NEW n \in Nat \ {0}
    PROVE  /\ Last(s, n) \in Seq(Events)
           /\ Len(Last(s, n)) = IF Len(s) > n THEN n ELSE Len(s)
           /\ \A p \in 1 .. Len(Last(s, n)) :
                Last(s, n)[p] = s[(IF Len(s) > n THEN Len(s) - n ELSE 0) + p]
<1>1. CASE Len(s) > n
  <2>1. Last(s, n) = SubSeq(s, Len(s) - n + 1, Len(s))
    BY <1>1 DEF Last
  <2>2. QED
    BY <1>1, <2>1
<1>2. CASE ~(Len(s) > n)
  <2>1. Last(s, n) = SubSeq(s, 1, Len(s))
    BY <1>2 DEF Last
  <2>2. QED
    BY <1>2, <2>1
<1>3. QED
  BY <1>1, <1>2

(* One event more. *)
LEMMA OneMore ==
    ASSUME NEW s \in Seq(Events), NEW e \in Events
    PROVE  /\ Append(s, e) \in Seq(Events) /\ Len(Append(s, e)) = Len(s) + 1
           /\ Append(s, e)[Len(s) + 1] = e
           /\ \A p \in 1 .. Len(s) : Append(s, e)[p] = s[p]
           /\ \A p \in 1 .. Len(s) + 1 : p \in 1 .. Len(s) \/ p = Len(s) + 1
  OBVIOUS

(* The event that StoreEvent stores. *)
Stored(r, i) == [req |-> r, item |-> i, type |-> query[r].body[i].type,
                 at |-> StampOf(r, query[r].body[i])]

(* A thread that stores is a sender with the lock, and stores an event. *)
LEMMA StoringStep ==
    ASSUME CoreInv, NEW r \in Requests, StoreEvent(r)
    PROVE  /\ r \in Senders /\ lock = r /\ query[r] \in Writes /\ pc[r] = "store"
           /\ \E i \in todo[r] :
                /\ i \in ToStore(r) /\ \A j \in todo[r] : i <= j
                /\ Stored(r, i) \in Events
                /\ latest_by_type' = [latest_by_type EXCEPT ![Key(Stored(r, i))] = Stored(r, i)]
                /\ history' = Last(Append(history, Stored(r, i)), max_events)
                /\ ingested' = Append(ingested, Stored(r, i))
                /\ todo' = [todo EXCEPT ![r] = @ \ {i}]
           /\ received_events' = received_events + 1
           /\ UNCHANGED <<query, pc, now, answer, before, lock, received_batches,
                          last_ingested_at, clock_vars>>
<1>1. pc[r] = "store"
  BY DEF StoreEvent
<1>2. r \in Senders
  BY <1>1 DEF CoreInv, ThreadInv, BrowserInv, Requests
<1>3. lock = r
  BY <1>1 DEF CoreInv, ThreadInv, LockInv
<1>4. query[r] \in Writes /\ todo[r] \subseteq ToStore(r)
  BY <1>1, <1>2 DEF CoreInv, ThreadInv, SenderInv
<1>5. PICK i \in todo[r] :
        /\ \A j \in todo[r] : i <= j
        /\ SetLatest(Stored(r, i)) /\ Remember(Stored(r, i)) /\ ingested' = Append(ingested, Stored(r, i))
        /\ todo' = [todo EXCEPT ![r] = @ \ {i}]
  BY DEF StoreEvent, Stored
<1>6. i \in ToStore(r) /\ i \in Nat /\ query[r].body[i] \in Objects
  BY <1>4, ObjectTypes DEF ToStore
<1>7. now[r] \in Nat
  BY StoreAssumption DEF CoreInv, TypeOK
<1>8. Stored(r, i) \in Events
  <2>1. query[r].body[i].type \in Types \cup {NoType}
    BY <1>6 DEF Objects
  <2>2. StampOf(r, query[r].body[i]) \in Nat \cup {OwnStamp}
    BY <1>7 DEF StampOf
  <2>3. QED
    BY <1>2, <1>6, <2>1, <2>2 DEF Stored, Events
<1>9. QED
  BY <1>1, <1>2, <1>3, <1>4, <1>5, <1>6, <1>8 DEF StoreEvent, SetLatest, Remember

(* The initial states satisfy the invariant. *)
LEMMA CoreInit == Init => CoreInv
<1> SUFFICES ASSUME Init PROVE CoreInv
  OBVIOUS
<1>1. TypeOK
  <2>1. max_events \in Nat
    BY StoreAssumption
  <2>2. << >> \in Seq(Events) /\ Len(<< >>) = 0
    OBVIOUS
  <2>3. ingested \in Seq(Events) /\ history \in Seq(Events) /\ Len(history) <= max_events
    BY <2>1, <2>2 DEF Init
  <2>4. 0 \in 0 .. MaxClock
    BY StoreAssumption
  <2>5. QED
    BY <2>3, <2>4 DEF Init, TypeOK
<1>2. ThreadInv
  <2>1. \A r \in Requests : None # r
    BY RequestAssumption DEF Requests
  <2>2. AnswerInv /\ LockInv /\ BeforeInv
    BY <2>1 DEF Init, AnswerInv, LockInv, BeforeInv
  <2>3. BrowserInv /\ SenderInv
    BY DEF Init, BrowserInv, SenderInv, Requests
  <2>4. QED
    BY <2>2, <2>3 DEF ThreadInv
<1>3. ClockInv
  <2>1. \A r \in Requests : now[r] <= clock
    BY DEF Init
  <2>2. QED
    BY <2>1 DEF Init, ClockInv
<1>4. QED
  BY <1>1, <1>2, <1>3 DEF CoreInv

(* What arrives changes only its own request. *)
LEMMA ArriveStep ==
    ASSUME CoreInv, NEW r \in Requests, NEW q, NEW to, Arrive(r, q, to)
    PROVE  /\ pc[r] = "idle" /\ answer[r] = None /\ lock # r
           /\ pc' = [pc EXCEPT ![r] = to] /\ query' = [query EXCEPT ![r] = q]
           /\ before' = [before EXCEPT ![r] = {d \in Requests : pc[d] = "done"}]
           /\ UNCHANGED <<now, lock, store_vars, clock_vars>>
  BY DEF Arrive, Go, CoreInv, ThreadInv, AnswerInv, LockInv

(* The types, when a request arrives. *)
LEMMA ArriveTypes ==
    ASSUME CoreInv, NEW r \in Requests,
           NEW q \in {NoQuery, [kind |-> "malformed"]} \cup Writes \cup Reads,
           NEW to \in {"stamp", "acquire", "done"},
           Arrive(r, q, to), todo' \in [Requests -> SUBSET Nat]
    PROVE  TypeOK'
<1>1. /\ pc' = [pc EXCEPT ![r] = to] /\ query' = [query EXCEPT ![r] = q]
      /\ before' = [before EXCEPT ![r] = {d \in Requests : pc[d] = "done"}]
      /\ UNCHANGED <<now, lock, store_vars, clock_vars>>
  BY ArriveStep
<1>2. TypeOK
  BY DEF CoreInv
<1>3. query' \in [Requests -> {NoQuery, [kind |-> "malformed"]} \cup Writes \cup Reads]
  BY <1>1, <1>2 DEF TypeOK
<1>4. pc' \in [Requests -> {"idle", "stamp", "acquire", "store", "dump", "done"}]
  BY <1>1, <1>2 DEF TypeOK
<1>6. before' \in [Requests -> SUBSET Requests]
  BY <1>1, <1>2 DEF TypeOK
<1>7. QED
  BY <1>1, <1>2, <1>3, <1>4, <1>6 DEF TypeOK, store_vars, clock_vars

(* A request under the lock that reads leaves the store as it is. *)
ReadStep(r) ==
    \/ health(r) \/ history_of(r) \/ latest(r) \/ Dump(r)

(* A reader is a browser's request, and only its pc and answer change. *)
LEMMA ReadSteps ==
    ASSUME CoreInv, NEW r \in Requests, ReadStep(r)
    PROVE  /\ r \in Browsers /\ query[r] \in Reads /\ pc[r] \in {"acquire", "dump"}
           /\ \/ pc[r] = "acquire" /\ pc' = [pc EXCEPT ![r] = "done"] /\ lock = None
              \/ pc[r] = "acquire" /\ pc' = [pc EXCEPT ![r] = "dump"] /\ query[r].kind = "latest" /\ lock = None
              \/ pc[r] = "dump" /\ pc' = [pc EXCEPT ![r] = "done"] /\ query[r].kind = "latest"
           /\ \A x \in Requests \ {r} : answer'[x] = answer[x]
           /\ ReadClock \/ UNCHANGED clock_vars
           /\ UNCHANGED <<query, todo, now, before, lock, store_vars>>
<1>1. pc[r] = "dump" \/ (pc[r] = "acquire" /\ query[r].kind \in {"health", "history", "latest"})
  BY DEF ReadStep, health, history_of, latest, Dump, Reader
<1>2. r \in Browsers
  <2>1. SUFFICES ASSUME r \in Senders PROVE FALSE
    BY DEF Requests
  <2>2. pc[r] # "dump"
    BY <2>1 DEF CoreInv, ThreadInv, SenderInv
  <2>3. query[r] \in Writes
    BY <1>1, <2>1, <2>2 DEF CoreInv, ThreadInv, SenderInv
  <2>4. QED
    BY <1>1, <2>2, <2>3, Queries
<1>3. query[r] \in Reads /\ (pc[r] = "dump" => query[r].kind = "latest")
  BY <1>1, <1>2 DEF CoreInv, ThreadInv, BrowserInv
<1>4. /\ \/ pc[r] = "acquire" /\ pc' = [pc EXCEPT ![r] = "done"] /\ lock = None
         \/ pc[r] = "acquire" /\ pc' = [pc EXCEPT ![r] = "dump"] /\ query[r].kind = "latest" /\ lock = None
         \/ pc[r] = "dump" /\ pc' = [pc EXCEPT ![r] = "done"]
      /\ ReadClock \/ UNCHANGED clock_vars
      /\ UNCHANGED <<query, todo, now, before, lock, store_vars>>
  BY DEF ReadStep, health, history_of, latest, Dump, Reader, Go, LockFree
<1>5. \A x \in Requests \ {r} : answer'[x] = answer[x]
  BY DEF ReadStep, health, history_of, latest, Dump, Send, CoreInv, ThreadInv, AnswerInv
<1>6. QED
  BY <1>1, <1>2, <1>3, <1>4, <1>5

(* The thread that ends an ingest is a sender with the lock. *)
LEMMA EndStep ==
    ASSUME CoreInv, NEW r \in Requests, EndIngest(r)
    PROVE  /\ r \in Senders /\ lock = r /\ query[r] \in Writes /\ pc[r] = "store" /\ todo[r] = {}
           /\ lock' = None /\ pc' = [pc EXCEPT ![r] = "done"]
           /\ answer' = [answer EXCEPT ![r] = [status |-> "ok", body |-> Cardinality(ToStore(r))]]
           /\ UNCHANGED <<query, todo, now, before, store_vars, clock_vars>>
<1>1. pc[r] = "store" /\ todo[r] = {}
  BY DEF EndIngest
<1>2. r \in Senders
  BY <1>1 DEF CoreInv, ThreadInv, BrowserInv, Requests
<1>3. lock = r /\ query[r] \in Writes
  BY <1>1, <1>2 DEF CoreInv, ThreadInv, LockInv, SenderInv
<1>4. QED
  BY <1>1, <1>2, <1>3 DEF EndIngest, Release, Go, Send

(* The thread that begins one is a sender, the lock is free. *)
LEMMA BeginStep ==
    ASSUME CoreInv, NEW r \in Requests, BeginIngest(r)
    PROVE  /\ r \in Senders /\ query[r] \in Writes /\ pc[r] = "acquire" /\ todo[r] = ToStore(r)
           /\ lock = None /\ lock' = r /\ pc' = [pc EXCEPT ![r] = "store"]
           /\ received_batches' = received_batches + 1 /\ last_ingested_at' = now[r]
           /\ UNCHANGED <<query, todo, now, answer, before, history, latest_by_type,
                          received_events, clock_vars, ingested>>
<1>1. pc[r] = "acquire" /\ todo[r] # {}
  BY DEF BeginIngest
<1>2. r \in Senders
  BY <1>1 DEF CoreInv, ThreadInv, BrowserInv, Requests
<1>3. query[r] \in Writes /\ todo[r] = ToStore(r)
  BY <1>1, <1>2 DEF CoreInv, ThreadInv, SenderInv
<1>4. QED
  BY <1>1, <1>2, <1>3 DEF BeginIngest, Go, LockFree

(* A thread that reads the clock is a sender. *)
LEMMA StampStep ==
    ASSUME CoreInv, NEW r \in Requests, Stamp(r)
    PROVE  /\ r \in Senders /\ pc[r] = "stamp"
           /\ ReadClock /\ now' = [now EXCEPT ![r] = clock']
           /\ pc' = [pc EXCEPT ![r] = "acquire"]
           /\ UNCHANGED <<query, todo, answer, before, lock, store_vars>>
<1>1. pc[r] = "stamp"
  BY DEF Stamp
<1>2. r \in Senders
  BY <1>1 DEF CoreInv, ThreadInv, BrowserInv, Requests
<1>3. QED
  BY <1>1, <1>2 DEF Stamp, Go

(* A request of a sender arrives. *)
LEMMA PostStep ==
    ASSUME CoreInv, NEW r \in Requests, do_POST(r) \/ Malformed(r)
    PROVE  /\ r \in Senders
           /\ \/ \E q \in Writes :
                   /\ ObjectsIn(q.body) # {} /\ Arrive(r, q, "stamp")
                   /\ todo' = [todo EXCEPT ![r] = ObjectsIn(q.body)] /\ answer' = answer
              \/ \E q \in Writes \cup {[kind |-> "malformed"]} :
                   /\ Arrive(r, q, "done") /\ todo' = todo
                   /\ \/ answer' = [answer EXCEPT ![r] = [status |-> "refused", body |-> None]]
                      \/ answer' = answer
<1>1. CASE do_POST(r)
  BY <1>1 DEF do_POST, Send
<1>2. CASE Malformed(r)
  BY <1>2 DEF Malformed, Send
<1>3. QED
  BY <1>1, <1>2

(* The steps there are. *)
LEMMA Cases ==
    ASSUME [Next]_vars
    PROVE  \/ UNCHANGED vars
           \/ \E r \in Requests :
                \/ do_GET(r) \/ (do_POST(r) \/ Malformed(r)) \/ Stamp(r) \/ BeginIngest(r)
                \/ StoreEvent(r) \/ EndIngest(r) \/ ReadStep(r)
  BY DEF Next, Serve, serve_forever, ReadStep

(* Every step preserves the types. *)
LEMMA TypeStep == CoreInv /\ [Next]_vars => TypeOK'
<1> SUFFICES ASSUME CoreInv, [Next]_vars PROVE TypeOK'
  OBVIOUS
<1>0. TypeOK
  BY DEF CoreInv
<1>1. CASE UNCHANGED vars
  BY <1>0, <1>1 DEF TypeOK, vars, thread_vars, store_vars, clock_vars
<1>2. ASSUME NEW r \in Requests, do_GET(r) PROVE TypeOK'
  <2>1. PICK q \in Reads : Arrive(r, q, "acquire") /\ todo' = todo
    BY <1>2 DEF do_GET
  <2>2. todo' \in [Requests -> SUBSET Nat]
    BY <1>0, <2>1 DEF TypeOK
  <2>3. QED
    BY <2>1, <2>2, ArriveTypes
<1>3. ASSUME NEW r \in Requests, do_POST(r) \/ Malformed(r) PROVE TypeOK'
  <2>1. CASE \E q \in Writes :
               /\ ObjectsIn(q.body) # {} /\ Arrive(r, q, "stamp")
               /\ todo' = [todo EXCEPT ![r] = ObjectsIn(q.body)] /\ answer' = answer
    <3>1. PICK q \in Writes : Arrive(r, q, "stamp") /\ todo' = [todo EXCEPT ![r] = ObjectsIn(q.body)]
      BY <2>1
    <3>2. ObjectsIn(q.body) \in SUBSET Nat
      BY ObjectTypes
    <3>3. todo' \in [Requests -> SUBSET Nat]
      BY <1>0, <3>1, <3>2 DEF TypeOK
    <3>4. QED
      BY <3>1, <3>3, ArriveTypes
  <2>2. CASE \E q \in Writes \cup {[kind |-> "malformed"]} : Arrive(r, q, "done") /\ todo' = todo
    <3>1. PICK q \in Writes \cup {[kind |-> "malformed"]} : Arrive(r, q, "done") /\ todo' = todo
      BY <2>2
    <3>2. todo' \in [Requests -> SUBSET Nat]
      BY <1>0, <3>1 DEF TypeOK
    <3>3. QED
      BY <3>1, <3>2, ArriveTypes
  <2>3. QED
    BY <1>3, <2>1, <2>2, PostStep
<1>4. ASSUME NEW r \in Requests, Stamp(r) PROVE TypeOK'
  <2>1. /\ ReadClock /\ now' = [now EXCEPT ![r] = clock']
        /\ pc' = [pc EXCEPT ![r] = "acquire"]
        /\ UNCHANGED <<query, todo, answer, before, lock, store_vars>>
    BY <1>4, StampStep
  <2>2. clock' \in 0 .. MaxClock /\ stepped_back' \in BOOLEAN
    BY <2>1, ReadsTypes
  <2>3. now' \in [Requests -> 0 .. MaxClock]
    BY <1>0, <2>1, <2>2 DEF TypeOK
  <2>5. pc' \in [Requests -> {"idle", "stamp", "acquire", "store", "dump", "done"}]
    BY <1>0, <2>1 DEF TypeOK
  <2>6. QED
    BY <1>0, <2>1, <2>2, <2>3, <2>5 DEF TypeOK, store_vars
<1>5. ASSUME NEW r \in Requests, BeginIngest(r) PROVE TypeOK'
  <2>1. /\ r \in Senders /\ lock' = r /\ pc' = [pc EXCEPT ![r] = "store"]
        /\ received_batches' = received_batches + 1 /\ last_ingested_at' = now[r]
        /\ UNCHANGED <<query, todo, now, answer, before, history, latest_by_type,
                       received_events, clock_vars, ingested>>
    BY <1>5, BeginStep
  <2>2. last_ingested_at' \in 0 .. MaxClock /\ received_batches' \in Nat
    BY <1>0, <2>1 DEF TypeOK
  <2>3. pc' \in [Requests -> {"idle", "stamp", "acquire", "store", "dump", "done"}]
    BY <1>0, <2>1 DEF TypeOK
  <2>4. QED
    BY <1>0, <2>1, <2>2, <2>3 DEF TypeOK, clock_vars
<1>6. ASSUME NEW r \in Requests, StoreEvent(r) PROVE TypeOK'
  <2>1. PICK i \in todo[r] :
          /\ Stored(r, i) \in Events
          /\ latest_by_type' = [latest_by_type EXCEPT ![Key(Stored(r, i))] = Stored(r, i)]
          /\ history' = Last(Append(history, Stored(r, i)), max_events)
          /\ ingested' = Append(ingested, Stored(r, i))
          /\ todo' = [todo EXCEPT ![r] = @ \ {i}]
    BY <1>6, StoringStep
  <2>2. /\ received_events' = received_events + 1
        /\ UNCHANGED <<query, pc, now, answer, before, lock, received_batches,
                       last_ingested_at, clock_vars>>
    BY <1>6, StoringStep
  <2> DEFINE e == Stored(r, i)
  <2>3. e \in Events
    BY <2>1
  <2> HIDE DEF e
  <2>4. Append(history, e) \in Seq(Events) /\ Append(ingested, e) \in Seq(Events)
    BY <1>0, <2>3 DEF TypeOK
  <2>5. history' \in Seq(Events) /\ Len(history') <= max_events
    <3> DEFINE h == Append(history, e)
    <3>1. history' = Last(h, max_events)
      BY <2>1 DEF e
    <3>2. h \in Seq(Events) /\ max_events \in Nat \ {0} /\ Len(h) \in Nat
      BY <2>4, StoreAssumption
    <3> HIDE DEF h
    <3>3. Last(h, max_events) \in Seq(Events)
          /\ Len(Last(h, max_events)) = IF Len(h) > max_events THEN max_events ELSE Len(h)
      BY <3>2, LastSeq
    <3>4. QED
      BY <3>1, <3>2, <3>3
  <2>6. ingested' \in Seq(Events)
    BY <2>1, <2>4 DEF e
  <2>7. Key(e) \in Types
    BY <2>3, Keys
  <2>8. latest_by_type' \in [Types -> Events \cup {None}]
    BY <1>0, <2>1, <2>3, <2>7 DEF TypeOK, e
  <2>9. todo' \in [Requests -> SUBSET Nat]
    BY <1>0, <2>1 DEF TypeOK
  <2>10. received_events' \in Nat
    BY <1>0, <2>2 DEF TypeOK
  <2>11. QED
    BY <1>0, <2>2, <2>5, <2>6, <2>8, <2>9, <2>10 DEF TypeOK, clock_vars
<1>7. ASSUME NEW r \in Requests, EndIngest(r) PROVE TypeOK'
  <2>1. /\ lock' = None /\ pc' = [pc EXCEPT ![r] = "done"]
        /\ UNCHANGED <<query, todo, now, before, store_vars, clock_vars>>
    BY <1>7, EndStep
  <2>2. pc' \in [Requests -> {"idle", "stamp", "acquire", "store", "dump", "done"}]
    BY <1>0, <2>1 DEF TypeOK
  <2>3. QED
    BY <1>0, <2>1, <2>2 DEF TypeOK, store_vars, clock_vars
<1>8. ASSUME NEW r \in Requests, ReadStep(r) PROVE TypeOK'
  <2>1. /\ pc' = [pc EXCEPT ![r] = "done"] \/ pc' = [pc EXCEPT ![r] = "dump"]
        /\ ReadClock \/ UNCHANGED clock_vars
        /\ UNCHANGED <<query, todo, now, before, lock, store_vars>>
    BY <1>8, ReadSteps
  <2>2. pc' \in [Requests -> {"idle", "stamp", "acquire", "store", "dump", "done"}]
    BY <1>0, <2>1 DEF TypeOK
  <2>3. clock' \in 0 .. MaxClock /\ stepped_back' \in BOOLEAN
    BY <1>0, <2>1, ReadsTypes DEF TypeOK, clock_vars
  <2>4. QED
    BY <1>0, <2>1, <2>2, <2>3 DEF TypeOK, store_vars
<1>9. QED
  BY <1>1, <1>2, <1>3, <1>4, <1>5, <1>6, <1>7, <1>8, Cases

(* What an arrival preserves of the other requests. *)
LEMMA ArriveThreads ==
    ASSUME CoreInv, NEW r \in Requests, NEW q, NEW to \in {"stamp", "acquire", "done"},
           Arrive(r, q, to), DOMAIN answer' = Requests,
           \A x \in Requests \ {r} : answer'[x] = answer[x],
           to # "done" => answer'[r] = None
    PROVE  AnswerInv' /\ LockInv' /\ BeforeInv'
<1>1. /\ pc[r] = "idle" /\ answer[r] = None /\ lock # r
      /\ pc' = [pc EXCEPT ![r] = to]
      /\ before' = [before EXCEPT ![r] = {d \in Requests : pc[d] = "done"}]
      /\ lock' = lock
  BY ArriveStep
<1>2. pc \in [Requests -> {"idle", "stamp", "acquire", "store", "dump", "done"}]
      /\ before \in [Requests -> SUBSET Requests]
  BY DEF CoreInv, TypeOK
<1>3. pc'[r] = to /\ \A x \in Requests \ {r} : pc'[x] = pc[x]
  BY <1>1, <1>2
<1>4. AnswerInv'
  BY <1>3 DEF CoreInv, ThreadInv, AnswerInv
<1>5. LockInv'
  BY <1>1, <1>3 DEF CoreInv, ThreadInv, LockInv
<1>6. BeforeInv'
  <2>1. ASSUME NEW x \in Requests, NEW d \in before'[x] PROVE pc'[d] = "done"
    <3>1. d \in Requests /\ pc[d] = "done"
      BY <1>1, <1>2 DEF CoreInv, ThreadInv, BeforeInv
    <3>2. d # r
      BY <1>1, <3>1
    <3>3. QED
      BY <1>3, <3>1, <3>2
  <2>2. QED
    BY <2>1 DEF BeforeInv
<1>7. QED
  BY <1>4, <1>5, <1>6

(* Every step preserves what a request's place says of it. *)
LEMMA ThreadStep == CoreInv /\ [Next]_vars => ThreadInv'
<1> SUFFICES ASSUME CoreInv, [Next]_vars PROVE ThreadInv'
  OBVIOUS
<1>0. TypeOK /\ AnswerInv /\ BrowserInv /\ SenderInv /\ LockInv /\ BeforeInv
  BY DEF CoreInv, ThreadInv
<1>t. /\ pc \in [Requests -> {"idle", "stamp", "acquire", "store", "dump", "done"}]
      /\ todo \in [Requests -> SUBSET Nat]
      /\ query \in [Requests -> {NoQuery, [kind |-> "malformed"]} \cup Writes \cup Reads]
      /\ now \in [Requests -> 0 .. MaxClock]
      /\ before \in [Requests -> SUBSET Requests]
  BY <1>0 DEF TypeOK
<1>d. Senders \subseteq Requests /\ Browsers \subseteq Requests /\ \A x \in Senders : x \notin Browsers
  BY RequestAssumption DEF Requests
<1>1. CASE UNCHANGED vars
  BY <1>0, <1>1 DEF ThreadInv, AnswerInv, BrowserInv, SenderInv, LockInv, BeforeInv, ToStore, ObjectsIn,
                    vars, thread_vars, store_vars
<1>2. ASSUME NEW r \in Requests, do_GET(r) PROVE ThreadInv'
  <2>1. PICK q \in Reads : Arrive(r, q, "acquire") /\ todo' = todo /\ answer' = answer
    BY <1>2 DEF do_GET
  <2>2. r \in Browsers
    BY <1>2 DEF do_GET
  <2>3. /\ pc[r] = "idle" /\ answer[r] = None
        /\ pc' = [pc EXCEPT ![r] = "acquire"] /\ query' = [query EXCEPT ![r] = q]
        /\ now' = now
    BY <2>1, ArriveStep
  <2>4. AnswerInv' /\ LockInv' /\ BeforeInv'
    BY <1>0, <2>1, <2>3, ArriveThreads DEF AnswerInv
  <2>5. pc'[r] = "acquire" /\ query'[r] = q
        /\ \A x \in Requests \ {r} : pc'[x] = pc[x] /\ query'[x] = query[x]
    BY <1>t, <2>3
  <2>6. BrowserInv'
    BY <1>0, <1>d, <2>1, <2>5 DEF BrowserInv
  <2>7. SenderInv'
    BY <1>0, <1>d, <2>1, <2>2, <2>3, <2>5 DEF SenderInv, ToStore, ObjectsIn
  <2>8. QED
    BY <2>4, <2>6, <2>7 DEF ThreadInv
<1>3. ASSUME NEW r \in Requests, do_POST(r) \/ Malformed(r) PROVE ThreadInv'
  <2>0. r \in Senders
    BY <1>3, PostStep
  <2>1. CASE \E q \in Writes :
               /\ ObjectsIn(q.body) # {} /\ Arrive(r, q, "stamp")
               /\ todo' = [todo EXCEPT ![r] = ObjectsIn(q.body)] /\ answer' = answer
    <3>1. PICK q \in Writes :
               /\ ObjectsIn(q.body) # {} /\ Arrive(r, q, "stamp")
               /\ todo' = [todo EXCEPT ![r] = ObjectsIn(q.body)] /\ answer' = answer
      BY <2>1
    <3>2. /\ pc[r] = "idle" /\ answer[r] = None
          /\ pc' = [pc EXCEPT ![r] = "stamp"] /\ query' = [query EXCEPT ![r] = q]
          /\ now' = now
      BY <3>1, ArriveStep
    <3>3. AnswerInv' /\ LockInv' /\ BeforeInv'
      BY <1>0, <3>1, <3>2, ArriveThreads DEF AnswerInv
    <3>4. pc'[r] = "stamp" /\ query'[r] = q /\ todo'[r] = ObjectsIn(q.body)
          /\ \A x \in Requests \ {r} : /\ pc'[x] = pc[x] /\ query'[x] = query[x] /\ todo'[x] = todo[x]
      BY <1>t, <3>1, <3>2
    <3>5. BrowserInv'
      BY <1>0, <1>d, <2>0, <3>4 DEF BrowserInv
    <3>6. SenderInv'
      <4>1. ASSUME NEW x \in Senders, x # r
            PROVE  /\ pc'[x] = pc[x] /\ query'[x] = query[x] /\ todo'[x] = todo[x]
                   /\ now'[x] = now[x] /\ ToStore(x)' = ToStore(x)
        BY <1>d, <3>2, <3>4, <4>1 DEF ToStore, ObjectsIn
      <4>2. ToStore(r)' = ObjectsIn(q.body)
        BY <3>4 DEF ToStore, ObjectsIn
      <4>3. QED
        BY <1>0, <3>1, <3>4, <4>1, <4>2 DEF SenderInv
    <3>7. QED
      BY <3>3, <3>5, <3>6 DEF ThreadInv
  <2>2. CASE \E q \in Writes \cup {[kind |-> "malformed"]} :
               /\ Arrive(r, q, "done") /\ todo' = todo
               /\ \/ answer' = [answer EXCEPT ![r] = [status |-> "refused", body |-> None]]
                  \/ answer' = answer
    <3>1. PICK q \in Writes \cup {[kind |-> "malformed"]} :
               /\ Arrive(r, q, "done") /\ todo' = todo
               /\ \/ answer' = [answer EXCEPT ![r] = [status |-> "refused", body |-> None]]
                  \/ answer' = answer
      BY <2>2
    <3>2. /\ pc[r] = "idle"
          /\ pc' = [pc EXCEPT ![r] = "done"] /\ query' = [query EXCEPT ![r] = q]
          /\ now' = now
      BY <3>1, ArriveStep
    <3>a. DOMAIN answer' = Requests /\ \A x \in Requests \ {r} : answer'[x] = answer[x]
      BY <1>0, <3>1 DEF AnswerInv
    <3>3. AnswerInv' /\ LockInv' /\ BeforeInv'
      BY <1>0, <3>1, <3>a, ArriveThreads
    <3>4. pc'[r] = "done" /\ query'[r] = q
          /\ \A x \in Requests \ {r} : /\ pc'[x] = pc[x] /\ query'[x] = query[x]
      BY <1>t, <3>1, <3>2
    <3>5. BrowserInv'
      BY <1>0, <1>d, <2>0, <3>1, <3>4 DEF BrowserInv
    <3>6. SenderInv'
      <4>1. ASSUME NEW x \in Senders, x # r
            PROVE  /\ pc'[x] = pc[x] /\ query'[x] = query[x] /\ todo'[x] = todo[x]
                   /\ now'[x] = now[x] /\ ToStore(x)' = ToStore(x)
        BY <1>d, <3>1, <3>2, <3>4, <4>1 DEF ToStore, ObjectsIn
      <4>2. QED
        BY <1>0, <3>1, <3>4, <4>1 DEF SenderInv
    <3>7. QED
      BY <3>3, <3>5, <3>6 DEF ThreadInv
  <2>3. QED
    BY <1>3, <2>1, <2>2, PostStep
<1>4. ASSUME NEW r \in Requests, Stamp(r) PROVE ThreadInv'
  <2>1. /\ r \in Senders /\ pc[r] = "stamp"
        /\ pc' = [pc EXCEPT ![r] = "acquire"]
        /\ UNCHANGED <<query, todo, answer, before, lock, store_vars>>
    BY <1>4, StampStep
  <2>2. pc'[r] = "acquire" /\ \A x \in Requests \ {r} : pc'[x] = pc[x]
    BY <1>t, <2>1
  <2>3. AnswerInv' /\ LockInv'
    BY <1>0, <2>1, <2>2 DEF AnswerInv, LockInv
  <2>4. BeforeInv'
    BY <1>0, <1>t, <2>1, <2>2 DEF BeforeInv
  <2>5. BrowserInv'
    BY <1>0, <1>d, <2>1, <2>2 DEF BrowserInv
  <2>6. SenderInv'
    <3>1. \A x \in Senders : ToStore(x)' = ToStore(x)
      BY <2>1 DEF ToStore, ObjectsIn
    <3>2. QED
      BY <1>0, <1>d, <2>1, <2>2, <3>1 DEF SenderInv
  <2>7. QED
    BY <2>3, <2>4, <2>5, <2>6 DEF ThreadInv
<1>5. ASSUME NEW r \in Requests, BeginIngest(r) PROVE ThreadInv'
  <2>1. /\ r \in Senders /\ pc[r] = "acquire" /\ lock = None /\ lock' = r /\ pc' = [pc EXCEPT ![r] = "store"]
        /\ UNCHANGED <<query, todo, now, answer, before>>
    BY <1>5, BeginStep
  <2>2. pc'[r] = "store" /\ \A x \in Requests \ {r} : pc'[x] = pc[x]
    BY <1>t, <2>1
  <2>3. AnswerInv'
    BY <1>0, <2>1, <2>2 DEF AnswerInv
  <2>l. LockInv'
    <3>1. \A x \in Requests : pc[x] # "store"
      BY <1>0, <2>1, RequestAssumption DEF LockInv, Requests
    <3>2. QED
      BY <2>1, <2>2, <3>1 DEF LockInv
  <2>4. BeforeInv'
    BY <1>0, <1>t, <2>1, <2>2 DEF BeforeInv
  <2>5. BrowserInv'
    BY <1>0, <1>d, <2>1, <2>2 DEF BrowserInv
  <2>6. SenderInv'
    <3>1. \A x \in Senders : ToStore(x)' = ToStore(x)
      BY <2>1 DEF ToStore, ObjectsIn
    <3>2. QED
      BY <1>0, <1>d, <2>1, <2>2, <3>1 DEF SenderInv
  <2>7. QED
    BY <2>3, <2>4, <2>5, <2>6, <2>l DEF ThreadInv
<1>6. ASSUME NEW r \in Requests, StoreEvent(r) PROVE ThreadInv'
  <2>1. PICK i \in todo[r] : todo' = [todo EXCEPT ![r] = @ \ {i}]
    BY <1>6, StoringStep
  <2>2. r \in Senders /\ pc[r] = "store" /\ UNCHANGED <<query, pc, now, answer, before, lock>>
    BY <1>6, StoringStep
  <2>3. todo'[r] = todo[r] \ {i} /\ \A x \in Requests \ {r} : todo'[x] = todo[x]
    BY <1>t, <2>1
  <2>4. AnswerInv' /\ LockInv' /\ BeforeInv'
    BY <1>0, <2>2 DEF AnswerInv, LockInv, BeforeInv
  <2>5. BrowserInv'
    BY <1>0, <1>d, <2>2, <2>3 DEF BrowserInv
  <2>6. SenderInv'
    <3>1. \A x \in Senders : ToStore(x)' = ToStore(x)
      BY <2>2 DEF ToStore, ObjectsIn
    <3>2. QED
      BY <1>0, <1>d, <2>2, <2>3, <3>1 DEF SenderInv
  <2>7. QED
    BY <2>4, <2>5, <2>6 DEF ThreadInv
<1>7. ASSUME NEW r \in Requests, EndIngest(r) PROVE ThreadInv'
  <2>1. /\ r \in Senders /\ lock = r /\ pc[r] = "store" /\ lock' = None /\ pc' = [pc EXCEPT ![r] = "done"]
        /\ answer' = [answer EXCEPT ![r] = [status |-> "ok", body |-> Cardinality(ToStore(r))]]
        /\ UNCHANGED <<query, todo, now, before>>
    BY <1>7, EndStep
  <2>2. pc'[r] = "done" /\ \A x \in Requests \ {r} : pc'[x] = pc[x]
    BY <1>t, <2>1
  <2>3. AnswerInv'
    BY <1>0, <2>1, <2>2 DEF AnswerInv
  <2>l. LockInv'
    <3>1. \A x \in Requests \ {r} : pc[x] # "store"
      BY <1>0, <2>1 DEF LockInv
    <3>2. \A x \in Requests : x # None
      BY RequestAssumption DEF Requests
    <3>3. QED
      BY <2>1, <2>2, <3>1, <3>2 DEF LockInv
  <2>4. BeforeInv'
    BY <1>0, <1>t, <2>1, <2>2 DEF BeforeInv
  <2>5. BrowserInv'
    BY <1>0, <1>d, <2>1, <2>2 DEF BrowserInv
  <2>6. SenderInv'
    <3>1. \A x \in Senders : ToStore(x)' = ToStore(x)
      BY <2>1 DEF ToStore, ObjectsIn
    <3>2. QED
      BY <1>0, <1>d, <2>1, <2>2, <3>1 DEF SenderInv
  <2>7. QED
    BY <2>3, <2>4, <2>5, <2>6, <2>l DEF ThreadInv
<1>8. ASSUME NEW r \in Requests, ReadStep(r) PROVE ThreadInv'
  <2>1. /\ r \in Browsers /\ query[r] \in Reads /\ pc[r] \in {"acquire", "dump"}
        /\ \/ pc' = [pc EXCEPT ![r] = "done"]
           \/ pc' = [pc EXCEPT ![r] = "dump"] /\ query[r].kind = "latest"
        /\ \A x \in Requests \ {r} : answer'[x] = answer[x]
        /\ UNCHANGED <<query, todo, now, before, lock>>
    BY <1>8, ReadSteps
  <2>2. /\ pc'[r] = "done" \/ (pc'[r] = "dump" /\ query[r].kind = "latest")
        /\ \A x \in Requests \ {r} : pc'[x] = pc[x]
    BY <1>t, <2>1
  <2>a. DOMAIN answer' = Requests
    BY <1>0, <1>8 DEF AnswerInv, ReadStep, health, history_of, latest, Dump, Send
  <2>3. AnswerInv'
    BY <1>0, <2>1, <2>2, <2>a DEF AnswerInv
  <2>l. LockInv'
    BY <1>0, <2>1, <2>2 DEF LockInv
  <2>4. BeforeInv'
    <3>1. \A x \in Requests : \A d \in before[x] : d # r /\ d \in Requests
      BY <1>0, <1>t, <2>1 DEF BeforeInv
    <3>2. QED
      BY <1>0, <2>1, <2>2, <3>1 DEF BeforeInv
  <2>5. BrowserInv'
    BY <1>0, <1>d, <2>1, <2>2 DEF BrowserInv
  <2>6. SenderInv'
    <3>1. \A x \in Senders : ToStore(x)' = ToStore(x)
      BY <2>1 DEF ToStore, ObjectsIn
    <3>2. QED
      BY <1>0, <1>d, <2>1, <2>2, <3>1 DEF SenderInv
  <2>7. QED
    BY <2>3, <2>4, <2>5, <2>6, <2>l DEF ThreadInv
<1>9. QED
  BY <1>1, <1>2, <1>3, <1>4, <1>5, <1>6, <1>7, <1>8, Cases

(* A reading of the clock is no smaller than one before, or it counts as   *)
(* set back.                                                               *)
LEMMA ReadsOn ==
    ASSUME CoreInv, ReadClock, ~stepped_back'
    PROVE  ~stepped_back /\ clock \in Nat /\ clock' \in Nat /\ clock <= clock'
<1>1. clock \in 0 .. MaxClock /\ clock' \in 0 .. MaxClock /\ stepped_back \in BOOLEAN
  BY DEF ReadClock, CoreInv, TypeOK
<1>2. clock \in Nat /\ clock' \in Nat
  BY <1>1, StoreAssumption
<1>3. stepped_back' = (stepped_back \/ clock' < clock)
  BY DEF ReadClock
<1>4. ~stepped_back /\ ~(clock' < clock)
  BY <1>1, <1>3
<1>5. QED
  BY <1>2, <1>4

(* Steps that read the clock and store no reading preserve ClockInv. *)
LEMMA ClockRead ==
    ASSUME CoreInv, ReadClock \/ UNCHANGED clock_vars, now' = now,
           UNCHANGED <<last_ingested_at, received_batches>>
    PROVE  ClockInv'
<1>1. /\ now \in [Requests -> 0 .. MaxClock] /\ clock \in 0 .. MaxClock
      /\ last_ingested_at \in 0 .. MaxClock \cup {None} /\ ClockInv
  BY DEF CoreInv, TypeOK
<1>2. \A c \in 0 .. MaxClock : c \in Nat
  BY StoreAssumption
<1>3. CASE UNCHANGED clock_vars
  BY <1>1, <1>3 DEF ClockInv, clock_vars
<1>4. CASE ReadClock
  <2>1. SUFFICES ASSUME ~stepped_back'
                 PROVE  /\ \A r \in Requests : now[r] <= clock'
                        /\ last_ingested_at # None => last_ingested_at <= clock'
    BY <1>1 DEF ClockInv
  <2>2. ~stepped_back /\ clock \in Nat /\ clock' \in Nat /\ clock <= clock'
    BY <1>4, <2>1, ReadsOn
  <2>3. ASSUME NEW r \in Requests PROVE now[r] <= clock'
    <3>1. now[r] \in Nat /\ now[r] <= clock
      BY <1>1, <1>2, <2>2 DEF ClockInv
    <3>2. QED
      BY <2>2, <3>1
  <2>4. ASSUME last_ingested_at # None PROVE last_ingested_at <= clock'
    <3>1. last_ingested_at \in Nat /\ last_ingested_at <= clock
      BY <1>1, <1>2, <2>2, <2>4 DEF ClockInv
    <3>2. QED
      BY <2>2, <3>1
  <2>5. QED
    BY <2>3, <2>4
<1>5. QED
  BY <1>3, <1>4

(* Every step preserves what is known of the readings. *)
LEMMA ClockStep == CoreInv /\ [Next]_vars => ClockInv'
<1> SUFFICES ASSUME CoreInv, [Next]_vars PROVE ClockInv'
  OBVIOUS
<1>t. /\ now \in [Requests -> 0 .. MaxClock] /\ clock \in 0 .. MaxClock
      /\ last_ingested_at \in 0 .. MaxClock \cup {None} /\ received_batches \in Nat /\ ClockInv
  BY DEF CoreInv, TypeOK
<1>n. \A c \in 0 .. MaxClock : c \in Nat /\ c # None
  BY StoreAssumption, RequestAssumption
<1>1. CASE UNCHANGED vars
  BY <1>1, ClockRead DEF vars, thread_vars, store_vars
<1>2. ASSUME NEW r \in Requests, do_GET(r) PROVE ClockInv'
  <2>1. PICK q \in Reads : Arrive(r, q, "acquire")
    BY <1>2 DEF do_GET
  <2>2. QED
    BY <2>1, ArriveStep, ClockRead DEF store_vars
<1>3. ASSUME NEW r \in Requests, do_POST(r) \/ Malformed(r) PROVE ClockInv'
  <2>1. \E q, to : Arrive(r, q, to)
    BY <1>3, PostStep
  <2>2. QED
    BY <2>1, ArriveStep, ClockRead DEF store_vars
<1>4. ASSUME NEW r \in Requests, Stamp(r) PROVE ClockInv'
  <2>1. /\ ReadClock /\ now' = [now EXCEPT ![r] = clock'] /\ store_vars' = store_vars
    BY <1>4, StampStep
  <2>2. SUFFICES ASSUME ~stepped_back'
                 PROVE  /\ \A x \in Requests : now'[x] <= clock'
                        /\ last_ingested_at # None => last_ingested_at <= clock'
    BY <1>t, <2>1 DEF ClockInv, store_vars
  <2>3. ~stepped_back /\ clock \in Nat /\ clock' \in Nat /\ clock <= clock'
    BY <2>1, <2>2, ReadsOn
  <2>4. ASSUME NEW x \in Requests PROVE now'[x] <= clock'
    <3>1. now[x] \in Nat /\ now[x] <= clock
      BY <1>t, <1>n, <2>3 DEF ClockInv
    <3>2. now'[x] = now[x] \/ now'[x] = clock'
      BY <1>t, <2>1
    <3>3. QED
      BY <2>3, <3>1, <3>2
  <2>5. ASSUME last_ingested_at # None PROVE last_ingested_at <= clock'
    <3>1. last_ingested_at \in Nat /\ last_ingested_at <= clock
      BY <1>t, <1>n, <2>3, <2>5 DEF ClockInv
    <3>2. QED
      BY <2>3, <3>1
  <2>6. QED
    BY <2>4, <2>5
<1>5. ASSUME NEW r \in Requests, BeginIngest(r) PROVE ClockInv'
  <2>1. /\ received_batches' = received_batches + 1 /\ last_ingested_at' = now[r]
        /\ now' = now /\ UNCHANGED clock_vars
    BY <1>5, BeginStep
  <2>2. now[r] # None /\ received_batches + 1 # 0
    BY <1>t, <1>n
  <2>3. QED
    BY <1>t, <2>1, <2>2 DEF ClockInv, clock_vars
<1>6. ASSUME NEW r \in Requests, StoreEvent(r) PROVE ClockInv'
  BY <1>6, StoringStep, ClockRead
<1>7. ASSUME NEW r \in Requests, EndIngest(r) PROVE ClockInv'
  BY <1>7, EndStep, ClockRead DEF store_vars
<1>8. ASSUME NEW r \in Requests, ReadStep(r) PROVE ClockInv'
  BY <1>8, ReadSteps, ClockRead DEF store_vars
<1>9. QED
  BY <1>1, <1>2, <1>3, <1>4, <1>5, <1>6, <1>7, <1>8, Cases

(* CoreInv is inductive. *)
LEMMA CoreStep == CoreInv /\ [Next]_vars => CoreInv'
  BY TypeStep, ThreadStep, ClockStep DEF CoreInv

(***************************************************************************)
(* The types of the store: the lock is held by a sender or free, the       *)
(* history keeps to its length, all that is stored is an event.            *)
(***************************************************************************)
THEOREM TypeCorrect == Spec => []TypeOK
<1>1. CoreInv => TypeOK
  BY DEF CoreInv
<1>2. QED
  BY <1>1, CoreInit, CoreStep, PTL DEF Spec
-----------------------------------------------------------------------------
(* The items of its body a request has stored. *)
Items(r) == {ingested[p].item : p \in Mine(r)}

(***************************************************************************)
(* What is stored of a request: nothing before it has the lock, what it    *)
(* has not yet to do while it has the lock, all or nothing when it ended.  *)
(***************************************************************************)
EarlyInv == \A r \in Requests : pc[r] \in {"idle", "stamp", "acquire"} => Mine(r) = {}
HalfInv ==
    \A r \in Requests : pc[r] = "store" =>
        /\ Items(r) = ToStore(r) \ todo[r]
        /\ \A p \in Mine(r) : \A i \in todo[r] : ingested[p].item < i
DoneInv ==
    \A r \in Senders : pc[r] = "done" =>
        \/ /\ query[r] \in Writes /\ Items(r) = ToStore(r) /\ ToStore(r) # {}
           /\ answer[r] = [status |-> "ok", body |-> Cardinality(ToStore(r))]
        \/ Mine(r) = {} /\ (answer[r] = None \/ answer[r].status = "refused")
ItemInv ==
    \A r \in Requests :
        /\ \A p, q \in Mine(r) : p < q => ingested[p].item < ingested[q].item
        /\ \A p \in Mine(r) : /\ ingested[p].type = query[r].body[ingested[p].item].type
                              /\ ingested[p].at \in {OwnStamp, now[r]}

(***************************************************************************)
(* The events of the request that has the lock are the last ones stored,   *)
(* and the batches before lie one after the other.                         *)
(***************************************************************************)
TailInv == \A p \in 1 .. Len(ingested) : ingested[p].req = lock =>
               \A m \in p .. Len(ingested) : ingested[m].req = lock
WholeInv == \A p, q \in 1 .. Len(ingested) : p < q /\ ingested[p].req = ingested[q].req =>
                \A m \in p .. q : ingested[m].req = ingested[p].req

BatchInv == EarlyInv /\ HalfInv /\ DoneInv /\ ItemInv /\ TailInv /\ WholeInv

(* Steps that store nothing leave the places of the events as they are. *)
LEMMA SamePlaces ==
    ASSUME ingested' = ingested
    PROVE  \A r : Mine(r)' = Mine(r) /\ Items(r)' = Items(r)
  BY DEF Mine, Items

(* Only StoreEvent stores. *)
LEMMA OnlyStore ==
    ASSUME CoreInv, NEW r \in Requests,
           do_GET(r) \/ (do_POST(r) \/ Malformed(r)) \/ Stamp(r) \/ BeginIngest(r)
               \/ EndIngest(r) \/ ReadStep(r)
    PROVE  ingested' = ingested
<1>1. CASE do_GET(r)
  BY <1>1, ArriveStep DEF do_GET, store_vars
<1>2. CASE do_POST(r) \/ Malformed(r)
  <2>1. \E q, to : Arrive(r, q, to)
    BY <1>2, PostStep
  <2>2. QED
    BY <2>1, ArriveStep DEF store_vars
<1>3. CASE Stamp(r)
  BY <1>3, StampStep DEF store_vars
<1>4. CASE BeginIngest(r)
  BY <1>4, BeginStep
<1>5. CASE EndIngest(r)
  BY <1>5, EndStep DEF store_vars
<1>6. CASE ReadStep(r)
  BY <1>6, ReadSteps DEF store_vars
<1>7. QED
  BY <1>1, <1>2, <1>3, <1>4, <1>5, <1>6

(* Where the events are when one is added. *)
LEMMA NewPlace ==
    ASSUME CoreInv, NEW r \in Requests, NEW e \in Events, e.req = r, ingested' = Append(ingested, e)
    PROVE  /\ Len(ingested) \in Nat /\ Len(ingested') = Len(ingested) + 1
           /\ ingested'[Len(ingested) + 1] = e
           /\ \A p \in 1 .. Len(ingested) : ingested'[p] = ingested[p]
           /\ Mine(r)' = Mine(r) \cup {Len(ingested) + 1} /\ Items(r)' = Items(r) \cup {e.item}
           /\ \A x : x # r => Mine(x)' = Mine(x) /\ Items(x)' = Items(x)
<1>1. ingested \in Seq(Events) /\ Len(ingested) \in Nat
  BY DEF CoreInv, TypeOK
<1>2. /\ Len(ingested') = Len(ingested) + 1 /\ ingested'[Len(ingested) + 1] = e
      /\ \A p \in 1 .. Len(ingested) : ingested'[p] = ingested[p]
  BY <1>1, OneMore
<1>3. \A p : p \in 1 .. Len(ingested') <=> p \in 1 .. Len(ingested) \/ p = Len(ingested) + 1
  BY <1>1, <1>2
<1>4. Mine(r)' = Mine(r) \cup {Len(ingested) + 1}
  BY <1>2, <1>3 DEF Mine
<1>5. Items(r)' = Items(r) \cup {e.item}
  <2>1. \A p \in Mine(r) : ingested'[p] = ingested[p]
    BY <1>2 DEF Mine
  <2>2. ASSUME NEW z PROVE z \in Items(r)' <=> \E p \in Mine(r)' : z = ingested'[p].item
    BY DEF Items
  <2>3. ASSUME NEW z PROVE z \in Items(r) <=> \E p \in Mine(r) : z = ingested[p].item
    BY DEF Items
  <2>4. ASSUME NEW z PROVE z \in Items(r)' <=> z \in Items(r) \/ z = e.item
    <3>1. ASSUME z \in Items(r)' PROVE z \in Items(r) \/ z = e.item
      <4>1. PICK p \in Mine(r)' : z = ingested'[p].item
        BY <2>2, <3>1
      <4>2. p \in Mine(r) \/ p = Len(ingested) + 1
        BY <1>4
      <4>3. QED
        BY <1>2, <2>1, <2>3, <4>1, <4>2
    <3>2. ASSUME z \in Items(r) PROVE z \in Items(r)'
      <4>1. PICK p \in Mine(r) : z = ingested[p].item
        BY <2>3, <3>2
      <4>2. p \in Mine(r)' /\ ingested'[p] = ingested[p]
        BY <1>4, <2>1
      <4>3. QED
        BY <2>2, <4>1, <4>2
    <3>3. e.item \in Items(r)'
      <4>1. Len(ingested) + 1 \in Mine(r)'
        BY <1>4
      <4>2. QED
        BY <1>2, <2>2, <4>1
    <3>4. QED
      BY <3>1, <3>2, <3>3
  <2>5. QED
    BY <2>4
<1>6. ASSUME NEW x, x # r PROVE Mine(x)' = Mine(x) /\ Items(x)' = Items(x)
  <2>1. Mine(x)' = Mine(x)
    BY <1>2, <1>3, <1>6 DEF Mine
  <2>2. \A p \in Mine(x) : ingested'[p] = ingested[p]
    BY <1>2 DEF Mine
  <2>3. QED
    BY <2>1, <2>2 DEF Items
<1>7. QED
  BY <1>1, <1>2, <1>4, <1>5, <1>6

(* The first requests have stored nothing. *)
LEMMA BatchInit == Init => BatchInv
<1> SUFFICES ASSUME Init PROVE BatchInv
  OBVIOUS
<1>1. ingested = << >> /\ Len(ingested) = 0 /\ 1 .. Len(ingested) = {}
  BY DEF Init
<1>2. \A r : Mine(r) = {}
  BY <1>1 DEF Mine
<1>3. \A r \in Requests : pc[r] = "idle"
  BY DEF Init
<1>4. \A r \in Senders : r \in Requests
  BY DEF Requests
<1>5. TailInv /\ WholeInv
  BY <1>1 DEF TailInv, WholeInv
<1>6. EarlyInv /\ HalfInv /\ DoneInv /\ ItemInv
  BY <1>2, <1>3, <1>4 DEF EarlyInv, HalfInv, DoneInv, ItemInv
<1>7. QED
  BY <1>5, <1>6 DEF BatchInv

(* Steps that store nothing and leave the lock: all but what an arrival,   *)
(* the clock or an answer of one request changes stays.                    *)
LEMMA QuietStep ==
    ASSUME CoreInv, BatchInv, NEW r \in Requests, ingested' = ingested,
           \A x \in Requests \ {r} :
               /\ pc'[x] = pc[x] /\ query'[x] = query[x] /\ now'[x] = now[x]
               /\ todo'[x] = todo[x] /\ answer'[x] = answer[x],
           pc'[r] = "store" => Mine(r) = {} /\ todo'[r] = ToStore(r)',
           pc'[r] \in {"idle", "stamp", "acquire"} => Mine(r) = {},
           Mine(r) # {} => query'[r] = query[r] /\ now'[r] = now[r],
           r \in Senders /\ pc'[r] = "done" =>
               \/ /\ query'[r] \in Writes /\ Items(r) = ToStore(r)' /\ ToStore(r)' # {}
                  /\ answer'[r] = [status |-> "ok", body |-> Cardinality(ToStore(r)')]
               \/ Mine(r) = {} /\ (answer'[r] = None \/ answer'[r].status = "refused")
    PROVE  EarlyInv' /\ HalfInv' /\ DoneInv' /\ ItemInv' /\ WholeInv'
<1>1. \A x : Mine(x)' = Mine(x) /\ Items(x)' = Items(x)
  BY SamePlaces
<1>2. \A x \in Requests \ {r} : ToStore(x)' = ToStore(x)
  BY DEF ToStore, ObjectsIn
<1>3. EarlyInv /\ HalfInv /\ DoneInv /\ ItemInv /\ WholeInv
  BY DEF BatchInv
<1>4. EarlyInv'
  BY <1>1, <1>3 DEF EarlyInv
<1>5. HalfInv'
  <2>1. ASSUME NEW x \in Requests, pc'[x] = "store"
        PROVE  /\ Items(x)' = ToStore(x)' \ todo'[x]
               /\ \A p \in Mine(x)' : \A i \in todo'[x] : ingested'[p].item < i
    <3>1. CASE x = r
      <4>1. Mine(r)' = {} /\ todo'[r] = ToStore(r)'
        BY <1>1, <2>1, <3>1
      <4>2. Items(r)' = {}
        BY <4>1 DEF Items
      <4>3. QED
        BY <3>1, <4>1, <4>2
    <3>2. CASE x # r
      <4>1. Items(x) = ToStore(x) \ todo[x] /\ \A p \in Mine(x) : \A i \in todo[x] : ingested[p].item < i
        BY <1>3, <2>1, <3>2 DEF HalfInv
      <4>2. QED
        BY <1>1, <1>2, <3>2, <4>1
    <3>3. QED
      BY <3>1, <3>2
  <2>2. QED
    BY <2>1 DEF HalfInv
<1>6. DoneInv'
  <2>1. ASSUME NEW x \in Senders, pc'[x] = "done"
        PROVE  \/ /\ query'[x] \in Writes /\ Items(x)' = ToStore(x)' /\ ToStore(x)' # {}
                  /\ answer'[x] = [status |-> "ok", body |-> Cardinality(ToStore(x)')]
               \/ Mine(x)' = {} /\ (answer'[x] = None \/ answer'[x].status = "refused")
    <3>1. CASE x = r
      BY <1>1, <2>1, <3>1
    <3>2. CASE x # r
      <4>1. x \in Requests \ {r} /\ pc[x] = "done"
        BY <2>1, <3>2 DEF Requests
      <4>2. \/ /\ query[x] \in Writes /\ Items(x) = ToStore(x) /\ ToStore(x) # {}
               /\ answer[x] = [status |-> "ok", body |-> Cardinality(ToStore(x))]
            \/ Mine(x) = {} /\ (answer[x] = None \/ answer[x].status = "refused")
        BY <1>3, <4>1 DEF DoneInv
      <4>3. QED
        BY <1>1, <1>2, <4>1, <4>2
    <3>3. QED
      BY <3>1, <3>2
  <2>2. Writes' = Writes
    BY DEF Writes
  <2>3. QED
    BY <2>1 DEF DoneInv, ToStore, ObjectsIn
<1>7. ItemInv'
  BY <1>1, <1>3 DEF ItemInv
<1>8. WholeInv'
  BY <1>3 DEF WholeInv
<1>9. QED
  BY <1>4, <1>5, <1>6, <1>7, <1>8

(* Storing an event preserves it all. *)
LEMMA StoreBatch ==
    ASSUME CoreInv, BatchInv, NEW r \in Requests, StoreEvent(r)
    PROVE  BatchInv'
<1>0. EarlyInv /\ HalfInv /\ DoneInv /\ ItemInv /\ TailInv /\ WholeInv
  BY DEF BatchInv
<1>1. PICK i \in todo[r] :
        /\ i \in ToStore(r) /\ \A j \in todo[r] : i <= j
        /\ Stored(r, i) \in Events
        /\ ingested' = Append(ingested, Stored(r, i))
        /\ todo' = [todo EXCEPT ![r] = @ \ {i}]
  BY StoringStep
<1>2. /\ r \in Senders /\ lock = r /\ pc[r] = "store"
      /\ UNCHANGED <<query, pc, now, answer, before, lock>>
  BY StoringStep
<1>3. todo \in [Requests -> SUBSET Nat] /\ \A p \in 1 .. Len(ingested) : ingested[p] \in Events
  BY DEF CoreInv, TypeOK
<1>4. todo'[r] = todo[r] \ {i} /\ \A x \in Requests \ {r} : todo'[x] = todo[x]
  BY <1>1, <1>3
<1> DEFINE e == Stored(r, i)
           n == Len(ingested) + 1
<1>5. e \in Events /\ e.req = r /\ e.item = i /\ e.type = query[r].body[i].type /\ e.at \in {OwnStamp, now[r]}
  BY <1>1 DEF Stored, StampOf
<1> HIDE DEF e
<1>6. /\ Len(ingested) \in Nat /\ Len(ingested') = n /\ ingested'[n] = e
      /\ \A p \in 1 .. Len(ingested) : ingested'[p] = ingested[p]
      /\ Mine(r)' = Mine(r) \cup {n} /\ Items(r)' = Items(r) \cup {i}
      /\ \A x : x # r => Mine(x)' = Mine(x) /\ Items(x)' = Items(x)
  BY <1>1, <1>5, NewPlace DEF e
<1>7. \A x : ToStore(x)' = ToStore(x)
  BY <1>2 DEF ToStore, ObjectsIn
<1>8. \A x : \A p \in Mine(x) : p \in 1 .. Len(ingested) /\ ingested'[p] = ingested[p] /\ p < n
  BY <1>6 DEF Mine
<1>e. EarlyInv'
  BY <1>0, <1>2, <1>6 DEF EarlyInv
<1>h. HalfInv'
  <2>1. ASSUME NEW x \in Requests, pc'[x] = "store"
        PROVE  /\ Items(x)' = ToStore(x)' \ todo'[x]
               /\ \A p \in Mine(x)' : \A j \in todo'[x] : ingested'[p].item < j
    <3>0. x = r
      BY <1>2, <2>1 DEF CoreInv, ThreadInv, LockInv
    <3>1. /\ Items(r) = ToStore(r) \ todo[r]
          /\ \A p \in Mine(r) : \A j \in todo[r] : ingested[p].item < j
      BY <1>0, <1>2 DEF HalfInv
    <3>2. Items(r)' = ToStore(r)' \ todo'[r]
      BY <1>1, <1>4, <1>6, <1>7, <3>1
    <3>3. ASSUME NEW p \in Mine(r)', NEW j \in todo'[r] PROVE ingested'[p].item < j
      <4>1. CASE p \in Mine(r)
        BY <1>4, <1>8, <3>1, <4>1
      <4>2. CASE p = n
        <5>1. j \in Nat /\ i \in Nat /\ i <= j /\ i # j
          BY <1>1, <1>3, <1>4
        <5>2. i < j
          BY <5>1
        <5>3. QED
          BY <1>5, <1>6, <4>2, <5>2
      <4>3. QED
        BY <1>6, <4>1, <4>2
    <3>4. QED
      BY <3>0, <3>2, <3>3
  <2>2. QED
    BY <2>1 DEF HalfInv
<1>d. DoneInv'
  BY <1>0, <1>2, <1>6, <1>7 DEF DoneInv
<1>i. ItemInv'
  <2>1. ASSUME NEW x \in Requests, NEW p \in Mine(x)', NEW q \in Mine(x)', p < q
        PROVE  ingested'[p].item < ingested'[q].item
    <3>1. CASE x # r
      BY <1>0, <1>6, <1>8, <2>1, <3>1 DEF ItemInv
    <3>2. CASE x = r /\ q = n
      <4>1. p \in Mine(r)
        BY <1>6, <2>1, <3>2
      <4>2. ingested[p].item < i
        BY <1>0, <1>1, <1>2, <4>1 DEF HalfInv
      <4>3. QED
        BY <1>5, <1>6, <1>8, <3>2, <4>1, <4>2
    <3>3. CASE x = r /\ q # n
      <4>1. q \in Mine(r) /\ q < n /\ q \in 1 .. Len(ingested)
        BY <1>6, <1>8, <3>3
      <4>2. p # n
        BY <1>6, <2>1, <4>1
      <4>3. p \in Mine(r)
        BY <1>6, <3>3, <4>2
      <4>4. QED
        BY <1>0, <1>8, <2>1, <4>1, <4>3 DEF ItemInv
    <3>4. QED
      BY <3>1, <3>2, <3>3
  <2>2. ASSUME NEW x \in Requests, NEW p \in Mine(x)'
        PROVE  /\ ingested'[p].type = query'[x].body[ingested'[p].item].type
               /\ ingested'[p].at \in {OwnStamp, now'[x]}
    <3>1. CASE p \in Mine(x)
      BY <1>0, <1>2, <1>8, <3>1 DEF ItemInv
    <3>2. CASE p \notin Mine(x)
      <4>1. x = r /\ p = n
        BY <1>6, <3>2
      <4>2. QED
        BY <1>2, <1>5, <1>6, <4>1
    <3>3. QED
      BY <3>1, <3>2
  <2>3. QED
    BY <2>1, <2>2 DEF ItemInv
<1>9. \A p : p \in 1 .. n <=> p \in 1 .. Len(ingested) \/ p = n
  BY <1>6
<1>t. TailInv'
  <2>1. ASSUME NEW p \in 1 .. n, ingested'[p].req = r, NEW m \in p .. n PROVE ingested'[m].req = r
    <3>1. CASE m = n
      BY <1>5, <1>6, <3>1
    <3>2. CASE m # n
      <4>1. p \in 1 .. Len(ingested) /\ m \in p .. Len(ingested) /\ m \in 1 .. Len(ingested)
        BY <1>6, <3>2
      <4>2. QED
        BY <1>0, <1>2, <1>6, <2>1, <4>1 DEF TailInv
    <3>3. QED
      BY <3>1, <3>2
  <2>2. QED
    BY <1>2, <1>6, <2>1 DEF TailInv
<1>w. WholeInv'
  <2>1. ASSUME NEW p \in 1 .. n, NEW q \in 1 .. n, p < q, ingested'[p].req = ingested'[q].req,
               NEW m \in p .. q
        PROVE  ingested'[m].req = ingested'[p].req
    <3>1. CASE q = n
      <4>1. p \in 1 .. n /\ ingested'[p].req = r /\ m \in p .. n
        BY <1>5, <1>6, <2>1, <3>1
      <4>2. ingested'[m].req = r
        BY <1>2, <1>6, <1>t, <4>1 DEF TailInv
      <4>3. QED
        BY <4>1, <4>2
    <3>2. CASE q # n
      <4>1. p \in 1 .. Len(ingested) /\ q \in 1 .. Len(ingested) /\ m \in 1 .. Len(ingested)
        BY <1>6, <2>1, <3>2
      <4>2. QED
        BY <1>0, <1>6, <2>1, <4>1 DEF WholeInv
    <3>3. QED
      BY <3>1, <3>2
  <2>2. QED
    BY <1>6, <2>1 DEF WholeInv
<1>10. QED
  BY <1>e, <1>h, <1>d, <1>i, <1>t, <1>w DEF BatchInv

(* Every step preserves it. *)
LEMMA BatchStep == CoreInv /\ BatchInv /\ [Next]_vars => BatchInv'
<1> SUFFICES ASSUME CoreInv, BatchInv, [Next]_vars PROVE BatchInv'
  OBVIOUS
<1>0. EarlyInv /\ HalfInv /\ DoneInv /\ ItemInv /\ TailInv /\ WholeInv
  BY DEF BatchInv
<1>t. /\ pc \in [Requests -> {"idle", "stamp", "acquire", "store", "dump", "done"}]
      /\ todo \in [Requests -> SUBSET Nat]
      /\ query \in [Requests -> {NoQuery, [kind |-> "malformed"]} \cup Writes \cup Reads]
      /\ now \in [Requests -> 0 .. MaxClock]
      /\ DOMAIN answer = Requests
  BY DEF CoreInv, TypeOK, ThreadInv, AnswerInv
<1>q. ingested' = ingested /\ lock' = lock => TailInv'
  BY <1>0 DEF TailInv
<1>m. \A p \in 1 .. Len(ingested) : ingested[p].req \in Senders
  <2>1. \A p \in 1 .. Len(ingested) : ingested[p] \in Events
    BY DEF CoreInv, TypeOK
  <2>2. QED
    BY <2>1 DEF Events
<1>d. Senders \subseteq Requests /\ Browsers \subseteq Requests /\ \A x \in Browsers : x \notin Senders
  BY RequestAssumption DEF Requests
<1>1. CASE UNCHANGED vars
  <2>1. UNCHANGED <<query, pc, todo, now, answer, lock, ingested>>
    BY <1>1 DEF vars, thread_vars, store_vars
  <2>2. \A x : Mine(x)' = Mine(x) /\ Items(x)' = Items(x) /\ ToStore(x)' = ToStore(x)
    BY <2>1, SamePlaces DEF ToStore, ObjectsIn
  <2>3. EarlyInv' /\ HalfInv' /\ DoneInv' /\ ItemInv'
    BY <1>0, <2>1, <2>2 DEF EarlyInv, HalfInv, DoneInv, ItemInv
  <2>4. WholeInv'
    BY <1>0, <2>1 DEF WholeInv
  <2>5. QED
    BY <1>q, <2>1, <2>3, <2>4 DEF BatchInv
<1>2. ASSUME NEW r \in Requests, do_GET(r) PROVE BatchInv'
  <2>1. PICK q \in Reads : Arrive(r, q, "acquire") /\ todo' = todo /\ answer' = answer
    BY <1>2 DEF do_GET
  <2>2. /\ pc[r] = "idle" /\ pc' = [pc EXCEPT ![r] = "acquire"] /\ query' = [query EXCEPT ![r] = q]
        /\ now' = now /\ lock' = lock /\ ingested' = ingested
    BY <2>1, ArriveStep DEF store_vars
  <2>3. Mine(r) = {} /\ pc'[r] = "acquire"
    BY <1>0, <1>t, <2>2 DEF EarlyInv
  <2>4. \A x \in Requests \ {r} :
               /\ pc'[x] = pc[x] /\ query'[x] = query[x] /\ now'[x] = now[x]
               /\ todo'[x] = todo[x] /\ answer'[x] = answer[x]
    BY <1>t, <2>1, <2>2
  <2>5. EarlyInv' /\ HalfInv' /\ DoneInv' /\ ItemInv' /\ WholeInv'
    BY <2>2, <2>3, <2>4, QuietStep
  <2>6. QED
    BY <1>q, <2>2, <2>5 DEF BatchInv
<1>3. ASSUME NEW r \in Requests, do_POST(r) \/ Malformed(r) PROVE BatchInv'
  <2>1. CASE \E q \in Writes :
               /\ ObjectsIn(q.body) # {} /\ Arrive(r, q, "stamp")
               /\ todo' = [todo EXCEPT ![r] = ObjectsIn(q.body)] /\ answer' = answer
    <3>1. PICK q \in Writes : /\ Arrive(r, q, "stamp") /\ answer' = answer
                              /\ todo' = [todo EXCEPT ![r] = ObjectsIn(q.body)]
      BY <2>1
    <3>2. /\ pc[r] = "idle" /\ pc' = [pc EXCEPT ![r] = "stamp"] /\ query' = [query EXCEPT ![r] = q]
          /\ now' = now /\ lock' = lock /\ ingested' = ingested
      BY <3>1, ArriveStep DEF store_vars
    <3>3. Mine(r) = {} /\ pc'[r] = "stamp"
      BY <1>0, <1>t, <3>2 DEF EarlyInv
    <3>4. \A x \in Requests \ {r} :
               /\ pc'[x] = pc[x] /\ query'[x] = query[x] /\ now'[x] = now[x]
               /\ todo'[x] = todo[x] /\ answer'[x] = answer[x]
      BY <1>t, <3>1, <3>2
    <3>5. EarlyInv' /\ HalfInv' /\ DoneInv' /\ ItemInv' /\ WholeInv'
      BY <3>2, <3>3, <3>4, QuietStep
    <3>6. QED
      BY <1>q, <3>2, <3>5 DEF BatchInv
  <2>2. CASE \E q \in Writes \cup {[kind |-> "malformed"]} :
               /\ Arrive(r, q, "done") /\ todo' = todo
               /\ \/ answer' = [answer EXCEPT ![r] = [status |-> "refused", body |-> None]]
                  \/ answer' = answer
    <3>1. PICK q \in Writes \cup {[kind |-> "malformed"]} :
               /\ Arrive(r, q, "done") /\ todo' = todo
               /\ \/ answer' = [answer EXCEPT ![r] = [status |-> "refused", body |-> None]]
                  \/ answer' = answer
      BY <2>2
    <3>2. /\ pc[r] = "idle" /\ pc' = [pc EXCEPT ![r] = "done"] /\ query' = [query EXCEPT ![r] = q]
          /\ now' = now /\ lock' = lock /\ ingested' = ingested /\ answer[r] = None
      BY <3>1, ArriveStep DEF store_vars
    <3>3. Mine(r) = {} /\ pc'[r] = "done"
      BY <1>0, <1>t, <3>2 DEF EarlyInv
    <3>4. \A x \in Requests \ {r} :
               /\ pc'[x] = pc[x] /\ query'[x] = query[x] /\ now'[x] = now[x]
               /\ todo'[x] = todo[x] /\ answer'[x] = answer[x]
      BY <1>t, <3>1, <3>2
    <3>5. answer'[r] = None \/ answer'[r].status = "refused"
      BY <1>t, <3>1, <3>2
    <3>6. EarlyInv' /\ HalfInv' /\ DoneInv' /\ ItemInv' /\ WholeInv'
      BY <3>2, <3>3, <3>4, <3>5, QuietStep
    <3>7. QED
      BY <1>q, <3>2, <3>6 DEF BatchInv
  <2>3. QED
    BY <1>3, <2>1, <2>2, PostStep
<1>4. ASSUME NEW r \in Requests, Stamp(r) PROVE BatchInv'
  <2>1. /\ pc[r] = "stamp" /\ now' = [now EXCEPT ![r] = clock']
        /\ pc' = [pc EXCEPT ![r] = "acquire"]
        /\ UNCHANGED <<query, todo, answer, lock, ingested>>
    BY <1>4, StampStep DEF store_vars
  <2>2. Mine(r) = {} /\ pc'[r] = "acquire"
    BY <1>0, <1>t, <2>1 DEF EarlyInv
  <2>3. \A x \in Requests \ {r} :
               /\ pc'[x] = pc[x] /\ query'[x] = query[x] /\ now'[x] = now[x]
               /\ todo'[x] = todo[x] /\ answer'[x] = answer[x]
    BY <1>t, <2>1
  <2>4. EarlyInv' /\ HalfInv' /\ DoneInv' /\ ItemInv' /\ WholeInv'
    BY <2>1, <2>2, <2>3, QuietStep
  <2>5. QED
    BY <1>q, <2>1, <2>4 DEF BatchInv
<1>5. ASSUME NEW r \in Requests, BeginIngest(r) PROVE BatchInv'
  <2>1. /\ pc[r] = "acquire" /\ todo[r] = ToStore(r) /\ lock' = r /\ pc' = [pc EXCEPT ![r] = "store"]
        /\ UNCHANGED <<query, todo, now, answer, ingested>>
    BY <1>5, BeginStep
  <2>2. Mine(r) = {} /\ pc'[r] = "store" /\ ToStore(r)' = ToStore(r)
    BY <1>0, <1>t, <2>1 DEF EarlyInv, ToStore, ObjectsIn
  <2>3. \A x \in Requests \ {r} :
               /\ pc'[x] = pc[x] /\ query'[x] = query[x] /\ now'[x] = now[x]
               /\ todo'[x] = todo[x] /\ answer'[x] = answer[x]
    BY <1>t, <2>1
  <2>4. EarlyInv' /\ HalfInv' /\ DoneInv' /\ ItemInv' /\ WholeInv'
    BY <2>1, <2>2, <2>3, QuietStep
  <2>5. TailInv'
    BY <2>1, <2>2 DEF TailInv, Mine
  <2>6. QED
    BY <2>4, <2>5 DEF BatchInv
<1>6. ASSUME NEW r \in Requests, StoreEvent(r) PROVE BatchInv'
  BY <1>6, StoreBatch
<1>7. ASSUME NEW r \in Requests, EndIngest(r) PROVE BatchInv'
  <2>1. /\ r \in Senders /\ lock = r /\ query[r] \in Writes /\ pc[r] = "store" /\ todo[r] = {}
        /\ lock' = None /\ pc' = [pc EXCEPT ![r] = "done"]
        /\ answer' = [answer EXCEPT ![r] = [status |-> "ok", body |-> Cardinality(ToStore(r))]]
        /\ UNCHANGED <<query, todo, now, ingested>>
    BY <1>7, EndStep DEF store_vars
  <2>2. ToStore(r)' = ToStore(r) /\ pc'[r] = "done"
    BY <1>t, <2>1 DEF ToStore, ObjectsIn
  <2>3. Items(r) = ToStore(r) /\ ToStore(r) # {}
    BY <1>0, <2>1 DEF HalfInv, CoreInv, ThreadInv, SenderInv
  <2>4. answer'[r] = [status |-> "ok", body |-> Cardinality(ToStore(r))]
    BY <1>t, <2>1
  <2>5. \A x \in Requests \ {r} :
               /\ pc'[x] = pc[x] /\ query'[x] = query[x] /\ now'[x] = now[x]
               /\ todo'[x] = todo[x] /\ answer'[x] = answer[x]
    BY <1>t, <2>1
  <2>6. EarlyInv' /\ HalfInv' /\ DoneInv' /\ ItemInv' /\ WholeInv'
    BY <2>1, <2>2, <2>3, <2>4, <2>5, QuietStep
  <2>7. TailInv'
    <3>1. \A p \in 1 .. Len(ingested) : ingested[p].req # None
      BY <1>m, RequestAssumption
    <3>2. QED
      BY <2>1, <3>1 DEF TailInv
  <2>8. QED
    BY <2>6, <2>7 DEF BatchInv
<1>8. ASSUME NEW r \in Requests, ReadStep(r) PROVE BatchInv'
  <2>1. /\ r \in Browsers
        /\ pc' = [pc EXCEPT ![r] = "done"] \/ pc' = [pc EXCEPT ![r] = "dump"]
        /\ \A x \in Requests \ {r} : answer'[x] = answer[x]
        /\ UNCHANGED <<query, todo, now, lock, ingested>>
    BY <1>8, ReadSteps DEF store_vars
  <2>2. Mine(r) = {} /\ r \notin Senders
    BY <1>d, <1>m, <2>1 DEF Mine
  <2>3. pc'[r] \in {"done", "dump"}
    BY <1>t, <2>1
  <2>4. \A x \in Requests \ {r} :
               /\ pc'[x] = pc[x] /\ query'[x] = query[x] /\ now'[x] = now[x]
               /\ todo'[x] = todo[x] /\ answer'[x] = answer[x]
    BY <1>t, <2>1
  <2>5. EarlyInv' /\ HalfInv' /\ DoneInv' /\ ItemInv' /\ WholeInv'
    BY <2>1, <2>2, <2>3, <2>4, QuietStep
  <2>6. QED
    BY <1>q, <2>1, <2>5 DEF BatchInv
<1>9. QED
  BY <1>1, <1>2, <1>3, <1>4, <1>5, <1>6, <1>7, <1>8, Cases

(* A request has as many events in the store as it has stored items. *)
LEMMA AsMany ==
    ASSUME CoreInv, BatchInv, NEW r \in Requests
    PROVE  /\ IsFiniteSet(Mine(r)) /\ IsFiniteSet(Items(r))
           /\ Cardinality(Items(r)) = Cardinality(Mine(r))
<1> DEFINE f == [p \in Mine(r) |-> ingested[p].item]
<1>1. Len(ingested) \in Nat /\ Mine(r) \in SUBSET (1 .. Len(ingested))
  BY DEF CoreInv, TypeOK, Mine
<1>2. IsFiniteSet(Mine(r))
  <2>1. IsFiniteSet(1 .. Len(ingested))
    <3>1. 1 \in Int /\ Len(ingested) \in Int
      BY <1>1
    <3>2. QED
      BY <3>1, FS_Interval
  <2>2. QED
    BY <1>1, <2>1, FS_Subset
<1>3. f \in Surjection(Mine(r), Items(r))
  BY DEF Surjection, Items
<1>4. f \in Injection(Mine(r), Items(r))
  <2>1. \A p \in Mine(r) : ingested[p].item \in Nat
    <3>1. \A p \in Mine(r) : ingested[p] \in Events
      BY <1>1 DEF CoreInv, TypeOK
    <3>2. QED
      BY <3>1 DEF Events
  <2>2. ASSUME NEW p \in Mine(r), NEW q \in Mine(r), p # q PROVE ingested[p].item # ingested[q].item
    <3>1. p < q \/ q < p
      BY <1>1, <2>2
    <3>2. ingested[p].item < ingested[q].item \/ ingested[q].item < ingested[p].item
      BY <3>1 DEF BatchInv, ItemInv
    <3>3. QED
      BY <2>1, <3>2
  <2>3. f \in [Mine(r) -> Items(r)]
    BY DEF Items
  <2>4. QED
    BY <2>2, <2>3 DEF Injection, IsInjective
<1>5. QED
  BY <1>2, <1>3, <1>4, FS_Surjection

(* The invariants say that the answers are true. *)
LEMMA HonestMeans == CoreInv /\ BatchInv => AnswersHonest
<1> SUFFICES ASSUME CoreInv, BatchInv, NEW r \in Requests, answer[r] # None
             PROVE  /\ answer[r].status = "ok" /\ query[r].kind = "post" =>
                         /\ {ingested[p].item : p \in Mine(r)} = ToStore(r)
                         /\ \A p, q \in Mine(r) : p < q => ingested[p].item < ingested[q].item
                         /\ \A p \in Mine(r) : ingested[p].type = query[r].body[ingested[p].item].type
                         /\ answer[r].body = Cardinality(Mine(r))
                    /\ answer[r].status = "refused" => Mine(r) = {}
  BY DEF AnswersHonest
<1>1. /\ \A p, q \in Mine(r) : p < q => ingested[p].item < ingested[q].item
      /\ \A p \in Mine(r) : ingested[p].type = query[r].body[ingested[p].item].type
  BY DEF BatchInv, ItemInv
<1>2. CASE r \in Browsers
  <2>1. pc[r] # "idle"
    BY DEF CoreInv, ThreadInv, AnswerInv
  <2>2. query[r].kind # "post"
    BY <1>2, <2>1, Queries DEF CoreInv, ThreadInv, BrowserInv
  <2>3. Mine(r) = {}
    <3>1. \A p \in 1 .. Len(ingested) : ingested[p] \in Events
      BY DEF CoreInv, TypeOK
    <3>2. \A p \in 1 .. Len(ingested) : ingested[p].req \in Senders
      BY <3>1 DEF Events
    <3>3. QED
      BY <1>2, <3>2, RequestAssumption DEF Mine
  <2>4. QED
    BY <2>2, <2>3
<1>3. CASE r \in Senders
  <2>1. pc[r] = "done"
    BY <1>3 DEF CoreInv, TypeOK, ThreadInv, AnswerInv, SenderInv
  <2>2. CASE /\ Items(r) = ToStore(r) /\ answer[r] = [status |-> "ok", body |-> Cardinality(ToStore(r))]
    <3>1. answer[r].status = "ok" /\ answer[r].body = Cardinality(ToStore(r))
      BY <2>2
    <3>2. answer[r].body = Cardinality(Mine(r))
      BY <2>2, <3>1, AsMany
    <3>3. {ingested[p].item : p \in Mine(r)} = ToStore(r)
      BY <2>2 DEF Items
    <3>4. QED
      BY <1>1, <3>1, <3>2, <3>3
  <2>3. CASE Mine(r) = {} /\ answer[r].status = "refused"
    BY <2>3
  <2>4. QED
    BY <1>3, <2>1, <2>2, <2>3 DEF BatchInv, DoneInv
<1>4. QED
  BY <1>2, <1>3 DEF Requests

(***************************************************************************)
(* The answers are true, for any number of concurrent requests: whoever    *)
(* gets 200 has each object of the body in the store, once, in order and   *)
(* with its type, and whoever is refused has nothing there.                *)
(***************************************************************************)
THEOREM Honest == Spec => []AnswersHonest
<1>1. Init => CoreInv /\ BatchInv
  BY CoreInit, BatchInit
<1>2. CoreInv /\ BatchInv /\ [Next]_vars => CoreInv' /\ BatchInv'
  BY CoreStep, BatchStep
<1>3. QED
  BY <1>1, <1>2, HonestMeans, PTL DEF Spec
-----------------------------------------------------------------------------
(* The requests that have begun to store. *)
Begun == {r \in Requests : Mine(r) # {} \/ lock = r}

(***************************************************************************)
(* The parts of the store at every moment: only the number of batches is   *)
(* ahead while a batch is being stored.                                    *)
(***************************************************************************)
HistoryInv == history = Last(ingested, max_events) /\ received_events = Len(ingested)
CountInv == received_batches = Cardinality(Begun)
LatestInv ==
    \A t \in Types :
        \/ latest_by_type[t] = None /\ \A p \in 1 .. Len(ingested) : Key(ingested[p]) # t
        \/ \E p \in 1 .. Len(ingested) :
             /\ latest_by_type[t] = ingested[p] /\ Key(ingested[p]) = t
             /\ \A q \in 1 .. Len(ingested) : Key(ingested[q]) = t => q <= p

StoreInv == HistoryInv /\ CountInv /\ LatestInv

(* The end of a sequence of which only the end was kept is its end. *)
LEMMA LastOfLast ==
    ASSUME NEW s \in Seq(Events), NEW e \in Events, NEW n \in Nat \ {0}
    PROVE  Last(Append(Last(s, n), e), n) = Last(Append(s, e), n)
<1> DEFINE k == IF Len(s) > n THEN Len(s) - n ELSE 0
           t == Last(s, n)
           a == Append(s, e)
           b == Append(t, e)
           x == Last(a, n)
           y == Last(b, n)
<1>1. /\ t \in Seq(Events) /\ Len(t) = (IF Len(s) > n THEN n ELSE Len(s))
      /\ \A p \in 1 .. Len(t) : t[p] = s[k + p]
  BY LastSeq
<1>2. Len(s) \in Nat /\ Len(t) \in Nat /\ k \in Nat /\ n \in Nat /\ n >= 1 /\ Len(t) <= n /\ k + Len(t) = Len(s)
  BY <1>1
<1> HIDE DEF t
<1>3. /\ a \in Seq(Events) /\ Len(a) = Len(s) + 1 /\ a[Len(s) + 1] = e
      /\ \A p \in 1 .. Len(s) : a[p] = s[p]
  BY OneMore
<1>4. /\ b \in Seq(Events) /\ Len(b) = Len(t) + 1 /\ b[Len(t) + 1] = e
      /\ \A p \in 1 .. Len(t) : b[p] = t[p]
  BY <1>1, OneMore
<1>k. k = 0 \/ Len(t) = n
  BY <1>1, <1>2
<1> HIDE DEF a, b, k
<1>5. \A p \in 1 .. Len(t) + 1 : b[p] = a[k + p]
  <2>1. ASSUME NEW p \in 1 .. Len(t) PROVE b[p] = a[k + p]
    <3>1. k + p \in 1 .. Len(s)
      BY <1>2
    <3>2. QED
      BY <1>1, <1>3, <1>4, <3>1
  <2>2. b[Len(t) + 1] = a[k + (Len(t) + 1)]
    <3>1. k + (Len(t) + 1) = Len(s) + 1
      BY <1>2
    <3>2. QED
      BY <1>3, <1>4, <3>1
  <2>3. \A p \in 1 .. Len(t) + 1 : p \in 1 .. Len(t) \/ p = Len(t) + 1
    BY <1>2
  <2>4. QED
    BY <2>1, <2>2, <2>3
<1> DEFINE u == IF Len(a) > n THEN Len(a) - n ELSE 0
           v == IF Len(b) > n THEN Len(b) - n ELSE 0
<1>6. /\ x \in Seq(Events) /\ Len(x) = (IF Len(a) > n THEN n ELSE Len(a))
      /\ \A p \in 1 .. Len(x) : x[p] = a[u + p]
  BY <1>3, LastSeq
<1>7. /\ y \in Seq(Events) /\ Len(y) = (IF Len(b) > n THEN n ELSE Len(b))
      /\ \A p \in 1 .. Len(y) : y[p] = b[v + p]
  BY <1>4, LastSeq
<1>8. Len(x) = Len(y) /\ u = k + v /\ v \in Nat /\ v + Len(y) = Len(t) + 1 /\ Len(y) \in Nat
  BY <1>2, <1>3, <1>4, <1>6, <1>7, <1>k
<1> HIDE DEF x, y, u, v
<1>9. ASSUME NEW p \in 1 .. Len(x) PROVE x[p] = y[p]
  <2>1. v + p \in 1 .. Len(t) + 1 /\ k + (v + p) = u + p /\ p \in 1 .. Len(y)
    BY <1>2, <1>8
  <2>2. x[p] = a[u + p] /\ y[p] = b[v + p] /\ b[v + p] = a[k + (v + p)]
    BY <1>5, <1>6, <1>7, <2>1
  <2>3. QED
    BY <2>1, <2>2
<1>10. x = y
  BY <1>6, <1>7, <1>8, <1>9, SeqEqual
<1>11. QED
  BY <1>10 DEF x, y, a, b, t

(* The store is empty at first. *)
LEMMA StoreInit == Init => StoreInv
<1> SUFFICES ASSUME Init PROVE StoreInv
  OBVIOUS
<1>1. ingested = << >> /\ Len(ingested) = 0 /\ 1 .. Len(ingested) = {}
  BY DEF Init
<1>2. HistoryInv
  <2>1. Last(<< >>, max_events) = << >>
    <3>1. ~(Len(<< >>) > max_events) /\ Len(<< >>) = 0
      BY StoreAssumption
    <3>2. Last(<< >>, max_events) = SubSeq(<< >>, 1, 0)
      BY <3>1 DEF Last
    <3>3. QED
      BY <3>2
  <2>2. QED
    BY <1>1, <2>1 DEF Init, HistoryInv
<1>3. CountInv
  <2>1. Begun = {}
    <3>1. \A r \in Requests : r # None
      BY RequestAssumption DEF Requests
    <3>2. QED
      BY <1>1, <3>1 DEF Begun, Mine, Init
  <2>2. QED
    BY <2>1, FS_EmptySet DEF CountInv, Init
<1>4. LatestInv
  BY <1>1 DEF LatestInv, Init
<1>5. QED
  BY <1>2, <1>3, <1>4 DEF StoreInv

(* An event more, and the story is still one. *)
LEMMA StoreOne ==
    ASSUME CoreInv, BatchInv, StoreInv, NEW r \in Requests, StoreEvent(r)
    PROVE  StoreInv'
<1>1. PICK i \in todo[r] :
        /\ Stored(r, i) \in Events
        /\ latest_by_type' = [latest_by_type EXCEPT ![Key(Stored(r, i))] = Stored(r, i)]
        /\ history' = Last(Append(history, Stored(r, i)), max_events)
        /\ ingested' = Append(ingested, Stored(r, i))
  BY StoringStep
<1>2. r \in Senders /\ lock = r /\ received_events' = received_events + 1
      /\ UNCHANGED <<lock, received_batches>>
  BY StoringStep
<1>3. ingested \in Seq(Events) /\ latest_by_type \in [Types -> Events \cup {None}]
  BY DEF CoreInv, TypeOK
<1> DEFINE e == Stored(r, i)
           n == Len(ingested) + 1
<1>4. e \in Events /\ e.req = r /\ Key(e) \in Types
  BY <1>1, Keys DEF Stored
<1> HIDE DEF e
<1>5. /\ Len(ingested) \in Nat /\ Len(ingested') = n /\ ingested'[n] = e
      /\ \A p \in 1 .. Len(ingested) : ingested'[p] = ingested[p]
      /\ Mine(r)' = Mine(r) \cup {n}
      /\ \A x : x # r => Mine(x)' = Mine(x)
  BY <1>1, <1>4, NewPlace DEF e
<1>6. HistoryInv'
  <2>1. history = Last(ingested, max_events) /\ received_events = Len(ingested)
    BY DEF StoreInv, HistoryInv
  <2>2. max_events \in Nat \ {0}
    BY StoreAssumption
  <2>3. history' = Last(Append(Last(ingested, max_events), e), max_events)
    BY <1>1, <2>1 DEF e
  <2>4. history' = Last(Append(ingested, e), max_events)
    BY <1>3, <1>4, <2>2, <2>3, LastOfLast
  <2>5. history' = Last(ingested', max_events)
    BY <1>1, <2>4 DEF e
  <2>6. QED
    BY <1>2, <1>5, <2>1, <2>5 DEF HistoryInv
<1>7. CountInv'
  <2>1. Begun' = Begun
    BY <1>2, <1>5 DEF Begun
  <2>2. QED
    BY <1>2, <2>1 DEF CountInv, StoreInv
<1>8. LatestInv'
  <2>0. /\ latest_by_type'[Key(e)] = e /\ \A t \in Types \ {Key(e)} : latest_by_type'[t] = latest_by_type[t]
    BY <1>1, <1>3, <1>4 DEF e
  <2>p. \A p : p \in 1 .. n <=> p \in 1 .. Len(ingested) \/ p = n
    BY <1>5
  <2>1. ASSUME NEW t \in Types
        PROVE  \/ latest_by_type'[t] = None /\ \A p \in 1 .. n : Key(ingested'[p]) # t
               \/ \E p \in 1 .. n :
                    /\ latest_by_type'[t] = ingested'[p] /\ Key(ingested'[p]) = t
                    /\ \A q \in 1 .. n : Key(ingested'[q]) = t => q <= p
    <3>1. CASE t = Key(e)
      <4>1. n \in 1 .. n /\ \A q \in 1 .. n : q <= n
        BY <1>5
      <4>2. QED
        BY <1>5, <2>0, <3>1, <4>1
    <3>2. CASE t # Key(e)
      <4>1. latest_by_type'[t] = latest_by_type[t] /\ Key(ingested'[n]) # t
        BY <1>5, <2>0, <3>2
      <4>2. CASE latest_by_type[t] = None /\ \A p \in 1 .. Len(ingested) : Key(ingested[p]) # t
        BY <1>5, <2>p, <4>1, <4>2
      <4>3. CASE \E p \in 1 .. Len(ingested) :
                   /\ latest_by_type[t] = ingested[p] /\ Key(ingested[p]) = t
                   /\ \A q \in 1 .. Len(ingested) : Key(ingested[q]) = t => q <= p
        <5>1. PICK p \in 1 .. Len(ingested) :
                   /\ latest_by_type[t] = ingested[p] /\ Key(ingested[p]) = t
                   /\ \A q \in 1 .. Len(ingested) : Key(ingested[q]) = t => q <= p
          BY <4>3
        <5>2. p \in 1 .. n /\ latest_by_type'[t] = ingested'[p] /\ Key(ingested'[p]) = t
          BY <1>5, <2>p, <4>1, <5>1
        <5>3. \A q \in 1 .. n : Key(ingested'[q]) = t => q <= p
          BY <1>5, <2>p, <4>1, <5>1
        <5>4. QED
          BY <5>2, <5>3
      <4>4. QED
        BY <4>2, <4>3 DEF StoreInv, LatestInv
    <3>3. QED
      BY <3>1, <3>2
  <2>2. QED
    BY <1>5, <2>1 DEF LatestInv
<1>9. QED
  BY <1>6, <1>7, <1>8 DEF StoreInv

(* What leaves the store and the lock alone preserves its parts. *)
LEMMA StoreSame ==
    ASSUME StoreInv, UNCHANGED <<store_vars, lock>>
    PROVE  StoreInv'
<1>1. Begun' = Begun
  BY SamePlaces DEF Begun, store_vars
<1>2. QED
  BY <1>1 DEF StoreInv, HistoryInv, CountInv, LatestInv, store_vars

(* Every step preserves the parts of the store. *)
LEMMA StoreStep == CoreInv /\ BatchInv /\ StoreInv /\ [Next]_vars => StoreInv'
<1> SUFFICES ASSUME CoreInv, BatchInv, StoreInv, [Next]_vars PROVE StoreInv'
  OBVIOUS
<1>1. CASE UNCHANGED vars
  BY <1>1, StoreSame DEF vars
<1>2. ASSUME NEW r \in Requests, do_GET(r) PROVE StoreInv'
  BY <1>2, ArriveStep, StoreSame DEF do_GET
<1>3. ASSUME NEW r \in Requests, do_POST(r) \/ Malformed(r) PROVE StoreInv'
  <2>1. \E q, to : Arrive(r, q, to)
    BY <1>3, PostStep
  <2>2. QED
    BY <2>1, ArriveStep, StoreSame
<1>4. ASSUME NEW r \in Requests, Stamp(r) PROVE StoreInv'
  BY <1>4, StampStep, StoreSame
<1>5. ASSUME NEW r \in Requests, BeginIngest(r) PROVE StoreInv'
  <2>1. /\ r \in Senders /\ pc[r] = "acquire" /\ lock = None /\ lock' = r
        /\ received_batches' = received_batches + 1
        /\ UNCHANGED <<history, latest_by_type, received_events, ingested>>
    BY <1>5, BeginStep
  <2>2. HistoryInv' /\ LatestInv'
    BY <2>1 DEF StoreInv, HistoryInv, LatestInv
  <2>3. Begun' = Begun \cup {r} /\ r \notin Begun
    <3>1. \A x : Mine(x)' = Mine(x)
      BY <2>1, SamePlaces
    <3>2. Mine(r) = {} /\ \A x \in Requests : x # None
      BY <2>1, RequestAssumption DEF BatchInv, EarlyInv, Requests
    <3>3. QED
      BY <2>1, <3>1, <3>2 DEF Begun
  <2>4. IsFiniteSet(Begun)
    <3>1. IsFiniteSet(Requests)
      BY RequestAssumption, FS_Union DEF Requests
    <3>2. Begun \in SUBSET Requests
      BY DEF Begun
    <3>3. QED
      BY <3>1, <3>2, FS_Subset
  <2>5. Cardinality(Begun \cup {r}) = Cardinality(Begun) + 1
    BY <2>3, <2>4, FS_AddElement
  <2>6. CountInv'
    BY <2>1, <2>3, <2>5 DEF StoreInv, CountInv
  <2>7. QED
    BY <2>2, <2>6 DEF StoreInv
<1>6. ASSUME NEW r \in Requests, StoreEvent(r) PROVE StoreInv'
  BY <1>6, StoreOne
<1>7. ASSUME NEW r \in Requests, EndIngest(r) PROVE StoreInv'
  <2>1. /\ r \in Senders /\ lock = r /\ pc[r] = "store" /\ todo[r] = {} /\ lock' = None
        /\ UNCHANGED store_vars
    BY <1>7, EndStep
  <2>2. HistoryInv' /\ LatestInv'
    BY <2>1 DEF StoreInv, HistoryInv, LatestInv, store_vars
  <2>3. Mine(r) # {}
    <3>1. Items(r) = ToStore(r) /\ ToStore(r) # {}
      BY <2>1 DEF BatchInv, HalfInv, CoreInv, ThreadInv, SenderInv
    <3>2. QED
      BY <3>1 DEF Items
  <2>4. Begun' = Begun
    <3>1. \A x : Mine(x)' = Mine(x)
      BY <2>1, SamePlaces DEF store_vars
    <3>2. \A x \in Requests : x # None
      BY RequestAssumption DEF Requests
    <3>3. QED
      BY <2>1, <2>3, <3>1, <3>2 DEF Begun
  <2>5. CountInv'
    BY <2>1, <2>4 DEF StoreInv, CountInv, store_vars
  <2>6. QED
    BY <2>2, <2>5 DEF StoreInv
<1>8. ASSUME NEW r \in Requests, ReadStep(r) PROVE StoreInv'
  BY <1>8, ReadSteps, StoreSame
<1>9. QED
  BY <1>1, <1>2, <1>3, <1>4, <1>5, <1>6, <1>7, <1>8, Cases

(* The parts of the store, between two batches. *)
LEMMA ConsistentMeans == StoreInv => StoreConsistent
<1> SUFFICES ASSUME StoreInv, lock = None PROVE
        /\ history = Last(ingested, max_events)
        /\ received_events = Len(ingested)
        /\ received_batches = Cardinality({r \in Requests : Mine(r) # {}})
        /\ \A t \in Types :
             LET held == {p \in 1 .. Len(ingested) : Key(ingested[p]) = t}
             IN  IF held = {} THEN latest_by_type[t] = None
                   ELSE \E p \in held : /\ latest_by_type[t] = ingested[p]
                                        /\ \A q \in held : q <= p
  BY DEF StoreConsistent
<1>1. Begun = {r \in Requests : Mine(r) # {}}
  <2>1. \A x \in Requests : x # None
    BY RequestAssumption DEF Requests
  <2>2. QED
    BY <2>1 DEF Begun
<1>2. received_batches = Cardinality({r \in Requests : Mine(r) # {}})
  BY <1>1 DEF StoreInv, CountInv
<1>3. ASSUME NEW t \in Types
      PROVE  LET held == {p \in 1 .. Len(ingested) : Key(ingested[p]) = t}
             IN  IF held = {} THEN latest_by_type[t] = None
                   ELSE \E p \in held : /\ latest_by_type[t] = ingested[p]
                                        /\ \A q \in held : q <= p
  BY DEF StoreInv, LatestInv
<1>4. QED
  BY <1>2, <1>3 DEF StoreInv, HistoryInv

(***************************************************************************)
(* Between two batches the history, the counters and the latest events of  *)
(* the store agree, for every length of the history and every set of       *)
(* concurrent requests.                                                    *)
(***************************************************************************)
THEOREM Consistent == Spec => []StoreConsistent
<1>1. Init => CoreInv /\ BatchInv /\ StoreInv
  BY CoreInit, BatchInit, StoreInit
<1>2. CoreInv /\ BatchInv /\ StoreInv /\ [Next]_vars => CoreInv' /\ BatchInv' /\ StoreInv'
  BY CoreStep, BatchStep, StoreStep
<1>3. QED
  BY <1>1, <1>2, ConsistentMeans, PTL DEF Spec
-----------------------------------------------------------------------------
(***************************************************************************)
(* What no step takes back: a request that has arrived keeps its query and *)
(* its past, one that is done keeps its answer, and the events stored     *)
(* keep their places; a new event is one of the request with the lock.     *)
(***************************************************************************)
LEMMA Stay ==
    ASSUME CoreInv, [Next]_vars
    PROVE  /\ \A x \in Requests :
                /\ pc[x] # "idle" => /\ query'[x] = query[x] /\ before'[x] = before[x]
                                     /\ pc'[x] # "idle"
                /\ pc[x] = "done" => pc'[x] = "done" /\ answer'[x] = answer[x]
                /\ pc[x] = "dump" => (pc'[x] = "dump" /\ answer'[x] = answer[x]) \/ Dump(x)
           /\ Len(ingested) \in Nat /\ Len(ingested') \in Nat /\ Len(ingested) <= Len(ingested')
           /\ \A p \in 1 .. Len(ingested) : ingested'[p] = ingested[p]
           /\ \A p \in Len(ingested) + 1 .. Len(ingested') : ingested'[p].req = lock /\ lock' = lock
<1>t. /\ pc \in [Requests -> {"idle", "stamp", "acquire", "store", "dump", "done"}]
      /\ query \in [Requests -> {NoQuery, [kind |-> "malformed"]} \cup Writes \cup Reads]
      /\ before \in [Requests -> SUBSET Requests]
      /\ DOMAIN answer = Requests /\ ingested \in Seq(Events) /\ Len(ingested) \in Nat
  BY DEF CoreInv, TypeOK, ThreadInv, AnswerInv
<1> DEFINE Kept ==
             \A x \in Requests :
                /\ pc[x] # "idle" => /\ query'[x] = query[x] /\ before'[x] = before[x]
                                     /\ pc'[x] # "idle"
                /\ pc[x] = "done" => pc'[x] = "done" /\ answer'[x] = answer[x]
                /\ pc[x] = "dump" => (pc'[x] = "dump" /\ answer'[x] = answer[x]) \/ Dump(x)
           Grown ==
             /\ Len(ingested) \in Nat /\ Len(ingested') \in Nat /\ Len(ingested) <= Len(ingested')
             /\ \A p \in 1 .. Len(ingested) : ingested'[p] = ingested[p]
             /\ \A p \in Len(ingested) + 1 .. Len(ingested') : ingested'[p].req = lock /\ lock' = lock
<1>g. ingested' = ingested => Grown
  BY <1>t
<1>1. CASE UNCHANGED vars
  <2>1. UNCHANGED <<query, pc, answer, before, ingested>>
    BY <1>1 DEF vars, thread_vars, store_vars
  <2>2. QED
    BY <1>g, <2>1
<1>a. ASSUME NEW r \in Requests, NEW q, NEW to \in {"stamp", "acquire", "done"}, Arrive(r, q, to),
             \A x \in Requests \ {r} : answer'[x] = answer[x]
      PROVE  Kept /\ Grown
  <2>1. /\ pc[r] = "idle" /\ pc' = [pc EXCEPT ![r] = to] /\ query' = [query EXCEPT ![r] = q]
        /\ before' = [before EXCEPT ![r] = {d \in Requests : pc[d] = "done"}]
        /\ ingested' = ingested
    BY <1>a, ArriveStep DEF store_vars
  <2>2. \A x \in Requests \ {r} : /\ pc'[x] = pc[x] /\ query'[x] = query[x] /\ before'[x] = before[x]
    BY <1>t, <2>1
  <2>3. Kept
    BY <1>a, <2>1, <2>2
  <2>4. QED
    BY <1>g, <2>1, <2>3
<1>2. ASSUME NEW r \in Requests, do_GET(r) PROVE Kept /\ Grown
  BY <1>2, <1>a DEF do_GET
<1>3. ASSUME NEW r \in Requests, do_POST(r) \/ Malformed(r) PROVE Kept /\ Grown
  <2>1. PICK q \in Writes \cup {[kind |-> "malformed"]}, to \in {"stamp", "done"} :
          Arrive(r, q, to) /\ \A x \in Requests \ {r} : answer'[x] = answer[x]
    <3>1. CASE \E q \in Writes : Arrive(r, q, "stamp") /\ answer' = answer
      BY <3>1
    <3>2. CASE \E q \in Writes \cup {[kind |-> "malformed"]} :
                 /\ Arrive(r, q, "done")
                 /\ \/ answer' = [answer EXCEPT ![r] = [status |-> "refused", body |-> None]]
                    \/ answer' = answer
      BY <1>t, <3>2
    <3>3. QED
      BY <1>3, <3>1, <3>2, PostStep
  <2>2. QED
    BY <1>a, <2>1
<1>4. ASSUME NEW r \in Requests, Stamp(r) PROVE Kept /\ Grown
  <2>1. /\ pc[r] = "stamp" /\ pc' = [pc EXCEPT ![r] = "acquire"]
        /\ UNCHANGED <<query, answer, before, ingested>>
    BY <1>4, StampStep DEF store_vars
  <2>2. Kept
    BY <1>t, <2>1
  <2>3. QED
    BY <1>g, <2>1, <2>2
<1>5. ASSUME NEW r \in Requests, BeginIngest(r) PROVE Kept /\ Grown
  <2>1. /\ pc[r] = "acquire" /\ pc' = [pc EXCEPT ![r] = "store"]
        /\ UNCHANGED <<query, answer, before, ingested>>
    BY <1>5, BeginStep
  <2>2. Kept
    BY <1>t, <2>1
  <2>3. QED
    BY <1>g, <2>1, <2>2
<1>6. ASSUME NEW r \in Requests, StoreEvent(r) PROVE Kept /\ Grown
  <2>1. /\ lock = r /\ UNCHANGED <<query, pc, answer, before, lock>>
    BY <1>6, StoringStep
  <2>2. PICK i \in todo[r] : Stored(r, i) \in Events /\ ingested' = Append(ingested, Stored(r, i))
    BY <1>6, StoringStep
  <2>3. Stored(r, i).req = r
    BY DEF Stored
  <2>4. /\ Len(ingested') = Len(ingested) + 1 /\ ingested'[Len(ingested) + 1] = Stored(r, i)
        /\ \A p \in 1 .. Len(ingested) : ingested'[p] = ingested[p]
    BY <2>2, <2>3, NewPlace
  <2>5. \A p \in Len(ingested) + 1 .. Len(ingested') : p = Len(ingested) + 1
    BY <1>t, <2>4
  <2>6. Kept
    BY <2>1
  <2>7. Len(ingested) \in Nat /\ Len(ingested') \in Nat /\ Len(ingested) <= Len(ingested')
    BY <1>t, <2>4
  <2>8. \A p \in Len(ingested) + 1 .. Len(ingested') : ingested'[p].req = lock /\ lock' = lock
    BY <2>1, <2>3, <2>4, <2>5
  <2>9. Grown
    BY <2>4, <2>7, <2>8
  <2>10. QED
    BY <2>6, <2>9
<1>7. ASSUME NEW r \in Requests, EndIngest(r) PROVE Kept /\ Grown
  <2>1. /\ pc[r] = "store" /\ pc' = [pc EXCEPT ![r] = "done"]
        /\ answer' = [answer EXCEPT ![r] = [status |-> "ok", body |-> Cardinality(ToStore(r))]]
        /\ UNCHANGED <<query, before, ingested>>
    BY <1>7, EndStep DEF store_vars
  <2>2. pc'[r] = "done" /\ \A x \in Requests \ {r} : pc'[x] = pc[x] /\ answer'[x] = answer[x]
    BY <1>t, <2>1
  <2>3. Kept
    BY <2>1, <2>2
  <2>4. QED
    BY <1>g, <2>1, <2>3
<1>8. ASSUME NEW r \in Requests, ReadStep(r) PROVE Kept /\ Grown
  <2>1. /\ pc[r] \in {"acquire", "dump"}
        /\ pc' = [pc EXCEPT ![r] = "done"] \/ pc' = [pc EXCEPT ![r] = "dump"]
        /\ \A x \in Requests \ {r} : answer'[x] = answer[x]
        /\ UNCHANGED <<query, before, ingested>>
    BY <1>8, ReadSteps DEF store_vars
  <2>2. pc'[r] \in {"done", "dump"} /\ \A x \in Requests \ {r} : pc'[x] = pc[x]
    BY <1>t, <2>1
  <2>3. pc[r] = "dump" => Dump(r)
    BY <1>8 DEF ReadStep, health, history_of, latest, Reader
  <2>4. Kept
    BY <2>1, <2>2, <2>3
  <2>5. QED
    BY <1>g, <2>1, <2>4
<1>9. Kept /\ Grown
  BY <1>1, <1>2, <1>3, <1>4, <1>5, <1>6, <1>7, <1>8, Cases
<1>10. QED
  BY <1>9

(* How a browser's request comes to an answer. *)
LEMMA Finish ==
    ASSUME CoreInv, [Next]_vars, NEW r \in Browsers
    PROVE  /\ pc'[r] = "done" /\ pc[r] # "done" => health(r) \/ history_of(r) \/ Dump(r)
           /\ pc'[r] = "dump" /\ pc[r] # "dump" => latest(r)
<1>t. pc \in [Requests -> {"idle", "stamp", "acquire", "store", "dump", "done"}] /\ r \in Requests
  BY DEF CoreInv, TypeOK, Requests
<1>s. r \notin Senders
  BY RequestAssumption
<1>1. CASE UNCHANGED vars
  BY <1>1 DEF vars, thread_vars
<1>2. CASE \E x \in Requests : ReadStep(x)
  <2>1. PICK x \in Requests : ReadStep(x)
    BY <1>2
  <2>2. CASE x # r
    <3>1. pc'[r] = pc[r]
      BY <1>t, <2>1, <2>2, ReadSteps
    <3>2. QED
      BY <3>1
  <2>3. CASE x = r
    <3>1. latest(r) => pc'[r] = "dump"
      BY <1>t DEF latest, Go
    <3>2. health(r) \/ history_of(r) \/ Dump(r) => pc'[r] = "done"
      BY <1>t DEF health, history_of, Dump, Go
    <3>3. QED
      BY <2>1, <2>3, <3>1, <3>2 DEF ReadStep
  <2>4. QED
    BY <2>2, <2>3
<1>3. ASSUME NEW x \in Requests, do_GET(x) PROVE pc'[r] = pc[r] \/ pc'[r] = "acquire"
  BY <1>3, <1>t DEF do_GET, Arrive, Go
<1>4. ASSUME NEW x \in Requests,
             (do_POST(x) \/ Malformed(x)) \/ Stamp(x) \/ BeginIngest(x) \/ StoreEvent(x) \/ EndIngest(x)
      PROVE  pc'[r] = pc[r]
  <2>1. x \in Senders
    BY <1>4, PostStep, StampStep, BeginStep, StoringStep, EndStep
  <2>2. x # r
    BY <1>s, <2>1
  <2>3. pc' = pc \/ \E v : pc' = [pc EXCEPT ![x] = v]
    <3>1. CASE do_POST(x) \/ Malformed(x)
      <4>1. \E q, to : Arrive(x, q, to)
        BY <3>1, PostStep
      <4>2. QED
        BY <4>1, ArriveStep
    <3>2. CASE Stamp(x)
      BY <3>2, StampStep
    <3>3. CASE BeginIngest(x)
      BY <3>3, BeginStep
    <3>4. CASE StoreEvent(x)
      BY <3>4, StoringStep
    <3>5. CASE EndIngest(x)
      BY <3>5, EndStep
    <3>6. QED
      BY <1>4, <3>1, <3>2, <3>3, <3>4, <3>5
  <2>4. QED
    BY <1>t, <2>2, <2>3
<1>5. QED
  BY <1>1, <1>2, <1>3, <1>4, Cases

(* How the clock and the lock move, and the readings of the senders. *)
LEMMA Moves ==
    ASSUME CoreInv, [Next]_vars
    PROVE  /\ ~stepped_back' => ~stepped_back
           /\ lock' \in {lock, None} \/ (lock' \in Requests /\ pc[lock'] = "acquire")
           /\ \A x \in Senders :
                \/ /\ now'[x] = now[x]
                   /\ pc'[x] \in {"acquire", "store"} => pc[x] \in {"acquire", "store"}
                \/ pc[x] = "stamp" /\ now'[x] = clock' /\ ReadClock
<1>t. /\ pc \in [Requests -> {"idle", "stamp", "acquire", "store", "dump", "done"}]
      /\ now \in [Requests -> 0 .. MaxClock] /\ stepped_back \in BOOLEAN
  BY DEF CoreInv, TypeOK
<1>d. Senders \subseteq Requests /\ Browsers \subseteq Requests /\ \A x \in Senders : x \notin Browsers
  BY RequestAssumption DEF Requests
<1> DEFINE Clocks == ~stepped_back' => ~stepped_back
           Locks == lock' \in {lock, None} \/ (lock' \in Requests /\ pc[lock'] = "acquire")
           Kept(x) == /\ now'[x] = now[x]
                      /\ pc'[x] \in {"acquire", "store"} => pc[x] \in {"acquire", "store"}
           Readings == \A x \in Senders : Kept(x) \/ (pc[x] = "stamp" /\ now'[x] = clock' /\ ReadClock)
           All == Clocks /\ Locks /\ Readings
<1>c. ReadClock \/ UNCHANGED clock_vars => Clocks
  BY DEF ReadClock, clock_vars
<1>1. CASE UNCHANGED vars
  BY <1>1, <1>c DEF vars, thread_vars
<1>a. ASSUME NEW r \in Requests, NEW q, NEW to, Arrive(r, q, to), to \in {"stamp", "done"} \/ r \in Browsers
      PROVE  All
  <2>1. pc' = [pc EXCEPT ![r] = to] /\ UNCHANGED <<now, lock, clock_vars>>
    BY <1>a, ArriveStep
  <2>2. \A x \in Requests \ {r} : pc'[x] = pc[x]
    BY <1>t, <2>1
  <2>3. r \in Senders => pc'[r] \in {"stamp", "done"}
    BY <1>a, <1>d, <1>t, <2>1
  <2>4. Readings
    BY <1>d, <2>1, <2>2, <2>3
  <2>5. QED
    BY <1>c, <2>1, <2>4
<1>2. ASSUME NEW r \in Requests, do_GET(r) PROVE All
  <2>1. r \in Browsers /\ \E q : Arrive(r, q, "acquire")
    BY <1>2 DEF do_GET
  <2>2. QED
    BY <1>a, <2>1
<1>3. ASSUME NEW r \in Requests, do_POST(r) \/ Malformed(r) PROVE All
  <2>1. \E q : \E to \in {"stamp", "done"} : Arrive(r, q, to)
    BY <1>3, PostStep
  <2>2. QED
    BY <1>a, <2>1
<1>4. ASSUME NEW r \in Requests, Stamp(r) PROVE All
  <2>1. /\ pc[r] = "stamp" /\ ReadClock /\ now' = [now EXCEPT ![r] = clock']
        /\ pc' = [pc EXCEPT ![r] = "acquire"] /\ lock' = lock
    BY <1>4, StampStep
  <2>2. now'[r] = clock' /\ \A x \in Requests \ {r} : now'[x] = now[x] /\ pc'[x] = pc[x]
    BY <1>t, <2>1
  <2>3. Readings
    BY <1>d, <2>1, <2>2
  <2>4. QED
    BY <1>c, <2>1, <2>3
<1>5. ASSUME NEW r \in Requests, BeginIngest(r) PROVE All
  <2>1. /\ pc[r] = "acquire" /\ lock' = r /\ pc' = [pc EXCEPT ![r] = "store"]
        /\ now' = now /\ UNCHANGED clock_vars
    BY <1>5, BeginStep
  <2>2. \A x \in Requests \ {r} : pc'[x] = pc[x]
    BY <1>t, <2>1
  <2>3. Readings
    BY <1>d, <2>1, <2>2
  <2>4. QED
    BY <1>c, <2>1, <2>3
<1>6. ASSUME NEW r \in Requests, StoreEvent(r) PROVE All
  <2>1. UNCHANGED <<pc, now, lock, clock_vars>>
    BY <1>6, StoringStep
  <2>2. QED
    BY <1>c, <2>1
<1>7. ASSUME NEW r \in Requests, EndIngest(r) PROVE All
  <2>1. /\ lock' = None /\ pc' = [pc EXCEPT ![r] = "done"] /\ now' = now /\ UNCHANGED clock_vars
    BY <1>7, EndStep
  <2>2. pc'[r] = "done" /\ \A x \in Requests \ {r} : pc'[x] = pc[x]
    BY <1>t, <2>1
  <2>3. Readings
    BY <1>d, <2>1, <2>2
  <2>4. QED
    BY <1>c, <2>1, <2>3
<1>8. ASSUME NEW r \in Requests, ReadStep(r) PROVE All
  <2>1. /\ r \in Browsers /\ UNCHANGED <<now, lock>>
        /\ ReadClock \/ UNCHANGED clock_vars
        /\ pc' = [pc EXCEPT ![r] = "done"] \/ pc' = [pc EXCEPT ![r] = "dump"]
    BY <1>8, ReadSteps
  <2>2. \A x \in Senders : pc'[x] = pc[x]
    BY <1>d, <1>t, <2>1
  <2>3. Readings
    BY <2>1, <2>2
  <2>4. QED
    BY <1>c, <2>1, <2>3
<1>9. All
  BY <1>1, <1>2, <1>3, <1>4, <1>5, <1>6, <1>7, <1>8, Cases
<1>10. QED
  BY <1>9
-----------------------------------------------------------------------------
(* What a report of health must satisfy, and keep satisfying. *)
AddsUp(b) ==
    /\ b.size = (IF b.events <= max_events THEN b.events ELSE max_events)
    /\ b.batches <= b.events
    /\ (b.batches = 0) = (b.seen = {})
    /\ b.batches = 1 => \E x \in Requests : query[x].kind = "post" /\ b.events = Cardinality(ToStore(x))
Past(b) == b.batches # 0 /\ ~stepped_back => b.age >= 0
Sound(b) == AddsUp(b) /\ Past(b)

HealthInv == \A r \in Browsers : pc[r] = "done" /\ query[r].kind = "health" => Sound(answer[r].body)

(* Between two batches, at most as many batches as events are stored. *)
LEMMA FewerBatches ==
    ASSUME CoreInv
    PROVE  Cardinality({x \in Requests : Mine(x) # {}}) <= Len(ingested)
<1> DEFINE R == {x \in Requests : Mine(x) # {}}
           f == [p \in 1 .. Len(ingested) |-> ingested[p].req]
<1>1. Len(ingested) \in Nat /\ \A p \in 1 .. Len(ingested) : ingested[p] \in Events
  BY DEF CoreInv, TypeOK
<1>2. \A p \in 1 .. Len(ingested) : ingested[p].req \in R
  <2>1. \A p \in 1 .. Len(ingested) : ingested[p].req \in Requests
    BY <1>1 DEF Events, Requests
  <2>2. \A p \in 1 .. Len(ingested) : p \in Mine(ingested[p].req)
    BY DEF Mine
  <2>3. QED
    BY <2>1, <2>2
<1>3. f \in [1 .. Len(ingested) -> R]
  BY <1>2
<1>4. \A x \in R : \E p \in 1 .. Len(ingested) : f[p] = x
  BY DEF Mine
<1>5. f \in Surjection(1 .. Len(ingested), R)
  BY <1>3, <1>4 DEF Surjection
<1>6. ExistsSurjection(1 .. Len(ingested), R)
  BY <1>5 DEF ExistsSurjection
<1> HIDE DEF R, f
<1>7. Cardinality(R) <= Len(ingested)
  BY <1>1, <1>6, FS_SurjCardinalityBound
<1>8. QED
  BY <1>7 DEF R

(* What health reports while the lock is free. *)
LEMMA HealthSound ==
    ASSUME CoreInv, BatchInv, StoreInv, lock = None, NEW age
    PROVE  AddsUp([batches |-> received_batches, events |-> received_events,
                   size |-> Len(history), age |-> age,
                   seen |-> {t \in Types : latest_by_type[t] # None}])
<1> DEFINE R == {x \in Requests : Mine(x) # {}}
           b == [batches |-> received_batches, events |-> received_events,
                 size |-> Len(history), age |-> age,
                 seen |-> {t \in Types : latest_by_type[t] # None}]
<1>0. /\ b.batches = received_batches /\ b.events = received_events /\ b.size = Len(history)
      /\ b.seen = {t \in Types : latest_by_type[t] # None}
  OBVIOUS
<1>1. /\ ingested \in Seq(Events) /\ Len(ingested) \in Nat
      /\ \A p \in 1 .. Len(ingested) : ingested[p] \in Events
  BY DEF CoreInv, TypeOK
<1>2. /\ history = Last(ingested, max_events) /\ received_events = Len(ingested)
      /\ received_batches = Cardinality(R)
  BY ConsistentMeans DEF StoreConsistent
<1>3. IsFiniteSet(R)
  <2>1. IsFiniteSet(Requests)
    BY RequestAssumption, FS_Union DEF Requests
  <2>2. R \in SUBSET Requests
    OBVIOUS
  <2>3. QED
    BY <2>1, <2>2, FS_Subset
<1>4. b.size = (IF b.events <= max_events THEN b.events ELSE max_events)
  <2>1. max_events \in Nat \ {0}
    BY StoreAssumption
  <2>2. Len(history) = IF Len(ingested) > max_events THEN max_events ELSE Len(ingested)
    BY <1>1, <1>2, <2>1, LastSeq
  <2>3. QED
    BY <1>0, <1>1, <1>2, <2>1, <2>2
<1>5. b.batches <= b.events
  BY <1>0, <1>2, FewerBatches
<1>7. (b.batches = 0) = (b.seen = {})
  <2>1. b.batches = 0 <=> R = {}
    BY <1>0, <1>2, <1>3, FS_EmptySet
  <2>2. ASSUME R = {} PROVE b.seen = {}
    <3>1. \A p \in 1 .. Len(ingested) : FALSE
      <4>1. \A p \in 1 .. Len(ingested) : ingested[p].req \in Requests
        BY <1>1 DEF Events, Requests
      <4>2. \A p \in 1 .. Len(ingested) : p \in Mine(ingested[p].req)
        BY DEF Mine
      <4>3. QED
        BY <2>2, <4>1, <4>2
    <3>2. \A t \in Types : latest_by_type[t] = None
      BY <3>1 DEF StoreInv, LatestInv
    <3>3. QED
      BY <1>0, <3>2
  <2>3. ASSUME R # {} PROVE b.seen # {}
    <3>1. PICK x \in Requests : Mine(x) # {}
      BY <2>3
    <3>2. PICK p \in 1 .. Len(ingested) : ingested[p].req = x
      BY <3>1 DEF Mine
    <3>3. Key(ingested[p]) \in Types
      BY <1>1, Keys
    <3>4. latest_by_type[Key(ingested[p])] # None
      <4>1. PICK q \in 1 .. Len(ingested) : latest_by_type[Key(ingested[p])] = ingested[q]
        BY <3>2, <3>3 DEF StoreInv, LatestInv
      <4>2. ingested[q] # None
        BY <1>1, RequestAssumption DEF Events
      <4>3. QED
        BY <4>1, <4>2
    <3>5. QED
      BY <1>0, <3>3, <3>4
  <2>4. (b.batches = 0) <=> (b.seen = {})
    BY <2>1, <2>2, <2>3
  <2>5. QED
    BY <2>4
<1>8. b.batches = 1 => \E x \in Requests : query[x].kind = "post" /\ b.events = Cardinality(ToStore(x))
  <2> SUFFICES ASSUME b.batches = 1
               PROVE  \E x \in Requests : query[x].kind = "post" /\ b.events = Cardinality(ToStore(x))
    OBVIOUS
  <2>1. PICK x : R = {x}
    BY <1>0, <1>2, <1>3, FS_Singleton
  <2>2. x \in Requests /\ Mine(x) # {}
    BY <2>1
  <2>3. Mine(x) = 1 .. Len(ingested)
    <3>1. \A p \in 1 .. Len(ingested) : ingested[p].req \in Requests
      BY <1>1 DEF Events, Requests
    <3>2. \A p \in 1 .. Len(ingested) : p \in Mine(ingested[p].req)
      BY DEF Mine
    <3>3. \A p \in 1 .. Len(ingested) : ingested[p].req = x
      BY <2>1, <3>1, <3>2
    <3>4. QED
      BY <3>3 DEF Mine
  <2>4. x \in Senders
    <3>1. \A p \in 1 .. Len(ingested) : ingested[p].req \in Senders
      BY <1>1 DEF Events
    <3>2. QED
      BY <2>2, <3>1 DEF Mine
  <2>5. pc[x] = "done"
    <3>1. pc[x] \in {"idle", "stamp", "acquire", "store", "dump", "done"}
      BY <2>2 DEF CoreInv, TypeOK
    <3>2. pc[x] \notin {"idle", "stamp", "acquire"}
      BY <2>2 DEF BatchInv, EarlyInv
    <3>3. pc[x] # "dump"
      BY <2>4 DEF CoreInv, ThreadInv, SenderInv
    <3>4. pc[x] # "store"
      BY <2>2, RequestAssumption DEF CoreInv, ThreadInv, LockInv, Requests
    <3>5. QED
      BY <3>1, <3>2, <3>3, <3>4
  <2>6. query[x] \in Writes /\ Items(x) = ToStore(x)
    BY <2>2, <2>4, <2>5 DEF BatchInv, DoneInv
  <2>7. query[x].kind = "post"
    BY <2>6, Queries
  <2>8. Cardinality(ToStore(x)) = Cardinality(1 .. Len(ingested))
    BY <2>2, <2>3, <2>6, AsMany
  <2>9. Cardinality(1 .. Len(ingested)) = Len(ingested)
    <3>1. 1 \in Int /\ Len(ingested) \in Int /\ Len(ingested) \in Nat
      BY <1>1
    <3>2. Cardinality(1 .. Len(ingested)) = IF 1 > Len(ingested) THEN 0 ELSE Len(ingested) - 1 + 1
      BY <3>1, FS_Interval
    <3>3. QED
      BY <3>1, <3>2
  <2>10. QED
    BY <1>0, <1>2, <2>2, <2>7, <2>8, <2>9
<1> HIDE DEF b
<1>9. AddsUp(b)
  BY <1>4, <1>5, <1>7, <1>8 DEF AddsUp
<1>10. QED
  BY <1>9 DEF b

(* Every step preserves the soundness of the reports. *)
LEMMA HealthStep == CoreInv /\ BatchInv /\ StoreInv /\ HealthInv /\ [Next]_vars => HealthInv'
<1> SUFFICES ASSUME CoreInv, BatchInv, StoreInv, HealthInv, [Next]_vars,
                    NEW r \in Browsers, pc'[r] = "done", query'[r].kind = "health"
             PROVE  Sound(answer[r].body)'
  BY DEF HealthInv
<1>0. r \in Requests
  BY DEF Requests
<1>c. ~stepped_back' => ~stepped_back
  BY Moves
<1>k. ASSUME NEW b, AddsUp(b) PROVE AddsUp(b)'
  <2>1. ASSUME NEW x \in Requests, query[x].kind = "post"
        PROVE  query'[x].kind = "post" /\ ToStore(x)' = ToStore(x)
    <3>1. pc[x] # "idle"
      BY <2>1, Queries DEF CoreInv, ThreadInv, BrowserInv, SenderInv, Requests
    <3>2. query'[x] = query[x]
      BY <3>1, Stay
    <3>3. QED
      BY <2>1, <3>2 DEF ToStore, ObjectsIn
  <2>2. QED
    BY <1>k, <2>1 DEF AddsUp
<1>1. CASE pc[r] = "done"
  <2>1. query'[r] = query[r] /\ answer'[r] = answer[r]
    BY <1>0, <1>1, Stay
  <2>2. Sound(answer[r].body)
    BY <1>1, <2>1 DEF HealthInv
  <2>b. PICK b : b = answer[r].body
    OBVIOUS
  <2>3. AddsUp(b) /\ Past(b) /\ answer'[r].body = b
    BY <2>1, <2>2, <2>b DEF Sound
  <2>4. AddsUp(b)' /\ Past(b)'
    BY <1>c, <1>k, <2>3 DEF Past
  <2>5. QED
    BY <2>3, <2>4 DEF Sound, AddsUp, Past
<1>2. CASE pc[r] # "done"
  <2>1. health(r) \/ history_of(r) \/ Dump(r)
    BY <1>2, Finish
  <2>2. query' = query
    BY <2>1 DEF health, history_of, Dump
  <2>3. health(r)
    <3>1. ~history_of(r)
      BY <2>2 DEF history_of, Reader
    <3>2. ~Dump(r)
      BY <2>2 DEF Dump, CoreInv, ThreadInv, BrowserInv
    <3>3. QED
      BY <2>1, <3>1, <3>2
  <2>a. PICK age : age = IF last_ingested_at = None THEN None ELSE clock' - last_ingested_at
    OBVIOUS
  <2>b. PICK b : b = [batches |-> received_batches, events |-> received_events,
                      size |-> Len(history), age |-> age,
                      seen |-> {t \in Types : latest_by_type[t] # None}]
    OBVIOUS
  <2>4. lock = None /\ answer'[r] = [status |-> "ok", body |-> b] /\ ReadClock
    BY <1>0, <2>3, <2>a, <2>b DEF health, LockFree, Send, CoreInv, ThreadInv, AnswerInv
  <2>5. received_batches # 0 /\ ~stepped_back' => age >= 0
    <3> SUFFICES ASSUME received_batches # 0, ~stepped_back' PROVE age >= 0
      OBVIOUS
    <3>1. ~stepped_back /\ clock \in Nat /\ clock' \in Nat /\ clock <= clock'
      BY <2>4, ReadsOn
    <3>2. last_ingested_at # None /\ last_ingested_at <= clock
      BY <3>1 DEF CoreInv, ClockInv
    <3>3. last_ingested_at \in Nat
      BY <3>2, StoreAssumption DEF CoreInv, TypeOK
    <3>4. age = clock' - last_ingested_at
      BY <2>a, <3>2
    <3>5. clock' - last_ingested_at >= 0
      <4>1. \A x, y, z \in Nat : x <= y /\ y <= z => z - x >= 0
        OBVIOUS
      <4>2. QED
        BY <3>1, <3>2, <3>3, <4>1
    <3>6. QED
      BY <3>4, <3>5
  <2>6. AddsUp(b)
    BY <2>4, <2>b, HealthSound
  <2>7. answer'[r].body = b /\ b.batches = received_batches /\ b.age = age
    BY <2>4, <2>b
  <2>8. AddsUp(b)' /\ Past(b)'
    BY <1>k, <2>5, <2>6, <2>7 DEF Past
  <2>9. QED
    BY <2>7, <2>8 DEF Sound, AddsUp, Past
<1>3. QED
  BY <1>1, <1>2

(* Only a browser that is done has an answer to such a query. *)
LEMMA Answered ==
    ASSUME CoreInv, NEW r \in Requests, answer[r] # None, query[r].kind \in {"health", "history", "latest"}
    PROVE  r \in Browsers /\ (pc[r] = "done" \/ (pc[r] = "dump" /\ query[r].kind = "latest"))
<1>1. r \notin Senders
  <2>1. query[r].kind \notin {"none", "malformed", "post"}
    OBVIOUS
  <2>2. QED
    BY <2>1, Queries DEF CoreInv, ThreadInv, SenderInv
<1>2. r \in Browsers
  BY <1>1 DEF Requests
<1>3. pc[r] \in {"dump", "done"}
  BY <1>2 DEF CoreInv, ThreadInv, AnswerInv, BrowserInv
<1>4. QED
  BY <1>2, <1>3 DEF CoreInv, ThreadInv, BrowserInv

(* Whole batches and sound reports are what the property asks for. *)
LEMMA WholeMeans == CoreInv /\ BatchInv /\ HealthInv => BatchesWhole
<1> SUFFICES ASSUME CoreInv, BatchInv, HealthInv PROVE BatchesWhole
  OBVIOUS
<1>1. \A p, q \in 1 .. Len(ingested) : p < q /\ ingested[p].req = ingested[q].req =>
         \A m \in p .. q : ingested[m].req = ingested[p].req
  BY DEF BatchInv, WholeInv
<1>2. ASSUME NEW r \in Requests, answer[r] # None, query[r].kind = "health"
      PROVE  Sound(answer[r].body)
  <2>1. r \in Browsers /\ pc[r] = "done"
    BY <1>2, Answered
  <2>2. QED
    BY <1>2, <2>1 DEF HealthInv
<1>3. QED
  BY <1>1, <1>2 DEF BatchesWhole, Sound, AddsUp, Past

(***************************************************************************)
(* Batches of concurrent requests never mix in what is stored, and a       *)
(* report of health never shows half of one, for every number of threads.  *)
(***************************************************************************)
THEOREM Whole == Spec => []BatchesWhole
<1> DEFINE I == CoreInv /\ BatchInv /\ StoreInv /\ HealthInv
<1>1. Init => I
  <2>1. Init => HealthInv
    BY DEF Init, HealthInv, Requests
  <2>2. QED
    BY <2>1, CoreInit, BatchInit, StoreInit
<1>2. I /\ [Next]_vars => I'
  BY CoreStep, BatchStep, StoreStep, HealthStep
<1>3. I => BatchesWhole
  BY WholeMeans
<1>4. QED
  BY <1>1, <1>2, <1>3, PTL DEF Spec
-----------------------------------------------------------------------------
(* The latest events l cover the first n that were stored. *)
Covers(l, n) ==
    \A p \in 1 .. n :
        /\ l[Key(ingested[p])] # None
        /\ \E q \in p .. Len(ingested) : ingested[q] = l[Key(ingested[p])]

(***************************************************************************)
(* What /api/latest counted under the lock is what was stored then, and    *)
(* what it read after it had let go of the lock covers that.               *)
(***************************************************************************)
DumpInv ==
    \A r \in Browsers :
        /\ pc[r] = "dump" => /\ answer[r].body.events \in 0 .. Len(ingested)
                             /\ answer[r] = [status |-> "ok", body |-> [by_type |-> None,
                                    size |-> answer[r].body.size, events |-> answer[r].body.events]]
        /\ pc[r] = "done" /\ query[r].kind = "latest" =>
             /\ answer[r].body.events \in 0 .. Len(ingested)
             /\ Covers(answer[r].body.by_type, answer[r].body.events)

(* The live dictionary covers all that is stored. *)
LEMMA LiveCovers ==
    ASSUME CoreInv, StoreInv, NEW n \in 0 .. Len(ingested)
    PROVE  Covers(latest_by_type, n)
<1> SUFFICES ASSUME NEW p \in 1 .. n
             PROVE  /\ latest_by_type[Key(ingested[p])] # None
                    /\ \E q \in p .. Len(ingested) : ingested[q] = latest_by_type[Key(ingested[p])]
  BY DEF Covers
<1>1. ingested \in Seq(Events) /\ Len(ingested) \in Nat
  BY DEF CoreInv, TypeOK
<1>2. p \in 1 .. Len(ingested) /\ ingested[p] \in Events
  BY <1>1
<1>3. Key(ingested[p]) \in Types
  BY <1>2, Keys
<1>4. PICK q \in 1 .. Len(ingested) :
        latest_by_type[Key(ingested[p])] = ingested[q] /\ p <= q
  BY <1>2, <1>3 DEF StoreInv, LatestInv
<1>5. ingested[q] \in Events /\ q \in p .. Len(ingested)
  BY <1>1, <1>2, <1>4
<1>6. ingested[q] # None
  BY <1>5, RequestAssumption DEF Events
<1>7. QED
  BY <1>4, <1>5, <1>6

(* What is covered stays covered. *)
LEMMA CoversStays ==
    ASSUME CoreInv, [Next]_vars, NEW l, NEW n \in 0 .. Len(ingested), Covers(l, n)
    PROVE  Covers(l, n)' /\ n \in 0 .. Len(ingested')
<1>1. /\ Len(ingested) \in Nat /\ Len(ingested') \in Nat /\ Len(ingested) <= Len(ingested')
      /\ \A p \in 1 .. Len(ingested) : ingested'[p] = ingested[p]
  BY Stay
<1>2. ASSUME NEW p \in 1 .. n
      PROVE  /\ l[Key(ingested'[p])] # None
             /\ \E q \in p .. Len(ingested') : ingested'[q] = l[Key(ingested'[p])]
  <2>1. p \in 1 .. Len(ingested)
    BY <1>1
  <2>2. ingested'[p] = ingested[p]
    BY <1>1, <2>1
  <2>3. PICK q \in p .. Len(ingested) : ingested[q] = l[Key(ingested[p])]
    BY DEF Covers
  <2>4. q \in 1 .. Len(ingested) /\ q \in p .. Len(ingested')
    BY <1>1, <2>1
  <2>5. ingested'[q] = ingested[q]
    BY <1>1, <2>4
  <2>6. QED
    BY <2>2, <2>3, <2>4, <2>5 DEF Covers
<1>3. n \in 0 .. Len(ingested')
  BY <1>1
<1>4. QED
  BY <1>2, <1>3 DEF Covers

(* Every step preserves what /api/latest says. *)
LEMMA DumpStep == CoreInv /\ StoreInv /\ DumpInv /\ [Next]_vars => DumpInv'
<1> SUFFICES ASSUME CoreInv, StoreInv, DumpInv, [Next]_vars, NEW r \in Browsers
             PROVE  /\ pc'[r] = "dump" =>
                         /\ answer'[r].body.events \in 0 .. Len(ingested')
                         /\ answer'[r] = [status |-> "ok", body |-> [by_type |-> None,
                               size |-> answer'[r].body.size, events |-> answer'[r].body.events]]
                    /\ pc'[r] = "done" /\ query'[r].kind = "latest" =>
                         /\ answer'[r].body.events \in 0 .. Len(ingested')
                         /\ Covers(answer[r].body.by_type, answer[r].body.events)'
  BY DEF DumpInv
<1>0. r \in Requests
  BY DEF Requests
<1>g. /\ Len(ingested) \in Nat /\ Len(ingested') \in Nat /\ Len(ingested) <= Len(ingested')
  BY Stay
<1>1. CASE pc'[r] = "dump" /\ pc[r] = "dump"
  <2>1. answer'[r] = answer[r]
    <3>1. ~Dump(r)
      BY <1>0, <1>1 DEF Dump, Go, CoreInv, TypeOK
    <3>2. QED
      BY <1>0, <1>1, <3>1, Stay
  <2>2. QED
    BY <1>1, <1>g, <2>1 DEF DumpInv
<1>2. CASE pc'[r] = "dump" /\ pc[r] # "dump"
  <2>1. latest(r)
    BY <1>2, Finish
  <2>2. /\ answer'[r] = [status |-> "ok", body |-> [by_type |-> None, size |-> Len(history),
                                                    events |-> received_events]]
        /\ ingested' = ingested
    BY <1>0, <2>1 DEF latest, Send, CoreInv, ThreadInv, AnswerInv, store_vars
  <2>3. received_events = Len(ingested)
    BY DEF StoreInv, HistoryInv
  <2>4. QED
    BY <1>2, <1>g, <2>2, <2>3
<1>3. CASE pc'[r] = "done" /\ pc[r] = "done" /\ query'[r].kind = "latest"
  <2>1. query'[r] = query[r] /\ answer'[r] = answer[r]
    BY <1>0, <1>3, Stay
  <2>2. /\ answer[r].body.events \in 0 .. Len(ingested)
        /\ Covers(answer[r].body.by_type, answer[r].body.events)
    BY <1>3, <2>1 DEF DumpInv
  <2>3. /\ \A p \in 1 .. answer[r].body.events :
             /\ answer[r].body.by_type[Key(ingested'[p])] # None
             /\ \E q \in p .. Len(ingested') : ingested'[q] = answer[r].body.by_type[Key(ingested'[p])]
        /\ answer[r].body.events \in 0 .. Len(ingested')
    BY <2>2, CoversStays DEF Covers
  <2>4. QED
    BY <1>3, <2>1, <2>3 DEF Covers
<1>4. CASE pc'[r] = "done" /\ pc[r] # "done" /\ query'[r].kind = "latest"
  <2>1. health(r) \/ history_of(r) \/ Dump(r)
    BY <1>4, Finish
  <2>2. query' = query /\ ingested' = ingested
    BY <2>1 DEF health, history_of, Dump, store_vars
  <2>3. Dump(r)
    BY <1>4, <2>1, <2>2 DEF health, history_of, Reader
  <2> DEFINE n == answer[r].body.events
  <2>4. /\ n \in 0 .. Len(ingested)
        /\ answer[r] = [status |-> "ok", body |-> [by_type |-> None,
                          size |-> answer[r].body.size, events |-> n]]
    BY <2>3 DEF DumpInv, Dump
  <2>5. answer' = [answer EXCEPT ![r].body.by_type = latest_by_type]
    BY <2>3 DEF Dump
  <2>6. answer'[r] = [answer[r] EXCEPT !.body.by_type = latest_by_type]
    BY <1>0, <2>5 DEF CoreInv, ThreadInv, AnswerInv
  <2>7. answer'[r].body.by_type = latest_by_type /\ answer'[r].body.events = n
    BY <2>4, <2>6
  <2>8. Covers(latest_by_type, n)
    BY <2>4, LiveCovers
  <2>9. QED
    BY <1>4, <2>2, <2>4, <2>7, <2>8 DEF Covers
<1>5. QED
  BY <1>1, <1>2, <1>3, <1>4

(***************************************************************************)
(* The answer of /api/latest is never older than its own counters: every   *)
(* type among the events it counted is in it, with that event or a later   *)
(* one, although it reads the dictionary after it has let go of the lock.  *)
(***************************************************************************)
THEOREM Covered == Spec => []LatestCoversCount
<1> DEFINE I == CoreInv /\ BatchInv /\ StoreInv /\ DumpInv
<1>1. Init => I
  <2>1. Init => DumpInv
    BY DEF Init, DumpInv, Requests
  <2>2. QED
    BY <2>1, CoreInit, BatchInit, StoreInit
<1>2. I /\ [Next]_vars => I'
  BY CoreStep, BatchStep, StoreStep, DumpStep
<1>3. I => LatestCoversCount
  <2> SUFFICES ASSUME I, NEW r \in Requests, answer[r] # None, query[r].kind = "latest", pc[r] # "dump"
               PROVE  Covers(answer[r].body.by_type, answer[r].body.events)
    BY DEF LatestCoversCount, Covers
  <2>1. r \in Browsers /\ pc[r] = "done"
    BY Answered
  <2>2. QED
    BY <2>1 DEF DumpInv
<1>4. QED
  BY <1>1, <1>2, <1>3, PTL DEF Spec
-----------------------------------------------------------------------------
(* After n events no batch was under way, and none is that has events among them. *)
Cut(n) == \A p \in 1 .. n : /\ ingested[p].req # lock
                            /\ \A q \in n + 1 .. Len(ingested) : ingested[q].req # ingested[p].req

(* What GET /api/history gives when n events are stored. *)
Given(n, q) == Selected(Last(SubSeq(ingested, 1, n), max_events), q)

(***************************************************************************)
(* Readings and places.  What was answered before a request arrived was    *)
(* stored by then, and read the clock no later than it, unless the clock   *)
(* was set back.  A list from the history is what some whole batches left  *)
(* in it.                                                                  *)
(***************************************************************************)
LaterInv == ~stepped_back =>
    \A r \in Senders : pc[r] \in {"acquire", "store"} \/ Mine(r) # {} =>
        \A d \in before[r] : now[d] <= now[r]
PlaceInv == \A p, q \in 1 .. Len(ingested) :
                ingested[p].req \in before[ingested[q].req] => p < q
ListInv ==
    \A r \in Browsers : pc[r] = "done" /\ query[r].kind = "history" =>
        \E n \in 0 .. Len(ingested) :
            /\ Cut(n) /\ answer[r].body = Given(n, query[r])
            /\ \A p \in n + 1 .. Len(ingested) : ingested[p].req \notin before[r]

OrderInv == LaterInv /\ PlaceInv /\ ListInv

(* A place is an old one, or one of the request that keeps the lock. *)
LEMMA OldOrNew ==
    ASSUME CoreInv, CoreInv', BatchInv, [Next]_vars, NEW p \in 1 .. Len(ingested')
    PROVE  /\ p \in Nat /\ ingested'[p].req \in Requests
           /\ \/ /\ p \in 1 .. Len(ingested) /\ ingested'[p] = ingested[p]
                 /\ pc[ingested[p].req] # "idle" /\ ingested[p] \in Events
              \/ /\ p \in Len(ingested) + 1 .. Len(ingested') /\ ingested'[p].req = lock
                 /\ lock' = lock /\ pc'[lock] = "store" /\ lock \in Requests /\ pc[lock] = "store"
<1>1. ingested \in Seq(Events) /\ ingested' \in Seq(Events)
  BY DEF CoreInv, TypeOK
<1>2. ingested'[p] \in Events /\ p \in Nat
  BY <1>1
<1>3. ingested'[p].req \in Requests
  BY <1>2 DEF Events, Requests
<1>4. CASE p \in 1 .. Len(ingested)
  <2>1. ingested'[p] = ingested[p]
    BY <1>4, Stay
  <2>2. p \in Mine(ingested[p].req)
    BY <1>4 DEF Mine
  <2>3. pc[ingested[p].req] # "idle"
    BY <1>3, <2>1, <2>2 DEF BatchInv, EarlyInv
  <2>4. QED
    BY <1>2, <1>3, <1>4, <2>1, <2>3
<1>5. CASE p \notin 1 .. Len(ingested)
  <2>1. p \in Len(ingested) + 1 .. Len(ingested')
    BY <1>1, <1>5
  <2>2. ingested'[p].req = lock /\ lock' = lock
    BY <2>1, Stay
  <2>3. lock \in Requests
    BY <1>3, <2>2
  <2>4. pc[lock] = "store"
    BY <2>3 DEF CoreInv, ThreadInv, LockInv
  <2>5. pc'[lock] = "store"
    BY <2>2, <2>3 DEF CoreInv, ThreadInv, LockInv
  <2>6. QED
    BY <1>2, <1>3, <2>1, <2>2, <2>3, <2>4, <2>5
<1>6. QED
  BY <1>4, <1>5

(* The request with the lock is in nobody's past. *)
LEMMA NotBefore ==
    ASSUME CoreInv, NEW x \in Requests, lock \in Requests
    PROVE  lock \notin before[x]
<1>1. pc[lock] = "store"
  BY DEF CoreInv, ThreadInv, LockInv
<1>2. QED
  BY <1>1 DEF CoreInv, ThreadInv, BeforeInv

(* A browser's request never reads it for itself. *)
LEMMA DoneNow ==
    ASSUME CoreInv, [Next]_vars, NEW x \in Browsers
    PROVE  now'[x] = now[x]
<1>t. x \in Requests /\ x \notin Senders /\ now \in [Requests -> 0 .. MaxClock]
  BY RequestAssumption DEF Requests, CoreInv, TypeOK
<1>1. CASE UNCHANGED vars
  BY <1>1 DEF vars, thread_vars
<1>2. ASSUME NEW r \in Requests, Stamp(r) PROVE now'[x] = now[x]
  BY <1>2, <1>t, StampStep
<1>3. ASSUME NEW r \in Requests,
             do_GET(r) \/ (do_POST(r) \/ Malformed(r)) \/ BeginIngest(r) \/ StoreEvent(r) \/ EndIngest(r)
                \/ ReadStep(r)
      PROVE  now' = now
  <2>1. do_GET(r) \/ do_POST(r) \/ Malformed(r) => now' = now
    BY DEF do_GET, do_POST, Malformed, Arrive
  <2>2. QED
    BY <1>3, <2>1, BeginStep, StoringStep, EndStep, ReadSteps
<1>4. QED
  BY <1>1, <1>2, <1>3, Cases

(* What was answered before a request arrived read the clock no later. *)
LEMMA LaterStep ==
    ASSUME CoreInv, CoreInv', BatchInv, OrderInv, [Next]_vars
    PROVE  LaterInv'
<1> SUFFICES ASSUME ~stepped_back', NEW r \in Senders,
                    pc'[r] \in {"acquire", "store"} \/ Mine(r)' # {},
                    NEW d \in before'[r]
             PROVE  now'[d] <= now'[r]
  BY DEF LaterInv
<1>t. /\ pc \in [Requests -> {"idle", "stamp", "acquire", "store", "dump", "done"}]
      /\ now \in [Requests -> 0 .. MaxClock] /\ before \in [Requests -> SUBSET Requests]
  BY DEF CoreInv, TypeOK
<1>n. \A c \in 0 .. MaxClock : c \in Nat
  BY StoreAssumption
<1>r. r \in Requests
  BY DEF Requests
<1>s. ~stepped_back
  BY Moves
<1>1. ASSUME NEW x \in Requests, pc[x] = "done" PROVE now'[x] = now[x]
  <2>1. CASE x \in Senders
    BY <1>1, <2>1, Moves
  <2>2. CASE x \in Browsers
    BY <1>1, <2>2, DoneNow
  <2>3. QED
    BY <2>1, <2>2 DEF Requests
<1>2. CASE pc[r] = "stamp" /\ now'[r] = clock' /\ ReadClock
  <2>1. d \in before[r]
    BY <1>2, <1>r, Stay
  <2>2. d \in Requests /\ pc[d] = "done"
    BY <1>r, <1>t, <2>1 DEF CoreInv, ThreadInv, BeforeInv
  <2>3. now'[d] = now[d] /\ now[d] \in Nat
    BY <1>1, <1>t, <1>n, <2>2
  <2>4. now[d] <= clock
    BY <1>s, <2>2 DEF CoreInv, ClockInv
  <2>5. clock \in Nat /\ clock' \in Nat /\ clock <= clock'
    BY <1>2, ReadsOn
  <2>6. QED
    BY <1>2, <2>3, <2>4, <2>5
<1>3. CASE ~(pc[r] = "stamp" /\ now'[r] = clock' /\ ReadClock)
  <2>1. now'[r] = now[r] /\ (pc'[r] \in {"acquire", "store"} => pc[r] \in {"acquire", "store"})
    BY <1>3, Moves
  <2>2. pc[r] \in {"acquire", "store"} \/ Mine(r) # {}
    <3>1. CASE pc'[r] \in {"acquire", "store"}
      BY <2>1, <3>1
    <3>2. CASE Mine(r)' # {}
      <4>1. PICK p \in 1 .. Len(ingested') : ingested'[p].req = r
        BY <3>2 DEF Mine
      <4>2. CASE p \in 1 .. Len(ingested) /\ ingested'[p] = ingested[p]
        BY <4>1, <4>2 DEF Mine
      <4>3. CASE ingested'[p].req = lock /\ pc[lock] = "store"
        BY <4>1, <4>3
      <4>4. QED
        BY <4>2, <4>3, OldOrNew
    <3>3. QED
      BY <3>1, <3>2
  <2>3. pc[r] # "idle"
    BY <1>r, <2>2 DEF BatchInv, EarlyInv
  <2>4. d \in before[r]
    BY <1>r, <2>3, Stay
  <2>5. d \in Requests /\ pc[d] = "done"
    BY <1>r, <1>t, <2>4 DEF CoreInv, ThreadInv, BeforeInv
  <2>6. now[d] <= now[r]
    BY <1>s, <2>2, <2>4 DEF OrderInv, LaterInv
  <2>7. QED
    BY <1>1, <2>1, <2>5, <2>6
<1>4. QED
  BY <1>2, <1>3

(* What was answered before a request arrived lies before its events. *)
LEMMA PlaceStep ==
    ASSUME CoreInv, CoreInv', BatchInv, OrderInv, [Next]_vars
    PROVE  PlaceInv'
<1> SUFFICES ASSUME NEW p \in 1 .. Len(ingested'), NEW q \in 1 .. Len(ingested'),
                    ingested'[p].req \in before'[ingested'[q].req]
             PROVE  p < q
  BY DEF PlaceInv
<1>0. ingested'[q].req \in Requests /\ p \in Nat /\ q \in Nat
  BY OldOrNew
<1>1. \A y \in Requests : pc'[y] = "store" <=> lock' = y
  BY DEF CoreInv, ThreadInv, LockInv
<1>2. \A d \in before'[ingested'[q].req] : pc'[d] = "done"
  BY <1>0 DEF CoreInv, ThreadInv, BeforeInv
<1>3. ~(ingested'[p].req = lock /\ pc'[lock] = "store")
  BY <1>2
<1>4. p \in 1 .. Len(ingested) /\ ingested'[p] = ingested[p]
  BY <1>3, OldOrNew
<1>5. CASE q \in 1 .. Len(ingested) /\ ingested'[q] = ingested[q] /\ pc[ingested[q].req] # "idle"
  <2>1. before'[ingested[q].req] = before[ingested[q].req]
    BY <1>0, <1>5, Stay
  <2>2. QED
    BY <1>4, <1>5, <2>1 DEF OrderInv, PlaceInv
<1>6. CASE q \in Len(ingested) + 1 .. Len(ingested')
  <2>1. Len(ingested) \in Nat
    BY Stay
  <2>2. QED
    BY <1>4, <1>6, <2>1
<1>7. QED
  BY <1>5, <1>6, OldOrNew

(* What some whole batches left in the history does not change with later ones. *)
LEMMA CutStays ==
    ASSUME CoreInv, CoreInv', BatchInv, [Next]_vars, NEW n \in 0 .. Len(ingested), Cut(n)
    PROVE  Cut(n)' /\ n \in 0 .. Len(ingested') /\ SubSeq(ingested', 1, n) = SubSeq(ingested, 1, n)
<1>1. /\ Len(ingested) \in Nat /\ Len(ingested') \in Nat /\ Len(ingested) <= Len(ingested')
      /\ \A p \in 1 .. Len(ingested) : ingested'[p] = ingested[p]
  BY Stay
<1>2. ingested \in Seq(Events) /\ ingested' \in Seq(Events)
  BY DEF CoreInv, TypeOK
<1>3. ASSUME NEW p \in 1 .. n PROVE ingested'[p].req # lock'
  <2>1. p \in 1 .. Len(ingested) /\ ingested'[p] = ingested[p] /\ ingested[p] \in Events
    BY <1>1, <1>2
  <2>2. ingested[p].req # lock /\ p \in Mine(ingested[p].req)
    BY <2>1 DEF Cut, Mine
  <2>3. ingested[p].req # None /\ ingested[p].req \in Requests
    BY <2>1, RequestAssumption DEF Events, Requests
  <2>4. pc[ingested[p].req] # "acquire"
    BY <2>2, <2>3 DEF BatchInv, EarlyInv
  <2>5. QED
    BY <2>1, <2>2, <2>3, <2>4, Moves
<1>4. ASSUME NEW p \in 1 .. n, NEW q \in n + 1 .. Len(ingested')
      PROVE  ingested'[q].req # ingested'[p].req
  <2>1. p \in 1 .. Len(ingested) /\ ingested'[p] = ingested[p]
    BY <1>1
  <2>2. CASE q \in n + 1 .. Len(ingested)
    <3>1. q \in 1 .. Len(ingested)
      BY <1>1, <2>2
    <3>2. QED
      BY <1>1, <2>1, <2>2, <3>1 DEF Cut
  <2>3. CASE q \in Len(ingested) + 1 .. Len(ingested')
    BY <2>1, <2>3, Stay DEF Cut
  <2>4. QED
    BY <1>1, <2>2, <2>3
<1>5. Cut(n)'
  BY <1>3, <1>4 DEF Cut
<1>6. SubSeq(ingested', 1, n) = SubSeq(ingested, 1, n)
  <2>1. n \in Nat /\ n <= Len(ingested) /\ n <= Len(ingested')
    BY <1>1
  <2>2. /\ SubSeq(ingested, 1, n) \in Seq(Events) /\ SubSeq(ingested', 1, n) \in Seq(Events)
        /\ Len(SubSeq(ingested, 1, n)) = n /\ Len(SubSeq(ingested', 1, n)) = n
        /\ \A p \in 1 .. n : SubSeq(ingested, 1, n)[p] = ingested[p]
        /\ \A p \in 1 .. n : SubSeq(ingested', 1, n)[p] = ingested'[p]
    BY <1>2, <2>1
  <2>3. \A p \in 1 .. n : SubSeq(ingested', 1, n)[p] = SubSeq(ingested, 1, n)[p]
    BY <1>1, <2>1, <2>2
  <2>4. QED
    BY <2>2, <2>3, SeqEqual
<1>7. QED
  BY <1>1, <1>5, <1>6

(* Every step preserves what the lists from the history are. *)
LEMMA ListStep ==
    ASSUME CoreInv, CoreInv', BatchInv, StoreInv, OrderInv, [Next]_vars
    PROVE  ListInv'
<1> SUFFICES ASSUME NEW r \in Browsers, pc'[r] = "done", query'[r].kind = "history"
             PROVE  \E n \in 0 .. Len(ingested') :
                      /\ Cut(n)' /\ answer'[r].body = Given(n, query[r])'
                      /\ \A p \in n + 1 .. Len(ingested') : ingested'[p].req \notin before'[r]
  BY DEF ListInv
<1>0. r \in Requests
  BY DEF Requests
<1>t. ingested \in Seq(Events) /\ Len(ingested) \in Nat
  BY DEF CoreInv, TypeOK
<1>1. CASE pc[r] = "done"
  <2>1. query'[r] = query[r] /\ answer'[r] = answer[r] /\ before'[r] = before[r]
    BY <1>0, <1>1, Stay
  <2>2. PICK n \in 0 .. Len(ingested) :
          /\ Cut(n) /\ answer[r].body = Given(n, query[r])
          /\ \A p \in n + 1 .. Len(ingested) : ingested[p].req \notin before[r]
    BY <1>1, <2>1 DEF OrderInv, ListInv
  <2>3. Cut(n)' /\ n \in 0 .. Len(ingested') /\ SubSeq(ingested', 1, n) = SubSeq(ingested, 1, n)
    BY <2>2, CutStays
  <2>4. answer'[r].body = Given(n, query[r])'
    BY <2>1, <2>2, <2>3 DEF Given
  <2>5. ASSUME NEW p \in n + 1 .. Len(ingested') PROVE ingested'[p].req \notin before'[r]
    <3>1. p \in 1 .. Len(ingested')
      BY <1>t, <2>3
    <3>2. CASE p \in 1 .. Len(ingested) /\ ingested'[p] = ingested[p]
      <4>1. p \in n + 1 .. Len(ingested)
        BY <1>t, <2>5, <3>2
      <4>2. QED
        BY <2>1, <2>2, <3>2, <4>1
    <3>3. CASE ingested'[p].req = lock /\ lock \in Requests
      BY <1>0, <2>1, <3>3, NotBefore
    <3>4. QED
      BY <3>1, <3>2, <3>3, OldOrNew
  <2>6. QED
    BY <2>3, <2>4, <2>5
<1>2. CASE pc[r] # "done"
  <2>1. health(r) \/ history_of(r) \/ Dump(r)
    BY <1>2, Finish
  <2>2. query' = query /\ before' = before /\ ingested' = ingested /\ lock' = lock
    BY <2>1 DEF health, history_of, Dump, store_vars
  <2>3. history_of(r)
    <3>1. ~health(r)
      BY <2>2 DEF health, Reader
    <3>2. ~Dump(r)
      BY <2>2 DEF Dump, CoreInv, ThreadInv, BrowserInv
    <3>3. QED
      BY <2>1, <3>1, <3>2
  <2>4. lock = None /\ answer'[r] = [status |-> "ok", body |-> Selected(history, query[r])]
    BY <1>0, <2>3 DEF history_of, LockFree, Send, CoreInv, ThreadInv, AnswerInv
  <2>5. SubSeq(ingested, 1, Len(ingested)) = ingested
    <3>1. /\ SubSeq(ingested, 1, Len(ingested)) \in Seq(Events)
          /\ Len(SubSeq(ingested, 1, Len(ingested))) = Len(ingested)
          /\ \A p \in 1 .. Len(ingested) : SubSeq(ingested, 1, Len(ingested))[p] = ingested[p]
      BY <1>t
    <3>2. QED
      BY <1>t, <3>1, SeqEqual
  <2>6. history = Last(ingested, max_events)
    BY DEF StoreInv, HistoryInv
  <2>7. answer'[r].body = Given(Len(ingested), query[r])
    <3>1. answer'[r].body = Selected(history, query[r])
      BY <2>4
    <3>2. Given(Len(ingested), query[r]) = Selected(history, query[r])
      BY <2>5, <2>6 DEF Given
    <3>3. QED
      BY <3>1, <3>2
  <2>8. Cut(Len(ingested))
    <3>1. ASSUME NEW p \in 1 .. Len(ingested) PROVE ingested[p].req # None
      <4>1. ingested[p] \in Events
        BY <1>t
      <4>2. QED
        BY <4>1, RequestAssumption DEF Events
    <3>2. \A q \in Len(ingested) + 1 .. Len(ingested) : FALSE
      BY <1>t
    <3>3. QED
      BY <2>4, <3>1, <3>2 DEF Cut
  <2>9. \A p \in Len(ingested) + 1 .. Len(ingested) : FALSE
    BY <1>t
  <2>10. Cut(Len(ingested))' /\ Given(Len(ingested), query[r])' = Given(Len(ingested), query[r])
    BY <2>2, <2>8 DEF Cut, Given
  <2>11. Len(ingested) \in 0 .. Len(ingested')
    BY <1>t, <2>2
  <2>12. QED
    BY <2>2, <2>7, <2>9, <2>10, <2>11
<1>3. QED
  BY <1>1, <1>2

(* Times and places give the order the property asks for. *)
LEMMA OrderMeans == CoreInv /\ BatchInv /\ OrderInv => RealTimeOrder
<1> SUFFICES ASSUME CoreInv, BatchInv, OrderInv PROVE RealTimeOrder
  OBVIOUS
<1>t. ingested \in Seq(Events) /\ Len(ingested) \in Nat
  BY DEF CoreInv, TypeOK
<1>1. ASSUME NEW p \in 1 .. Len(ingested), ingested[p].at # OwnStamp
      PROVE  ingested[p].at = now[ingested[p].req]
  <2>1. ingested[p] \in Events
    BY <1>t
  <2>2. ingested[p].req \in Requests /\ p \in Mine(ingested[p].req)
    BY <2>1 DEF Events, Requests, Mine
  <2>3. QED
    BY <1>1, <2>2 DEF BatchInv, ItemInv
<1>2. ASSUME NEW p \in 1 .. Len(ingested), NEW q \in 1 .. Len(ingested),
             ingested[p].req \in before[ingested[q].req]
      PROVE  /\ p < q
             /\ ~stepped_back /\ OwnStamp \notin {ingested[p].at, ingested[q].at} =>
                  ingested[p].at <= ingested[q].at
  <2>1. p < q
    BY <1>2 DEF OrderInv, PlaceInv
  <2>2. ASSUME ~stepped_back, OwnStamp \notin {ingested[p].at, ingested[q].at}
        PROVE  ingested[p].at <= ingested[q].at
    <3>1. ingested[q] \in Events
      BY <1>t
    <3>2. ingested[q].req \in Senders /\ Mine(ingested[q].req) # {}
      BY <3>1 DEF Events, Mine
    <3>3. now[ingested[p].req] <= now[ingested[q].req]
      BY <1>2, <2>2, <3>2 DEF OrderInv, LaterInv
    <3>4. QED
      BY <1>1, <2>2, <3>3
  <2>3. QED
    BY <2>1, <2>2
<1>3. ASSUME NEW r \in Requests, answer[r] # None, query[r].kind = "history"
      PROVE  \E n \in 0 .. Len(ingested) :
               /\ Between(n)
               /\ answer[r].body = Selected(Last(SubSeq(ingested, 1, n), max_events), query[r])
               /\ \A p \in n + 1 .. Len(ingested) : ingested[p].req \notin before[r]
  <2>1. r \in Browsers /\ pc[r] = "done"
    BY <1>3, Answered
  <2>2. PICK n \in 0 .. Len(ingested) :
          /\ Cut(n) /\ answer[r].body = Given(n, query[r])
          /\ \A p \in n + 1 .. Len(ingested) : ingested[p].req \notin before[r]
    BY <1>3, <2>1 DEF OrderInv, ListInv
  <2>3. Between(n)
    <3>1. n \in 1 .. Len(ingested) - 1 => n \in 1 .. n /\ n + 1 \in n + 1 .. Len(ingested)
      BY <1>t
    <3>2. QED
      BY <2>2, <3>1 DEF Cut, Between
  <2>4. QED
    BY <2>2, <2>3 DEF Given
<1>4. QED
  BY <1>2, <1>3 DEF RealTimeOrder

(***************************************************************************)
(* Requests that do not overlap are stored in the order they were made,    *)
(* and what ingest stamps is stamped in that order too, unless the clock   *)
(* is set back.  A list from the history is what whole batches left in it, *)
(* all those answered before it was asked for among them.                  *)
(***************************************************************************)
THEOREM RealTime == Spec => []RealTimeOrder
<1> DEFINE I == CoreInv /\ BatchInv /\ StoreInv /\ OrderInv
<1>1. Init => I
  <2>1. Init => LaterInv /\ PlaceInv
    <3>1. Len(<< >>) = 0 /\ \A p \in 1 .. 0 : FALSE
      OBVIOUS
    <3>2. QED
      BY <3>1 DEF Init, LaterInv, PlaceInv, Mine, Requests
  <2>2. Init => ListInv
    BY DEF Init, ListInv, Requests
  <2>3. QED
    BY <2>1, <2>2, CoreInit, BatchInit, StoreInit DEF OrderInv
<1>2. I /\ [Next]_vars => I'
  <2> SUFFICES ASSUME I, [Next]_vars PROVE I'
    OBVIOUS
  <2>1. CoreInv' /\ BatchInv' /\ StoreInv'
    BY CoreStep, BatchStep, StoreStep
  <2>2. OrderInv'
    BY <2>1, LaterStep, PlaceStep, ListStep DEF OrderInv
  <2>3. QED
    BY <2>1, <2>2
<1>3. I => RealTimeOrder
  BY OrderMeans
<1>4. QED
  BY <1>1, <1>2, <1>3, PTL DEF Spec
=============================================================================
