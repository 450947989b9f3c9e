----------------------------- MODULE EventStore -----------------------------
(***************************************************************************)
(* The web UI's event store (webui/server.py): ThreadingHTTPServer runs    *)
(* each request in a thread of its own, and the threads share one          *)
(* EventStore under one lock.                                              *)
(*                                                                         *)
(* A request is one walk of its pc from "idle" to "done".  A step is what  *)
(* no other thread can come between: everything up to the next use of the  *)
(* lock, the clock or the shared state; the answer leaves the server with  *)
(* the last of them, and a client that is gone by then makes no difference *)
(* to it.  An event is known by the request that brought it and its place  *)
(* in the body.                                                            *)
(*                                                                         *)
(* Of the objects in a body two things matter, both up to the sender: the  *)
(* event_type, which can be missing, and whether there is an _ingested_at  *)
(* already.  time.time() is the wall clock of the host: it may stand still *)
(* between two readings, jump ahead, or be set back.                       *)
(***************************************************************************)
EXTENDS Integers, Sequences, FiniteSets

CONSTANTS Senders,        \* the requests that are POSTs: syswatch, or the demo button
          Browsers,       \* the requests that are GETs: the dashboard
          Types,          \* event types
          Unknown,        \* "unknown"
          NoType,         \* no event_type in the object
          Posts,          \* bodies of POST /events: objects, and NotAnObject
          NotAnObject,    \* an item that is no JSON object
          DemoBatch,      \* what POST /api/demo-seed stores
          Limits,         \* the limits GET /api/history is asked for
          MaxLimit,       \* 2000
          max_events,     \* of the history
          MaxClock,       \* bound of the model: the readings of the clock
          OwnStamp,       \* the _ingested_at an object came with
          None            \* no event, no answer, no thread, any type

(* What ingest looks at in an object. *)
Objects == [type : Types \cup {NoType}, stamped : BOOLEAN]

ASSUME StoreAssumption ==
    /\ max_events \in Nat \ {0} /\ MaxLimit \in Nat \ {0} /\ MaxClock \in Nat
    /\ Limits \subseteq Int /\ NotAnObject \notin Objects
    /\ Unknown \in Types /\ NoType \notin Types /\ OwnStamp \notin Nat
    /\ Posts \subseteq Seq(Objects \cup {NotAnObject}) /\ DemoBatch \in Seq(Objects)

(* A request does one thing; there are finitely many at a time.  None is   *)
(* nothing else.                                                           *)
ASSUME RequestAssumption ==
    /\ IsFiniteSet(Senders) /\ IsFiniteSet(Browsers) /\ Senders \cap Browsers = {}
    /\ None \notin Senders \cup Browsers \cup Types
    /\ None \notin [req : Senders, item : Nat, type : Types \cup {NoType}, at : Nat \cup {OwnStamp}]
    /\ None \notin Nat

NoQuery == [kind |-> "none"]
Writes == [kind : {"post"}, body : Posts \cup {DemoBatch}]
Reads == [kind : {"history"}, type : Types \cup {None}, limit : Limits]
            \cup [kind : {"latest", "health"}]

Requests == Senders \cup Browsers

VARIABLES query, pc,
          todo,           \* the items of its body a thread has yet to store
          now,            \* ingest's local
          answer,         \* what is sent back
          lock,           \* the thread that holds _lock, or None
          history, latest_by_type, received_batches, received_events,
          last_ingested_at,
          clock,          \* time.time() when it was last read
          stepped_back,   \* the clock has been set back
          ingested,       \* every event stored so far, in order
          before          \* per request, those answered before it arrived

thread_vars == <<query, pc, todo, now, answer, before>>
store_vars == <<history, latest_by_type, received_batches, received_events, last_ingested_at,
                ingested>>
clock_vars == <<clock, stepped_back>>
vars == <<thread_vars, lock, store_vars, clock_vars>>

Elems(s) == {s[p] : p \in 1 .. Len(s)}
Last(s, n) == SubSeq(s, IF Len(s) > n THEN Len(s) - n + 1 ELSE 1, Len(s))
OfType(s, t) == IF t = None THEN s ELSE SelectSeq(s, LAMBDA e : e.type = t)

Events == [req : Senders, item : Nat, type : Types \cup {NoType}, at : Nat \cup {OwnStamp}]

(* The key of latest_by_type. *)
Key(e) == IF e.type = NoType THEN Unknown ELSE e.type

TypeOK ==
    /\ query \in [Requests -> {NoQuery, [kind |-> "malformed"]} \cup Writes \cup Reads]
    /\ pc \in [Requests -> {"idle", "stamp", "acquire", "store", "dump", "done"}]
    /\ todo \in [Requests -> SUBSET Nat]
    /\ now \in [Requests -> 0 .. MaxClock]
    /\ before \in [Requests -> SUBSET Requests]
    /\ lock \in Senders \cup {None}
    /\ ingested \in Seq(Events) /\ history \in Seq(Events) /\ Len(history) <= max_events
    /\ latest_by_type \in [Types -> Events \cup {None}]
    /\ received_batches \in Nat /\ received_events \in Nat
    /\ clock \in 0 .. MaxClock /\ stepped_back \in BOOLEAN
    /\ last_ingested_at \in 0 .. MaxClock \cup {None}
-----------------------------------------------------------------------------
Init ==
    /\ query = [r \in Requests |-> NoQuery]
    /\ pc = [r \in Requests |-> "idle"]
    /\ todo = [r \in Requests |-> {}]
    /\ now = [r \in Requests |-> 0]
    /\ answer = [r \in Requests |-> None]
    /\ before = [r \in Requests |-> {}]
    /\ lock = None
    /\ history = << >> /\ latest_by_type = [t \in Types |-> None]
    /\ received_batches = 0 /\ received_events = 0 /\ last_ingested_at = None
    /\ clock = 0 /\ stepped_back = FALSE /\ ingested = << >>

Go(r, to) == pc' = [pc EXCEPT ![r] = to]

Send(r, status, body) == answer' = [answer EXCEPT ![r] = [status |-> status, body |-> body]]

(* The items of a body that are objects. *)
ObjectsIn(body) == {i \in 1 .. Len(body) : body[i] # NotAnObject}
ToStore(r) == ObjectsIn(query[r].body)

Arrive(r, q, to) ==
    /\ pc[r] = "idle"
    /\ Go(r, to)
    /\ query' = [query EXCEPT ![r] = q]
    /\ before' = [before EXCEPT ![r] = {d \in Requests : pc[d] = "done"}]
    /\ UNCHANGED <<now, lock, store_vars, clock_vars>>

do_GET(r) == r \in Browsers /\ \E q \in Reads : Arrive(r, q, "acquire") /\ UNCHANGED <<todo, answer>>

(* A body with objects goes to ingest, one without is refused. *)
do_POST(r) ==
    /\ r \in Senders
    /\ \E q \in Writes :
        \/ /\ ObjectsIn(q.body) # {}
           /\ Arrive(r, q, "stamp")
           /\ todo' = [todo EXCEPT ![r] = ObjectsIn(q.body)]
           /\ UNCHANGED answer
        \/ /\ ObjectsIn(q.body) = {}
           /\ Arrive(r, q, "done")
           /\ Send(r, "refused", None)
           /\ UNCHANGED todo

(* A path no handler has, a body of length 0 or no length, no JSON, JSON   *)
(* that is neither object nor list; a body that is no UTF-8 raises past    *)
(* the handler, and there is no answer.                                    *)
Malformed(r) ==
    /\ r \in Senders
    /\ Arrive(r, [kind |-> "malformed"], "done")
    /\ UNCHANGED answer \/ Send(r, "refused", None)
    /\ UNCHANGED todo

(* time.time(): time has passed since the last reading, or not, or         *)
(* somebody has set the clock.                                             *)
ReadClock ==
    /\ clock' \in 0 .. MaxClock
    /\ stepped_back' = (stepped_back \/ clock' < clock)

(* ingest reads the clock before it waits for the lock. *)
Stamp(r) ==
    /\ pc[r] = "stamp"
    /\ ReadClock
    /\ now' = [now EXCEPT ![r] = clock']
    /\ Go(r, "acquire")
    /\ UNCHANGED <<query, todo, answer, before, lock, store_vars>>

Bug_LockFree == TRUE

LockFree == lock = None

(* with self._lock: the counters of the batch first *)
BeginIngest(r) ==
    /\ pc[r] = "acquire" /\ todo[r] # {} /\ LockFree
    /\ lock' = r
    /\ received_batches' = received_batches + 1
    /\ last_ingested_at' = now[r]
    /\ Go(r, "store")
    /\ UNCHANGED <<query, todo, now, answer, before, history, latest_by_type,
                   received_events, clock_vars, ingested>>

(* deque() without maxlen *)
Bug_Remember(e) == history' = Append(history, e)

(* deque(maxlen) drops the oldest event. *)
Remember(e) == history' = Last(Append(history, e), max_events)

(* setdefault instead of an assignment *)
Bug_SetLatest(e) == latest_by_type' = [latest_by_type EXCEPT ![Key(e)] = IF @ = None THEN e ELSE @]

SetLatest(e) == latest_by_type' = [latest_by_type EXCEPT ![Key(e)] = e]

(* setdefault: an object that has been stamped keeps its stamp. *)
StampOf(r, object) == IF object.stamped THEN OwnStamp ELSE now[r]

(* The events of the batch in their order. *)
StoreEvent(r) ==
    /\ pc[r] = "store"
    /\ \E i \in todo[r] :
         LET object == query[r].body[i]
             e == [req |-> r, item |-> i, type |-> object.type, at |-> StampOf(r, object)]
         IN  /\ \A j \in todo[r] : i <= j
             /\ SetLatest(e) /\ Remember(e) /\ ingested' = Append(ingested, e)
             /\ todo' = [todo EXCEPT ![r] = @ \ {i}]
    /\ received_events' = received_events + 1
    /\ UNCHANGED <<query, pc, now, answer, before, lock, received_batches,
                   last_ingested_at, clock_vars>>

(* acquire() without a release *)
Bug_Release == UNCHANGED lock

Release == lock' = None

(* The answer is ready before the events are stored. *)
Bug_EndIngest(r) ==
    /\ pc[r] \in {"acquire", "store"} /\ todo[r] # {} /\ LockFree
    /\ Go(r, "done")
    /\ Send(r, "ok", Cardinality(ToStore(r)))
    /\ UNCHANGED <<query, todo, now, before, lock, store_vars, clock_vars>>

(* The lock is released, and the answer is 200. *)
EndIngest(r) ==
    /\ pc[r] = "store" /\ todo[r] = {}
    /\ Release
    /\ Go(r, "done")
    /\ Send(r, "ok", Cardinality(ToStore(r)))
    /\ UNCHANGED <<query, todo, now, before, store_vars, clock_vars>>
-----------------------------------------------------------------------------
Reader(r, kind) == pc[r] = "acquire" /\ query[r].kind = kind

(* The age can be negative: the clock is read again. *)
health(r) ==
    /\ Reader(r, "health") /\ LockFree
    /\ ReadClock
    /\ Go(r, "done")
    /\ Send(r, "ok", [batches |-> received_batches, events |-> received_events,
                      size |-> Len(history),
                      age |-> IF last_ingested_at = None THEN None ELSE clock' - last_ingested_at,
                      seen |-> {t \in Types : latest_by_type[t] # None}])
    /\ UNCHANGED <<query, todo, now, before, lock, store_vars>>

(* max(1, min(limit, 2000)) *)
EffectiveLimit(limit) ==
    IF limit < 1 THEN 1 ELSE IF limit > MaxLimit THEN MaxLimit ELSE limit

(* Filtered by event_type, which an event without one does not have. *)
Selected(s, q) == Last(OfType(s, q.type), EffectiveLimit(q.limit))

(* Copied without the lock. *)
Bug_history_of(r) ==
    /\ Reader(r, "history")
    /\ Go(r, "done")
    /\ Send(r, "ok", Selected(history, query[r]))
    /\ UNCHANGED <<query, todo, now, before, lock, store_vars, clock_vars>>

(* The list is copied under the lock, its events are never changed again. *)
history_of(r) ==
    /\ Reader(r, "history") /\ LockFree
    /\ Go(r, "done")
    /\ Send(r, "ok", Selected(history, query[r]))
    /\ UNCHANGED <<query, todo, now, before, lock, store_vars, clock_vars>>

(* The numbers are copied under the lock, the dictionary is not copied: it *)
(* is the live one that is handed out ...                                  *)
latest(r) ==
    /\ Reader(r, "latest") /\ LockFree
    /\ Go(r, "dump")
    /\ Send(r, "ok", [by_type |-> None, size |-> Len(history), events |-> received_events])
    /\ UNCHANGED <<query, todo, now, before, lock, store_vars, clock_vars>>

Bug_Dump(r) ==
    /\ pc[r] = "dump"
    /\ Go(r, "done")
    /\ answer' = [answer EXCEPT ![r].body.by_type =
                    [t \in Types |-> LET held == OfType(history, t)
                                     IN  IF held = << >> THEN None ELSE held[Len(held)]]]
    /\ UNCHANGED <<query, todo, now, before, lock, store_vars, clock_vars>>

(* ... and json.dumps reads it later, without the lock; the encoder takes  *)
(* its items in one step.                                                  *)
Dump(r) ==
    /\ pc[r] = "dump"
    /\ Go(r, "done")
    /\ answer' = [answer EXCEPT ![r].body.by_type = latest_by_type]
    /\ UNCHANGED <<query, todo, now, before, lock, store_vars, clock_vars>>

Serve(r) == \/ do_GET(r) \/ do_POST(r) \/ Malformed(r)
            \/ Stamp(r) \/ BeginIngest(r) \/ StoreEvent(r) \/ EndIngest(r)
            \/ health(r) \/ history_of(r) \/ latest(r) \/ Dump(r)

(* The main thread polls for connections. *)
serve_forever == UNCHANGED vars

Next == (\E r \in Requests : Serve(r)) \/ serve_forever

(* Every thread gets on with its request; which of several waiting threads *)
(* gets the lock is the scheduler's choice, and each thread takes it once. *)
Spec == Init /\ [][Next]_vars /\ \A r \in Requests : WF_vars(Serve(r))
-----------------------------------------------------------------------------
(* Where the events of a request are among all that were stored. *)
Mine(r) == {p \in 1 .. Len(ingested) : ingested[p].req = r}

(* After n events the store was between two batches. *)
Between(n) == n \in 1 .. Len(ingested) - 1 => ingested[n].req # ingested[n + 1].req

(***************************************************************************)
(* Between two batches the store's parts tell one story: the history is    *)
(* the end of what was taken in, the counts are those of its events and    *)
(* batches, and the latest event of a type is the last one taken in, also  *)
(* when the history has long dropped it (ingest; the dashboard reads all   *)
(* of them).                                                               *)
(***************************************************************************)
StoreConsistent ==
    lock = None =>
        /\ history = Last(ingested, max_events)
        /\ received_events = Len(ingested)
        /\ received_batches = Cardinality({r \in Requests : Mine(r) # {}})
        /\ \A t \in Types :
             LET held == {p \in 1 .. Len(ingested) : Key(ingested[p]) = t}
             IN  IF held = {} THEN latest_by_type[t] = None
                   ELSE \E p \in held : /\ latest_by_type[t] = ingested[p]
                                        /\ \A q \in held : q <= p

(***************************************************************************)
(* Batches of concurrent requests do not mix, and no reader under the lock *)
(* sees half of one: what health reports adds up, and the last event is    *)
(* not in the future unless the clock was set back.                        *)
(***************************************************************************)
BatchesWhole ==
    /\ \A p, q \in 1 .. Len(ingested) : p < q /\ ingested[p].req = ingested[q].req =>
         \A m \in p .. q : ingested[m].req = ingested[p].req
    /\ \A r \in Requests : answer[r] # None /\ query[r].kind = "health" =>
         LET body == answer[r].body
         IN  /\ body.size = (IF body.events <= max_events THEN body.events ELSE max_events)
             /\ body.batches <= body.events
             /\ (body.batches = 0) = (body.seen = {})
             /\ body.batches # 0 /\ ~stepped_back => body.age >= 0
             /\ body.batches = 1 =>
                  \E x \in Requests : query[x].kind = "post" /\ body.events = Cardinality(ToStore(x))

(***************************************************************************)
(* A client can rely on the answer: 200 means that each object of the body *)
(* is stored, once and in order, and accepted is their number; a refusal   *)
(* means nothing is.  (No answer means neither, which is why a sender that *)
(* retries can store a batch twice.)                                       *)
(***************************************************************************)
AnswersHonest ==
    \A r \in Requests : answer[r] # None =>
        /\ answer[r].status = "ok" /\ query[r].kind = "post" =>
             /\ {ingested[p].item : p \in Mine(r)} = ToStore(r)
             /\ \A p, q \in Mine(r) : p < q => ingested[p].item < ingested[q].item
             /\ \A p \in Mine(r) : ingested[p].type = query[r].body[ingested[p].item].type
             /\ answer[r].body = Cardinality(Mine(r))
        /\ answer[r].status = "refused" => Mine(r) = {}

(***************************************************************************)
(* /api/latest reads its dictionary after it has let go of the lock.  The  *)
(* answer can be newer than its own counters, never older: every type that *)
(* was among the first received_events events is there, with that event or *)
(* a later one.                                                            *)
(***************************************************************************)
LatestCoversCount ==
    \A r \in Requests :
        answer[r] # None /\ query[r].kind = "latest" /\ pc[r] # "dump" =>
            LET body == answer[r].body
            IN  \A p \in 1 .. body.events :
                  LET e == body.by_type[Key(ingested[p])]
                  IN  e # None /\ \E q \in p .. Len(ingested) : ingested[q] = e

(***************************************************************************)
(* Requests that do not overlap are stored in the order they were made,    *)
(* and a list from /api/history is what the store had to give between two  *)
(* batches, at a moment when everything answered before the list was       *)
(* asked for was stored.  The stamps ingest itself gives are in that order too,  *)
(* as long as the clock is not set back: an event that came with a stamp   *)
(* keeps it, whatever it says, and requests that overlap can be stamped in *)
(* one order and stored in the other.                                      *)
(***************************************************************************)
RealTimeOrder ==
    /\ \A p, q \in 1 .. Len(ingested) :
         ingested[p].req \in before[ingested[q].req] =>
             /\ p < q
             /\ ~stepped_back /\ OwnStamp \notin {ingested[p].at, ingested[q].at} =>
                  ingested[p].at <= ingested[q].at
    /\ \A r \in Requests : answer[r] # None /\ query[r].kind = "history" =>
         \E n \in 0 .. Len(ingested) :
             /\ Between(n)
             /\ answer[r].body = Selected(Last(SubSeq(ingested, 1, n), max_events), query[r])
             /\ \A p \in n + 1 .. Len(ingested) : ingested[p].req \notin before[r]

(***************************************************************************)
(* Every request comes to its end, whoever waits for the lock.             *)
(***************************************************************************)
EveryRequestEnds == \A r \in Requests : <>(pc[r] = "done")
=============================================================================
