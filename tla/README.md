# A TLA+ model of syswatch

syswatch samples CPU, memory, disk and network metrics at a fixed interval and
emits them as JSON events to stdout, to a file, or in batches to an HTTP
receiver. It is about 2,700 lines of C (`src/*.c`) and a small Python web UI
(`webui/server.py`). This directory holds TLA+ modules that model both,
TLC configurations that check them on small instances, and proofs that TLAPS
checks for every value of the constants.

To repeat the checks, in this directory:

    tlc -workers 2 -config MC_Pipeline.cfg MC_Pipeline
    tlapm EventQueue_proofs.tla

`PROJECT.json` lists the runs, the lines of source each definition stands for,
the hazards of the code with the properties that watch them, the theorems, and
for every property of a passing run a mutant: a plausible slip in the code (the
operators named `Bug_...`) under which the property fails.

## 1. Inventory of the system

| Component | Source | State it keeps | Operations | Correct when |
|---|---|---|---|---|
| Event queue | `src/queue.c` | ring of entries, `head`, `tail`, `count`, `dropped_count`, `emitted_count`, one mutex | enqueue (drops the oldest when full), batch dequeue, size, dropped count | it is a drop-oldest FIFO; the indices agree; no unwritten slot is read |
| Collector thread | `src/main.c:102-292` | last snapshots, rows done, first-iteration flag, self-metrics | warm-up event, baseline, then per row: sleep, ready event, read, emit, self-metric event | events in order, one row per interval, stops after `-n` rows or on `g_stop` |
| Delivery thread | `src/main.c:294-323` | its array of dequeued entries | loop on `g_stop` and queue size: dequeue, emit, flush, pause 10 ms | hands on everything, in order, once; ends |
| Main thread | `src/main.c:468-577` | exit code, `g_stop`, signal handlers | set-up, create and join threads, shut down | nothing freed while used; nothing lost in a run that ends by itself; ends after a signal |
| HTTP output | `src/output.c` | pending batch, its array, its age | emit, maybe-flush, post with retries, flush, shutdown | bounded, in order, each event sent as often as the retries allow and no more, always returns |
| Retry backoff | `src/output.c:269-280` | attempt number | wait | exponential, capped, never zero |
| stdout and file output | `src/output.c` | an open stream | write and fflush an event | - |
| Options and configuration | `src/main.c:325-466`, `src/config.c` | `syswatch_config_t`, the section being read | option by option, line by line, then validate or `output_init` | a validated file runs; options mean what the help says |
| Metric readers | `src/cpu.c`, `memory.c`, `disk.c`, `network.c` | the collector's last snapshot of each, and whether there is one | read /proc, difference with the last snapshot, rate or share | no rate beyond what was counted, nothing lost, shares that add up, lists within their arrays |
| Process list | `src/process.c` | - | `process_read_list`, which nothing calls | - |
| Formatting and escaping | `src/main.c`, `output.c`, `config.c`, `utils.c` | buffers of fixed size | the host name from its configuration line through `json_escape_string` into `snprintf` templates; time stamps | the host arrives as written and as readable JSON; every event is whole |
| Web UI event store | `webui/server.py` | latest event per type, bounded history, counters, a lock | ingest, latest, history, health, each in the thread of its request | batches stay whole, answers are true, requests that follow each other are seen in that order whatever the clock does, every request ends |
| Dashboard page | `webui/index.html` | a browser page | polling, drawing | - |

How the parts interact. `main` parses options, loads the file, initialises the
output, installs the signal handlers, creates the queue and starts two threads.
The collector is the only producer and the delivery thread the only consumer of
the queue; they share it under its mutex. Both read `g_stop`, which the signal
handler and `main` set. Only the delivery thread uses the output while it lives;
`main` shuts the output down after it has joined both threads.

What is hard here: the stop flag is read at three places without a lock and a
signal may be taken by any of three threads; the delivery thread's decision to
end races the collector's last row; the queue drops under pressure; an HTTP
request may be taken in although its answer is lost, and after its timeout;
allocations may fail at each step of the batch; a receiver that fails stalls the
delivery thread while the collector goes on, and after a signal too; counters wrap, fall and restart under their old name; text
is cut at the end of its buffer; the same settings are checked at three places at
different times; requests to the web UI overlap. `PROJECT.json` lists these hazards at their lines.

## 2. Modules and how they correspond to the code

    BoundedFifo  <---implements---  EventQueue
        ^    ^
        |    | Put and Take are the queue of
        |    Delivery  ---extends--->  HttpOutput
        |                                  | waits as told by
    Pipeline                           RetryBackoff
        ^ ^ each row of the collector in detail:
        | MetricRates (the numbers)  EventText (the text)
    Startup ends where Pipeline begins

    EventStore is the receiver that comes with syswatch

    M_proofs holds the theorems about M; those about HttpOutput are in Delivery_proofs,
    and BoundedFifo has none of its own

**BoundedFifo** is the abstract specification of the queue: a sequence of at
most `Capacity` events, `Put` that gives up the oldest of a full queue and
counts it, `Take` that removes up to `BatchMax` from the front in one step.

**EventQueue** is `queue.c`: the array, `head`, `tail`, `count` and the
counters, with one action per function that changes them. Each function holds
`q->lock` from entry to return and the fields are touched nowhere else, so a
critical section is one step. `out` is the caller's array of
`queue_dequeue_batch`, which keeps its old entries past the batch. An event is
a model value with a length; a text that is empty or too long for `json_data`
is refused. The condition variable is broadcast and nobody waits on it: it has
no effect to model.

**Pipeline** is the running program. `m_pc`, `c_pc`, `d_pc` say where the three
threads are; every action is a stretch of one thread between two points at
which another thread can make a difference: a call of the queue, a read of
`g_stop`, a sleep, a join. In particular the delivery thread's
`!g_stop || queue_size(q) > 0` is two steps, and the self-metrics' two reads of
the queue are two steps. The queue is `BoundedFifo`, which `EventQueue` is
proved to implement. Reads of metrics may fail, either `pthread_create` may
fail, and `queue_create` may have returned NULL, which `main` does not look at.
`handle_sigint` may run on any thread: if on the collector during its sleep, the
sleep is cut short and the collector leaves (unless less than a second was left,
when `sleep` returns 0 and one more row is collected); if on another, the
collector sleeps on. The Makefile builds with `-std=c11` and `_POSIX_C_SOURCE`,
for which glibc's `signal()` is the System V one: the handler is reset when it is
called, so the next signal of the same kind kills the process
(`DefaultAction`).

Time in Pipeline is only what the code waits for: `timer` is the rest of the
collector's sleep, and `waiting` the rest of the requests and backoff sleeps of the
output call under way. Each call of the output, by the delivery thread (`D_Emit`,
`D_Flush`) or by `main` (`M_Shutdown`), may take any time up to `OutputWait`
(`OutputCall`), and its thread goes on when that is over; stdout and a file are
`OutputWait` 0. A signal on the waiting thread cuts the wait short by as much as it
likes, on another thread by nothing. `late` counts the seconds the collector sleeps
after `g_stop` was set, and `grace` the seconds after the first signal in which
no thread did anything but wait: for the collector's sleep, for the output, or to
join a thread that waits. A second may pass for the others meanwhile, who may be
arbitrarily slow; `grace` is what the program itself chooses to wait.

**HttpOutput** is the `http_post` backend: the batch, the capacity of its array,
its age, and `http_post_batch` as a walk of `pc` through attempts and backoffs.
The environment is a receiver behind an unreliable connection, and requests are
asynchronous. `requests` holds the batch of every request sent, in order; one
that was sent stays `on_the_way` until it arrives, which may happen at any time
after or never, and `received` is the order in which the receiver took them in. A
2xx answer means that the request under way has arrived, a 4xx other than 429 that
it has not and will not; a timeout, no answer, 429 or 5xx says nothing: the
request may have arrived, may be lost, or may arrive after its retry and after
the batches that follow (the web UI serves each request in a thread of its own). To
its caller `http_post_batch` returns 0 for an acknowledged batch and for one
that it dropped on a 4xx alike. An allocation may fail wherever the code
allocates; the clock may fail where the code reads it. `fate` records what became
of each event. The module holds the calls and no order of calls: that
is what the threads make of them in `Delivery`.

**RetryBackoff** is the wait between attempts: the configured seconds shifted
left by the attempt number in a 32-bit unsigned, cut at 60. The unsigned is kept
as two 16-bit halves, since TLC's integers have 32 bits themselves: a shift by less
than 16 is a product with a power of two whose carry goes to the high half and there
may be lost, and one by 16 or more moves the low half up first. A shift by
32 or more is undefined in C: either the count is taken modulo 32, as the
machine instruction does, or the result is 0.

**Delivery** composes the queue, the delivery thread and `HttpOutput`: a call of
the backend lasts as many steps as it needs, and in between the collector
enqueues, the queue overflows, a signal arrives. It keeps of the collector and
of `main` what the two parts meet of them (one event at a time; the end; the
flag). `output_shutdown` has no guard of its own, as in the code: that it does not
meet a call of the delivery thread is the work of `main`'s joins, and a `main`
that does not join loses what the thread has yet to hand over
(`NothingUnaccounted` with the mutant `Bug_Shutdown`). A delivery thread that
could not be created is an initial state.

**MetricRates** is one metric over the rows: the last successful snapshot, whether
there is one, and the event the row publishes. /proc is a table of counters that
moves by itself: devices come and go, and restart at 0 under their old name;
counters wrap at `Width`; iowait falls. `moved`, `steady` and `crowded` record what
really happened since the snapshot, for the properties. A device has one counter
for its two, which the code treats alike, and the CPU one sum for the five times
that are only added up. Rates are kept as fractions and shares as whole per
cents. A snapshot is the counter of each name: the kernel lists a device once
(`ListingAssumption`), so looking a name up in a list is looking it up in a
table, and which devices a full list leaves out is decided by the lines before
them (`Taken`).

**EventText** is the way of the host name through an event: the
configuration line with its comment, quotes and blanks, the field it is cut to,
`json_escape_string` character by character, and the templates, of which only
lengths count. A character is one of seven kinds, named in words: the six that some code treats
specially and one that stands for all others. The
relation between the buffer sizes is an assumption (`SizesFit`), which
`MC_EventText` also evaluates for the sizes in the code (`RealSizesFit`). The names of
interfaces and disks are printed unescaped; they are kernel names, and only their
length counts here.

**EventStore** is the store of `webui/server.py` with one thread per request. A
step is what no other thread can come between: the reading of the clock, the
acquisition of the lock, the storing of an event, the reading of the live
dictionary after the lock is released. The body of a request is a sequence of
objects and of items that are none; what is malformed in any other way
has an answer and no other effect, or no answer. Of an object two things matter.
Its `event_type` may be missing: then `latest_by_type` has it under "unknown"
(`Key`), and the filter of `/api/history` does not find it under that name
(`Selected`). And it may bring an `_ingested_at` of its own, which `setdefault` keeps
(`StampOf`). `time.time()` is a wall clock: each reading may be any value
(`ReadClock`), and `stepped_back` records that one was below an earlier one. `ingested`
and `before` record what was stored in which order and which requests were answered
before another one arrived; the code does not keep these three, and only
properties look at them.

**Startup** is everything before the threads: options one at a time in any
order, then lines of the file one at a time in any order, then `validate_config`
or `output_init`, and each exit code. Text fields are told by whether they are
empty; what a line's text does to its value is in `EventText`. `PULSE_RECEIVER_URL`
is unset, set but empty, or set (`Environments`): the check for a URL asks whether it
is set, and the URL that `output_init` takes (`UrlOf`) is its text.

## 3. Runs

| Run | Checks | Shows |
|---|---|---|
| `event_queue` | `TypeOK`, `RingInv`, `RefinesBoundedFifo` | the ring's redundant indices agree and the ring is a drop-oldest FIFO |
| `pipeline` | `DeliveryInOrder`, `DrainedAtExit`, `LossWithinOneRow`, `ThreadsJoined`, `SelfMetricsConsistent`, `StopLatency`, `Termination` | see below |
| `pipeline_flush` | `FlushedAtExit` (violated) | finding 1 |
| `pipeline_deadline` | `ExitWithinFiveSeconds` (violated) | finding 2 |
| `delivery` | `BatchBound`, `AttemptsAccounted`, `CleanRunDelivers`, `EndToEndOrder`, `NothingUnaccounted`, `EverythingSettles` | see below |
| `metric_rates` | `NeverOverstated`, `SteadyDevicesExact`, `SharesAddUp` | see below |
| `event_text` | `HostSurvives`, `HostReadsBack`, `EventComplete` | see below |
| `event_store` | `StoreConsistent`, `BatchesWhole`, `AnswersHonest`, `LatestCoversCount`, `RealTimeOrder`, `EveryRequestEnds` | see below |
| `retry_backoff` | `ExponentialWhileItFits` | the first 21 waits equal the reference definition `Ideal`, for every permitted setting |
| `retry_backoff_zero` | `AlwaysBacksOff` (violated) | finding 3 |
| `startup` | `ValidatedConfigRuns`, `RunningBackendUsable`, `ValidateOnlyNeverRuns` | the separate checks of the same settings fit together |
| `startup_options` | `OptionsHold` (violated) | finding 4 |

What `pipeline` says: no event is overtaken or duplicated between the
collector and the output, and each is handed on, queued, in the current batch or
counted as dropped (`DeliveryInOrder`); a run that ends by itself loses nothing
silently (`DrainedAtExit`); a run ended by a signal leaves at most events of one
row behind (`LossWithinOneRow`); nothing is torn down under a live thread, on the
error paths too (`ThreadsJoined`); the two numbers of a self-metric event, read
under two lock acquisitions, belong together, and the published total never falls
behind the events by more than the row at hand (`SelfMetricsConsistent`); once the
flag is set the collector sleeps for one interval at most, however long the output
keeps the other threads (`StopLatency`); and the program ends (`Termination`).
What the output's waits add to the exit is not bounded by the interval
(finding 2).

What `delivery` says: the batch never outgrows its array or `batch_size` although
a failed allocation can leave a full batch to meet the next event
(`BatchBound`); an event is sent at most `retry_max_attempts` + 1 times, given up for
want of an answer only after all of these, never sent again after it was
acknowledged, rejected or given up, and not at all when it was refused, and an
acknowledged one has arrived (`AttemptsAccounted`); without faults every flush
delivers everything exactly once (`CleanRunDelivers`); requests go out in the order
of the events, two requests carry the same batch or nothing in common, and
whatever the network does with them, no receiver sees an event before an acknowledged one
that goes ahead of it (`EndToEndOrder`; copies, and events that were never acknowledged,
can come after later ones); dropped, queued, taken and handed-over events add up at every
moment, and after a clean run that no signal cut short the receiver has whatever the
queue did not count as dropped (`NothingUnaccounted`); and with a receiver that may fail
every request, the program ends and every event handed over has a known end
(`EverythingSettles`).

What `metric_rates` says: no rate claims more bytes than went through a device of
that name since the snapshot, through wraps, replugging, a cut list and failed
reads (`NeverOverstated`); a device that stayed is reported with everything since the last snapshot, so that a failed read loses nothing
(`SteadyDevicesExact`); and the shares of a CPU or memory event fit together even
when a counter falls (`SharesAddUp`).

What `event_text` says: each host name the format can express is the host of every
event, cut to its field (`HostSurvives`); a JSON reader gets it back, or the start of
it if the escaped text is longer than its buffer, since no escape is cut in two
(`HostReadsBack`); no event is cut, no `snprintf` of the loop over devices starts
past its buffer, and the queue takes the event (`EventComplete`).

What `event_store` says: between batches, the history, the counters and the latest
events tell one story (`StoreConsistent`); concurrent batches do not mix and readers
see whole ones (`BatchesWhole`); 200 means stored once, in order and in the number
the answer gives, a refusal means nothing stored (`AnswersHonest`); `/api/latest`, whose dictionary is read after the
lock is released, can be newer than its own counters and never older
(`LatestCoversCount`); requests that do not overlap are stored in the order they were
made, and a list from `/api/history` is what the store had to give between two batches,
at a moment when everything answered before the list was asked for was stored; the
stamps that `ingest` gives are in that order too unless the clock was set back, while
an event that came with a stamp keeps it (`RealTimeOrder`); every request ends
(`EveryRequestEnds`). The age that `/health` reports is not negative as long as the
clock was not set back (`BatchesWhole`).

### Bounds, and why they are enough

- `event_queue`: 3 slots, batches of 2, 7 accepted events, two ordinary events
  and two that are refused. The indices go round the ring twice, drops happen
  with `head` at every slot, and batches wrap around the end. The proofs cover
  every other size.
- `pipeline`: queue of 3, batches of 2, two metrics (one that needs an earlier
  snapshot and one that does not: the code treats the other two like the
  first), at most 2 rows, interval 2 s, one signal kind. A row is up to 4 events,
  more than the queue holds, so drops happen within one row; two rows reach the
  loop's second turn with a snapshot from the first. An interval of 2 tells a
  signal in the last second of a sleep from an earlier one. An output call waits up to
  1 s, so that the collector goes on, and seconds pass, while one is under way.
  `LateCap` 3 lets `late` exceed `Interval`; `GraceCap` is 0 where no property looks at
  `grace`. With one signal kind a second signal kills the
  process; two kinds, each with its own handler, are used in the violation runs
  and add no new step of any thread.
- `pipeline_deadline` uses an interval of 6, the smallest above the 5 s of the
  contract, and an output that does not wait. With `Interval` 1 and
  `OutputWait` 6 in the same file TLC finds the other way past the deadline.
- `delivery`: `batch_size` 2, one retry, interval 1 s, initial capacity 1 (16 in the
  code) so that the array must grow, 3 events, a queue of 2 and batches of 2: a full
  batch and a further one, or a failed one, a refused event and a further batch, or a
  queue that overflows during a retry. Every request may arrive late: a copy of the
  first batch after the second one is among the behaviours.
- `metric_rates`: three devices (one of them a partition among the disks and lo
  among the interfaces) for two places, so that the list is cut and filled again;
  counters that wrap at 3 and move up to 3 times between snapshots, which is a
  whole turn and so the case in which a wrapped counter looks unmoved.
- `event_text`: all hosts of up to 4 characters over 7 kinds, in three ways of
  writing them. The field holds 3 characters and the escaped text 7, so that both
  are cut, the escaped text in the middle of a 6-character escape too. The list
  stops early for lack of room as well as for lack of entries.
- `event_store`: two senders and one browser, the fewest in which two batches
  race a reader; bodies with a type, without one, with a stamp of their own and with no
  object at all; a history of 2 under up to 4 events, so that a type leaves the
  history while its latest event stays; limits below 1 and above the maximum. A clock
  of two readings can stand still, go on and be set back.
- `retry_backoff`: all 3601 permitted settings and 34 attempts, past the shift
  by 32; the settings and not a sample of them.
- `startup`: two metrics (the options and keys treat all four alike) and numbers
  0 and 1, on either side of the lower end that every range has in common.

The endless run (`-n 0`) is cut after `MaxRows` rows in the guard of `C_Test`;
a signal still ends it there.

### Fairness

`Pipeline` assumes weak fairness of each thread and of `Tick`: the kernel runs
every runnable thread, and `sleep` and `nanosleep` end. Nothing is assumed of
signals. The mutex is held for a bounded time, so an enabled call of the queue
stays enabled. That an output call waits for a bounded time is an assumption of `Pipeline`
(`OutputWait`); that it returns is part of `EverythingSettles` of `Delivery`, which assumes weak fairness of the
collector, of `main`, and of the delivery thread with the call it is in:
`CURLOPT_TIMEOUT` (10 s) bounds each request and `sleep` each backoff. No fairness is
assumed of the receiver, of signals, or of a favourable outcome.

`EventStore` assumes weak fairness of each request's thread. That suffices although
the lock promises no order: each thread takes it once, and their number is
finite. A client that never finishes sending its body is not a request yet.

`CHECK_DEADLOCK` is on in every run; the end states have explicit stuttering
steps (`Terminated`, `Ended`, `Finished`), and `serve_forever` of the web UI goes on polling.

## 4. Proofs

Eight modules `*_proofs` hold the theorems; `tlapm` checks each of them to the
last leaf. Every safety property that a passing run checks is a theorem for all
values of the constants; what is left to the runs is liveness. Each proof has the
same shape: an inductive invariant, a conjunction of named parts; one lemma that the
initial states satisfy it and one that every step preserves it, by cases over the
actions; and a lemma that it implies the property.

Where a proof needs induction over data (a place in a text, a number of doublings),
it takes the set of the numbers for which the claim fails, and shows that it has no
least element (`LeastExists`). That needs no induction theorem with an operator as
its parameter. For a recursive function two claims are proved in this way: that some
function obeys the recursion, and that every function that does has the values
claimed.

### The queue: `EventQueue_proofs`

Assumed: at least one slot, batches of at least one, `NoEvent` not an event,
lengths are natural numbers.

- `TypeCorrect` (`TypeOK`), `RingCorrect` (`RingInv`: `tail` is `count` slots after
  `head`, each slot between them holds an accepted event), `RingRefinesFifo`
  (`RefinesBoundedFifo`: the ring of any size implements the abstract FIFO).

`RingInv` is inductive only together with `TypeOK`: the arithmetic of `Advance`
(`(slot + i) % MAX_QUEUE_DEPTH`) is that of one turn of the ring when slot and i
are in range (`AdvanceValue`). The facts about `Advance` the rest needs are that
two advances add up (`AdvanceAdd`, for the dequeue), that a whole turn is none
(`AdvanceFull`, for the full ring), and that less than a turn apart is a different
slot (`AdvanceDistinct`: the write at `tail` overwrites no other queued entry). The
refinement maps the ring to the sequence `Contents`, the `count` entries from
`head` on; an enqueue is then `Put` and a batch dequeue is `Take`, by comparing
lengths and elements.

### The threads: `Pipeline_proofs`

Assumed: a queue of at least one event, batches of at least one, an interval of at
least a second, at most four metrics that are distinct and none of them called
like a lifecycle event (`MetricAssumption`; `events_emitted_total += 5` in the code
is the bound of a row only because there are four).

- `Joined` (`ThreadsJoined`) from `ThreadInv`: which threads can exist, by where
  `main` is.
- `TypeCorrect` (`TypeOK`) from `CoreInv`, which adds how many events the collector
  can have put in by the place in its row (`CountInv`) and that every accepted
  event is in one place (`AccountInv`). The sequences and counters are bounded
  only through these.
- `InOrder` (`DeliveryInOrder`) from `OrderInv`: what was handed over, what is in
  the batch and what is queued form one strictly rising chain, all of it below the
  next event the collector composes. The last part is not in the property and
  is what makes it inductive: without it an enqueue could repeat an event.
- `Latency` (`StopLatency`) from `StopInv`: while the flag is set, the seconds counted in
  `late` and what is left of the collector's sleep make one interval at most, and a
  collector that meets the flag in its loop test does not sleep again.
- `Drained` (`DrainedAtExit`) from `DrainInv`: with no signal and no failed
  `pthread_create`, the flag is set only after the collector has ended, and the
  delivery thread ends only after it has seen the flag and then an empty queue.
  That it asks in two steps is harmless because nothing is put in between.
- `LossBounded` (`LossWithinOneRow`) from `LossInv`: when the delivery thread has
  gone, what is queued is of one row, the one the collector is in if it is in one.
- `SelfConsistent` (`SelfMetricsConsistent`) from `SelfInv`: between its two
  questions to the queue the collector puts nothing in, and the consumer only
  takes out.

### The HTTP backend: `Delivery_proofs`

Assumed: positive batch size, interval and first capacity, any number of attempts, a
queue of at least one event, batches of at least one.

The theorems are about `DeliverySpec`. What they rest on is first shown for a backend
whose calls come one at a time in any order (`Use`), and then for the threads, which
keep to that because each joins or waits for the one before (`CallerInv`).

- `BatchFits` (`BatchBound`) from `HttpInv`: where a call is (`CallInv`) and that the
  fates of the events tell what is in the batch and in hand (`BatchInv`). The
  strengthening is that an event is appended only to a batch below `batch_size`,
  although a failed allocation can have left a full one: the code flushes before it
  appends.
- `Attempts` (`AttemptsAccounted`) from `TriesInv`: the requests that carry an event are
  a stretch of consecutive ones, those of one call of `http_post_batch`; while the call
  lasts the stretch ends with the last request and is as long as its attempts, and
  nothing settled is in the batch again.
- `EndToEnd` (`EndToEndOrder`) from `BirthInv`, `BatchOrder`, `RequestOrder` and
  `ArrivalInv`. A request carries the batch of the one before or events behind all that
  were sent, so that the numbers rise from request to request; an acknowledged event
  has arrived before anything behind it was sent, so that no request, however
  late, can get ahead of it. On the threads' side the numbers rise from what was
  handed over through the taken batch to the queue (`LineInv`).
- `CleanRun` (`CleanRunDelivers`) from `CleanInv` and `FlushInv`: while nothing has failed
  every batch is acknowledged at its only attempt.
- `DeliveryTypes` (`DeliveryTypeOK`) and `Accounted` (`NothingUnaccounted`) from
  `QueueInv`, `HandInv` (the backend knows exactly the events handed over) and
  `EndInv` (in which order the threads end).
### The waits between attempts: `RetryBackoff_proofs`

Assumed: the ranges that `set_output_key` lets through (`RangeAssumption`).

- `TypeCorrect` (`TypeOK`): no wait exceeds a minute, whatever is shifted how far,
  since both halves stay natural numbers (`ShiftIsUnsigned`).
- `Exponential` (`ExponentialWhileItFits`). The halves of a product below 2^32 are
  cut like the product itself (`CapOfHalves`), and up to the 21st attempt the product
  is below that (`LowWait`), or the low half has become a high half that is not zero
  (`HighWait`). The reference `Ideal` doubles and cuts step by step; that this is
  `Doubled` in closed form is `IdealIs`.
- `BacksOffWhileItFits`: with at most 21 retries no wait is zero.
- `WaitsReduceBeforeTheCap`: up to the 32nd attempt, past which C leaves the shift
  undefined, the wait is the product with the power of two, reduced modulo 2^32 first
  and cut at a minute afterwards. The halves are shown to be the number they stand for
  (`ShiftIsProduct`), so that the model's shift is the one of an `unsigned int` and
  not only one that agrees with it on small numbers. The 21 above cannot be raised:
  2048 s times 2^21, at the 22nd attempt, is 2^32, and the wait is 0.

### The readers: `MetricRates_proofs`

Assumed: positive width, interval and sector size; any room for devices, none
included; the kernel lists a device once.

- `TypeCorrect` (`TypeOK`). That a list is never longer than its array needs the
  last line taken: all lines taken before it were there when the loop looked for
  room (`TakenFit`, `ItemsAre`).
- `NotOverstated` (`NeverOverstated`) from `BoundInv`: a counter is at most as far
  above the snapshot as was counted since. A wrap or a restart keeps that, because
  it only takes the counter down, and `Delta` turns down into 0 (`DeltaIs`).
- `SteadyExact` (`SteadyDevicesExact`) from `SteadyInv` and `ListedInv`: for a device
  that was never reset the distance is exactly what was counted, and it is in the
  snapshot unless that was cut (`AllTaken`). A failed read changes neither, which
  is the reason that it loses nothing.
- `SharesFit` (`SharesAddUp`). The arithmetic is in `Quotient` and `Shares`: whole per
  cents of disjoint parts do not exceed 100 together.

### The text of an event: `EventText_proofs`

Assumed: `SizesFit`, the relation between the sizes of the buffers.

- `TypeCorrect` (`TypeOK`); `HostKept` (`HostSurvives`) from `HostInv`, with lemmas on
  what `ltrim`, `rtrim`, `strip_inline_comment` and `unquote` leave of a line;
  `Complete` (`EventComplete`) from `BufferInv`: while a list is written the buffer
  keeps room for what closes it. The loop's reserve is what makes each entry fit.
- `ReadsBack` (`HostReadsBack`) from `ReadInv`: the escaped text is the replacements of
  the characters so far, one after the other and each whole (`InWholes` names where
  each starts). That is inductive because a round of `json_escape_string` appends a
  whole replacement or none (`WholesGrow`). A JSON reader at the start of a whole
  replacement gets its character and goes on behind it (`ReadsEscape`), so it reads
  the whole text back (`WholesReadBack`), by induction from the end of the text.
  That `Unescape`'s recursion has a solution at all is `ReadsExists`.

### The event store: `EventStore_proofs`

Assumed (`StoreAssumption`, `RequestAssumption`): a history of at least one event,
finitely many requests at a time, each of which does one thing, and `None` is
nothing else.

- `TypeCorrect` (`TypeOK`) from `CoreInv`: what a thread's place says of its query,
  its answer, the lock and what it has yet to store, and that no reading of a clock
  that was never set back is above the last one (`ClockInv`).
- `Honest` (`AnswersHonest`) from `BatchInv`: nothing of a request is stored before it
  has the lock, what is not yet to do while it has it, all or nothing when it has
  ended; and its events are the last ones stored while it has the lock.
- `Consistent` (`StoreConsistent`) from `StoreInv`, which also says what holds in the
  middle of a batch: only `received_batches` is ahead. That the deque's
  history stays the end of all events is `LastOfLast`.
- `Whole` (`BatchesWhole`), `Covered` (`LatestCoversCount`) and `RealTime`
  (`RealTimeOrder`) speak of answers given earlier. They rest on `Stay` (what no step
  takes back) and `Finish` (which steps give an answer). An answer of
  `/api/latest` stays covered because an entry of the dictionary is only replaced
  by a later event (`DumpInv`). A list from the history is what the first
  n events leave in it, for an n that no batch straddles and none ever will,
  since a request that has an event stored either has the lock or is done (`Cut`).

### Starting up: `Startup_proofs`

Assumed: numbers go up to at least 1. `TypeCorrect` (`TypeOK`), `ValidateOnly`
(`ValidateOnlyNeverRuns`), `BackendUsable` (`RunningBackendUsable`, the URL included
unless the environment holds an empty one) and `ValidatedRuns`
(`ValidatedConfigRuns`), from `StartupInv`: options are over when the file is read,
and the output is only initialised without `--validate-config`.

### What bounds the findings

The properties that a run finds violated (section 5) hold outside a region, and
these theorems say of which:

- `FlushedWithoutSignal` (`Pipeline_proofs`): finding 1 needs a signal.
- `ExitsInTime` (`Pipeline_proofs`): with an interval of at most 5 s and output calls that
  do not wait, the deadline is met. Finding 2 needs a longer interval or
  `http_post`. From `GraceInv`: what has been waited and what is left of the sleep
  make one interval at most.
- `BacksOffWhileItFits` (`RetryBackoff_proofs`): finding 3 needs `retry_max_attempts`
  above 21.
- `OptionsHoldWithoutCollect` (`Startup_proofs`): finding 4 needs a line in the
  section `collect` of the file. It is a theorem about the behaviours of `Spec` without
  a step `set_collect_key`, from `HiddenInv`, and about the hidden metrics only:
  `poll_interval_seconds` of the file overrides `--interval` without such a line.

### What is only model-checked

- Liveness: `Termination`, `EverythingSettles`, `EveryRequestEnds`. Liveness under
  fairness, and the `ENABLED` it is stated with, are out of the prover's reach.

## 5. Findings

1. **Events can be left in the queue at a graceful exit** (`pipeline_flush`).
   `docs/CONTRACT.md:54` promises "stop sampling, flush buffers, exit 0 within
   5s". The delivery thread ends at `g_stop` and an empty queue although the
   collector may still be in a row. `LossWithinOneRow` bounds the loss,
   and without a signal there is none (`FlushedWithoutSignal`).
2. **The exit can take longer than 5 s** (`pipeline_deadline`). A signal handled
   by another thread does not wake the collector, and `main` waits for it; with an
   interval above 5 s the contract's deadline passes. `StopLatency` bounds this
   sleep by one interval. With `http_post` there is a second way, at any interval: the
   delivery thread, then `output_shutdown`, sit out their requests (10 s each,
   `src/output.c:236`) and backoffs (up to 60 s, `src/output.c:280`) without a look
   at the flag (`OutputWait` above 5). With an output that does not wait and an
   interval of at most 5 s the deadline is met (`ExitsInTime`).
3. **The backoff can become zero** (`retry_backoff_zero`): bits are shifted out
   before the cap applies. Up to the 21st wait it is right
   (`ExponentialWhileItFits`, `BacksOffWhileItFits`).
4. **The file overrides the command line** (`startup_options`): `--no-cpu` is
   undone by `collect.cpu: true`, and the test that at least one metric is on is
   made before the file is read. Only lines of the section `collect` can do that
   (`OptionsHoldWithoutCollect`).

Two more slips were met while modelling and have no run of their own. A variable
`PULSE_RECEIVER_URL` that is set and empty passes the check for a URL
(`src/output.c:358`) and replaces the configured one (`src/output.c:375`): `http_post`
then runs with an empty URL, which "output.url required for http_post" is meant to
prevent. `RunningBackendUsable` says that this is the only way to lose the URL. And
the `memmove` in `format_rfc3339` (`src/utils.c:175`) overwrites the NUL behind the
offset, so that a time stamp goes on with what the uninitialised rest of `tz_buf` holds,
up to the first NUL there; in `EventText` a time stamp counts with the 63 characters its
buffer holds, so that this does not cut an event.

Four behaviours are worth knowing and contradict no document. A batch that the
receiver refuses with a 4xx is dropped, and `http_post_batch` returns 0 for it as for
an acknowledged one (`Rejected`). A request that outlives its timeout can
show a receiver a copy of a batch after the batches that follow it (`EndToEndOrder`
says what a receiver can rely on).
`events_emitted_total` grows by five per row, whatever was switched off or
unreadable, so it is an upper bound on the events and not their number
(`SelfMetricsConsistent` holds it to that). After a failed read the next rate covers
several intervals and is divided by one: the bytes are right and the rate is too
high (`SteadyDevicesExact`).

## 6. What is not modelled

- `process.c`: `process_read_list` is declared and nothing calls it, so none of its
  states is one of the program's. With it go the helpers of `utils.c` that format
  sizes and times for a display that no longer exists.
- The dashboard page: presentation in a browser.
- The splitting of a /proc line into fields and numbers (`strtok`, `sscanf`,
  `parse_ull`): a line is a name and a counter. The usage of single cores is
  computed and never emitted.
- Writing to stdout and to the file beyond their selection: one write and one
  flush per event, whose results the code ignores, with no state to relate.
- The text of numbers and time stamps: they count with their longest length.
- The names of interfaces and disks, which `src/main.c:250` and `src/main.c:265` print
  without escaping: they come from the kernel and count with their longest length.
- A line of the configuration file that is longer than the 1024 bytes of `fgets`, which
  the code reads as two lines.
- Characters of several bytes. `host_override` is cut at 127 bytes and the cut can
  split one; the event is then no UTF-8, and the web UI gives no answer to such a
  body (part of `Malformed` in `EventStore`).
- Keys and options that set only a retry setting, a log setting or a display mode:
  they are read and ranged like those that are modelled. The retry settings are
  constants of `HttpOutput` and `RetryBackoff`. The rule that a line is
  indented by 0 or 2 blanks.
- Weak memory: `g_stop` is a `volatile sig_atomic_t` read without synchronisation.
  Each read is a step that sees the latest value, as on the machines the program
  is built for; a stale read would only delay a step, which the interleavings
  already allow.

## 7. Plan

The modelling is done as far as the code keeps state that something relies on, and
every safety property that a passing run checks is proved. What could follow:

1. The waits of `Pipeline`'s output calls from the steps of `HttpOutput` and
   `RetryBackoff`, in place of the bound `OutputWait`.
2. The liveness properties, should the prover come to reach them.
