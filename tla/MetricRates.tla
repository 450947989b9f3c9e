---------------------------- MODULE MetricRates ----------------------------
(***************************************************************************)
(* The metric readers (src/cpu.c, disk.c, network.c, memory.c) and what    *)
(* the collector keeps of their readings from row to row: the last         *)
(* successful snapshot and whether there is one.                           *)
(*                                                                         *)
(* The four metrics share nothing, so a behaviour follows one of them.     *)
(* Its file under /proc is a table of counters that move by themselves:    *)
(* devices come and go, and the counters of a device that comes back start *)
(* at 0; counters of a 32-bit kernel wrap; the iowait share of the CPU     *)
(* time may fall.  A device has one counter here, which stands for its two *)
(* (treated alike), and memory one pair for itself and swap.  The CPU      *)
(* times are told by user, system, idle and the sum of the other five; the *)
(* usage of single cores is computed and never emitted.                    *)
(***************************************************************************)
EXTENDS Integers, Sequences, FiniteSets

CONSTANTS Listing,           \* the device names in the order the kernel lists them
          WholeDisks,        \* those is_whole_disk_name accepts
          Loopback,          \* the interface called lo
          MaxDevices,        \* MAX_DISKS and MAX_INTERFACES
          DISK_SECTOR_SIZE,  \* bytes in a sector
          interval_sec,      \* seconds a row is meant to take
          Width,             \* bound of the model: a device counter wraps here
          MaxMoved           \* bound of the model: moves between two snapshots

ASSUME RateAssumption ==
    /\ Width \in Nat \ {0} /\ interval_sec \in Nat \ {0} /\ DISK_SECTOR_SIZE \in Nat \ {0}
    /\ MaxDevices \in Nat /\ MaxMoved \in Nat

(* The kernel lists a device once. *)
ASSUME ListingAssumption ==
    Listing \in Seq(STRING) /\ \A p, q \in 1 .. Len(Listing) : Listing[p] = Listing[q] => p = q

Absent == -1
DeviceMetrics == {"disk", "network"}
DeviceNames == {Listing[p] : p \in 1 .. Len(Listing)}
CpuFields == {"user", "system", "idle", "other"}
MemoryKeys == {"MemTotal", "MemAvailable"}

VARIABLES metric,            \* cpu, memory, disk or network
          include_loopback,  \* cfg->include_loopback
          proc,              \* the file under /proc: name -> counter, or Absent
          prev, ready,       \* the collector's last snapshot, and whether it has one
          event,             \* what the last step published: nothing, or one payload
          moved,             \* per name, what was counted since prev
          steady,            \* the names that were there and only grew since prev
          crowded            \* the list of devices was cut when prev was taken

settings == <<metric, include_loopback>>
vars == <<settings, proc, prev, ready, event, moved, steady, crowded>>

Names == CASE metric = "cpu" -> CpuFields
           [] metric = "memory" -> MemoryKeys
           [] OTHER -> DeviceNames

Counts == 0 .. Width - 1

(* items[] never holds more than it has room for. *)
TypeOK ==
    /\ metric \in {"cpu", "memory"} \cup DeviceMetrics
    /\ include_loopback \in BOOLEAN /\ ready \in BOOLEAN /\ crowded \in BOOLEAN
    /\ proc \in [Names -> Absent .. Width - 1]
    /\ metric \in DeviceMetrics /\ ready =>
         /\ prev \in [DOMAIN prev -> Counts] /\ DOMAIN prev \subseteq DeviceNames
         /\ Cardinality(DOMAIN prev) <= MaxDevices
    /\ metric = "cpu" /\ ready => prev \in [CpuFields -> Counts]
    /\ moved \in [Names -> 0 .. MaxMoved]
    /\ steady \subseteq Names
-----------------------------------------------------------------------------
(* The names the reader keeps: whole disks; interfaces, with lo or without. *)
Kept(n) ==
    IF metric = "disk" THEN n \in WholeDisks ELSE include_loopback \/ n # Loopback

(* The lines of the file that the reader keeps. *)
Eligible == {p \in 1 .. Len(Listing) : proc[Listing[p]] # Absent /\ Kept(Listing[p])}

Bug_Room(count) == count <= MaxDevices

(* The loop over the lines ends when items[] is full. *)
Room(count) == count < MaxDevices

Taken == {p \in Eligible : Room(Cardinality({q \in Eligible : q < p}))}

(* items[]: the counter of each name.  Its order plays no part. *)
Items == [n \in {Listing[p] : p \in Taken} |-> proc[n]]

disk_read_snapshot == Items
net_read_snapshot == Items
cpu_read_snapshot == proc

(* memset first: a key that is missing from /proc/meminfo is 0. *)
MemoryValue(k) == IF proc[k] = Absent THEN 0 ELSE proc[k]

(* The subtraction of two unsigned counters without the test. *)
Bug_Delta(c, p) == (c - p) % Width

Delta(c, p) == IF c >= p THEN c - p ELSE 0

(* find_disk, find_iface: the devices of curr that prev knows too. *)
Known(p, c) == DOMAIN c \cap DOMAIN p

(* One rate for each of them, as a fraction: bytes over seconds. *)
Rates(p, c, unit) ==
    [n \in Known(p, c) |-> [bytes |-> Delta(c[n], p[n]) * unit, seconds |-> interval_sec]]

disk_compute_stats(p, c) == Rates(p, c, DISK_SECTOR_SIZE)
net_compute_stats(p, c) == Rates(p, c, 1)

cpu_total_jiffies(t) == t["user"] + t["system"] + t["idle"] + t["other"]

Bug_clamp(v) == v

(* clamp_double(v, 0.0, 100.0) *)
clamp(v) == IF v < 0 THEN 0 ELSE IF v > 100 THEN 100 ELSE v

(* Whole per cents: the fractions play no part. *)
cpu_pct_from_delta(p, c) ==
    LET total == Delta(cpu_total_jiffies(c), cpu_total_jiffies(p))
        share(f) == (100 * Delta(c[f], p[f])) \div total
    IN  IF total = 0
          THEN [usage |-> 0, user |-> 0, system |-> 0, idle |-> 100]
          ELSE [usage |-> clamp(100 - share("idle")), user |-> clamp(share("user")),
                system |-> clamp(share("system")), idle |-> clamp(share("idle"))]

(* The total; each core goes the same way. *)
cpu_compute_stats(p, c) == cpu_pct_from_delta(p, c)

memory_read_stats ==
    LET total == MemoryValue("MemTotal")
        available == MemoryValue("MemAvailable")
    IN  [total |-> total, available |-> available,
         used |-> IF total >= available THEN total - available ELSE 0]

ReadSnapshot == CASE metric = "cpu" -> cpu_read_snapshot
                  [] metric = "disk" -> disk_read_snapshot
                  [] metric = "network" -> net_read_snapshot
                  [] OTHER -> << >>

ComputeStats(p, c) == CASE metric = "cpu" -> cpu_compute_stats(p, c)
                        [] metric = "disk" -> disk_compute_stats(p, c)
                        [] metric = "network" -> net_compute_stats(p, c)
                        [] OTHER -> memory_read_stats
-----------------------------------------------------------------------------
Cut == metric \in DeviceMetrics /\ Cardinality(Eligible) > MaxDevices

Present == {n \in Names : proc[n] # Absent}

(* A snapshot is taken: the counting of what happened since starts anew. *)
Restart ==
    /\ moved' = [n \in Names |-> 0]
    /\ steady' = Present
    /\ crowded' = Cut

(* The baseline has been read, or could not be. *)
Init ==
    /\ metric \in {"cpu", "memory"} \cup DeviceMetrics
    /\ include_loopback \in BOOLEAN
    /\ IF metric \in DeviceMetrics
         THEN proc \in [Names -> {Absent, 0}]
         ELSE proc = [n \in Names |-> 0]
    /\ ready \in BOOLEAN
    /\ prev = IF ready THEN ReadSnapshot ELSE << >>
    /\ event = {}
    /\ moved = [n \in Names |-> 0] /\ steady = Present /\ crowded = Cut

Bug_ReadFails ==
    /\ event' = {}
    /\ prev' = IF metric = "cpu" THEN [f \in CpuFields |-> 0] ELSE << >>
    /\ ready' = TRUE
    /\ UNCHANGED <<settings, proc, moved, steady, crowded>>

(* The reading failed: no event, and the old snapshot is kept. *)
ReadFails ==
    /\ event' = {}
    /\ UNCHANGED <<settings, proc, prev, ready, moved, steady, crowded>>

ReadSucceeds ==
    /\ event' = IF ready \/ metric = "memory" THEN {ComputeStats(prev, ReadSnapshot)} ELSE {}
    /\ prev' = ReadSnapshot
    /\ ready' = TRUE
    /\ Restart
    /\ UNCHANGED <<settings, proc>>

(* The kernel moves between two rows. *)
BetweenRows == event' = {} /\ UNCHANGED <<settings, prev, ready, crowded>>

(* A counter of the CPU or of a device moves on. *)
Count(n) ==
    /\ metric # "memory"
    /\ proc[n] # Absent /\ moved[n] < MaxMoved
    /\ metric = "cpu" => proc[n] + 1 < Width
    /\ proc' = [proc EXCEPT ![n] = (@ + 1) % Width]
    /\ moved' = [moved EXCEPT ![n] = @ + 1]
    /\ steady' = IF proc[n] + 1 < Width THEN steady ELSE steady \ {n}
    /\ BetweenRows

(* A device appears with its counters at 0, or goes away. *)
HotPlug(n) ==
    /\ metric \in DeviceMetrics
    /\ proc' = [proc EXCEPT ![n] = IF @ = Absent THEN 0 ELSE Absent]
    /\ steady' = steady \ {n}
    /\ UNCHANGED moved
    /\ BetweenRows

IowaitFalls ==
    /\ metric = "cpu" /\ proc["other"] > 0
    /\ proc' = [proc EXCEPT !["other"] = @ - 1]
    /\ steady' = steady \ {"other"}
    /\ UNCHANGED moved
    /\ BetweenRows

MemoryChanges ==
    /\ metric = "memory"
    /\ proc' \in [Names -> Absent .. Width - 1]
    /\ UNCHANGED <<moved, steady>>
    /\ BetweenRows

Kernel == (\E n \in Names : Count(n) \/ HotPlug(n)) \/ IowaitFalls \/ MemoryChanges

Row == ReadFails \/ ReadSucceeds

Next == Kernel \/ Row

Spec == Init /\ [][Next]_vars
-----------------------------------------------------------------------------
Unit == IF metric = "disk" THEN DISK_SECTOR_SIZE ELSE 1

(***************************************************************************)
(* No rate claims more bytes than went through a device of that name since *)
(* the snapshot it is computed from, whatever was unplugged, plugged in    *)
(* again under the same name, wrapped or could not be read in between      *)
(* (disk_compute_stats and net_compute_stats subtract unsigned counters).  *)
(***************************************************************************)
NeverOverstated ==
    [][(metric \in DeviceMetrics) =>
         \A stats \in event' : \A n \in DOMAIN stats : stats[n].bytes <= Unit * moved[n]]_vars

(***************************************************************************)
(* Nothing that was counted gets lost.  A device that stayed is reported   *)
(* in the next row that can be read with everything since the last         *)
(* snapshot: what a failed read leaves out is made up for by the row after *)
(* it.  (All of it is divided by one interval, so that row's rate is too   *)
(* high by the intervals missed.)  Lists that are cut are exempt.          *)
(***************************************************************************)
SteadyDevicesExact ==
    [][(metric \in DeviceMetrics) /\ ~crowded /\ ~Cut =>
         \A stats \in event' : \A n \in steady : Kept(n) =>
            n \in DOMAIN stats /\ stats[n].bytes = Unit * moved[n]]_vars

(***************************************************************************)
(* The shares of one event fit together, also when a counter fell: usage   *)
(* and idle make 100, nothing leaves 0 to 100, and user and system do not  *)
(* exceed usage while all counters grow; used and available memory make    *)
(* the total unless the kernel reports more available than there is.       *)
(***************************************************************************)
SharesAddUp ==
    [][\A stats \in event' :
        /\ metric = "cpu" =>
             /\ stats.usage + stats.idle = 100
             /\ {stats.usage, stats.user, stats.system, stats.idle} \subseteq 0 .. 100
             /\ steady = CpuFields => stats.user + stats.system <= stats.usage
        /\ metric = "memory" =>
             /\ stats.used <= stats.total
             /\ stats.available <= stats.total => stats.used + stats.available = stats.total]_vars
=============================================================================
