------------------------- MODULE MetricRates_proofs -------------------------
(***************************************************************************)
(* Proofs about the metric readers and the differences the collector       *)
(* publishes, for every list of devices, every room for them, every width  *)
(* of the counters and every interval.                                     *)
(***************************************************************************)
EXTENDS MetricRates, FiniteSetTheorems, WellFoundedInduction, TLAPS

(***************************************************************************)
(* What was counted since the last snapshot bounds how far a counter is    *)
(* from it, and is exactly how far a counter is that was never reset; such *)
(* a device is in the snapshot unless the snapshot was cut.                *)
(***************************************************************************)
CpuInv == metric = "cpu" => proc \in [CpuFields -> Counts]
BoundInv ==
    metric \in DeviceMetrics /\ ready =>
        \A n \in DOMAIN prev : proc[n] <= prev[n] + moved[n]
SteadyInv ==
    /\ metric # "memory" => \A n \in steady : proc[n] # Absent
    /\ metric # "memory" /\ ready => \A n \in steady \cap DOMAIN prev : proc[n] = prev[n] + moved[n]
ListedInv ==
    metric \in DeviceMetrics /\ ready /\ ~crowded => \A n \in steady : Kept(n) => n \in DOMAIN prev

RateInv == TypeOK /\ CpuInv /\ BoundInv /\ SteadyInv /\ ListedInv
-----------------------------------------------------------------------------
(* A set of lines has a last one. *)
LEMMA GreatestExists ==
    ASSUME NEW k \in Nat, NEW S \in SUBSET (1 .. k), S # {}
    PROVE  \E m \in S : \A j \in S : j <= m
<1> DEFINE T == {k - j : j \in S}
<1>1. T \in SUBSET Nat /\ T # {}
  <2>1. \A j \in S : k - j \in Nat
    OBVIOUS
  <2>2. \A t \in T : \E j \in S : t = k - j
    BY Zenon
  <2>3. T \subseteq Nat
    BY <2>1, <2>2, Zenon
  <2>4. T # {}
    BY Zenon
  <2>5. QED
    BY <2>3, <2>4, Zenon
<1>2. PICK d \in T : \A e \in T : ~(<<e, d>> \in OpToRel(<, Nat))
  BY <1>1, NatLessThanWellFounded, WFMin
<1>3. PICK m \in S : d = k - m
  OBVIOUS
<1>4. ASSUME NEW j \in S PROVE j <= m
  <2>1. k - j \in T /\ k - j \in Nat /\ d \in Nat
    BY <1>1
  <2>2. ~(<<k - j, d>> \in OpToRel(<, Nat))
    BY <1>2, <2>1
  <2>3. ~(k - j < d)
    BY <2>1, <2>2 DEF OpToRel
  <2>4. QED
    BY <1>3, <2>3
<1>5. QED
  BY <1>4

(* The lines that are kept are finitely many. *)
LEMMA FewLines ==
    /\ Len(Listing) \in Nat
    /\ Eligible \in SUBSET (1 .. Len(Listing)) /\ IsFiniteSet(Eligible)
    /\ \A p \in Eligible : IsFiniteSet({q \in Eligible : q < p})
<1>1. Len(Listing) \in Nat /\ Eligible \in SUBSET (1 .. Len(Listing))
  BY ListingAssumption DEF Eligible
<1>2. IsFiniteSet(Eligible)
  <2>1. 1 \in Int /\ Len(Listing) \in Int
    BY <1>1
  <2>2. QED
    BY <1>1, <2>1, FS_Interval, FS_Subset
<1>3. ASSUME NEW p \in Eligible PROVE IsFiniteSet({q \in Eligible : q < p})
  BY <1>2, FS_Subset
<1>4. QED
  BY <1>1, <1>2, <1>3

(* The lines taken are no more than there is room for. *)
LEMMA TakenFit == IsFiniteSet(Taken) /\ Cardinality(Taken) \in Nat /\ Cardinality(Taken) <= MaxDevices
<1>1. IsFiniteSet(Taken) /\ Taken \in SUBSET (1 .. Len(Listing)) /\ Taken \subseteq Eligible
  BY FewLines, FS_Subset DEF Taken
<1>2. Cardinality(Taken) \in Nat /\ MaxDevices \in Nat
  BY <1>1, FS_CardinalityType, RateAssumption
<1>3. CASE Taken = {}
  BY <1>2, <1>3, FS_EmptySet
<1>4. CASE Taken # {}
  <2>1. PICK m \in Taken : \A j \in Taken : j <= m
    BY <1>1, <1>4, FewLines, GreatestExists
  <2> DEFINE earlier == {q \in Eligible : q < m}
  <2>2. IsFiniteSet(earlier) /\ Cardinality(earlier) < MaxDevices
    BY <1>1, <2>1, FewLines DEF Taken, Room
  <2>3. m \notin earlier /\ Taken \in SUBSET (earlier \cup {m})
    <3>1. \A j \in Taken : j \in Int /\ m \in Int /\ j <= m
      BY <1>1, <2>1
    <3>2. QED
      BY <1>1, <3>1
  <2> HIDE DEF earlier
  <2>4. /\ IsFiniteSet(earlier \cup {m})
        /\ Cardinality(earlier \cup {m}) = Cardinality(earlier) + 1
    BY <2>2, <2>3, FS_AddElement
  <2>5. Cardinality(Taken) <= Cardinality(earlier \cup {m})
    BY <2>3, <2>4, FS_Subset
  <2>6. Cardinality(earlier) \in Nat
    BY <2>2, FS_CardinalityType
  <2>7. QED
    BY <1>1, <1>2, <2>2, <2>4, <2>5, <2>6
<1>5. QED
  BY <1>3, <1>4

(* A list that is not cut has all the lines. *)
LEMMA AllTaken ==
    ASSUME ~(Cardinality(Eligible) > MaxDevices)
    PROVE  Taken = Eligible
<1>1. ASSUME NEW p \in Eligible PROVE Cardinality({q \in Eligible : q < p}) < MaxDevices
  <2> DEFINE earlier == {q \in Eligible : q < p}
  <2>1. p \in Nat
    BY FewLines
  <2>2. p \notin earlier /\ earlier \in SUBSET (Eligible \ {p})
    BY <2>1
  <2> HIDE DEF earlier
  <2>3. /\ IsFiniteSet(Eligible \ {p})
        /\ Cardinality(Eligible \ {p}) = Cardinality(Eligible) - 1
    BY FewLines, FS_RemoveElement
  <2>4. IsFiniteSet(earlier) /\ Cardinality(earlier) <= Cardinality(Eligible \ {p})
    BY <2>2, <2>3, FS_Subset
  <2>5. Cardinality(earlier) \in Nat /\ Cardinality(Eligible) \in Nat /\ MaxDevices \in Nat
    BY <2>4, FewLines, FS_CardinalityType, RateAssumption
  <2>6. Cardinality(earlier) < MaxDevices
    BY <2>3, <2>4, <2>5
  <2>7. QED
    BY <2>6 DEF earlier
<1>2. QED
  BY <1>1 DEF Taken, Room

(* What disk_read_snapshot and net_read_snapshot return. *)
LEMMA ItemsAre ==
    ASSUME proc \in [DeviceNames -> Absent .. Width - 1]
    PROVE  /\ DOMAIN Items \subseteq DeviceNames /\ Cardinality(DOMAIN Items) <= MaxDevices
           /\ Items \in [DOMAIN Items -> Counts]
           /\ \A n \in DOMAIN Items : Items[n] = proc[n] /\ proc[n] # Absent /\ Kept(n)
           /\ ~(Cardinality(Eligible) > MaxDevices) =>
                \A n \in DeviceNames : proc[n] # Absent /\ Kept(n) => n \in DOMAIN Items
<1> DEFINE names == {Listing[p] : p \in Taken}
<1>1. DOMAIN Items = names /\ \A n \in names : Items[n] = proc[n]
  BY DEF Items
<1>2. Taken \subseteq Eligible /\ Taken \subseteq 1 .. Len(Listing)
  BY FewLines DEF Taken
<1>3. names \subseteq DeviceNames
  BY <1>2 DEF DeviceNames
<1>4. \A n \in names : proc[n] # Absent /\ Kept(n)
  BY <1>2 DEF Eligible
<1>5. Cardinality(names) <= MaxDevices
  <2> DEFINE f == [p \in Taken |-> Listing[p]]
  <2>1. f \in Surjection(Taken, names)
    BY DEF Surjection
  <2>2. IsFiniteSet(names) /\ Cardinality(names) <= Cardinality(Taken)
    BY <2>1, TakenFit, FS_Surjection
  <2>3. Cardinality(names) \in Nat /\ MaxDevices \in Nat
    BY <2>2, FS_CardinalityType, RateAssumption
  <2> HIDE DEF names
  <2>4. QED
    BY <2>2, <2>3, TakenFit
<1>6. \A n \in names : proc[n] \in Counts
  <2>1. \A n \in names : proc[n] \in Absent .. Width - 1
    BY <1>3
  <2>2. QED
    BY <1>4, <2>1, RateAssumption DEF Absent, Counts
<1>7. Items \in [names -> Counts]
  BY <1>6 DEF Items
<1>8. ASSUME ~(Cardinality(Eligible) > MaxDevices), NEW n \in DeviceNames, proc[n] # Absent, Kept(n)
      PROVE  n \in names
  <2>1. PICK p \in 1 .. Len(Listing) : n = Listing[p]
    BY DEF DeviceNames
  <2>2. p \in Taken
    BY <1>8, <2>1, AllTaken DEF Eligible
  <2>3. QED
    BY <2>1, <2>2
<1> HIDE DEF names
<1>9. QED
  BY <1>1, <1>3, <1>4, <1>5, <1>7, <1>8
-----------------------------------------------------------------------------
(* The test before the subtraction keeps a difference from wrapping. *)
LEMMA DeltaIs ==
    ASSUME NEW c \in Nat, NEW p \in Nat
    PROVE  /\ Delta(c, p) \in Nat
           /\ \A m \in Nat : c <= p + m => Delta(c, p) <= m
           /\ \A m \in Nat : c = p + m => Delta(c, p) = m
  BY DEF Delta

(* More sectors are more bytes. *)
LEMMA Times ==
    ASSUME NEW a \in Nat, NEW b \in Nat, NEW u \in Nat, a <= b
    PROVE  a * u <= u * b
  OBVIOUS

(* What the division of a share drops. *)
LEMMA Quotient ==
    ASSUME NEW a \in Nat, NEW t \in Nat, t > 0
    PROVE  a \div t \in Nat /\ (a \div t) * t <= a
  OBVIOUS

(* Whole shares of disjoint parts do not exceed 100 together. *)
LEMMA Shares ==
    ASSUME NEW u \in Nat, NEW s \in Nat, NEW i \in Nat, NEW t \in Nat, t > 0, u + s + i <= t
    PROVE  (100 * u) \div t + (100 * s) \div t + (100 * i) \div t <= 100
<1> DEFINE a == (100 * u) \div t
           b == (100 * s) \div t
           c == (100 * i) \div t
<1>1. 100 * u \in Nat /\ 100 * s \in Nat /\ 100 * i \in Nat
  OBVIOUS
<1>2. a \in Nat /\ b \in Nat /\ c \in Nat /\ a * t <= 100 * u /\ b * t <= 100 * s /\ c * t <= 100 * i
  BY <1>1, Quotient
<1> HIDE DEF a, b, c
<1>3. (a + b + c) * t <= 100 * t
  <2>1. (a + b + c) * t = a * t + b * t + c * t
    BY <1>2
  <2>2. a * t \in Nat /\ b * t \in Nat /\ c * t \in Nat
    BY <1>2
  <2>3. QED
    BY <1>2, <2>1, <2>2
<1>4. a + b + c <= 100
  <2>1. SUFFICES ASSUME a + b + c >= 101 PROVE FALSE
    BY <1>2
  <2>2. (a + b + c) * t >= 101 * t
    BY <1>2, <2>1
  <2>3. QED
    BY <1>2, <1>3, <2>2
<1>5. QED
  BY <1>4 DEF a, b, c

(***************************************************************************)
(* cpu_pct_from_delta for two snapshots: usage and idle make 100, nothing  *)
(* leaves 0 to 100, and the parts fit in when no counter fell.             *)
(***************************************************************************)
LEMMA CpuShares ==
    ASSUME NEW p \in [CpuFields -> Counts], NEW c \in [CpuFields -> Counts]
    PROVE  LET stats == cpu_pct_from_delta(p, c)
           IN  /\ stats.usage + stats.idle = 100
               /\ {stats.usage, stats.user, stats.system, stats.idle} \subseteq 0 .. 100
               /\ (\A f \in CpuFields : c[f] >= p[f]) => stats.user + stats.system <= stats.usage
<1> DEFINE total == Delta(cpu_total_jiffies(c), cpu_total_jiffies(p))
           du == Delta(c["user"], p["user"])
           ds == Delta(c["system"], p["system"])
           di == Delta(c["idle"], p["idle"])
           u == (100 * du) \div total
           s == (100 * ds) \div total
           i == (100 * di) \div total
<1>1. \A f \in CpuFields : p[f] \in Nat /\ c[f] \in Nat
  BY RateAssumption DEF Counts
<1>2. /\ c["user"] \in Nat /\ c["system"] \in Nat /\ c["idle"] \in Nat /\ c["other"] \in Nat
      /\ p["user"] \in Nat /\ p["system"] \in Nat /\ p["idle"] \in Nat /\ p["other"] \in Nat
  BY <1>1 DEF CpuFields
<1>3. total \in Nat /\ du \in Nat /\ ds \in Nat /\ di \in Nat
  <2>1. cpu_total_jiffies(c) \in Nat /\ cpu_total_jiffies(p) \in Nat
    BY <1>2 DEF cpu_total_jiffies
  <2>2. QED
    BY <1>2, <2>1, DeltaIs
<1>4. (\A f \in CpuFields : c[f] >= p[f]) => du + ds + di <= total
  BY <1>2 DEF Delta, cpu_total_jiffies, CpuFields
<1>5. CASE total = 0
  <2>1. cpu_pct_from_delta(p, c) = [usage |-> 0, user |-> 0, system |-> 0, idle |-> 100]
    BY <1>5 DEF cpu_pct_from_delta
  <2>2. QED
    BY <2>1
<1>6. CASE total # 0
  <2>1. cpu_pct_from_delta(p, c) = [usage |-> clamp(100 - i), user |-> clamp(u),
                                    system |-> clamp(s), idle |-> clamp(i)]
    BY <1>6 DEF cpu_pct_from_delta
  <2>2. u \in Nat /\ s \in Nat /\ i \in Nat
    <3>1. 100 * du \in Nat /\ 100 * ds \in Nat /\ 100 * di \in Nat /\ total > 0
      BY <1>3, <1>6
    <3> HIDE DEF total, du, ds, di
    <3>2. QED
      BY <1>3, <3>1, Quotient
  <2>3. (\A f \in CpuFields : c[f] >= p[f]) => u + s + i <= 100
    <3>1. total > 0
      BY <1>3, <1>6
    <3> HIDE DEF total, du, ds, di
    <3>2. QED
      BY <1>3, <1>4, <3>1, Shares
  <2> HIDE DEF u, s, i
  <2>4. /\ clamp(100 - i) + clamp(i) = 100
        /\ clamp(100 - i) \in 0 .. 100 /\ clamp(u) \in 0 .. 100 /\ clamp(s) \in 0 .. 100
        /\ clamp(i) \in 0 .. 100
        /\ (u + s + i <= 100) => clamp(u) + clamp(s) <= clamp(100 - i)
    BY <2>2 DEF clamp
  <2>5. QED
    BY <2>1, <2>3, <2>4
<1>7. QED
  BY <1>5, <1>6

(* The memory in use and the memory available, as they are published. *)
LEMMA MemoryAdds ==
    ASSUME proc \in [MemoryKeys -> Absent .. Width - 1]
    PROVE  /\ memory_read_stats.used <= memory_read_stats.total
           /\ memory_read_stats.available <= memory_read_stats.total =>
                memory_read_stats.used + memory_read_stats.available = memory_read_stats.total
<1>1. MemoryValue("MemTotal") \in Nat /\ MemoryValue("MemAvailable") \in Nat
  BY RateAssumption DEF MemoryValue, MemoryKeys, Absent
<1>2. QED
  BY <1>1 DEF memory_read_stats
-----------------------------------------------------------------------------
(* The four metrics, and what each reads. *)
LEMMA MetricIs ==
    /\ metric = "cpu" => Names = CpuFields /\ ReadSnapshot = proc
    /\ metric = "memory" => Names = MemoryKeys
    /\ metric \in DeviceMetrics => Names = DeviceNames /\ ReadSnapshot = Items
    /\ metric \in DeviceMetrics => metric # "cpu" /\ metric # "memory"
  BY DEF Names, ReadSnapshot, DeviceMetrics, cpu_read_snapshot, disk_read_snapshot, net_read_snapshot

(* The metric that is followed and the counters are never mistaken. *)
ProcInv ==
    /\ metric \in {"cpu", "memory"} \cup DeviceMetrics
    /\ proc \in [Names -> Absent .. Width - 1] /\ CpuInv

(* A snapshot has the counters of its moment. *)
LEMMA Fresh ==
    ASSUME ProcInv
    PROVE  /\ metric = "cpu" => /\ ReadSnapshot \in [CpuFields -> Counts]
                                /\ \A n \in CpuFields : ReadSnapshot[n] = proc[n]
           /\ metric \in DeviceMetrics =>
                /\ ReadSnapshot \in [DOMAIN ReadSnapshot -> Counts]
                /\ DOMAIN ReadSnapshot \subseteq DeviceNames
                /\ Cardinality(DOMAIN ReadSnapshot) <= MaxDevices
                /\ \A n \in DOMAIN ReadSnapshot : ReadSnapshot[n] = proc[n] /\ proc[n] \in Counts
                /\ ~Cut => \A n \in Present : Kept(n) => n \in DOMAIN ReadSnapshot
<1>1. CASE metric = "cpu"
  BY <1>1, MetricIs DEF ProcInv, CpuInv
<1>2. CASE metric \in DeviceMetrics
  <2>1. ReadSnapshot = Items /\ Names = DeviceNames
    BY <1>2, MetricIs
  <2>2. proc \in [DeviceNames -> Absent .. Width - 1]
    BY <2>1 DEF ProcInv
  <2>3. ~Cut => ~(Cardinality(Eligible) > MaxDevices)
    BY <1>2 DEF Cut
  <2>4. QED
    BY <1>2, <2>1, <2>2, <2>3, ItemsAre, MetricIs DEF Present
<1>3. QED
  BY <1>1, <1>2, MetricIs

(* The initial states satisfy the invariant. *)
LEMMA RateInit == Init => RateInv
<1> SUFFICES ASSUME Init PROVE RateInv
  OBVIOUS
<1>0. Width \in Nat \ {0} /\ MaxMoved \in Nat
  BY RateAssumption
<1>1. \A n \in Names : proc[n] \in {Absent, 0}
  BY DEF Init
<1>2. metric \notin DeviceMetrics => proc = [n \in Names |-> 0]
  BY DEF Init
<1>3. ProcInv
  <2>1. Absent \in Absent .. Width - 1 /\ 0 \in Absent .. Width - 1 /\ 0 \in Counts
    BY <1>0 DEF Absent, Counts
  <2>2. proc \in [Names -> Absent .. Width - 1]
    BY <1>2, <2>1 DEF Init
  <2>3. CpuInv
    BY <1>2, <2>1, MetricIs DEF CpuInv
  <2>4. QED
    BY <2>2, <2>3 DEF ProcInv, Init
<1>4. ready => prev = ReadSnapshot
  BY DEF Init
<1>5. TypeOK
  <2>1. ready \in BOOLEAN /\ include_loopback \in BOOLEAN
    BY DEF Init
  <2>2. crowded \in BOOLEAN
    BY Zenon DEF Init, Cut
  <2>3. moved \in [Names -> 0 .. MaxMoved] /\ steady \subseteq Names
    BY <1>0 DEF Init, Present
  <2>4. QED
    BY <1>3, <1>4, <2>1, <2>2, <2>3, Fresh DEF TypeOK, ProcInv
<1>6. \A n \in Names : moved[n] = 0
  BY DEF Init
<1>7. BoundInv
  <2> SUFFICES ASSUME metric \in DeviceMetrics, ready, NEW n \in DOMAIN prev
               PROVE  proc[n] <= prev[n] + moved[n]
    BY DEF BoundInv
  <2>1. prev[n] = proc[n] /\ proc[n] \in Counts /\ n \in Names
    BY <1>3, <1>4, Fresh, MetricIs
  <2>2. QED
    BY <1>6, <2>1 DEF Counts
<1>8. SteadyInv
  <2>1. \A n \in steady : proc[n] # Absent
    BY DEF Init, Present
  <2>2. ASSUME metric # "memory", ready, NEW n \in steady \cap DOMAIN prev
        PROVE  proc[n] = prev[n] + moved[n]
    <3>1. n \in Names /\ proc[n] \in Absent .. Width - 1
      BY <1>3 DEF Init, Present, ProcInv
    <3>2. metric = "cpu" \/ metric \in DeviceMetrics
      BY <2>2 DEF Init
    <3>3. prev[n] = proc[n]
      BY <1>3, <1>4, <2>2, <3>1, <3>2, Fresh, MetricIs
    <3>4. proc[n] \in Int
      BY <3>1, <1>0 DEF Absent
    <3>5. QED
      BY <1>6, <3>1, <3>3, <3>4
  <2>3. QED
    BY <2>1, <2>2 DEF SteadyInv
<1>9. ListedInv
  <2>1. ~crowded => ~Cut
    BY Zenon DEF Init
  <2>2. steady = Present
    BY DEF Init
  <2>3. QED
    BY <1>3, <1>4, <2>1, <2>2, Fresh DEF ListedInv
<1>10. QED
  BY <1>3, <1>5, <1>7, <1>8, <1>9 DEF RateInv, ProcInv

(* A snapshot starts the counting anew. *)
LEMMA SucceedsStep == RateInv /\ ReadSucceeds => RateInv'
<1> SUFFICES ASSUME RateInv, ReadSucceeds PROVE RateInv'
  OBVIOUS
<1>0. Width \in Nat \ {0} /\ MaxMoved \in Nat
  BY RateAssumption
<1>1. /\ prev' = ReadSnapshot /\ ready' = TRUE /\ proc' = proc /\ metric' = metric
      /\ include_loopback' = include_loopback /\ moved' = [n \in Names |-> 0] /\ steady' = Present
  BY DEF ReadSucceeds, Restart, settings
<1>2. crowded' = Cut
  BY DEF ReadSucceeds, Restart
<1>3. ProcInv
  BY DEF RateInv, TypeOK, ProcInv
<1>4. Names' = Names /\ \A n : Kept(n)' = Kept(n)
  BY <1>1 DEF Names, Kept
<1>5. TypeOK'
  <2>1. include_loopback' \in BOOLEAN
    BY <1>1 DEF RateInv, TypeOK
  <2>2. crowded' \in BOOLEAN
    BY <1>2, Zenon DEF Cut
  <2>3. moved' \in [Names -> 0 .. MaxMoved] /\ steady' \subseteq Names
    BY <1>0, <1>1 DEF Present
  <2>4. ready' \in BOOLEAN
    BY <1>1
  <2>5. metric' \in {"cpu", "memory"} \cup DeviceMetrics /\ proc' \in [Names -> Absent .. Width - 1]
    BY <1>1, <1>3 DEF ProcInv
  <2>6. metric' \in DeviceMetrics =>
          /\ prev' \in [DOMAIN prev' -> Counts] /\ DOMAIN prev' \subseteq DeviceNames
          /\ Cardinality(DOMAIN prev') <= MaxDevices
    BY <1>1, <1>3, Fresh
  <2>7. metric' = "cpu" => prev' \in [CpuFields -> Counts]
    BY <1>1, <1>3, Fresh
  <2>8. QED
    BY <1>4, <2>1, <2>2, <2>3, <2>4, <2>5, <2>6, <2>7 DEF TypeOK
<1>6. CpuInv'
  BY <1>1, <1>3 DEF ProcInv, CpuInv
<1>7. BoundInv'
  <2> SUFFICES ASSUME metric \in DeviceMetrics, NEW n \in DOMAIN ReadSnapshot
               PROVE  proc[n] <= ReadSnapshot[n] + moved'[n]
    BY <1>1 DEF BoundInv
  <2>1. ReadSnapshot[n] = proc[n] /\ proc[n] \in Counts /\ n \in Names
    BY <1>3, Fresh, MetricIs
  <2>2. moved'[n] = 0
    BY <1>1, <2>1
  <2>3. QED
    BY <2>1, <2>2 DEF Counts
<1>8. SteadyInv'
  <2>1. \A n \in steady' : proc'[n] # Absent
    BY <1>1 DEF Present
  <2>2. ASSUME metric # "memory", NEW n \in Present \cap DOMAIN ReadSnapshot
        PROVE  proc[n] = ReadSnapshot[n] + moved'[n]
    <3>1. n \in Names /\ proc[n] \in Absent .. Width - 1
      BY <1>3 DEF Present, ProcInv
    <3>2. metric = "cpu" \/ metric \in DeviceMetrics
      BY <1>3, <2>2 DEF ProcInv
    <3>3. ReadSnapshot[n] = proc[n]
      BY <1>3, <2>2, <3>1, <3>2, Fresh, MetricIs
    <3>4. proc[n] \in Int /\ moved'[n] = 0
      BY <3>1, <1>0, <1>1 DEF Absent
    <3>5. QED
      BY <3>3, <3>4
  <2>3. QED
    BY <1>1, <2>1, <2>2 DEF SteadyInv
<1>9. ListedInv'
  <2>1. ~crowded' => ~Cut
    BY <1>2, Zenon
  <2>2. QED
    BY <1>1, <1>3, <1>4, <2>1, Fresh DEF ListedInv
<1>10. QED
  BY <1>5, <1>6, <1>7, <1>8, <1>9 DEF RateInv

(* How a counter may move between two rows: not, on by one, or back. *)
CounterStep(n) ==
    \/ proc'[n] = proc[n] /\ moved'[n] = moved[n]
    \/ proc[n] # Absent /\ proc'[n] = proc[n] + 1 /\ moved'[n] = moved[n] + 1
    \/ n \notin steady' /\ moved'[n] >= moved[n] /\ (proc'[n] <= proc[n] \/ proc'[n] <= 0)

(* Between two rows such moves preserve the invariant. *)
LEMMA BetweenStep ==
    ASSUME RateInv, BetweenRows, proc' \in [Names -> Absent .. Width - 1],
           moved' \in [Names -> 0 .. MaxMoved], steady' \subseteq steady,
           metric = "cpu" => proc' \in [CpuFields -> Counts],
           metric # "memory" => \A n \in Names : CounterStep(n)
    PROVE  RateInv'
<1>1. UNCHANGED <<metric, include_loopback, prev, ready, crowded>>
  BY DEF BetweenRows, settings
<1>2. Names' = Names /\ \A n : Kept(n)' = Kept(n)
  BY <1>1 DEF Names, Kept
<1>3. TypeOK'
  BY <1>1, <1>2 DEF RateInv, TypeOK
<1>4. CpuInv'
  BY <1>1 DEF CpuInv
<1>5. ListedInv'
  BY <1>1, <1>2 DEF RateInv, ListedInv
<1>n. \A n \in Names : /\ proc[n] \in Int /\ proc'[n] \in Int /\ moved[n] \in Nat /\ moved'[n] \in Nat
                       /\ proc'[n] >= Absent /\ proc[n] >= Absent
  BY RateAssumption DEF RateInv, TypeOK, Absent
<1>6. BoundInv'
  <2> SUFFICES ASSUME metric \in DeviceMetrics, ready, NEW n \in DOMAIN prev
               PROVE  proc'[n] <= prev[n] + moved'[n]
    BY <1>1 DEF BoundInv
  <2>1. prev[n] \in Counts /\ n \in DeviceNames
    BY DEF RateInv, TypeOK
  <2>2. n \in Names /\ prev[n] \in Nat
    BY <2>1, MetricIs, RateAssumption DEF Counts
  <2>3. proc[n] <= prev[n] + moved[n]
    BY DEF RateInv, BoundInv
  <2>4. CounterStep(n)
    BY <2>2, MetricIs
  <2>5. QED
    BY <1>n, <2>2, <2>3, <2>4 DEF CounterStep
<1>7. SteadyInv'
  <2>1. ASSUME metric # "memory", NEW n \in steady' PROVE proc'[n] # Absent
    <3>1. n \in steady /\ n \in Names
      BY DEF RateInv, TypeOK
    <3>2. proc[n] # Absent /\ CounterStep(n)
      BY <2>1, <3>1 DEF RateInv, SteadyInv
    <3>3. QED
      BY <1>n, <2>1, <3>1, <3>2 DEF CounterStep, Absent
  <2>2. ASSUME metric # "memory", ready, NEW n \in steady' \cap DOMAIN prev
        PROVE  proc'[n] = prev[n] + moved'[n]
    <3>1. n \in steady /\ n \in Names
      BY DEF RateInv, TypeOK
    <3>2. proc[n] = prev[n] + moved[n] /\ CounterStep(n)
      BY <2>2, <3>1 DEF RateInv, SteadyInv
    <3>3. prev[n] \in Int
      <4>1. metric = "cpu" \/ metric \in DeviceMetrics
        BY <2>2 DEF RateInv, TypeOK
      <4>2. prev[n] \in Counts
        BY <2>2, <3>1, <4>1, MetricIs DEF RateInv, TypeOK
      <4>3. QED
        BY <4>2, RateAssumption DEF Counts
    <3>4. QED
      BY <1>n, <2>2, <3>1, <3>2, <3>3 DEF CounterStep
  <2>3. QED
    BY <1>1, <2>1, <2>2 DEF SteadyInv
<1>8. QED
  BY <1>3, <1>4, <1>5, <1>6, <1>7 DEF RateInv

(* A counter that counts on, or wraps. *)
LEMMA CountStep == ASSUME RateInv, NEW n \in Names, Count(n) PROVE RateInv'
<1>0. Width \in Nat \ {0} /\ MaxMoved \in Nat
  BY RateAssumption
<1>1. /\ proc \in [Names -> Absent .. Width - 1] /\ moved \in [Names -> 0 .. MaxMoved]
  BY DEF RateInv, TypeOK
<1>2. /\ metric # "memory" /\ proc[n] # Absent /\ moved[n] < MaxMoved
      /\ metric = "cpu" => proc[n] + 1 < Width
      /\ proc' = [proc EXCEPT ![n] = (proc[n] + 1) % Width]
      /\ moved' = [moved EXCEPT ![n] = moved[n] + 1]
      /\ steady' = IF proc[n] + 1 < Width THEN steady ELSE steady \ {n}
      /\ BetweenRows
  BY DEF Count
<1>3. proc[n] \in Counts
  BY <1>0, <1>1, <1>2 DEF Absent, Counts
<1>4. /\ proc[n] + 1 < Width => (proc[n] + 1) % Width = proc[n] + 1
      /\ ~(proc[n] + 1 < Width) => (proc[n] + 1) % Width = 0
      /\ (proc[n] + 1) % Width \in Counts
  <2>1. proc[n] \in Nat /\ proc[n] + 1 <= Width
    BY <1>0, <1>3 DEF Counts
  <2>2. CASE proc[n] + 1 < Width
    BY <1>0, <2>1, <2>2 DEF Counts
  <2>3. CASE proc[n] + 1 = Width
    <3>1. Width % Width = 0
      BY <1>0
    <3>2. QED
      BY <1>0, <2>3, <3>1 DEF Counts
  <2>4. QED
    BY <1>0, <2>1, <2>2, <2>3
<1>5. proc' \in [Names -> Absent .. Width - 1]
  <2>1. (proc[n] + 1) % Width \in Absent .. Width - 1
    BY <1>0, <1>4 DEF Counts, Absent
  <2>2. QED
    BY <1>1, <1>2, <2>1
<1>6. moved' \in [Names -> 0 .. MaxMoved]
  <2>1. moved[n] + 1 \in 0 .. MaxMoved
    BY <1>0, <1>1, <1>2
  <2>2. QED
    BY <1>1, <1>2, <2>1
<1>7. metric = "cpu" => proc' \in [CpuFields -> Counts]
  BY <1>2, <1>4, MetricIs DEF RateInv, CpuInv
<1>8. ASSUME NEW m \in Names PROVE CounterStep(m)
  <2>1. CASE m # n
    BY <1>1, <1>2, <2>1 DEF CounterStep
  <2>2. CASE m = n /\ proc[n] + 1 < Width
    BY <1>1, <1>2, <1>4, <2>2 DEF CounterStep
  <2>3. CASE m = n /\ ~(proc[n] + 1 < Width)
    <3>1. n \notin steady' /\ proc'[n] = 0 /\ moved'[n] = moved[n] + 1
      BY <1>1, <1>2, <1>4, <2>3
    <3>2. moved[n] \in Nat
      BY <1>0, <1>1
    <3>3. moved'[n] >= moved[n] /\ proc'[n] <= 0
      BY <3>1, <3>2
    <3>4. QED
      BY <2>3, <3>1, <3>3 DEF CounterStep
  <2>4. QED
    BY <2>1, <2>2, <2>3
<1>9. QED
  BY <1>2, <1>5, <1>6, <1>7, <1>8, BetweenStep

(* A device that comes or goes. *)
LEMMA PlugStep == ASSUME RateInv, NEW n \in Names, HotPlug(n) PROVE RateInv'
<1>0. Width \in Nat \ {0} /\ MaxMoved \in Nat
  BY RateAssumption
<1>1. /\ proc \in [Names -> Absent .. Width - 1] /\ moved \in [Names -> 0 .. MaxMoved]
  BY DEF RateInv, TypeOK
<1>2. /\ metric \in DeviceMetrics
      /\ proc' = [proc EXCEPT ![n] = IF proc[n] = Absent THEN 0 ELSE Absent]
      /\ moved' = moved /\ steady' = steady \ {n} /\ BetweenRows
  BY DEF HotPlug
<1>3. proc' \in [Names -> Absent .. Width - 1]
  <2>1. Absent \in Absent .. Width - 1 /\ 0 \in Absent .. Width - 1
    BY <1>0 DEF Absent
  <2>2. QED
    BY <1>1, <1>2, <2>1
<1>4. ASSUME NEW m \in Names PROVE CounterStep(m)
  <2>1. CASE m # n
    BY <1>1, <1>2, <2>1 DEF CounterStep
  <2>2. CASE m = n
    <3>1. n \notin steady' /\ moved'[n] = moved[n] /\ proc'[n] \in {0, Absent} /\ moved[n] \in Nat
      BY <1>0, <1>1, <1>2
    <3>2. proc'[n] <= 0 /\ moved'[n] >= moved[n]
      BY <3>1 DEF Absent
    <3>3. QED
      BY <2>2, <3>1, <3>2 DEF CounterStep
  <2>3. QED
    BY <2>1, <2>2
<1>5. QED
  BY <1>1, <1>2, <1>3, <1>4, MetricIs, BetweenStep

(* The share of iowait that falls. *)
LEMMA FallStep == ASSUME RateInv, IowaitFalls PROVE RateInv'
<1>0. Width \in Nat \ {0} /\ MaxMoved \in Nat
  BY RateAssumption
<1>1. /\ proc \in [Names -> Absent .. Width - 1] /\ moved \in [Names -> 0 .. MaxMoved]
  BY DEF RateInv, TypeOK
<1>2. /\ metric = "cpu" /\ proc["other"] > 0
      /\ proc' = [proc EXCEPT !["other"] = proc["other"] - 1]
      /\ moved' = moved /\ steady' = steady \ {"other"} /\ BetweenRows
  BY DEF IowaitFalls
<1>3. proc \in [CpuFields -> Counts] /\ "other" \in CpuFields /\ Names = CpuFields
  BY <1>2, MetricIs DEF RateInv, CpuInv, CpuFields
<1>4. proc["other"] - 1 \in Counts /\ proc["other"] - 1 \in Absent .. Width - 1
  <2>1. proc["other"] \in Counts
    BY <1>3
  <2>2. QED
    BY <1>0, <1>2, <2>1 DEF Counts, Absent
<1>5. proc' \in [CpuFields -> Counts] /\ proc' \in [Names -> Absent .. Width - 1]
  BY <1>1, <1>2, <1>3, <1>4
<1>6. ASSUME NEW m \in Names PROVE CounterStep(m)
  <2>1. CASE m # "other"
    BY <1>1, <1>2, <2>1 DEF CounterStep
  <2>2. CASE m = "other"
    <3>1. /\ "other" \notin steady' /\ moved'["other"] = moved["other"]
          /\ proc'["other"] = proc["other"] - 1 /\ moved["other"] \in Nat /\ proc["other"] \in Nat
      BY <1>0, <1>1, <1>2, <1>3 DEF Counts
    <3>2. proc'["other"] <= proc["other"] /\ moved'["other"] >= moved["other"]
      BY <3>1
    <3>3. QED
      BY <2>2, <3>1, <3>2 DEF CounterStep
  <2>3. QED
    BY <2>1, <2>2
<1>7. QED
  BY <1>1, <1>2, <1>5, <1>6, BetweenStep

(* Every step preserves the invariant. *)
LEMMA RateStep == RateInv /\ [Next]_vars => RateInv'
<1> SUFFICES ASSUME RateInv, [Next]_vars PROVE RateInv'
  OBVIOUS
<1>1. CASE ReadSucceeds
  BY <1>1, SucceedsStep
<1>2. CASE UNCHANGED <<settings, proc, prev, ready, moved, steady, crowded>>
  <2>1. UNCHANGED <<metric, include_loopback, proc, prev, ready, moved, steady, crowded>>
    BY <1>2 DEF settings
  <2>2. Names' = Names /\ \A n : Kept(n)' = Kept(n)
    BY <2>1 DEF Names, Kept
  <2>3. TypeOK'
    BY <2>1, <2>2 DEF RateInv, TypeOK
  <2>4. CpuInv' /\ BoundInv' /\ SteadyInv' /\ ListedInv'
    BY <2>1, <2>2 DEF RateInv, CpuInv, BoundInv, SteadyInv, ListedInv
  <2>5. QED
    BY <2>3, <2>4 DEF RateInv
<1>3. CASE MemoryChanges
  <2>1. /\ metric = "memory" /\ proc' \in [Names -> Absent .. Width - 1]
        /\ moved' = moved /\ steady' = steady /\ BetweenRows
    BY <1>3 DEF MemoryChanges
  <2>2. moved \in [Names -> 0 .. MaxMoved]
    BY DEF RateInv, TypeOK
  <2>3. QED
    BY <2>1, <2>2, BetweenStep
<1>4. QED
  BY <1>1, <1>2, <1>3, CountStep, PlugStep, FallStep DEF Next, Kernel, Row, ReadFails, vars

(***************************************************************************)
(* The types of the readers: the list of devices keeps to its room, and    *)
(* the counters of a snapshot are counters.                                *)
(***************************************************************************)
THEOREM TypeCorrect == Spec => []TypeOK
<1>1. RateInv => TypeOK
  BY DEF RateInv
<1>2. QED
  BY <1>1, RateInit, RateStep, PTL DEF Spec
-----------------------------------------------------------------------------
(* Only a reading that succeeds publishes, and then the difference to the snapshot. *)
LEMMA Published ==
    ASSUME Next, NEW stats \in event'
    PROVE  ReadSucceeds /\ (ready \/ metric = "memory") /\ stats = ComputeStats(prev, ReadSnapshot)
<1>1. ASSUME event' = {} PROVE FALSE
  BY <1>1
<1>2. ReadSucceeds
  BY <1>1 DEF Next, Kernel, Row, Count, HotPlug, IowaitFalls, MemoryChanges, BetweenRows, ReadFails
<1>3. event' = IF ready \/ metric = "memory" THEN {ComputeStats(prev, ReadSnapshot)} ELSE {}
  BY <1>2 DEF ReadSucceeds
<1>4. ready \/ metric = "memory"
  BY <1>1, <1>3
<1>5. stats = ComputeStats(prev, ReadSnapshot)
  BY <1>3, <1>4
<1>6. QED
  BY <1>2, <1>4, <1>5

(* What a row says of a device. *)
LEMMA RatesAre ==
    ASSUME RateInv, metric \in DeviceMetrics, ready
    PROVE  LET stats == ComputeStats(prev, ReadSnapshot)
           IN  /\ DOMAIN stats = DOMAIN ReadSnapshot \cap DOMAIN prev
               /\ \A n \in DOMAIN stats :
                    /\ stats[n].bytes = Delta(proc[n], prev[n]) * Unit
                    /\ proc[n] \in Nat /\ prev[n] \in Nat /\ moved[n] \in Nat /\ Unit \in Nat
<1> DEFINE curr == ReadSnapshot
<1>1. ProcInv
  BY DEF RateInv, TypeOK, ProcInv
<1>2. ComputeStats(prev, curr) = Rates(prev, curr, Unit)
  BY DEF ComputeStats, DeviceMetrics, disk_compute_stats, net_compute_stats, Unit
<1>3. Unit \in Nat
  BY RateAssumption DEF Unit
<1>4. ASSUME NEW n \in DOMAIN curr \cap DOMAIN prev
      PROVE  curr[n] = proc[n] /\ proc[n] \in Counts /\ prev[n] \in Counts /\ n \in Names
  BY <1>1, Fresh, MetricIs DEF RateInv, TypeOK
<1>5. ASSUME NEW n \in DOMAIN curr \cap DOMAIN prev
      PROVE  proc[n] \in Nat /\ prev[n] \in Nat /\ moved[n] \in Nat
  BY <1>4, RateAssumption DEF Counts, RateInv, TypeOK
<1> HIDE DEF curr
<1>6. DOMAIN Rates(prev, curr, Unit) = DOMAIN curr \cap DOMAIN prev
  BY DEF Rates, Known
<1>7. ASSUME NEW n \in DOMAIN curr \cap DOMAIN prev
      PROVE  Rates(prev, curr, Unit)[n].bytes = Delta(proc[n], prev[n]) * Unit
  BY <1>4 DEF Rates, Known
<1>8. QED
  BY <1>2, <1>3, <1>5, <1>6, <1>7 DEF curr

(***************************************************************************)
(* No rate of a disk or an interface claims more than went through it      *)
(* since the snapshot it is computed from: a counter that was reset or     *)
(* wrapped gives 0 or what was counted since, never a huge difference.     *)
(***************************************************************************)
THEOREM NotOverstated == Spec => NeverOverstated
<1>1. ASSUME RateInv, Next, metric \in DeviceMetrics, NEW stats \in event', NEW n \in DOMAIN stats
      PROVE  stats[n].bytes <= Unit * moved[n]
  <2>1. ready /\ stats = ComputeStats(prev, ReadSnapshot)
    BY <1>1, Published, MetricIs
  <2>2. /\ stats[n].bytes = Delta(proc[n], prev[n]) * Unit
        /\ proc[n] \in Nat /\ prev[n] \in Nat /\ moved[n] \in Nat /\ Unit \in Nat
        /\ n \in DOMAIN prev
    BY <1>1, <2>1, RatesAre
  <2>3. proc[n] <= prev[n] + moved[n]
    BY <1>1, <2>1, <2>2 DEF RateInv, BoundInv
  <2>4. Delta(proc[n], prev[n]) \in Nat /\ Delta(proc[n], prev[n]) <= moved[n]
    BY <2>2, <2>3, DeltaIs
  <2>5. QED
    BY <2>2, <2>4, Times
<1>2. RateInv /\ [Next]_vars =>
        [(metric \in DeviceMetrics) =>
           \A stats \in event' : \A n \in DOMAIN stats : stats[n].bytes <= Unit * moved[n]]_vars
  BY <1>1
<1>3. QED
  BY <1>2, RateInit, RateStep, PTL DEF Spec, NeverOverstated

(***************************************************************************)
(* A device that stayed is in the next row that can be read, with all that *)
(* was counted since the last snapshot, however many readings failed in    *)
(* between, as long as no list was cut.                                    *)
(***************************************************************************)
THEOREM SteadyExact == Spec => SteadyDevicesExact
<1>1. ASSUME RateInv, Next, metric \in DeviceMetrics, ~crowded, ~Cut,
             NEW stats \in event', NEW n \in steady, Kept(n)
      PROVE  n \in DOMAIN stats /\ stats[n].bytes = Unit * moved[n]
  <2>1. ready /\ stats = ComputeStats(prev, ReadSnapshot)
    BY <1>1, Published, MetricIs
  <2>2. n \in DOMAIN prev
    BY <1>1, <2>1 DEF RateInv, ListedInv
  <2>3. n \in DOMAIN ReadSnapshot
    <3>1. ProcInv
      BY <1>1 DEF RateInv, TypeOK, ProcInv
    <3>2. n \in Present
      BY <1>1, MetricIs DEF RateInv, TypeOK, SteadyInv, Present
    <3>3. QED
      BY <1>1, <3>1, <3>2, Fresh
  <2>4. /\ n \in DOMAIN stats /\ stats[n].bytes = Delta(proc[n], prev[n]) * Unit
        /\ proc[n] \in Nat /\ prev[n] \in Nat /\ moved[n] \in Nat /\ Unit \in Nat
    BY <1>1, <2>1, <2>2, <2>3, RatesAre
  <2>5. proc[n] = prev[n] + moved[n]
    BY <1>1, <2>1, <2>2, MetricIs DEF RateInv, SteadyInv
  <2>6. Delta(proc[n], prev[n]) = moved[n]
    BY <2>4, <2>5, DeltaIs
  <2>7. moved[n] * Unit = Unit * moved[n]
    BY <2>4
  <2>8. QED
    BY <2>4, <2>6, <2>7
<1>2. RateInv /\ [Next]_vars =>
        [(metric \in DeviceMetrics) /\ ~crowded /\ ~Cut =>
           \A stats \in event' : \A n \in steady : Kept(n) =>
              n \in DOMAIN stats /\ stats[n].bytes = Unit * moved[n]]_vars
  BY <1>1
<1>3. QED
  BY <1>2, RateInit, RateStep, PTL DEF Spec, SteadyDevicesExact

(***************************************************************************)
(* The shares of a CPU event and the parts of a memory event fit together  *)
(* in every row, also when a counter fell between two snapshots.           *)
(***************************************************************************)
THEOREM SharesFit == Spec => SharesAddUp
<1>1. ASSUME RateInv, Next, metric = "cpu", NEW stats \in event'
      PROVE  /\ stats.usage + stats.idle = 100
             /\ {stats.usage, stats.user, stats.system, stats.idle} \subseteq 0 .. 100
             /\ steady = CpuFields => stats.user + stats.system <= stats.usage
  <2>1. ready /\ stats = ComputeStats(prev, ReadSnapshot)
    BY <1>1, Published
  <2>2. stats = cpu_pct_from_delta(prev, proc)
    BY <1>1, <2>1, MetricIs DEF ComputeStats, cpu_compute_stats
  <2>3. prev \in [CpuFields -> Counts] /\ proc \in [CpuFields -> Counts]
    BY <1>1, <2>1 DEF RateInv, TypeOK, CpuInv
  <2>4. ASSUME steady = CpuFields, NEW f \in CpuFields PROVE proc[f] >= prev[f]
    <3>1. proc[f] = prev[f] + moved[f]
      BY <1>1, <2>1, <2>3, <2>4 DEF RateInv, SteadyInv
    <3>2. prev[f] \in Nat /\ moved[f] \in Nat
      BY <1>1, <2>3, MetricIs, RateAssumption DEF RateInv, TypeOK, Counts
    <3>3. QED
      BY <3>1, <3>2
  <2>5. QED
    BY <2>2, <2>3, <2>4, CpuShares
<1>2. ASSUME RateInv, Next, metric = "memory", NEW stats \in event'
      PROVE  /\ stats.used <= stats.total
             /\ stats.available <= stats.total => stats.used + stats.available = stats.total
  <2>1. stats = memory_read_stats
    BY <1>2, Published DEF ComputeStats
  <2>2. proc \in [MemoryKeys -> Absent .. Width - 1]
    BY <1>2, MetricIs DEF RateInv, TypeOK
  <2>3. QED
    BY <2>1, <2>2, MemoryAdds
<1>3. RateInv /\ [Next]_vars =>
        [\A stats \in event' :
            /\ metric = "cpu" =>
                 /\ stats.usage + stats.idle = 100
                 /\ {stats.usage, stats.user, stats.system, stats.idle} \subseteq 0 .. 100
                 /\ steady = CpuFields => stats.user + stats.system <= stats.usage
            /\ metric = "memory" =>
                 /\ stats.used <= stats.total
                 /\ stats.available <= stats.total => stats.used + stats.available = stats.total]_vars
  BY <1>1, <1>2
<1>4. QED
  BY <1>3, RateInit, RateStep, PTL DEF Spec, SharesAddUp
=============================================================================
