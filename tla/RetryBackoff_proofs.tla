------------------------ MODULE RetryBackoff_proofs ------------------------
(***************************************************************************)
(* Proofs about the waits between the attempts of http_post_batch, for     *)
(* every permitted retry_backoff_seconds and retry_max_attempts.           *)
(***************************************************************************)
EXTENDS RetryBackoff, WellFoundedInduction, TLAPS

IsUnsigned(u) == u[1] \in Nat /\ u[2] \in Nat

(* A power from the table. *)
LEMMA PowersAre ==
    ASSUME NEW n \in 0 .. 15
    PROVE  Powers[n + 1] \in Nat \ {0}
<1>1. n + 1 \in 1 .. 16
  OBVIOUS
<1>2. \A p \in 1 .. 16 : Powers[p] \in Nat \ {0}
  BY DEF Powers
<1>3. QED
  BY <1>1, <1>2

(* Both halves of a shifted value are natural numbers. *)
LEMMA LowIsUnsigned ==
    ASSUME NEW u, IsUnsigned(u), NEW n \in 0 .. 15
    PROVE  IsUnsigned(ShiftLow(u, n))
<1> DEFINE f == Powers[n + 1]
           hi == u[1] * f + (u[2] * f) \div Half
           lo == u[2] * f
<1>1. f \in Nat
  BY PowersAre
<1>2. u[1] * f \in Nat /\ lo \in Nat
  BY <1>1 DEF IsUnsigned
<1> HIDE DEF lo, f
<1>3. lo \div Half \in Nat /\ lo % Half \in Nat
  BY <1>2 DEF Half
<1>4. hi \in Nat
  BY <1>2, <1>3 DEF lo
<1> HIDE DEF hi
<1>5. hi % Half \in Nat
  BY <1>4 DEF Half
<1>6. ShiftLow(u, n) = <<hi % Half, lo % Half>>
  BY DEF ShiftLow, hi, lo, f
<1>7. QED
  BY <1>3, <1>5, <1>6 DEF IsUnsigned

(* So are those of a shift by less than the width. *)
LEMMA ShiftIsUnsigned ==
    ASSUME NEW u, IsUnsigned(u), NEW n \in 0 .. 31
    PROVE  IsUnsigned(ShiftLeft(u, n))
<1>1. CASE n < 16
  <2>1. n \in 0 .. 15
    BY <1>1
  <2>2. ShiftLeft(u, n) = ShiftLow(u, n)
    BY <1>1 DEF ShiftLeft
  <2>3. QED
    BY <2>1, <2>2, LowIsUnsigned
<1>2. CASE ~(n < 16)
  <2>1. n - 16 \in 0 .. 15
    BY <1>2
  <2>2. IsUnsigned(<<u[2], 0>>)
    BY DEF IsUnsigned
  <2>3. ShiftLeft(u, n) = ShiftLow(<<u[2], 0>>, n - 16)
    BY <1>2 DEF ShiftLeft
  <2>4. QED
    BY <2>1, <2>2, <2>3, LowIsUnsigned
<1>3. QED
  BY <1>1, <1>2

(* A configured number of seconds is its own low half. *)
LEMMA SecondsFit ==
    ASSUME NEW s \in Nat, s <= 3600
    PROVE  /\ Base(s) \in Nat /\ 1 <= Base(s) /\ Base(s) <= 3600
           /\ Unsigned(Base(s)) = <<0, Base(s)>>
           /\ Unsigned(0) = <<0, 0>>
<1>1. Base(s) \in Nat /\ 1 <= Base(s) /\ Base(s) <= 3600
  BY DEF Base
<1>2. \A b \in Nat : b <= 3600 => b \div 65536 = 0 /\ b % 65536 = b
  OBVIOUS
<1>3. \A b \in Nat : b <= 3600 => Unsigned(b) = <<0, b>>
  BY <1>2 DEF Unsigned, Half
<1>4. QED
  BY <1>1, <1>3

(* Whatever is shifted how far, the wait is at most the cap. *)
LEMMA WaitRange ==
    ASSUME NEW s \in Nat, s <= 3600, NEW n \in Nat, NEW w \in backoff_seconds(s, n)
    PROVE  w \in 0 .. cap_seconds
<1> DEFINE u == Unsigned(Base(s))
<1>1. IsUnsigned(u) /\ IsUnsigned(Unsigned(0))
  BY SecondsFit DEF IsUnsigned
<1> HIDE DEF u
<1>2. \A v \in Shifts(u, n) : IsUnsigned(v)
  <2>1. n % 32 \in 0 .. 31 /\ (n < 32 => n \in 0 .. 31)
    OBVIOUS
  <2>2. n < 32 => IsUnsigned(ShiftLeft(u, n))
    BY <1>1, <2>1, ShiftIsUnsigned
  <2>3. IsUnsigned(ShiftLeft(u, n % 32))
    BY <1>1, <2>1, ShiftIsUnsigned
  <2>4. QED
    <3>1. CASE n < 32
      BY <2>2, <3>1 DEF Shifts
    <3>2. CASE ~(n < 32)
      BY <1>1, <2>3, <3>2 DEF Shifts
    <3>3. QED
      BY <3>1, <3>2
<1>3. PICK v \in Shifts(u, n) : w = Cap(v)
  BY DEF backoff_seconds, u
<1>4. QED
  BY <1>2, <1>3 DEF IsUnsigned, Cap, cap_seconds

(***************************************************************************)
(* The wait never exceeds a minute, for every number of attempts, shifts   *)
(* past the width of the unsigned int included (http_post_batch).          *)
(***************************************************************************)
THEOREM TypeCorrect == Spec => []TypeOK
<1>1. Init => TypeOK
  BY RangeAssumption DEF Init, TypeOK, cap_seconds
<1>2. TypeOK /\ [Next]_vars => TypeOK'
  <2> SUFFICES ASSUME TypeOK, [Next]_vars PROVE TypeOK'
    OBVIOUS
  <2>1. CASE AttemptFails
    <3>1. retry_backoff_seconds \in Nat /\ retry_backoff_seconds <= 3600 /\ attempt \in Nat
      BY RangeAssumption DEF TypeOK
    <3>2. wait' \in backoff_seconds(retry_backoff_seconds, attempt)
      BY <2>1 DEF AttemptFails
    <3>3. wait' \in 0 .. cap_seconds
      BY <3>1, <3>2, WaitRange DEF cap_seconds
    <3>4. QED
      BY <2>1, <3>3, RangeAssumption DEF AttemptFails, TypeOK, cap_seconds
  <2>2. CASE GiveUp \/ UNCHANGED vars
    BY <2>2 DEF GiveUp, vars, TypeOK
  <2>3. QED
    BY <2>1, <2>2 DEF Next
<1>3. QED
  BY <1>1, <1>2, PTL DEF Spec
-----------------------------------------------------------------------------
(***************************************************************************)
(* While no bit is lost.                                                   *)
(***************************************************************************)

(* The cap of an unsigned int given by its halves is the cap of the number. *)
LEMMA CapOfHalves ==
    ASSUME NEW x \in Nat, x < 4294967296
    PROVE  Cap(<<(x \div Half) % Half, x % Half>>) = Saturated(x)
<1> DEFINE q == x \div Half
           r == x % Half
<1>1. q \in Nat /\ r \in Nat /\ x = 65536 * q + r /\ r < 65536
  BY DEF Half
<1> HIDE DEF q, r
<1>2. q < 65536
  BY <1>1
<1>3. q % Half = q
  BY <1>1, <1>2 DEF Half
<1>4. Cap(<<q, r>>) = Saturated(x)
  BY <1>1 DEF Cap, Saturated, cap_seconds
<1>5. QED
  BY <1>3, <1>4 DEF q, r

(* The sixteen powers. *)
LEMMA PowerCases ==
    ASSUME NEW n \in 0 .. 15
    PROVE  /\ Powers[n + 1] <= 32768
           /\ n >= 6 => Powers[n + 1] >= 64
           /\ n <= 4 => Powers[n + 2] = 2 * Powers[n + 1]
           /\ n = 5 => Powers[n + 1] = 32
           /\ n = 0 => Powers[n + 1] = 1
<1>1. \A p \in 1 .. 16 : Powers[p] <= 32768 /\ (p >= 7 => Powers[p] >= 64)
  BY DEF Powers
<1>2. \A p \in 1 .. 5 : Powers[p + 1] = 2 * Powers[p]
  BY DEF Powers
<1>3. Powers[6] = 32 /\ Powers[1] = 1
  BY DEF Powers
<1>4. n + 1 \in 1 .. 16 /\ (n <= 4 => n + 1 \in 1 .. 5) /\ n + 2 = (n + 1) + 1
  OBVIOUS
<1>5. QED
  BY <1>1, <1>2, <1>3, <1>4

(* The configured seconds, doubled k times and cut; 64 times anything is   *)
(* past the cap.                                                           *)
Doubled(s, k) == IF k < 6 THEN Saturated(Base(s) * Powers[k + 1]) ELSE cap_seconds

(* A product with a power from the table. *)
LEMMA ProductFits ==
    ASSUME NEW b \in Nat, 1 <= b, b <= 3600, NEW f \in Nat, 1 <= f, f <= 32768
    PROVE  b * f \in Nat /\ b * f < 4294967296 /\ b * f >= f
<1>1. b * f \in Nat
  OBVIOUS
<1>2. b * f <= 3600 * f
  OBVIOUS
<1>3. b * f >= 1 * f
  OBVIOUS
<1>4. QED
  BY <1>1, <1>2, <1>3

(* Below the 17th attempt the shift is that of the low half. *)
LEMMA LowWait ==
    ASSUME NEW s \in Nat, s <= 3600, NEW n \in 0 .. 15
    PROVE  backoff_seconds(s, n) = {Doubled(s, n)}
<1> DEFINE b == Base(s)
           f == Powers[n + 1]
           x == b * f
           u == Unsigned(b)
<1>1. b \in Nat /\ 1 <= b /\ b <= 3600 /\ u = <<0, b>>
  BY SecondsFit
<1>2. f \in Nat /\ 1 <= f /\ f <= 32768 /\ (n >= 6 => f >= 64)
  BY PowersAre, PowerCases
<1> HIDE DEF b, f, u
<1>3. x \in Nat /\ x < 4294967296 /\ x >= f
  BY <1>1, <1>2, ProductFits
<1>4. 0 * f = 0
  BY <1>2
<1> HIDE DEF x
<1>5. ShiftLow(u, n) = <<(x \div Half) % Half, x % Half>>
  <2>1. x \div Half \in Nat /\ 0 + x \div Half = x \div Half
    BY <1>3 DEF Half
  <2>2. u[1] = 0 /\ u[2] = b
    BY <1>1
  <2>3. ShiftLow(u, n) = <<(u[1] * f + (u[2] * f) \div Half) % Half, (u[2] * f) % Half>>
    BY DEF ShiftLow, f
  <2>4. u[1] * f + (u[2] * f) \div Half = x \div Half /\ u[2] * f = x
    BY <1>4, <2>1, <2>2 DEF x
  <2>5. QED
    BY <2>3, <2>4
<1>6. Cap(ShiftLow(u, n)) = Saturated(x)
  BY <1>3, <1>5, CapOfHalves
<1>7. Saturated(x) = Doubled(s, n)
  <2>1. CASE n < 6
    BY <2>1 DEF Doubled, x, b, f
  <2>2. CASE ~(n < 6)
    BY <1>2, <1>3, <2>2 DEF Doubled, Saturated, cap_seconds
  <2>3. QED
    BY <2>1, <2>2
<1>8. Shifts(u, n) = {ShiftLow(u, n)}
  BY DEF Shifts, ShiftLeft
<1>9. backoff_seconds(s, n) = {Cap(v) : v \in {ShiftLow(u, n)}}
  BY <1>8 DEF backoff_seconds, u, b
<1>10. QED
  BY <1>6, <1>7, <1>9

(* Up to the 21st attempt what was the low half is the high half, and not  *)
(* zero.                                                                   *)
LEMMA HighWait ==
    ASSUME NEW s \in Nat, s <= 3600, NEW n \in 16 .. 20
    PROVE  backoff_seconds(s, n) = {Doubled(s, n)}
<1> DEFINE b == Base(s)
           f == Powers[(n - 16) + 1]
           u == Unsigned(b)
<1>1. b \in Nat /\ 1 <= b /\ b <= 3600 /\ u = <<0, b>>
  BY SecondsFit
<1>2. f \in {1, 2, 4, 8, 16}
  <2>1. \A p \in 1 .. 5 : Powers[p] \in {1, 2, 4, 8, 16}
    BY DEF Powers
  <2>2. (n - 16) + 1 \in 1 .. 5
    OBVIOUS
  <2>3. QED
    BY <2>1, <2>2
<1> HIDE DEF b, f, u
<1>3. b * f \in Nat /\ 1 <= b * f /\ b * f < 65536 /\ 0 * f = 0
  BY <1>1, <1>2
<1>4. 0 \div 65536 = 0 /\ 0 % 65536 = 0
  OBVIOUS
<1>5. ShiftLow(<<b, 0>>, n - 16) = <<b * f, 0>>
  <2>1. ShiftLow(<<b, 0>>, n - 16) = <<(b * f + (0 * f) \div Half) % Half, (0 * f) % Half>>
    BY DEF ShiftLow, f
  <2> DEFINE x == b * f
  <2>2. x \in Nat /\ x < 65536 /\ 0 * f = 0
    BY <1>3
  <2> HIDE DEF x
  <2>3. (x + 0 \div Half) % Half = x /\ 0 % Half = 0
    BY <1>4, <2>2 DEF Half
  <2>4. ShiftLow(<<b, 0>>, n - 16) = <<(x + 0 \div Half) % Half, 0 % Half>>
    BY <2>1, <2>2 DEF x
  <2>5. QED
    BY <2>3, <2>4 DEF x
<1>6. Cap(<<b * f, 0>>) = cap_seconds
  BY <1>3 DEF Cap, cap_seconds
<1>7. Shifts(u, n) = {<<b * f, 0>>}
  <2>1. u[2] = b
    BY <1>1
  <2>2. QED
    BY <1>5, <2>1 DEF Shifts, ShiftLeft
<1>8. backoff_seconds(s, n) = {Cap(v) : v \in {<<b * f, 0>>}}
  BY <1>7 DEF backoff_seconds, u, b
<1>9. QED
  BY <1>6, <1>8 DEF Doubled
-----------------------------------------------------------------------------
(***************************************************************************)
(* The reference: what the recursive function of Ideal computes.  The      *)
(* induction is that a set of natural numbers has a least element.         *)
(***************************************************************************)

(* One round of the recursion of Ideal. *)
IdealRound(s, f, k) == IF k = 0 THEN Saturated(Base(s)) ELSE Saturated(2 * f[k - 1])

(* A function that obeys the recursion. *)
Obeys(s, n, f) == f = [k \in 0 .. n |-> IdealRound(s, f, k)]

(* Ideal is the last value of such a function, if there is one. *)
LEMMA IdealChosen ==
    ASSUME NEW s, NEW n
    PROVE  Ideal(s, n) = (CHOOSE f : Obeys(s, n, f))[n]
  BY DEF Ideal, Obeys, IdealRound

(* A set of natural numbers has a least element. *)
LEMMA LeastExists ==
    ASSUME NEW S \in SUBSET Nat, S # {}
    PROVE  \E m \in S : \A j \in S : m <= j
<1>1. PICK m \in S : \A j \in S : ~(<<j, m>> \in OpToRel(<, Nat))
  BY NatLessThanWellFounded, WFMin
<1>2. ASSUME NEW j \in S PROVE m <= j
  <2>1. ~(<<j, m>> \in OpToRel(<, Nat)) /\ j \in Nat /\ m \in Nat
    BY <1>1
  <2>2. ~(j < m)
    BY <2>1 DEF OpToRel
  <2>3. j \in Nat /\ m \in Nat
    OBVIOUS
  <2>4. QED
    BY <2>2, <2>3
<1>3. QED
  BY <1>2

(* The closed form obeys the recursion. *)
LEMMA DoubledRound ==
    ASSUME NEW s \in Nat, s <= 3600, NEW k \in Nat
    PROVE  /\ k = 0 => Doubled(s, k) = Saturated(Base(s))
           /\ k > 0 => Doubled(s, k) = Saturated(2 * Doubled(s, k - 1))
<1> DEFINE b == Base(s)
<1>1. b \in Nat /\ 1 <= b
  BY SecondsFit
<1> HIDE DEF b
<1>2. CASE k = 0
  <2>1. Powers[k + 1] = 1
    BY <1>2, PowerCases
  <2>2. b * 1 = b
    BY <1>1
  <2>3. QED
    BY <1>2, <2>1, <2>2 DEF Doubled, b
<1>3. CASE k \in 1 .. 5
  <2> DEFINE f == Powers[(k - 1) + 1]
  <2>1. k - 1 \in 0 .. 15 /\ k - 1 <= 4 /\ (k - 1) + 2 = k + 1
    BY <1>3
  <2>2. f \in Nat /\ Powers[k + 1] = 2 * f
    BY <2>1, PowersAre, PowerCases
  <2> HIDE DEF f
  <2>3. b * f \in Nat /\ b * (2 * f) = 2 * (b * f)
    BY <1>1, <2>2
  <2> DEFINE x == b * f
  <2>4. Doubled(s, k) = Saturated(2 * x) /\ Doubled(s, k - 1) = Saturated(x)
    BY <1>3, <2>2, <2>3 DEF Doubled, b, f
  <2>5. x \in Nat
    BY <2>3
  <2> HIDE DEF x
  <2>6. Saturated(2 * x) = Saturated(2 * Saturated(x))
    BY <2>5 DEF Saturated, cap_seconds
  <2>7. QED
    BY <1>3, <2>4, <2>6
<1>4. CASE k = 6
  <2>1. Powers[6] = 32
    BY DEF Powers
  <2>2. Doubled(s, k - 1) = Saturated(b * 32)
    BY <1>4, <2>1 DEF Doubled, b
  <2>3. Doubled(s, k) = cap_seconds
    BY <1>4 DEF Doubled
  <2>4. Saturated(2 * Saturated(b * 32)) = cap_seconds
    BY <1>1 DEF Saturated, cap_seconds
  <2>5. QED
    BY <1>4, <2>2, <2>3, <2>4
<1>5. CASE k > 6
  BY <1>5 DEF Doubled, Saturated, cap_seconds
<1>6. k = 0 \/ k \in 1 .. 5 \/ k = 6 \/ k > 6
  OBVIOUS
<1>7. QED
  BY <1>2, <1>3, <1>4, <1>5, <1>6

(* Ideal is the closed form: some function obeys the recursion, and every  *)
(* function that does has these values.                                    *)
LEMMA IdealIs ==
    ASSUME NEW s \in Nat, s <= 3600, NEW n \in Nat
    PROVE  Ideal(s, n) = Doubled(s, n)
<1> DEFINE d == [k \in 0 .. n |-> Doubled(s, k)]
<1>1. Obeys(s, n, d)
  <2>1. ASSUME NEW k \in 0 .. n PROVE Doubled(s, k) = IdealRound(s, d, k)
    <3>1. CASE k = 0
      BY <3>1, DoubledRound DEF IdealRound
    <3>2. CASE k > 0
      <4>1. d[k - 1] = Doubled(s, k - 1)
        BY <3>2
      <4>2. QED
        BY <3>2, <4>1, DoubledRound DEF IdealRound
    <3>3. QED
      BY <3>1, <3>2
  <2>2. QED
    BY <2>1 DEF Obeys
<1> HIDE DEF d
<1> DEFINE f == CHOOSE g : Obeys(s, n, g)
<1>2. Obeys(s, n, f)
  BY <1>1
<1>3. Ideal(s, n) = f[n]
  BY IdealChosen
<1> HIDE DEF f
<1>4. \A k \in 0 .. n : f[k] = IdealRound(s, f, k)
  BY <1>2 DEF Obeys
<1> DEFINE Wrong == {k \in 0 .. n : f[k] # Doubled(s, k)}
<1>5. Wrong = {}
  <2> SUFFICES ASSUME Wrong # {} PROVE FALSE
    OBVIOUS
  <2>1. Wrong \in SUBSET Nat
    OBVIOUS
  <2> HIDE DEF Wrong
  <2>2. PICK m \in Wrong : \A j \in Wrong : m <= j
    BY <2>1, LeastExists
  <2> USE DEF Wrong
  <2>3. m \in 0 .. n /\ f[m] # Doubled(s, m)
    OBVIOUS
  <2>4. CASE m = 0
    BY <1>4, <2>3, <2>4, DoubledRound DEF IdealRound
  <2>5. CASE m > 0
    <3>1. m - 1 \in 0 .. n /\ ~(m <= m - 1)
      BY <2>3, <2>5
    <3>2. f[m - 1] = Doubled(s, m - 1)
      BY <2>2, <3>1
    <3>3. f[m] = Saturated(2 * Doubled(s, m - 1))
      BY <1>4, <2>3, <2>5, <3>2 DEF IdealRound
    <3>4. QED
      BY <2>3, <2>5, <3>3, DoubledRound
  <2>6. QED
    BY <2>3, <2>4, <2>5
<1>6. QED
  BY <1>3, <1>5

(* The waits are the reference as long as no bit is lost. *)
LEMMA WaitIsIdeal ==
    ASSUME NEW s \in Nat, s <= 3600, NEW n \in 0 .. 20
    PROVE  backoff_seconds(s, n) = {Ideal(s, n)}
<1>1. n \in 0 .. 15 \/ n \in 16 .. 20
  OBVIOUS
<1>2. Ideal(s, n) = Doubled(s, n)
  BY IdealIs
<1>3. QED
  BY <1>1, <1>2, LowWait, HighWait

(***************************************************************************)
(* Up to the 21st retry the waits are those of capped exponential backoff, *)
(* for every setting set_output_key lets through (http_post_batch).        *)
(***************************************************************************)
THEOREM Exponential == Spec => []ExponentialWhileItFits
<1>1. Init => ExponentialWhileItFits
  BY DEF Init, ExponentialWhileItFits
<1>2. TypeOK /\ ExponentialWhileItFits /\ [Next]_vars => ExponentialWhileItFits'
  <2> SUFFICES ASSUME TypeOK, ExponentialWhileItFits, [Next]_vars,
                      attempt' \in 1 .. 21
               PROVE  wait' = Ideal(retry_backoff_seconds', attempt' - 1)
    BY DEF ExponentialWhileItFits
  <2>1. CASE AttemptFails
    <3>1. /\ retry_backoff_seconds \in Nat /\ retry_backoff_seconds <= 3600
          /\ attempt \in 0 .. 20
      BY <2>1, RangeAssumption DEF AttemptFails, TypeOK
    <3>2. wait' \in backoff_seconds(retry_backoff_seconds, attempt)
      BY <2>1 DEF AttemptFails
    <3>3. backoff_seconds(retry_backoff_seconds, attempt) = {Ideal(retry_backoff_seconds, attempt)}
      BY <3>1, WaitIsIdeal
    <3>4. wait' = Ideal(retry_backoff_seconds, attempt)
      BY <3>2, <3>3
    <3>5. retry_backoff_seconds' = retry_backoff_seconds /\ attempt' - 1 = attempt
      BY <2>1 DEF AttemptFails, TypeOK
    <3>6. QED
      BY <3>4, <3>5, Zenon
  <2>2. CASE GiveUp \/ UNCHANGED vars
    BY <2>2 DEF GiveUp, vars, ExponentialWhileItFits
  <2>3. QED
    BY <2>1, <2>2 DEF Next
<1>3. QED
  BY <1>1, <1>2, TypeCorrect, PTL DEF Spec

(***************************************************************************)
(* With at most 21 retries there is a wait between every two attempts: the *)
(* promise of docs/CONTRACT.md holds, and retry_max_attempts above 21 is   *)
(* what breaks it (http_post_batch).                                       *)
(***************************************************************************)
THEOREM BacksOffWhileItFits ==
    ASSUME RetryMax <= 21
    PROVE  Spec => []AlwaysBacksOff
<1>1. TypeOK /\ ExponentialWhileItFits => AlwaysBacksOff
  <2> SUFFICES ASSUME TypeOK, ExponentialWhileItFits, attempt > 0 PROVE wait > 0
    BY DEF AlwaysBacksOff
  <2> DEFINE n == attempt - 1
             s == retry_backoff_seconds
  <2>1. attempt \in 1 .. 21 /\ n \in Nat /\ s \in Nat /\ s <= 3600
    BY RangeAssumption DEF TypeOK
  <2>2. wait = Doubled(s, n)
    BY <2>1, IdealIs DEF ExponentialWhileItFits
  <2> HIDE DEF s, n
  <2>3. CASE n < 6
    <3> DEFINE b == Base(s)
               f == Powers[n + 1]
    <3>1. b \in Nat /\ 1 <= b /\ b <= 3600
      BY <2>1, SecondsFit
    <3>2. f \in Nat /\ 1 <= f /\ f <= 32768
      BY <2>1, <2>3, PowersAre, PowerCases
    <3> HIDE DEF b, f
    <3>3. b * f \in Nat /\ b * f >= 1
      BY <3>1, <3>2, ProductFits
    <3>4. wait = Saturated(b * f)
      BY <2>2, <2>3 DEF Doubled, b, f
    <3>5. QED
      BY <3>3, <3>4 DEF Saturated, cap_seconds
  <2>4. CASE ~(n < 6)
    BY <2>2, <2>4 DEF Doubled, cap_seconds
  <2>5. QED
    BY <2>3, <2>4
<1>2. QED
  BY <1>1, TypeCorrect, Exponential, PTL
-----------------------------------------------------------------------------
(***************************************************************************)
(* Past the point where bits are lost: the halves against the whole.       *)
(***************************************************************************)

(* The number that two halves stand for, and 2 to the n. *)
Value(u) == 65536 * u[1] + u[2]
PowerOf(n) == IF n < 16 THEN Powers[n + 1] ELSE 65536 * Powers[(n - 16) + 1]

(* PowerOf is what its name says. *)
LEMMA PowerDoubles ==
    ASSUME NEW n \in 0 .. 30
    PROVE  PowerOf(0) = 1 /\ PowerOf(n + 1) = 2 * PowerOf(n)
<1>1. \A p \in 1 .. 15 : Powers[p + 1] = 2 * Powers[p]
  BY DEF Powers
<1>2. Powers[1] = 1 /\ Powers[16] = 32768
  BY DEF Powers
<1>3. PowerOf(0) = 1
  BY <1>2 DEF PowerOf
<1>4. CASE n < 15
  <2>1. n + 1 \in 1 .. 15 /\ n < 16 /\ n + 1 < 16
    BY <1>4
  <2>2. PowerOf(n) = Powers[n + 1] /\ PowerOf(n + 1) = Powers[(n + 1) + 1]
    BY <2>1 DEF PowerOf
  <2>3. QED
    BY <1>1, <1>3, <2>1, <2>2
<1>5. CASE n = 15
  <2>1. PowerOf(15) = Powers[16] /\ PowerOf(16) = 65536 * Powers[1]
    BY DEF PowerOf
  <2>2. QED
    BY <1>2, <1>3, <1>5, <2>1
<1>6. CASE n > 15
  <2>1. (n - 16) + 1 \in 1 .. 15 /\ ~(n < 16) /\ ~(n + 1 < 16) /\ ((n + 1) - 16) + 1 = ((n - 16) + 1) + 1
    BY <1>6
  <2> DEFINE q == Powers[(n - 16) + 1]
  <2>2. PowerOf(n) = 65536 * q /\ PowerOf(n + 1) = 65536 * Powers[((n - 16) + 1) + 1]
    BY <2>1 DEF PowerOf
  <2>3. Powers[((n - 16) + 1) + 1] = 2 * q /\ q \in Nat
    <3>1. n - 16 \in 0 .. 15
      BY <1>6
    <3>2. QED
      BY <1>1, <2>1, <3>1, PowersAre
  <2> HIDE DEF q
  <2>4. QED
    BY <1>3, <2>2, <2>3
<1>7. QED
  BY <1>4, <1>5, <1>6

(* A multiple of 2^16 and a rest, modulo 2^32. *)
LEMMA ModuloOfHalves ==
    ASSUME NEW x \in Nat, NEW r \in Nat, r < 65536
    PROVE  (65536 * x + r) % 4294967296 = 65536 * (x % 65536) + r
<1> DEFINE a == x \div 65536
           b == x % 65536
<1>1. a \in Nat /\ b \in Nat /\ x = 65536 * a + b /\ b < 65536
  OBVIOUS
<1> HIDE DEF a, b
<1>2. 65536 * x + r = 4294967296 * a + (65536 * b + r)
  BY <1>1
<1>3. 65536 * b + r \in Nat /\ 65536 * b + r < 4294967296
  BY <1>1
<1> DEFINE c == 65536 * b + r
<1>4. \A y \in Nat, z \in Nat : z < 4294967296 => (4294967296 * y + z) % 4294967296 = z
  OBVIOUS
<1> HIDE DEF c
<1>5. (4294967296 * a + c) % 4294967296 = c
  BY <1>1, <1>3, <1>4 DEF c
<1>6. QED
  BY <1>2, <1>5 DEF b, c

(* Shifting the halves is multiplying the number by 2^n modulo 2^32, which *)
(* is what C says of an unsigned int of 32 bits.                           *)
LEMMA ShiftIsProduct ==
    ASSUME NEW u, u[1] \in Nat, u[2] \in Nat, NEW n \in 0 .. 31
    PROVE  Value(ShiftLeft(u, n)) = (Value(u) * PowerOf(n)) % 4294967296
<1>1. CASE n < 16
  <2> DEFINE f == Powers[n + 1]
             h == u[1]
             l == u[2]
             q == (l * f) \div 65536
             r == (l * f) % 65536
             x == h * f + q
  <2>1. f \in Nat
    <3>1. n \in 0 .. 15
      BY <1>1
    <3>2. QED
      BY <3>1, PowersAre
  <2>2. h \in Nat /\ l \in Nat
    OBVIOUS
  <2>3. ShiftLeft(u, n) = <<x % 65536, r>>
    BY <1>1 DEF ShiftLeft, ShiftLow, Half
  <2>4. Value(u) = 65536 * h + l /\ PowerOf(n) = f
    BY <1>1 DEF Value, PowerOf
  <2> HIDE DEF f, h, l
  <2>5. l * f \in Nat /\ h * f \in Nat
    BY <2>1, <2>2
  <2>6. q \in Nat /\ r \in Nat /\ r < 65536 /\ l * f = 65536 * q + r
    BY <2>5
  <2>7. x \in Nat
    BY <2>5, <2>6
  <2>8. (65536 * h + l) * f = 65536 * (h * f) + l * f
    BY <2>1, <2>2
  <2> HIDE DEF q, r
  <2>9. (65536 * h + l) * f = 65536 * x + r
    BY <2>5, <2>6, <2>8
  <2> HIDE DEF x
  <2>10. Value(<<x % 65536, r>>) = 65536 * (x % 65536) + r
    BY DEF Value
  <2>11. (65536 * x + r) % 4294967296 = 65536 * (x % 65536) + r
    BY <2>6, <2>7, ModuloOfHalves
  <2>12. QED
    BY <2>3, <2>4, <2>9, <2>10, <2>11
<1>2. CASE ~(n < 16)
  <2> DEFINE f == Powers[(n - 16) + 1]
             h == u[1]
             l == u[2]
             x == l * f
             y == h * f
  <2>1. f \in Nat
    <3>1. n - 16 \in 0 .. 15
      BY <1>2
    <3>2. QED
      BY <3>1, PowersAre
  <2>2. h \in Nat /\ l \in Nat
    OBVIOUS
  <2>3. ShiftLeft(u, n) = <<(l * f + (0 * f) \div 65536) % 65536, (0 * f) % 65536>>
    BY <1>2 DEF ShiftLeft, ShiftLow, Half
  <2>4. Value(u) = 65536 * h + l /\ PowerOf(n) = 65536 * f
    BY <1>2 DEF Value, PowerOf
  <2> HIDE DEF f, h, l
  <2>5. x \in Nat /\ y \in Nat /\ 0 * f = 0
    BY <2>1, <2>2
  <2>6. (65536 * h + l) * (65536 * f) = 4294967296 * y + 65536 * x
    BY <2>1, <2>2
  <2>7. ShiftLeft(u, n) = <<(x + 0 \div 65536) % 65536, 0 % 65536>>
    BY <2>3, <2>5
  <2> HIDE DEF x, y
  <2>8. 0 \div 65536 = 0 /\ 0 % 65536 = 0 /\ x + 0 = x
    BY <2>5
  <2>9. ShiftLeft(u, n) = <<x % 65536, 0>>
    BY <2>7, <2>8
  <2>10. Value(ShiftLeft(u, n)) = 65536 * (x % 65536)
    <3>1. x % 65536 \in Nat
      BY <2>5
    <3>2. QED
      BY <2>9, <3>1 DEF Value
  <2> DEFINE z == 65536 * y + x
  <2>11. z \in Nat /\ 4294967296 * y + 65536 * x = 65536 * z + 0 /\ z % 65536 = x % 65536
    BY <2>5
  <2> HIDE DEF z
  <2>12. (65536 * z + 0) % 4294967296 = 65536 * (z % 65536) + 0
    BY <2>11, ModuloOfHalves
  <2>13. x % 65536 \in Nat
    BY <2>5
  <2>14. QED
    BY <2>4, <2>6, <2>10, <2>11, <2>12, <2>13
<1>3. QED
  BY <1>1, <1>2

(* The low half of a shifted value has 16 bits. *)
LEMMA ShiftedLowHalf ==
    ASSUME NEW u, IsUnsigned(u), NEW n \in 0 .. 31
    PROVE  ShiftLeft(u, n)[2] < 65536
<1>0. \A x \in Nat : x % 65536 < 65536
  OBVIOUS
<1>1. \A v, k : IsUnsigned(v) /\ k \in 0 .. 15 => ShiftLow(v, k)[2] < 65536
  <2> SUFFICES ASSUME NEW v, NEW k \in 0 .. 15, IsUnsigned(v)
               PROVE  ShiftLow(v, k)[2] < 65536
    OBVIOUS
  <2> DEFINE p == v[2] * Powers[k + 1]
  <2>1. p \in Nat
    <3>1. Powers[k + 1] \in Nat
      BY PowersAre
    <3>2. QED
      BY <3>1 DEF IsUnsigned
  <2>2. ShiftLow(v, k)[2] = p % 65536
    BY DEF ShiftLow, Half
  <2> HIDE DEF p
  <2>3. QED
    BY <1>0, <2>1, <2>2
<1>2. CASE n < 16
  BY <1>1, <1>2 DEF ShiftLeft
<1>3. CASE ~(n < 16)
  <2>1. n - 16 \in 0 .. 15 /\ IsUnsigned(<<u[2], 0>>)
    BY <1>3 DEF IsUnsigned
  <2>2. ShiftLeft(u, n) = ShiftLow(<<u[2], 0>>, n - 16)
    BY <1>3 DEF ShiftLeft
  <2>3. QED
    BY <1>1, <2>1, <2>2
<1>4. QED
  BY <1>2, <1>3

(* The wait after attempt n + 1, while the shift is defined. *)
LEMMA WaitIsProduct ==
    ASSUME NEW s \in Nat, s <= 3600, NEW n \in 0 .. 31, NEW w \in backoff_seconds(s, n)
    PROVE  w = Saturated((Base(s) * PowerOf(n)) % 4294967296)
<1> DEFINE u == Unsigned(Base(s))
           v == ShiftLeft(u, n)
<1>1. Base(s) \in Nat /\ u = <<0, Base(s)>>
  BY SecondsFit
<1>2. IsUnsigned(u) /\ Value(u) = Base(s)
  BY <1>1 DEF IsUnsigned, Value
<1>3. n < 32
  OBVIOUS
<1>4. w = Cap(v)
  BY <1>3 DEF backoff_seconds, Shifts
<1> HIDE DEF u
<1>5. IsUnsigned(v) /\ v[2] < 65536
  <2>1. IsUnsigned(u)
    BY <1>2
  <2>2. IsUnsigned(v)
    BY <2>1, ShiftIsUnsigned
  <2>3. v[2] < 65536
    BY <2>1, ShiftedLowHalf
  <2>4. QED
    BY <2>2, <2>3
<1>6. Value(v) = (Base(s) * PowerOf(n)) % 4294967296
  <2>1. u[1] \in Nat /\ u[2] \in Nat
    BY <1>2 DEF IsUnsigned
  <2>2. Value(v) = (Value(u) * PowerOf(n)) % 4294967296
    BY <2>1, ShiftIsProduct
  <2>3. QED
    BY <1>2, <2>2
<1> HIDE DEF v
<1>7. Cap(v) = Saturated(Value(v))
  BY <1>5 DEF IsUnsigned, Cap, Saturated, Value, cap_seconds
<1>8. QED
  BY <1>4, <1>6, <1>7

(* A wait that an attempt asked for with a defined shift. *)
WaitsModulo ==
    attempt \in 1 .. 32 =>
      wait = Saturated((Base(retry_backoff_seconds) * PowerOf(attempt - 1)) % 4294967296)

(***************************************************************************)
(* What the code computes once bits are lost: up to the 32nd attempt the   *)
(* wait of http_post_batch is the product with the power of two, reduced   *)
(* modulo 2^32 first and cut at a minute afterwards. A setting whose       *)
(* product is a multiple of 2^32 (2048 at the 22nd attempt) waits 0.       *)
(***************************************************************************)
THEOREM WaitsReduceBeforeTheCap == Spec => []WaitsModulo
<1>1. Init => WaitsModulo
  BY DEF Init, WaitsModulo
<1>2. TypeOK /\ WaitsModulo /\ [Next]_vars => WaitsModulo'
  <2> SUFFICES ASSUME TypeOK, WaitsModulo, [Next]_vars, attempt' \in 1 .. 32
               PROVE  wait' = Saturated((Base(retry_backoff_seconds') * PowerOf(attempt' - 1)) % 4294967296)
    BY DEF WaitsModulo
  <2>1. CASE AttemptFails
    <3>1. retry_backoff_seconds \in Nat /\ retry_backoff_seconds <= 3600 /\ attempt \in Nat
      BY RangeAssumption DEF TypeOK
    <3>2. /\ wait' \in backoff_seconds(retry_backoff_seconds, attempt)
          /\ attempt' = attempt + 1
          /\ retry_backoff_seconds' = retry_backoff_seconds
      BY <2>1 DEF AttemptFails
    <3>3. attempt \in 0 .. 31 /\ attempt' - 1 = attempt
      BY <3>1, <3>2
    <3>4. wait' = Saturated((Base(retry_backoff_seconds) * PowerOf(attempt)) % 4294967296)
      BY <3>1, <3>2, <3>3, WaitIsProduct
    <3>5. QED
      BY <3>2, <3>3, <3>4
  <2>2. CASE GiveUp \/ UNCHANGED vars
    BY <2>2 DEF GiveUp, vars, WaitsModulo
  <2>3. QED
    BY <2>1, <2>2 DEF Next
<1>3. QED
  BY <1>1, <1>2, TypeCorrect, PTL DEF Spec
=============================================================================
