---------------------------- MODULE RetryBackoff ----------------------------
(***************************************************************************)
(* The waits of http_post_batch (src/output.c) when attempt after attempt  *)
(* fails: the configured seconds, shifted left by the number of the        *)
(* attempt in an unsigned int, cut at 60.                                  *)
(*                                                                         *)
(* An unsigned int is the pair of its 16-bit halves, so that TLC's own     *)
(* integers do not overflow where the code's do.                           *)
(***************************************************************************)
EXTENDS Integers, Sequences

CONSTANTS Backoffs,    \* values of retry_backoff_seconds to look at
          RetryMax     \* retry_max_attempts

(* What set_output_key lets through. *)
ASSUME RangeAssumption == Backoffs \subseteq 0 .. 3600 /\ RetryMax \in 0 .. 100

VARIABLES retry_backoff_seconds,
          attempt,     \* failed attempts so far
          wait         \* the last argument of sleep; -1 before the first

vars == <<retry_backoff_seconds, attempt, wait>>

Half == 65536
cap_seconds == 60

Unsigned(n) == <<n \div Half, n % Half>>

Powers == <<1, 2, 4, 8, 16, 32, 64, 128, 256, 512, 1024, 2048, 4096, 8192, 16384, 32768>>

(* u << n for n < 16: the carry of the low half moves up, that of the high *)
(* half is lost.                                                           *)
ShiftLow(u, n) ==
    LET f == Powers[n + 1]
    IN  <<(u[1] * f + (u[2] * f) \div Half) % Half, (u[2] * f) % Half>>

(* For n < 32: the low half becomes the high one first. *)
ShiftLeft(u, n) == IF n < 16 THEN ShiftLow(u, n) ELSE ShiftLow(<<u[2], 0>>, n - 16)

(* A shift by 32 or more is undefined: a machine shift that uses the count *)
(* modulo 32, or a zero.                                                   *)
Shifts(u, n) ==
    IF n < 32 THEN {ShiftLeft(u, n)} ELSE {ShiftLeft(u, n % 32), Unsigned(0)}

Bug_Cap(u) == u[2]

Cap(u) == IF u[1] > 0 \/ u[2] > cap_seconds THEN cap_seconds ELSE u[2]

Base(seconds) == IF seconds = 0 THEN 1 ELSE seconds

(* The shift taken one attempt late. *)
Bug_backoff_seconds(seconds, n) ==
    {Cap(u) : u \in Shifts(Unsigned(Base(seconds)), n + 1)}

backoff_seconds(seconds, n) == {Cap(u) : u \in Shifts(Unsigned(Base(seconds)), n)}
-----------------------------------------------------------------------------
TypeOK ==
    /\ retry_backoff_seconds \in Backoffs
    /\ attempt \in 0 .. RetryMax
    /\ wait \in -1 .. cap_seconds

Init ==
    /\ retry_backoff_seconds \in Backoffs
    /\ attempt = 0
    /\ wait = -1

AttemptFails ==
    /\ attempt < RetryMax
    /\ wait' \in backoff_seconds(retry_backoff_seconds, attempt)
    /\ attempt' = attempt + 1
    /\ UNCHANGED retry_backoff_seconds

(* "dropping HTTP batch after %d retries" *)
GiveUp == attempt = RetryMax /\ UNCHANGED vars

Next == AttemptFails \/ GiveUp

Spec == Init /\ [][Next]_vars
-----------------------------------------------------------------------------
(* Doubling from the configured seconds that stops at the cap. *)
Saturated(n) == IF n > cap_seconds THEN cap_seconds ELSE n

Ideal(seconds, n) ==
    LET waits[k \in 0 .. n] ==
          IF k = 0 THEN Saturated(Base(seconds)) ELSE Saturated(2 * waits[k - 1])
    IN  waits[n]

(***************************************************************************)
(* Up to the 21st retry no bit of a permitted setting is shifted out, and  *)
(* the wait is the capped exponential backoff one expects: it doubles, it  *)
(* never falls, it never exceeds a minute.                                 *)
(***************************************************************************)
ExponentialWhileItFits ==
    attempt \in 1 .. 21 => wait = Ideal(retry_backoff_seconds, attempt - 1)

(***************************************************************************)
(* "with retry/backoff" (docs/CONTRACT.md): between two attempts there is  *)
(* a wait.                                                                 *)
(***************************************************************************)
AlwaysBacksOff == attempt > 0 => wait > 0
=============================================================================
