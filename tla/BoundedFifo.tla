---------------------------- MODULE BoundedFifo ----------------------------
(***************************************************************************)
(* What the event queue promises its two users, without saying how: a FIFO *)
(* of at most Capacity events.  Putting into a full queue succeeds by      *)
(* discarding the oldest event and counting it; taking removes the oldest  *)
(* events, up to BatchMax of them, in one step.                            *)
(*                                                                         *)
(* EventQueue (the ring buffer of src/queue.c) implements this module, and *)
(* Pipeline uses Put and Take as its queue.                                *)
(***************************************************************************)
EXTENDS Naturals, Sequences

CONSTANTS Capacity,     \* MAX_QUEUE_DEPTH
          BatchMax,     \* the max_count every consumer passes
          Events,       \* the events the queue accepts
          MaxAccepted   \* bound of the model: events accepted in a behaviour

VARIABLES contents,     \* the queued events, oldest first
          taken,        \* the batch handed out by the last Take
          accepted,     \* events accepted since creation
          dropped       \* events discarded since creation

fifoVars == <<contents, taken, accepted, dropped>>

(* The number of events a Take removes from a queue that holds n. *)
TakeCount(n) == IF n <= BatchMax THEN n ELSE BatchMax

Empty ==
    /\ contents = << >>
    /\ accepted = 0
    /\ dropped = 0

Put(e) ==
    /\ IF Len(contents) = Capacity
         THEN /\ contents' = Append(Tail(contents), e)
              /\ dropped' = dropped + 1
         ELSE /\ contents' = Append(contents, e)
              /\ dropped' = dropped
    /\ accepted' = accepted + 1

Take ==
    LET k == TakeCount(Len(contents))
    IN  /\ taken' = SubSeq(contents, 1, k)
        /\ contents' = SubSeq(contents, k + 1, Len(contents))
        /\ UNCHANGED <<accepted, dropped>>

Init == Empty /\ taken = << >>

Next ==
    \/ /\ accepted < MaxAccepted
       /\ \E e \in Events : Put(e)
       /\ UNCHANGED taken
    \/ Take

Spec == Init /\ [][Next]_fifoVars
=============================================================================
