--------------------------- MODULE MC_EventQueue ---------------------------
(* Small instances of EventQueue for TLC. *)
EXTENDS EventQueue

CONSTANTS a, b, huge, empty

(* Two ordinary texts, one that fills json_data without room for its NUL,  *)
(* and an empty one.                                                       *)
MCEvents == {a, b, huge, empty}
MCEventLen == [e \in MCEvents |->
                 CASE e = empty -> 0
                   [] e = huge  -> MAX_EVENT_SIZE
                   [] OTHER     -> MAX_EVENT_SIZE - 1]
=============================================================================
