---------------------------- MODULE MC_EventStore ----------------------------
(* Three requests at a time, events with a type, without one, and with a   *)
(* stamp of their own, and a history of two events.                        *)
EXTENDS EventStore

Cpu == [type |-> "cpu", stamped |-> FALSE]
Untyped == [type |-> NoType, stamped |-> FALSE]
Stamped == [type |-> Unknown, stamped |-> TRUE]

MCPosts == {<<Cpu, Untyped>>, <<NotAnObject, Stamped>>, <<NotAnObject>>}
MCDemoBatch == <<Cpu>>
MCLimits == {-1, 9}
=============================================================================
