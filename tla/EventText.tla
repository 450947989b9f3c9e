----------------------------- MODULE EventText -----------------------------
(***************************************************************************)
(* How an event becomes text.  The host name is free text: it is read from *)
(* the line host_override of the configuration file, cut to its field,     *)
(* escaped for JSON into a buffer of its own and printed into every event, *)
(* whose buffer must hold the whole event.  A device's name is printed as  *)
(* it is; of it, and of the rest of an event, only the length counts.      *)
(*                                                                         *)
(* The host name is a sequence of the characters some code treats          *)
(* specially: a letter, a blank, a tab, a hash sign, a quote, a backslash  *)
(* and a control character.                                                *)
(***************************************************************************)
EXTENDS Integers, Sequences, FiniteSets

CONSTANTS MaxHost,         \* bound of the model: characters in a host name
          HostMax,         \* sizeof(host_override) - 1
          HostJsonSize,    \* sizeof(host_json)
          FixedBuffers,    \* [size, text]: buffer of an event without a list, and
                           \* the longest text in it apart from the host
          JsonSize,        \* sizeof(json) of an event with a list
          Reserve,         \* what the loop over the list leaves free
          Header,          \* text of such an event up to the list, without the host
          Entries,         \* lengths of an entry of the list
          MaxCount,        \* MAX_DISKS and MAX_INTERFACES
          MAX_EVENT_SIZE   \* of a slot of the queue

Closing == 3               \* "]}}"

(* What the buffer sizes in the code must satisfy. *)
SizesFit(hostMax, hostJsonSize, fixed, jsonSize, reserve, header, entries, slot) ==
    /\ hostMax >= 1 /\ hostJsonSize >= 1
    /\ \A b \in fixed : b.text + hostJsonSize <= b.size /\ b.size <= slot
    /\ header + hostJsonSize + Closing <= jsonSize
    /\ \A n \in entries : n >= 1 /\ n + Closing < reserve
    /\ reserve < jsonSize /\ jsonSize <= slot

ASSUME SizeAssumption ==
    /\ MaxHost \in Nat /\ HostMax \in Nat /\ HostJsonSize \in Nat
    /\ JsonSize \in Nat /\ Reserve \in Nat /\ Header \in Nat /\ MaxCount \in Nat
    /\ MAX_EVENT_SIZE \in Nat /\ Entries \subseteq Nat
    /\ FixedBuffers \subseteq [size : Nat, text : Nat \ {0}]
    /\ SizesFit(HostMax, HostJsonSize, FixedBuffers, JsonSize, Reserve, Header, Entries,
                MAX_EVENT_SIZE)

Char == {"a", "blank", "tab", "hash", "quote", "backslash", "control"}
Text(n) == UNION {[1 .. m -> Char] : m \in 0 .. n}
Style == {"bare", "quoted", "commented"}   \* commented: quoted, then a comment

VARIABLES stage,
          host, style,      \* what the operator wants as host, and how it is written
          host_override,    \* cfg->host_override
          hostbuf,          \* the host the event names
          cursor,           \* characters of hostbuf escaped so far
          host_json,        \* output of json_escape_string
          size,             \* of the event's buffer
          pos,              \* characters the event has, had it room for them
          count, listed     \* entries to list, entries listed

config_vars == <<host, style, host_override>>
host_vars == <<hostbuf, cursor, host_json>>
event_vars == <<size, pos, count, listed>>
vars == <<stage, config_vars, host_vars, event_vars>>

TypeOK ==
    /\ stage \in {"load", "resolve", "escape", "compose", "list", "enqueue"}
    /\ host \in Text(MaxHost) /\ style \in Style
    /\ host_override \in Text(HostMax)
    /\ hostbuf \in Text(HostMax)
    /\ cursor \in 0 .. Len(hostbuf)
    /\ host_json \in Seq(Char \cup {"t", "u", "0", "1"}) /\ Len(host_json) < HostJsonSize
    /\ size \in Nat /\ pos \in Nat
    /\ listed \in 0 .. count /\ count \in 0 .. MaxCount
-----------------------------------------------------------------------------
(* The configuration file.  Whitespace is what isspace and the trims know. *)
Space == {"blank", "tab"}
Least(S) == CHOOSE i \in S : \A j \in S : i <= j
Most(S) == CHOOSE i \in S : \A j \in S : i >= j
Take(t, n) == SubSeq(t, 1, IF Len(t) <= n THEN Len(t) ELSE n)

Inked(t) == {i \in 1 .. Len(t) : t[i] \notin Space}
ltrim(t) == IF Inked(t) = {} THEN << >> ELSE SubSeq(t, Least(Inked(t)), Len(t))
rtrim(t) == IF Inked(t) = {} THEN << >> ELSE SubSeq(t, 1, Most(Inked(t)))

(* The line up to the first hash sign at one of the places. *)
CutAt(t, places) == rtrim(IF places = {} THEN t ELSE SubSeq(t, 1, Least(places) - 1))

(* Blind to quotes. *)
Bug_strip_inline_comment(t) ==
    CutAt(t, {i \in 2 .. Len(t) : t[i] = "hash" /\ t[i - 1] \in Space})

InQuotes(t, i) == Cardinality({j \in 1 .. i - 1 : t[j] = "quote"}) % 2 = 1

(* t starts behind the key, so that a hash sign is never its first character. *)
strip_inline_comment(t) ==
    CutAt(t, {i \in 2 .. Len(t) : t[i] = "hash" /\ t[i - 1] \in Space /\ ~InQuotes(t, i)})

unquote(t) == IF Len(t) >= 2 /\ t[1] = "quote" /\ t[Len(t)] = "quote"
                THEN SubSeq(t, 2, Len(t) - 1) ELSE t

(* What stands behind "host_override:". *)
Line == <<"blank">> \o (IF style = "bare" THEN host ELSE <<"quote">> \o host \o <<"quote">>)
                \o (IF style = "commented" THEN <<"blank", "hash", "a">> ELSE << >>)

load_config_file == unquote(rtrim(ltrim(strip_inline_comment(Line))))

Bug_set_host_override(value) == host_override' = value

(* strncpy into the zeroed field *)
set_host_override(value) == host_override' = Take(value, HostMax)

Load ==
    /\ stage = "load"
    /\ stage' = "resolve"
    /\ set_host_override(load_config_file)
    /\ UNCHANGED <<host, style, host_vars, event_vars>>
-----------------------------------------------------------------------------
(* The system's own name, or "unknown": one letter here. *)
gethostname == <<"a">>

resolve_event_host ==
    /\ stage = "resolve"
    /\ stage' = "escape"
    /\ hostbuf' = IF host_override # << >> THEN host_override ELSE gethostname
    /\ cursor' = 0 /\ host_json' = << >>
    /\ UNCHANGED <<config_vars, event_vars>>

Escaped(c) == CASE c \in {"quote", "backslash"} -> <<"backslash", c>>
                [] c = "tab" -> <<"backslash", "t">>
                [] c = "control" -> <<"backslash", "u", "0", "0", "0", "1">>
                [] OTHER -> <<c>>

EscapeDone ==
    /\ stage' = "compose"
    /\ UNCHANGED <<config_vars, host_vars, event_vars>>

EscapeNext(text) ==
    /\ host_json' = host_json \o text
    /\ cursor' = cursor + 1
    /\ UNCHANGED <<stage, config_vars, hostbuf, event_vars>>

(* Copies as much of the replacement as there is room for. *)
Bug_json_escape_string ==
    /\ stage = "escape"
    /\ IF cursor < Len(hostbuf) /\ Len(host_json) + 1 < HostJsonSize
         THEN EscapeNext(Take(Escaped(hostbuf[cursor + 1]), HostJsonSize - 1 - Len(host_json)))
         ELSE EscapeDone

(* One round of the loop: the next character, unless its replacement would *)
(* not leave room for the final NUL.                                       *)
json_escape_string ==
    /\ stage = "escape"
    /\ IF cursor < Len(hostbuf) /\ Len(host_json) + 1 < HostJsonSize
            /\ Len(host_json) + Len(Escaped(hostbuf[cursor + 1])) < HostJsonSize
         THEN EscapeNext(Escaped(hostbuf[cursor + 1]))
         ELSE EscapeDone
-----------------------------------------------------------------------------
(* Warm-up, ready, cpu, memory and internal: one snprintf. *)
ComposeFixed ==
    /\ stage = "compose"
    /\ stage' = "enqueue"
    /\ \E b \in FixedBuffers : size' = b.size /\ pos' = b.text + Len(host_json)
    /\ count' = 0 /\ listed' = 0
    /\ UNCHANGED <<config_vars, host_vars>>

(* Disk and network: up to the list. *)
ComposeHeader ==
    /\ stage = "compose"
    /\ stage' = "list"
    /\ size' = JsonSize /\ pos' = Header + Len(host_json)
    /\ count' \in 0 .. MaxCount /\ listed' = 0
    /\ UNCHANGED <<config_vars, host_vars>>

Bug_RoomInList == pos < JsonSize

RoomInList == pos < JsonSize - Reserve

(* A comma unless it is the first, and the entry. *)
AddEntry ==
    /\ stage = "list" /\ listed < count /\ RoomInList
    /\ \E n \in Entries : pos' = pos + n + (IF listed > 0 THEN 1 ELSE 0)
    /\ listed' = listed + 1
    /\ UNCHANGED <<stage, config_vars, host_vars, size, count>>

CloseList ==
    /\ stage = "list" /\ ~(listed < count /\ RoomInList)
    /\ stage' = "enqueue"
    /\ pos' = pos + Closing
    /\ UNCHANGED <<config_vars, host_vars, size, count, listed>>

(* The event is stored or refused; the host is resolved again for the next *)
(* row.                                                                    *)
Enqueue ==
    /\ stage = "enqueue"
    /\ stage' = "resolve"
    /\ hostbuf' = << >> /\ cursor' = 0 /\ host_json' = << >>
    /\ size' = 0 /\ pos' = 0 /\ count' = 0 /\ listed' = 0
    /\ UNCHANGED config_vars

Init ==
    /\ stage = "load"
    /\ host \in Text(MaxHost) /\ style \in Style
    /\ host_override = << >>
    /\ hostbuf = << >> /\ cursor = 0 /\ host_json = << >>
    /\ size = 0 /\ pos = 0 /\ count = 0 /\ listed = 0

Next == \/ Load \/ resolve_event_host \/ json_escape_string
        \/ ComposeFixed \/ ComposeHeader \/ AddEntry \/ CloseList \/ Enqueue

Spec == Init /\ [][Next]_vars
-----------------------------------------------------------------------------
(* The host names a line of the configuration file can express: the format *)
(* has no escapes, and an unquoted value ends at a comment and loses the   *)
(* blanks around it.                                                       *)
Writable ==
    /\ host # << >>
    /\ \A i \in 1 .. Len(host) : host[i] # "quote"
    /\ style = "bare" =>
         /\ host[1] \notin Space \cup {"hash"} /\ host[Len(host)] \notin Space
         /\ \A i \in 2 .. Len(host) : host[i] = "hash" => host[i - 1] \notin Space

(***************************************************************************)
(* Every such host name is the host of every event, cut to the field: "#"  *)
(* inside quotes starts no comment, a comment behind the quotes goes away  *)
(* with its blanks, blanks inside quotes stay (strip_inline_comment, the   *)
(* trims and unquote, in load_config_file's order; resolve_event_host).    *)
(***************************************************************************)
HostSurvives ==
    Writable /\ stage \in {"escape", "compose", "list", "enqueue"} =>
        hostbuf = Take(host, HostMax)

(* What a JSON reader makes of the escaped text: "?" where it cannot. *)
Unescape(t) ==
    LET read[i \in 1 .. Len(t) + 6] ==
            CASE i > Len(t) -> << >>
              [] i <= Len(t) /\ t[i] # "backslash" ->
                   <<IF t[i] \in {"quote", "tab", "control"} THEN "?" ELSE t[i]>> \o read[i + 1]
              [] i = Len(t) /\ t[i] = "backslash" -> <<"?">>
              [] i < Len(t) /\ t[i] = "backslash" /\ t[i + 1] = "u" ->
                   <<IF i + 5 <= Len(t) THEN "control" ELSE "?">> \o read[i + 6]
              [] OTHER -> <<IF t[i + 1] = "t" THEN "tab" ELSE t[i + 1]>> \o read[i + 2]
    IN  read[1]

(***************************************************************************)
(* A JSON reader gets back the host, or the start of it when the escaped   *)
(* host is longer than its buffer: an escape is never cut in two, which    *)
(* would make the event unreadable, and nothing is left out that fits      *)
(* (json_escape_string).                                                   *)
(***************************************************************************)
HostReadsBack ==
    /\ stage \in {"escape", "compose", "list", "enqueue"} =>
         Unescape(host_json) = Take(hostbuf, cursor)
    /\ stage \in {"compose", "list", "enqueue"} /\ cursor < Len(hostbuf) =>
         Len(host_json) + Len(Escaped(hostbuf[cursor + 1])) >= HostJsonSize

(***************************************************************************)
(* An event that reaches the queue is whole: snprintf cut nothing, the     *)
(* position the next snprintf writes at is inside the buffer, the list is  *)
(* closed, and the queue takes it.                                         *)
(***************************************************************************)
EventComplete ==
    /\ stage = "list" => pos + Closing < size
    /\ stage = "enqueue" => 0 < pos /\ pos < size /\ pos < MAX_EVENT_SIZE
=============================================================================
