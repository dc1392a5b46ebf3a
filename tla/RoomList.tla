----------------------------- MODULE RoomList -----------------------------
(***************************************************************************)
(* The list of a user's rooms (SessionsView): one read for the ids in the  *)
(* user's document (getUserSessions), then one read for each room          *)
(* (getSession), while devices go on creating, joining and leaving rooms.  *)
(*                                                                         *)
(* Their writes travel as module Delivery has it.  The device that shows   *)
(* the list has none under way itself.  The writes to the members of a     *)
(* room, which have no part in the list, are in Rooms.                     *)
(***************************************************************************)
EXTENDS Naturals, FiniteSets, Sequences

CONSTANTS Rooms,
          Devices,         \* devices that write the user's list
          MaxAppears,      \* bound on the times the screen appears
          MaxCalls,        \* bound on rooms created, joined and left
          MaxFaults        \* bound on failed reads, refusals, broken streams, dead devices

ASSUME RoomListAssumption == {MaxAppears, MaxCalls, MaxFaults} \subseteq Nat

VARIABLES
    out, stored, sent,  \* the writes under way (module Delivery)
    doc,         \* sessions/{s}: missing, without its "id" field, or whole
    sessions,    \* the "sessions" array of the user's document
    drawn,       \* ids that addDocument has drawn
    opened,      \* <<d, s>>: d has loaded s and can join or leave it
    first,       \* answers of getUserSessions awaited
    second,      \* answers of getSession awaited, by room
    list,        \* the rows on the screen
    visible,
    ended,       \* how the app died: "no", "read", "unready"
    unready,     \* the room it died of
    spoiled,     \* history: rooms whose id was refused, or taken away by a replayed creation
    excused,     \* history: rooms of which the list need not tell
    appears, calls, faults

delivery == <<out, stored, sent>>
server == <<doc, sessions>>
app == <<drawn, opened>>
screen == <<first, second, list, visible, ended, unready>>
vars == <<delivery, server, app, screen, spoiled, excused, appears, calls, faults>>

Write(op, s) == [op |-> op, room |-> s]
Writes == [op : {"create", "setId", "list", "unlist"}, room : Rooms]

D == INSTANCE Delivery WITH Clients <- Devices, MaxCall <- 3

Count(s) == Cardinality({i \in DOMAIN list : list[i] = s})
Due(s) == Count(s) + second[s]

Init ==
    /\ D!Init
    /\ doc \in [Rooms -> {"none", "full"}]
    /\ sessions \in SUBSET {s \in Rooms : doc[s] = "full"}
    /\ drawn = {s \in Rooms : doc[s] = "full"}
    /\ opened = {}
    /\ first = 0
    /\ second = [s \in Rooms |-> 0]
    /\ list = <<>>
    /\ visible = FALSE
    /\ ended = "no"
    /\ unready = {}
    /\ spoiled = {}
    /\ excused = Rooms
    /\ appears = 0
    /\ calls = 0
    /\ faults = 0

-----------------------------------------------------------------------------
(* The calls of the devices. *)

\* Mutant: the room is listed before its document is there.
uploadSessionListedFirst(s) == <<Write("list", s), Write("create", s), Write("setId", s)>>

uploadSession(s) == <<Write("create", s), Write("setId", s), Write("list", s)>>
joinSession(s) == <<Write("list", s)>>
unjoinSession(s) == <<Write("unlist", s)>>

Call(d, ws) ==
    /\ calls < MaxCalls /\ calls' = calls + 1
    /\ D!Dispatch(d, ws)
    /\ UNCHANGED <<server, screen, spoiled, excused, appears, faults>>

Create(d, s) == /\ s \notin drawn
                /\ Call(d, uploadSession(s))
                /\ drawn' = drawn \cup {s}
                /\ UNCHANGED opened

(* A device reads the server's room with its own writes laid over it, and  *)
(* dies of one without an id.                                              *)
HasWrite(d, op, s) == \E i \in DOMAIN out[d] : out[d][i] = Write(op, s)
Whole(d, s) == \/ /\ HasWrite(d, "setId", s)
                  /\ doc[s] # "none" \/ HasWrite(d, "create", s)
               \/ doc[s] = "full" /\ ~HasWrite(d, "create", s)

Open(d, s) == /\ stored[d] = Len(out[d])
              /\ Whole(d, s)
              /\ opened' = opened \cup {<<d, s>>}
              /\ UNCHANGED <<delivery, server, drawn, screen, spoiled, excused, appears, calls, faults>>

\* The buttons of a room that was loaded, whatever became of it since; the
\* creator's device lists it under a user who is granted access.
Join(d, s) == <<d, s>> \in opened /\ Call(d, joinSession(s)) /\ UNCHANGED app
Leave(d, s) == <<d, s>> \in opened /\ Call(d, unjoinSession(s)) /\ UNCHANGED app

-----------------------------------------------------------------------------
(* Delivery of the writes. *)

Fault == faults < MaxFaults /\ faults' = faults + 1

Store(d) == /\ D!Store(d)
            /\ UNCHANGED <<server, app, screen, spoiled, excused, appears, calls, faults>>

Upcoming(d) == out[d][sent[d] + 1]

\* The user's document is there since registration; a room has to exist for
\* an update and not for its creation.
Accepts(w) == w.op = "setId" => doc[w.room] # "none"

\* addDocument sets the whole document, at each time it is sent.  What changes
\* after the ids were read is not on the list.
Apply(w) ==
    /\ doc' = [doc EXCEPT ![w.room] = CASE w.op = "create" -> "noId"
                                         [] w.op = "setId" -> "full"
                                         [] OTHER -> @]
    /\ sessions' = CASE w.op = "list" -> sessions \cup {w.room}
                      [] w.op = "unlist" -> sessions \ {w.room}
                      [] OTHER -> sessions
    /\ excused' = IF first = 0 /\ sessions' # sessions THEN excused \cup {w.room} ELSE excused
    /\ spoiled' = IF w.op = "create" /\ doc[w.room] = "full" THEN spoiled \cup {w.room}
                                                             ELSE spoiled

Commit(d) == /\ D!Commit(d)
             /\ Accepts(Upcoming(d))
             /\ Apply(Upcoming(d))
             /\ UNCHANGED <<app, screen, appears, calls, faults>>

Ack(d) == /\ D!Ack(d)
          /\ UNCHANGED <<server, app, screen, spoiled, excused, appears, calls, faults>>

\* By the rules, or because the room is missing.
Refuse(d) ==
    LET w == Head(out[d])
    IN  /\ D!Refuse(d)
        /\ \/ ~Accepts(w) /\ UNCHANGED faults
           \/ Fault
        /\ spoiled' = IF w.op = "setId" /\ doc[w.room] # "full" THEN spoiled \cup {w.room}
                                                               ELSE spoiled
        /\ UNCHANGED <<server, app, screen, excused, appears, calls>>

Break(d) == /\ Fault
            /\ D!Break(d)
            /\ UNCHANGED <<server, app, screen, spoiled, excused, appears, calls>>

Crash(d) == /\ Fault
            /\ D!Crash({d})
            /\ opened' = opened \ ({d} \X Rooms)
            /\ UNCHANGED <<server, drawn, screen, spoiled, excused, appears, calls>>

-----------------------------------------------------------------------------
(* The screen *)

\* Mutant: the rows of the last appearance stay.
KeptRows == list
NoRows == <<>>

Appear ==
    /\ ended = "no" /\ ~visible
    /\ appears < MaxAppears /\ appears' = appears + 1
    /\ visible' = TRUE
    /\ list' = NoRows
    /\ first' = first + 1
    /\ excused' = IF first > 0 THEN Rooms ELSE {s \in Rooms : second[s] > 0}
    /\ UNCHANGED <<delivery, server, app, second, ended, unready, spoiled, calls, faults>>

Cover ==
    /\ ended = "no" /\ visible
    /\ visible' = FALSE
    /\ UNCHANGED <<delivery, server, app, first, second, list, ended, unready, spoiled, excused,
                   appears, calls, faults>>

IdsAnswered ==
    /\ ended = "no" /\ first > 0
    /\ first' = first - 1
    /\ second' = [s \in Rooms |-> IF s \in sessions THEN second[s] + 1 ELSE second[s]]
    /\ UNCHANGED <<delivery, server, app, list, visible, ended, unready, spoiled, excused,
                   appears, calls, faults>>

\* data! of a room that is missing, id! of one without an id.
RoomAnswered(s) ==
    /\ ended = "no" /\ second[s] > 0
    /\ second' = [second EXCEPT ![s] = @ - 1]
    /\ IF doc[s] = "full"
       THEN list' = Append(list, s) /\ UNCHANGED <<ended, unready>>
       ELSE ended' = "unready" /\ unready' = {s} /\ UNCHANGED list
    /\ UNCHANGED <<delivery, server, app, first, visible, spoiled, excused, appears, calls, faults>>

\* Offline, and what was asked for is not in the cache: res! or data!.
ReadFails ==
    /\ Fault
    /\ ended = "no"
    /\ first > 0 \/ \E s \in Rooms : second[s] > 0
    /\ ended' = "read"
    /\ UNCHANGED <<delivery, server, app, first, second, list, visible, unready, spoiled, excused,
                   appears, calls>>

-----------------------------------------------------------------------------
Next == \/ \E d \in Devices :
              \/ \E s \in Rooms : Create(d, s) \/ Open(d, s) \/ Join(d, s) \/ Leave(d, s)
              \/ Store(d)
              \/ Commit(d)
              \/ Ack(d)
              \/ Refuse(d)
              \/ Break(d)
              \/ Crash(d)
        \/ Appear
        \/ Cover
        \/ IdsAnswered
        \/ \E s \in Rooms : RoomAnswered(s)
        \/ ReadFails

Spec == Init /\ [][Next]_vars

-----------------------------------------------------------------------------
(* Properties *)

TypeOK ==
    /\ D!TypeOK
    /\ doc \in [Rooms -> {"none", "noId", "full"}]
    /\ sessions \subseteq Rooms
    /\ drawn \subseteq Rooms
    /\ opened \subseteq Devices \X Rooms
    /\ first \in Nat
    /\ second \in [Rooms -> Nat]
    /\ list \in Seq(Rooms)
    /\ visible \in BOOLEAN
    /\ ended \in {"no", "read", "unready"}
    /\ unready \subseteq Rooms
    /\ spoiled \subseteq Rooms
    /\ excused \subseteq Rooms
    /\ appears \in 0..MaxAppears
    /\ calls \in 0..MaxCalls
    /\ faults \in 0..MaxFaults

(* The app dies of a listed room that is missing, or has no id, only if    *)
(* the server refused the write of its id, as it does if it refused the    *)
(* creation, or if a replayed creation took the id of a whole room away.   *)
(* In no other case, a device that dies amid uploadSession included, is a  *)
(* room listed before it is whole: the three writes stay in order, and     *)
(* nobody can join a room without an id.                                   *)
RoomsAreReady == unready \subseteq spoiled

(* Once the ids were read, the rows and the reads under way are the user's *)
(* rooms, once each, except those joined or left since, and those still    *)
(* being read for an earlier appearance.                                   *)
ListAgrees ==
    (ended = "no" /\ appears > 0) =>
      \A s \in Rooms \ excused :
         Due(s) = (IF first = 0 /\ s \in sessions THEN 1 ELSE 0)
=============================================================================
