----------------------------- MODULE Rooms -----------------------------
(***************************************************************************)
(* Study rooms: what the room operations of FirebaseSession.swift and the  *)
(* buttons of PublicSessionView and CreateSessionView do to the database.  *)
(*                                                                         *)
(* A membership is kept twice, in users/{u}.sessions and in                *)
(* sessions/{s}.members, and a request in sessions/{s}.pendingMembers.     *)
(* Each operation is two or three independent writes with no completion    *)
(* and no transaction; a device hands them to the SDK (module Delivery),   *)
(* which may lose the tail of them in a crash and repeat the head of them  *)
(* after a broken stream.  Several devices write the same documents.       *)
(*                                                                         *)
(* A pair <<u, s>> stands for "the id of u in an array of room s" or, for  *)
(* "sessions", "the id of s in the array of user u".                       *)
(***************************************************************************)
EXTENDS Naturals, Sequences

CONSTANTS Users,        \* accounts; user names are taken to be distinct
          Devices,
          DeviceUser,   \* the account signed in on a device
          Rooms,        \* document ids that addDocument can draw
          Public,       \* the rooms that are created as public
          Invited,      \* <<u, s>>: u knows the password of s
          Nobody,       \* no creator: the id has not been drawn
          NoRoom,       \* no room on the screen
          MaxOps,       \* bound on the calls of all devices
          MaxFaults,    \* bound on broken streams and dead processes
          MaxRefusals   \* bound on writes refused by the server's rules

ASSUME RoomsAssumption == /\ DeviceUser \in [Devices -> Users]
                          /\ Public \subseteq Rooms
                          /\ Invited \subseteq Users \X Rooms
                          /\ Nobody \notin Users
                          /\ NoRoom \notin Rooms
                          /\ MaxOps \in Nat
                          /\ MaxFaults \in Nat
                          /\ MaxRefusals \in Nat

Fields == {"sessions", "members", "pendingMembers"}
Pairs == Users \X Rooms

VARIABLES
    out, stored, sent,   \* the writes of each device: see Delivery
    doc,                 \* sessions/{s}: "none", "noId" or "full"
    value,               \* the pairs in each array on the server
    creator,             \* who drew the room's id
    screen,              \* the PublicSessionView a device shows, see Screens
    checks,              \* <<d, s>>: d awaits the password of room s
    wanted,              \* history: what the last call on a pair asked for
    excused,             \* history: pairs whose last call was contended or lost
    lost,                \* history: writes that crashed away or were refused
    asked, granted,      \* history: pairs that requested, pairs let in
    ops, faults, refusals

delivery == <<out, stored, sent>>
server == <<doc, value, creator>>
history == <<wanted, excused, lost, asked, granted>>
app == <<screen, checks>>
vars == <<delivery, server, app, history, ops, faults, refusals>>

-----------------------------------------------------------------------------
(* The writes. *)

Write(op, f, u, s) == [op |-> op, field |-> f, user |-> u, room |-> s]
Writes == [op : {"create", "setId", "union", "remove"},
           field : Fields \cup {"doc"}, user : Users, room : Rooms]

\* addDocument: members = [creator], pendingMembers = [], and no id yet.
Create(u, s) == Write("create", "doc", u, s)
SetId(u, s) == Write("setId", "doc", u, s)
ArrayUnion(f, u, s) == Write("union", f, u, s)
ArrayRemove(f, u, s) == Write("remove", f, u, s)

\* Mutants: the room is listed before it is created, never gets its id, or
\* one copy of a membership is forgotten.
uploadSessionListedFirst(u, s) == <<ArrayUnion("sessions", u, s), Create(u, s), SetId(u, s)>>
uploadSessionWithoutId(u, s) == <<Create(u, s), ArrayUnion("sessions", u, s)>>
joinSessionOneSided(u, s) == <<ArrayUnion("sessions", u, s)>>
unjoinSessionOneSided(u, s) == <<ArrayRemove("sessions", u, s)>>

uploadSession(u, s) == <<Create(u, s), SetId(u, s), ArrayUnion("sessions", u, s)>>
joinSession(u, s) == <<ArrayUnion("sessions", u, s), ArrayUnion("members", u, s)>>
unjoinSession(u, s) == <<ArrayRemove("sessions", u, s), ArrayRemove("members", u, s)>>
requestAccess(u, s) == <<ArrayUnion("pendingMembers", u, s)>>
grantAccess(u, s) == <<ArrayRemove("pendingMembers", u, s)>> \o joinSession(u, s)
denyAccess(u, s) == <<ArrayRemove("pendingMembers", u, s)>>

\* Does w decide whether p is in array f?  A creation decides it for
\* every user, because it sets the whole document.
Touches(w, f, p) ==
    /\ w.room = p[2]
    /\ \/ w.op \in {"union", "remove"} /\ w.field = f /\ w.user = p[1]
       \/ w.op = "create" /\ f \in {"members", "pendingMembers"}

\* And if it does, does it leave p in?
Leaves(w, f, p) == w.op = "union" \/ (w.op = "create" /\ f = "members" /\ w.user = p[1])

\* An update of sessions/{s} needs the document; the creation does not, and
\* the documents users/{u} exist since registration.
Accepts(w) == w.op = "create" \/ w.field = "sessions" \/ doc[w.room] # "none"

\* What the server does with a write it commits.
Apply(w) ==
    /\ value' = [f \in Fields |->
                   {p \in Pairs : IF Touches(w, f, p) THEN Leaves(w, f, p)
                                                      ELSE p \in value[f]}]
    /\ doc' = [doc EXCEPT ![w.room] = CASE w.op = "create" -> "noId"
                                        [] w.op = "setId" -> "full"
                                        [] OTHER -> @]

-----------------------------------------------------------------------------
D == INSTANCE Delivery WITH Clients <- Devices, MaxCall <- 3

Me(d) == DeviceUser[d]

Queued(d, f, p) == \E i \in DOMAIN out[d] : Touches(out[d][i], f, p)

\* The last write of d's queue that decides p in f.
IsLast(d, i, f, p) ==
    /\ Touches(out[d][i], f, p)
    /\ \A j \in DOMAIN out[d] : j > i => ~Touches(out[d][j], f, p)

(* A read of d goes through the same worker queue as its writes, and the  *)
(* pending writes are laid over the answer of the server.                 *)
Reads(d, f, p) ==
    IF Queued(d, f, p)
    THEN \E i \in DOMAIN out[d] : IsLast(d, i, f, p) /\ Leaves(out[d][i], f, p)
    ELSE p \in value[f]

Array(d, f, s) == {u \in Users : Reads(d, f, <<u, s>>)}
HasWrite(d, op, s) == \E i \in DOMAIN out[d] : out[d][i].op = op /\ out[d][i].room = s
Exists(d, s) == doc[s] # "none" \/ HasWrite(d, "create", s)
HasId(d, s) == \/ HasWrite(d, "setId", s)
               \/ doc[s] = "full" /\ ~HasWrite(d, "create", s)

(* members and pendingMembers are what the room said when it was loaded;   *)
(* users and pendingUsers, the lists on the screen, are filled from them   *)
(* by a read per id and edited by the buttons.  A list is taken as a set.  *)
Screens == [room : Rooms \cup {NoRoom}, members : SUBSET Users, pendingMembers : SUBSET Users,
            users : SUBSET Users, pendingUsers : SUBSET Users]
NoScreen == [room |-> NoRoom, members |-> {}, pendingMembers |-> {},
             users |-> {}, pendingUsers |-> {}]

Init == /\ D!Init
        /\ doc = [s \in Rooms |-> "none"]
        /\ value = [f \in Fields |-> {}]
        /\ creator = [s \in Rooms |-> Nobody]
        /\ screen = [d \in Devices |-> NoScreen]
        /\ checks = {}
        /\ wanted = [f \in Fields |-> {}]
        /\ excused = [f \in Fields |-> {}]
        /\ lost = {}
        /\ asked = {}
        /\ granted = {}
        /\ ops = 0
        /\ faults = 0
        /\ refusals = 0

-----------------------------------------------------------------------------
(* A call hands its writes to the SDK.  The history variables record, for *)
(* each pair it is about, what it asks for and whether another device's   *)
(* write about the same pair is still on its way.                         *)
Decided(ws, f, p) == \E i \in DOMAIN ws : Touches(ws[i], f, p)
Contended(d, f, p) == \E e \in Devices \ {d} : Queued(e, f, p)

Call(d, ws) ==
    /\ ops < MaxOps
    /\ ops' = ops + 1
    /\ D!Dispatch(d, ws)
    /\ wanted' = [f \in Fields |->
         {p \in Pairs : IF Decided(ws, f, p)
                        THEN \E i \in DOMAIN ws : Touches(ws[i], f, p) /\ Leaves(ws[i], f, p)
                        ELSE p \in wanted[f]}]
    /\ excused' = [f \in Fields |->
         {p \in Pairs : IF Decided(ws, f, p) THEN Contended(d, f, p)
                                             ELSE p \in excused[f]}]
    /\ UNCHANGED <<doc, value, lost, faults, refusals>>

Show(d, users, pendingUsers) ==
    screen' = [screen EXCEPT ![d].users = users, ![d].pendingUsers = pendingUsers]

(* CreateSessionView: a new room under a fresh document id. *)
CreateRoom(d, s) ==
    /\ creator[s] = Nobody
    /\ Call(d, uploadSession(Me(d), s))
    /\ creator' = [creator EXCEPT ![s] = Me(d)]
    /\ UNCHANGED <<app, asked, granted>>

(* Loading a room and opening it: the lists on the screen are empty. *)
OpenRoom(d, s) ==
    /\ stored[d] = Len(out[d])
    /\ Exists(d, s) /\ HasId(d, s)
    /\ screen' = [screen EXCEPT ![d] =
                    [room |-> s, members |-> Array(d, "members", s),
                     pendingMembers |-> Array(d, "pendingMembers", s),
                     users |-> {}, pendingUsers |-> {}]]
    /\ UNCHANGED <<delivery, server, checks, history, ops, faults, refusals>>

(* The screen appears again, over another one: the lists are emptied and   *)
(* the reads issued anew, for the ids the room had when it was loaded.     *)
Reappear(d) ==
    /\ screen[d].room # NoRoom
    /\ Show(d, {}, {})
    /\ UNCHANGED <<delivery, server, checks, history, ops, faults, refusals>>

(* One of these reads answers, before or after the buttons were used. *)
Answer(d, u) ==
    /\ \/ u \in screen[d].members /\ Show(d, screen[d].users \cup {u}, screen[d].pendingUsers)
       \/ u \in screen[d].pendingMembers
             /\ Show(d, screen[d].users, screen[d].pendingUsers \cup {u})
    /\ UNCHANGED <<delivery, server, checks, history, ops, faults, refusals>>

(* The one button of a public room: join, or leave if one is listed. *)
PublicButton(d) ==
    LET s == screen[d].room
        us == screen[d].users
    IN  /\ s \in Public
        /\ \/ /\ Me(d) \in us
              /\ Call(d, unjoinSession(Me(d), s))
              /\ Show(d, us \ {Me(d)}, screen[d].pendingUsers)
           \/ /\ Me(d) \notin us
              /\ Call(d, joinSession(Me(d), s))
              /\ Show(d, us \cup {Me(d)}, screen[d].pendingUsers)
        /\ UNCHANGED <<creator, checks, asked, granted>>

LeavePrivate(d) ==
    LET s == screen[d].room
    IN  /\ s \in Rooms \ Public
        /\ Me(d) \in screen[d].users
        /\ Call(d, unjoinSession(Me(d), s))
        /\ Show(d, screen[d].users \ {Me(d)}, screen[d].pendingUsers)
        /\ UNCHANGED <<creator, checks, asked, granted>>

AskAccess(d) ==
    LET s == screen[d].room
    IN  /\ s \in Rooms \ Public
        /\ Me(d) \notin screen[d].users
        /\ Me(d) \notin screen[d].pendingUsers
        /\ Call(d, requestAccess(Me(d), s))
        /\ Show(d, screen[d].users, screen[d].pendingUsers \cup {Me(d)})
        /\ asked' = asked \cup {<<Me(d), s>>}
        /\ UNCHANGED <<creator, checks, granted>>

(* checkSessionPassword: a read, whose answer comes later. *)
CheckPassword(d) ==
    LET s == screen[d].room
    IN  /\ s \in Rooms \ Public
        /\ Me(d) \notin screen[d].users
        /\ checks' = checks \cup {<<d, s>>}
        /\ UNCHANGED <<delivery, server, screen, history, ops, faults, refusals>>

(* The answer is that the password was right.  By now the lists may say    *)
(* anything, and the screen may show something else.                       *)
JoinWithPassword(d, s) ==
    /\ <<d, s>> \in checks
    /\ checks' = checks \ {<<d, s>>}
    /\ <<Me(d), s>> \in Invited
    /\ Exists(d, s)
    /\ Call(d, joinSession(Me(d), s))
    /\ IF screen[d].room = s
       THEN Show(d, screen[d].users \cup {Me(d)}, screen[d].pendingUsers)
       ELSE UNCHANGED screen
    /\ UNCHANGED <<creator, asked, granted>>

WrongPassword(d, s) ==
    /\ <<d, s>> \in checks
    /\ <<Me(d), s>> \notin Invited
    /\ checks' = checks \ {<<d, s>>}
    /\ UNCHANGED <<delivery, server, screen, history, ops, faults, refusals>>

isCreator(d) == /\ screen[d].room \in Rooms \ Public
                /\ creator[screen[d].room] = Me(d)

GrantRequest(d, u) ==
    LET s == screen[d].room
    IN  /\ isCreator(d)
        /\ u \in screen[d].pendingUsers
        /\ Call(d, grantAccess(u, s))
        /\ Show(d, screen[d].users \cup {u}, screen[d].pendingUsers \ {u})
        /\ granted' = granted \cup {<<u, s>>}
        /\ UNCHANGED <<creator, checks, asked>>

\* Mutant: the handlers of the two buttons are swapped.
DenyRequestGrants(d, u) ==
    LET s == screen[d].room
    IN  /\ isCreator(d)
        /\ u \in screen[d].pendingUsers
        /\ Call(d, grantAccess(u, s))
        /\ Show(d, screen[d].users, screen[d].pendingUsers \ {u})
        /\ UNCHANGED <<creator, checks, asked, granted>>

DenyRequest(d, u) ==
    LET s == screen[d].room
    IN  /\ isCreator(d)
        /\ u \in screen[d].pendingUsers
        /\ Call(d, denyAccess(u, s))
        /\ Show(d, screen[d].users, screen[d].pendingUsers \ {u})
        /\ UNCHANGED <<creator, checks, asked, granted>>

-----------------------------------------------------------------------------
(* Delivery of the writes. *)

Store(d) == /\ D!Store(d)
            /\ UNCHANGED <<server, app, history, ops, faults, refusals>>

\* Mutant: the last write persisted overtakes those before it.
UpcomingNewest(d) == out[d][stored[d]]

\* The write the server gets to see next.
Upcoming(d) == out[d][sent[d] + 1]

Commit(d) == /\ D!Commit(d)
             /\ Accepts(Upcoming(d))
             /\ Apply(Upcoming(d))
             /\ UNCHANGED <<creator, app, history, ops, faults, refusals>>

Ack(d) == /\ D!Ack(d)
          /\ UNCHANGED <<server, app, history, ops, faults, refusals>>

\* The writes in ws are gone for good: nobody is told, only a line is logged.
Lose(ws) == /\ lost' = lost \cup ws
            /\ excused' = [f \in Fields |->
                 excused[f] \cup {p \in Pairs : \E w \in ws : Touches(w, f, p)}]

\* Mutant: NOT_FOUND is taken for a passing error.
RefuseRulesOnly(d) ==
    /\ D!Refuse(d)
    /\ refusals < MaxRefusals /\ refusals' = refusals + 1
    /\ Lose({Head(out[d])})
    /\ UNCHANGED <<server, app, wanted, asked, granted, ops, faults>>

(* The server refuses the oldest write: its rules say no (they are not in  *)
(* the repository, so they may), or the document to update is missing.     *)
Refuse(d) ==
    /\ D!Refuse(d)
    /\ \/ ~Accepts(Head(out[d])) /\ UNCHANGED refusals
       \/ refusals < MaxRefusals /\ refusals' = refusals + 1
    /\ Lose({Head(out[d])})
    /\ UNCHANGED <<server, app, wanted, asked, granted, ops, faults>>

Break(d) == /\ faults < MaxFaults
            /\ faults' = faults + 1
            /\ D!Break(d)
            /\ UNCHANGED <<server, app, history, ops, refusals>>

Die(d) == /\ faults' = faults + 1
          /\ D!Crash({d})
          /\ Lose({out[d][i] : i \in (stored[d] + 1)..Len(out[d])})
          /\ screen' = [screen EXCEPT ![d] = NoScreen]
          /\ checks' = checks \ ({d} \X Rooms)
          /\ UNCHANGED <<server, wanted, asked, granted, ops, refusals>>

Crash(d) == faults < MaxFaults /\ Die(d)

(* Session.init unwraps the id of every room it is given: a device that    *)
(* loads a room between the first two writes of uploadSession dies.        *)
LoadHalfCreated(d, s) ==
    /\ faults < MaxFaults
    /\ stored[d] = Len(out[d])
    /\ Exists(d, s) /\ ~HasId(d, s)
    /\ Die(d)

-----------------------------------------------------------------------------
Next == \E d \in Devices :
           \/ \E s \in Rooms : CreateRoom(d, s)
           \/ \E s \in Rooms : OpenRoom(d, s)
           \/ Reappear(d)
           \/ \E u \in Users : Answer(d, u)
           \/ PublicButton(d)
           \/ LeavePrivate(d)
           \/ AskAccess(d)
           \/ CheckPassword(d)
           \/ \E s \in Rooms : JoinWithPassword(d, s) \/ WrongPassword(d, s)
           \/ \E u \in Users : GrantRequest(d, u)
           \/ \E u \in Users : DenyRequest(d, u)
           \/ Store(d)
           \/ Commit(d)
           \/ Ack(d)
           \/ Refuse(d)
           \/ Break(d)
           \/ Crash(d)
           \/ \E s \in Rooms : LoadHalfCreated(d, s)

Spec == Init /\ [][Next]_vars

(* A device that stays signed in and can reach the server keeps running    *)
(* its worker queue and its write stream.                                  *)
Fairness == \A d \in Devices : /\ WF_vars(Store(d))
                               /\ WF_vars(Commit(d))
                               /\ WF_vars(Ack(d))
                               /\ WF_vars(Refuse(d) /\ ~Accepts(Head(out[d])))

FairSpec == Spec /\ Fairness

-----------------------------------------------------------------------------
(* Properties *)

TypeOK ==
    /\ D!TypeOK
    /\ doc \in [Rooms -> {"none", "noId", "full"}]
    /\ value \in [Fields -> SUBSET Pairs]
    /\ creator \in [Rooms -> Users \cup {Nobody}]
    /\ screen \in [Devices -> Screens]
    /\ checks \subseteq Devices \X Rooms
    /\ wanted \in [Fields -> SUBSET Pairs]
    /\ excused \in [Fields -> SUBSET Pairs]
    /\ lost \subseteq Writes
    /\ asked \subseteq Pairs
    /\ granted \subseteq Pairs
    /\ ops \in 0..MaxOps
    /\ faults \in 0..MaxFaults
    /\ refusals \in 0..MaxRefusals

Settled(f, p) == \A d \in Devices : ~Queued(d, f, p)
Lost(op, s) == \E w \in lost : w.op = op /\ w.room = s
Consent(p) == \/ p[2] \in Public
              \/ p[1] = creator[p[2]]
              \/ p \in Invited
              \/ p \in asked \cap granted

(* An array of the server ends up saying what the last call about a pair  *)
(* asked for, whatever was sent again in between: once no device holds a  *)
(* write about the pair, the pair is in the array exactly if that call    *)
(* put it there.  Excused is a pair whose last call was issued while      *)
(* another device still had a write about it on its way, or lost a write. *)
Converged ==
    \A f \in Fields : \A p \in Pairs \ excused[f] :
        Settled(f, p) => (p \in value[f] <=> p \in wanted[f])

(* The two copies of a membership agree: users/{u}.sessions lists s       *)
(* exactly if sessions/{s}.members lists u, with the same excuses.        *)
MembershipAgrees ==
    \A p \in Pairs \ (excused["sessions"] \cup excused["members"]) :
        Settled("sessions", p) /\ Settled("members", p)
           => (p \in value["sessions"] <=> p \in value["members"])

(* Nobody's list of sessions names a room that does not exist, which      *)
(* SessionsView would die of, unless the server refused to create it:     *)
(* uploadSession does not wait for addDocument before it lists the room.  *)
NoDanglingSession ==
    \A p \in value["sessions"] :
        doc[p[2]] = "none" => Lost("create", p[2])

(* A room without an id, which kills every app that loads it, is about to *)
(* get one from the device that created it, or the write was lost.        *)
IdFollows ==
    \A s \in Rooms : doc[s] = "noId" =>
        \/ \E d \in Devices : \E i \in DOMAIN out[d] :
              i > sent[d] /\ out[d][i].op = "setId" /\ out[d][i].room = s
        \/ Lost("setId", s)

(* Only its creator, whoever knows its password, and whoever asked and    *)
(* was let in by the creator, gets into a private room.                   *)
PrivateByConsent == \A p \in value["members"] : Consent(p)

(* No device ever dies of loading a room without an id.                   *)
NeverLoadsHalfCreated ==
    [][~\E d \in Devices : \E s \in Rooms : LoadHalfCreated(d, s)]_vars

(* With finitely many faults every write handed over is in the end off    *)
(* its device's queue, none blocked behind a write the server cannot      *)
(* accept, and from then on the two copies of each membership that is not *)
(* excused agree.                                                         *)
EventuallyAgrees ==
    <>[](/\ \A d \in Devices : out[d] = <<>>
         /\ \A p \in Pairs \ (excused["sessions"] \cup excused["members"]) :
               p \in value["sessions"] <=> p \in value["members"])

-----------------------------------------------------------------------------
(* What is inductive behind these properties. *)

(* Behind Converged: for a pair that is not excused, at most one device   *)
(* holds writes about it, the last of them is the one that was wanted,    *)
(* and the server already shows it if it has committed that one.          *)
Converging ==
    \A f \in Fields : \A p \in Pairs \ excused[f] :
        /\ \A d, e \in Devices : Queued(d, f, p) /\ Queued(e, f, p) => d = e
        /\ \A d \in Devices : \A i \in DOMAIN out[d] : IsLast(d, i, f, p) =>
              /\ Leaves(out[d][i], f, p) <=> p \in wanted[f]
              /\ i <= sent[d] => (p \in value[f] <=> p \in wanted[f])
        /\ Settled(f, p) => (p \in value[f] <=> p \in wanted[f])

(* Behind NoDanglingSession: as long as a room does not exist, whatever   *)
(* names it waits behind its creation in the same queue, or is a screen   *)
(* of the device that is about to create it.                              *)
Waits(s) ==
    /\ \A p \in value["sessions"] : p[2] # s
    /\ \A d \in Devices : \A i \in DOMAIN out[d] : out[d][i].room = s =>
          \E j \in sent[d] + 1 .. i : out[d][j].op = "create" /\ out[d][j].room = s
    /\ \A d \in Devices : screen[d].room = s => HasWrite(d, "create", s)

CreationFirst == \A s \in Rooms : doc[s] = "none" => Waits(s) \/ Lost("create", s)

(* Behind IdFollows: a creation is followed by the write of the id in the  *)
(* same queue, unless that write was lost.                                *)
IdComing ==
    /\ IdFollows
    /\ \A d \in Devices : \A i \in DOMAIN out[d] : out[d][i].op = "create" =>
          \/ Lost("setId", out[d][i].room)
          \/ /\ i + 1 \in DOMAIN out[d]
             /\ out[d][i + 1].op = "setId"
             /\ out[d][i + 1].room = out[d][i].room

(* Behind PrivateByConsent: the writes on their way are consented to as    *)
(* well, and nobody is pending, on the server, on its way there or on a    *)
(* screen, who did not ask.                                               *)
WriteConsents(w) ==
    /\ w.op = "create" \/ (w.op = "union" /\ w.field = "members") => Consent(<<w.user, w.room>>)
    /\ w.op = "union" /\ w.field = "pendingMembers" => <<w.user, w.room>> \in asked

ScreenConsents(d) ==
    \A u \in screen[d].pendingMembers \cup screen[d].pendingUsers :
       <<u, screen[d].room>> \in asked

ConsentFirst == /\ PrivateByConsent
                /\ value["pendingMembers"] \subseteq asked
                /\ \A d \in Devices : \A i \in DOMAIN out[d] : WriteConsents(out[d][i])
                /\ \A d \in Devices : ScreenConsents(d)

(* Behind MembershipAgrees: every call asks the same of both copies of a  *)
(* membership, because an id nobody has drawn occurs nowhere.             *)
Unheard(s) ==
    /\ doc[s] = "none"
    /\ \A d \in Devices : \A i \in DOMAIN out[d] : out[d][i].room # s
    /\ \A d \in Devices : screen[d].room # s
    /\ \A f \in Fields : \A p \in wanted[f] : p[2] # s

WantedAgrees == /\ \A s \in Rooms : creator[s] = Nobody => Unheard(s)
                /\ wanted["sessions"] = wanted["members"]
=============================================================================
