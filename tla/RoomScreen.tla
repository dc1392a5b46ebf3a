---------------------------- MODULE RoomScreen ----------------------------
(***************************************************************************)
(* One room on one screen (PublicSessionView): the lists of members and of *)
(* requests, read user by user when the screen appears, and the buttons    *)
(* that change lists and room together.                                    *)
(*                                                                         *)
(* The lists are sequences that may repeat a user, the buttons find the    *)
(* signed-in user by name and remove it by id, and the ids read are those  *)
(* the room had when it was loaded: Session objects are never refreshed.   *)
(* Rooms has what the calls mean for the database; here it is only the     *)
(* device's view of the room, into which changes of others arrive.         *)
(***************************************************************************)
EXTENDS Naturals, Sequences, SequencesExt

CONSTANTS Users,
          me,              \* session.session
          creator,         \* the user whose name the room carries
          NameOf,          \* the displayName of a user
          MaxAppears,      \* bound on the times the screen appears
          MaxPresses,      \* bound on buttons pressed
          MaxChecks,       \* bound on passwords checked at a time
          MaxChanges       \* bound on changes by others and on failed reads

ASSUME RoomScreenAssumption ==
    /\ me \in Users /\ creator \in Users
    /\ DOMAIN NameOf = Users
    /\ {MaxAppears, MaxPresses, MaxChecks, MaxChanges} \subseteq Nat

VARIABLES
    isPublic,   \* sesh.isPublic
    sesh,       \* the room as it was loaded
    view,       \* the room as the device's Firestore SDK has it
    list,       \* users and pendingUsers
    reads,      \* answers of getUserById awaited, by list and user
    checks,     \* answers of checkSessionPassword awaited
    prompt,     \* passwordPromptShowing
    visible,    \* is the screen on top?
    ended,      \* how the app died: "no", "index", "read"
    excused,    \* history: list and user of which the list need not tell
    appears, presses, changes

room == <<isPublic, sesh>>
vars == <<room, view, list, reads, checks, prompt, visible, ended, excused, appears, presses, changes>>

Lists == {"users", "pendingUsers"}
\* Only private rooms are asked for access.
Rows == {r \in [Lists -> SUBSET Users] : isPublic => r["pendingUsers"] = {}}

Count(l, u) == Cardinality({i \in DOMAIN list[l] : list[l][i] = u})
Due(l, u) == Count(l, u) + reads[l][u]

\* contains(where: { $0.displayName == session.session!.displayName })
Listed(l) == \E i \in DOMAIN list[l] : NameOf[list[l][i]] = NameOf[me]

\* pendingMembers need not be disjoint from members: a member by password
\* leaves its request behind.
Init ==
    /\ isPublic \in BOOLEAN
    /\ sesh \in Rows
    /\ view = sesh
    /\ list = [l \in Lists |-> <<>>]
    /\ reads = [l \in Lists |-> [u \in Users |-> 0]]
    /\ checks = 0
    /\ prompt = FALSE
    /\ visible = FALSE
    /\ ended = "no"
    /\ excused = Lists \X Users
    /\ appears = 0
    /\ presses = 0
    /\ changes = 0

-----------------------------------------------------------------------------
(* Appearing, and the answers of the reads *)

\* Mutants: the lists are not emptied; only members are read.
EmptiedNot == list
Emptied == [l \in Lists |-> <<>>]
IssuedUsers(l, u) == IF l = "users" /\ u \in sesh[l] THEN 1 ELSE 0
Issued(l, u) == IF u \in sesh[l] THEN 1 ELSE 0

(* onAppear.  Answers of an earlier appearance are appended all the same,  *)
(* and the room may have changed since it was loaded.                      *)
Appear ==
    /\ ended = "no" /\ ~visible
    /\ appears < MaxAppears /\ appears' = appears + 1
    /\ visible' = TRUE
    /\ list' = Emptied
    /\ reads' = [l \in Lists |-> [u \in Users |-> reads[l][u] + Issued(l, u)]]
    /\ excused' = {p \in Lists \X Users :
                     reads[p[1]][p[2]] > 0 \/ (p[2] \in sesh[p[1]]) # (p[2] \in view[p[1]])}
    /\ UNCHANGED <<room, view, checks, prompt, ended, presses, changes>>

\* A member, or another screen, is opened over this one.
Cover ==
    /\ ended = "no" /\ visible
    /\ visible' = FALSE
    /\ UNCHANGED <<room, view, list, reads, checks, prompt, ended, excused, appears, presses, changes>>

\* Mutant: an answer that comes twice.
AwaitedOrNot(l, u) == u \in sesh[l] /\ appears > 0
Awaited(l, u) == reads[l][u] > 0

Answer(l, u) ==
    /\ ended = "no" /\ Awaited(l, u)
    /\ reads' = [reads EXCEPT ![l][u] = @ - 1]
    /\ list' = [list EXCEPT ![l] = Append(@, u)]
    /\ UNCHANGED <<room, view, checks, prompt, visible, ended, excused, appears, presses, changes>>

\* Offline and not cached, or no such document: the completion unwraps nil.
ReadFails ==
    /\ changes < MaxChanges /\ changes' = changes + 1
    /\ ended = "no"
    /\ checks > 0 \/ \E l \in Lists, u \in Users : reads[l][u] > 0
    /\ ended' = "read"
    /\ UNCHANGED <<room, view, list, reads, checks, prompt, visible, excused, appears, presses>>

(* Somebody else's write, or the refusal of an own one, arrives. *)
RemoteChange(l, u) ==
    /\ changes < MaxChanges /\ changes' = changes + 1
    /\ ended = "no"
    /\ isPublic => l = "users"
    /\ view' = [view EXCEPT ![l] = IF u \in @ THEN @ \ {u} ELSE @ \cup {u}]
    /\ excused' = excused \cup {<<l, u>>}
    /\ UNCHANGED <<room, list, reads, checks, prompt, visible, ended, appears, presses>>

-----------------------------------------------------------------------------
(* The buttons.  Adding appends without looking whether the user is listed *)
(* or its read under way; removing takes the first row of the id.          *)
Press ==
    /\ ended = "no" /\ visible
    /\ presses < MaxPresses /\ presses' = presses + 1
    /\ UNCHANGED <<room, reads, appears, changes>>

Twice(l, u) == excused' = excused \cup (IF Due(l, u) > 0 THEN {<<l, u>>} ELSE {})

Join ==
    /\ view' = [view EXCEPT !["users"] = @ \cup {me}]
    /\ list' = [list EXCEPT !["users"] = Append(@, me)]
    /\ Twice("users", me)

\* users.remove(at: users.firstIndex(of: session.session!)!), after the call.
Leave ==
    /\ view' = [view EXCEPT !["users"] = @ \ {me}]
    /\ list' = [list EXCEPT !["users"] = RemoveFirst(@, me)]
    /\ ended' = IF Count("users", me) = 0 THEN "index" ELSE ended

PublicButton ==
    /\ isPublic /\ Press
    /\ \/ Listed("users") /\ Leave /\ UNCHANGED excused
       \/ ~Listed("users") /\ Join /\ UNCHANGED ended
    /\ UNCHANGED <<checks, prompt, visible>>

LeavePrivate ==
    /\ ~isPublic /\ Press
    /\ Listed("users") /\ Leave
    /\ UNCHANGED <<checks, prompt, visible, excused>>

AskAccess ==
    /\ ~isPublic /\ Press
    /\ ~Listed("users") /\ ~Listed("pendingUsers")
    /\ view' = [view EXCEPT !["pendingUsers"] = @ \cup {me}]
    /\ list' = [list EXCEPT !["pendingUsers"] = Append(@, me)]
    /\ Twice("pendingUsers", me)
    /\ UNCHANGED <<checks, prompt, visible, ended>>

TogglePrompt ==
    /\ ~isPublic /\ Press
    /\ ~Listed("users")
    /\ prompt' = ~prompt
    /\ UNCHANGED <<view, list, checks, visible, ended, excused>>

CheckPassword ==
    /\ ~isPublic /\ Press
    /\ ~Listed("users") /\ prompt
    /\ checks < MaxChecks /\ checks' = checks + 1
    /\ UNCHANGED <<view, list, prompt, visible, ended, excused>>

(* The password is right: the user joins, listed or not, visible or not. *)
PasswordRight ==
    /\ ended = "no" /\ checks > 0
    /\ checks' = checks - 1
    /\ Join
    /\ prompt' = ~prompt
    /\ UNCHANGED <<room, reads, visible, ended, appears, presses, changes>>

PasswordWrong ==
    /\ ended = "no" /\ checks > 0
    /\ checks' = checks - 1
    /\ UNCHANGED <<room, view, list, reads, prompt, visible, ended, excused, appears, presses, changes>>

isCreator == NameOf[creator] = NameOf[me] /\ ~isPublic

GrantRequest(u) ==
    /\ isCreator /\ Press
    /\ Count("pendingUsers", u) > 0
    /\ view' = [users |-> view["users"] \cup {u}, pendingUsers |-> view["pendingUsers"] \ {u}]
    /\ list' = [users |-> Append(list["users"], u),
                pendingUsers |-> RemoveFirst(list["pendingUsers"], u)]
    /\ Twice("users", u)
    /\ UNCHANGED <<checks, prompt, visible, ended>>

DenyRequest(u) ==
    /\ isCreator /\ Press
    /\ Count("pendingUsers", u) > 0
    /\ view' = [view EXCEPT !["pendingUsers"] = @ \ {u}]
    /\ list' = [list EXCEPT !["pendingUsers"] = RemoveFirst(@, u)]
    /\ UNCHANGED <<checks, prompt, visible, ended, excused>>

-----------------------------------------------------------------------------
Next == \/ Appear
        \/ Cover
        \/ \E l \in Lists, u \in Users : Answer(l, u) \/ RemoteChange(l, u)
        \/ ReadFails
        \/ PublicButton
        \/ LeavePrivate
        \/ AskAccess
        \/ TogglePrompt
        \/ CheckPassword
        \/ PasswordRight
        \/ PasswordWrong
        \/ \E u \in Users : GrantRequest(u) \/ DenyRequest(u)

Spec == Init /\ [][Next]_vars

-----------------------------------------------------------------------------
(* Properties *)

TypeOK ==
    /\ isPublic \in BOOLEAN
    /\ sesh \in Rows
    /\ view \in Rows
    /\ list \in [Lists -> Seq(Users)]
    /\ reads \in [Lists -> [Users -> Nat]]
    /\ checks \in 0..MaxChecks
    /\ prompt \in BOOLEAN
    /\ visible \in BOOLEAN
    /\ ended \in {"no", "index", "read"}
    /\ excused \subseteq Lists \X Users
    /\ appears \in 0..MaxAppears
    /\ presses \in 0..MaxPresses
    /\ changes \in 0..MaxChanges

(* The lists and the reads under way account for the room: every member    *)
(* and every request is listed or about to be, once, and nobody else is,   *)
(* through all the buttons.  Excused are the users whom another device     *)
(* changed, whom the room had gained or lost between being loaded and the  *)
(* appearance, and whom a button or an appearance added while they were    *)
(* listed or being read.                                                   *)
ListsAgree ==
    ended = "no" =>
      \A l \in Lists, u \in Users :
         <<l, u>> \in excused \/ Due(l, u) = (IF u \in view[l] THEN 1 ELSE 0)

(* The button that removes the user from the list finds it there: what     *)
(* users.firstIndex(of: session.session!)! asserts.  It looks for the id,  *)
(* the test before it for the name, and nothing keeps names apart.         *)
LeaveFindsUser == ended # "index"
=============================================================================
