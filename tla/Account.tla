----------------------------- MODULE Account -----------------------------
(***************************************************************************)
(* Who is signed in: FirebaseSession's listen, setUserData, logIn, logOut, *)
(* signUp, addUserToDB and isUniqueUsername, the views that call them, and *)
(* what FirebaseAuth (FIRAuth.m) does behind them.                         *)
(*                                                                         *)
(* FIRAuth changes the current user on a queue of its own and leaves a     *)
(* task on the main queue, which tells the Firestore SDK and then the      *)
(* listeners.  Completions are tasks of the same queue, while the answers  *)
(* of reads come in any order.  Every appearance of ContentView adds a     *)
(* listener and every log-out a FirebaseSession; none is ever removed.     *)
(***************************************************************************)
EXTENDS Naturals, Sequences, FiniteSets

CONSTANTS Devices,
          Accounts,       \* users of FirebaseAuth, each with its e-mail address
          Names,          \* user names
          Registered,     \* <<a, n>>: a registered as n before the start
          Nobody, NoName,
          Unheard,        \* a listener that was not called yet
          MaxPresses,     \* bound on buttons pressed
          MaxInstances,   \* bound on FirebaseSession objects of a process
          MaxListeners,   \* bound on listeners of an object
          MaxFaults       \* bound on restarts, failed requests and refused users

ASSUME AccountAssumption ==
    /\ Registered \subseteq Accounts \X Names
    /\ Nobody \notin Accounts /\ NoName \notin Names
    /\ Unheard \notin Accounts \cup {Nobody}
    /\ MaxPresses \in Nat /\ MaxFaults \in Nat
    /\ MaxInstances \in Nat \ {0} /\ MaxListeners \in Nat

VARIABLES
    created,     \* accounts that exist in FirebaseAuth
    profile,     \* users/{a}.username on the server
    saved,       \* the user in a device's keychain
    loaded,      \* has FIRAuth read the keychain?
    main,        \* the tasks FIRAuth left on the main queue
    heeds,       \* the account the Firestore SDK acts for
    listeners,   \* the listeners of a process, in order of registration
    app,         \* the FirebaseSession objects of a process
    shown,       \* the one on the screen
    root,        \* the root view: "content" (ContentView) or "feed" (FeedView)
    reads,       \* answers setUserData awaits, by object and account
    checks,      \* registrations that await isUniqueUsername
    creating,    \* registrations that await createUser
    signing,     \* accounts that await signIn
    writes,      \* pending writes of addUserToDB
    chosen,      \* history: the name an account was registered with
    raced,       \* history: names held twice, from the start or by registrations that overlap
    crossed,     \* history: devices that started a second sign-in too early
    late,        \* history: objects that took an answer for a user of before
    missed,      \* history: objects whose last answer had no document
    presses, faults

remote == <<created, profile>>
auth == <<saved, loaded, main, heeds, listeners>>
ui == <<app, shown, root>>
calls == <<reads, checks, creating, signing, writes>>
history == <<chosen, raced, crossed, late, missed>>
vars == <<remote, auth, ui, calls, history, presses, faults>>

Instances == 1..MaxInstances
Users == Accounts \cup {Nobody}
Registration == [name : Names, account : Accounts]

Notify(u) == [kind |-> "notify", user |-> u, name |-> NoName, listener |-> 0]
Hear(l) == [kind |-> "hear", user |-> Nobody, name |-> NoName, listener |-> l]
SignedUp(n) == [kind |-> "signedUp", user |-> Nobody, name |-> n, listener |-> 0]

NoSession == [session |-> Nobody, isLoggedIn |-> FALSE]
NoReads == [i \in Instances |-> [a \in Accounts |-> 0]]

currentUser(d) == IF loaded[d] THEN saved[d] ELSE Nobody
Visible(d) == app[d][shown[d]]
HomeShown(d) == root[d] = "content" /\ Visible(d).session = Nobody
FeedShown(d) == ~HomeShown(d)

\* A read sees the pending writes of the account the SDK acts for.
Pending(d, a) == {i \in DOMAIN writes[d] : writes[d][i].by = heeds[d] /\ writes[d][i].account = a}
Seen(d, a) == IF Pending(d, a) = {}
              THEN profile[a]
              ELSE writes[d][CHOOSE i \in Pending(d, a) : \A j \in Pending(d, a) : j <= i].name

Init ==
    /\ created = {r[1] : r \in Registered}
    /\ profile = [a \in Accounts |->
                    IF a \in created THEN CHOOSE n \in Names : <<a, n>> \in Registered ELSE NoName]
    /\ saved \in [Devices -> created \cup {Nobody}]
    /\ loaded = [d \in Devices |-> FALSE]
    /\ main = [d \in Devices |-> <<>>]
    /\ heeds = [d \in Devices |-> Nobody]
    /\ listeners = [d \in Devices |-> <<>>]
    /\ app = [d \in Devices |-> [i \in Instances |-> NoSession]]
    /\ shown = [d \in Devices |-> 1]
    /\ root = [d \in Devices |-> "content"]
    /\ reads = [d \in Devices |-> NoReads]
    /\ checks = [d \in Devices |-> {}]
    /\ creating = [d \in Devices |-> {}]
    /\ signing = [d \in Devices |-> {}]
    /\ writes = [d \in Devices |-> <<>>]
    /\ chosen = profile
    /\ raced = {n \in Names : \E a, b \in Accounts : a # b /\ profile[a] = n /\ profile[b] = n}
    /\ crossed = {}
    /\ late = [d \in Devices |-> {}]
    /\ missed = [d \in Devices |-> {}]
    /\ presses = 0
    /\ faults = 0

-----------------------------------------------------------------------------
(* FIRAuth *)

\* updateCurrentUser and possiblyPostAuthStateChangeNotification: every
\* sign-in has a token of its own, so every change of user is posted.
SetUser(d, u, tasks) ==
    /\ saved' = [saved EXCEPT ![d] = u]
    /\ main' = [main EXCEPT ![d] = @ \o <<Notify(u)>> \o tasks]

\* Mutant: the saved user is loaded without telling anybody.
LoadSilent(d) ==
    /\ ~loaded[d]
    /\ loaded' = [loaded EXCEPT ![d] = TRUE]
    /\ UNCHANGED <<remote, saved, main, heeds, listeners, ui, calls, history, presses, faults>>

(* FIRAuth starts by reading the keychain on its own queue; requests wait. *)
Load(d) ==
    /\ ~loaded[d]
    /\ loaded' = [loaded EXCEPT ![d] = TRUE]
    /\ main' = [main EXCEPT ![d] = IF saved[d] = Nobody THEN @ ELSE Append(@, Notify(saved[d]))]
    /\ UNCHANGED <<remote, saved, heeds, listeners, ui, calls, history, presses, faults>>

SignInAnswered(d, a, ok) ==
    /\ loaded[d] /\ a \in signing[d]
    /\ signing' = [signing EXCEPT ![d] = @ \ {a}]
    /\ IF ok THEN a \in created /\ SetUser(d, a, <<>>)
             ELSE UNCHANGED <<saved, main>>
    /\ UNCHANGED <<remote, loaded, heeds, listeners, ui, reads, checks, creating, writes, history,
                   presses, faults>>

\* FIRUser signs itself out when the server no longer accepts its token.
SignedOutByForce(d) ==
    /\ faults < MaxFaults /\ faults' = faults + 1
    /\ currentUser(d) # Nobody
    /\ SetUser(d, Nobody, <<>>)
    /\ UNCHANGED <<remote, loaded, heeds, listeners, ui, calls, history, presses>>

\* A sign-up whose address is in use completes with false; mutant: with true.
SignUpRefusedReportsSuccess(d, r) == main' = [main EXCEPT ![d] = Append(@, SignedUp(r.name))]
SignUpRefused(d, r) == UNCHANGED main

SignUpAnswered(d, r) ==
    /\ loaded[d] /\ r \in creating[d]
    /\ creating' = [creating EXCEPT ![d] = @ \ {r}]
    /\ IF r.account \notin created
       THEN /\ created' = created \cup {r.account}
            /\ chosen' = [chosen EXCEPT ![r.account] = r.name]
            /\ SetUser(d, r.account, <<SignedUp(r.name)>>)
       ELSE SignUpRefused(d, r) /\ UNCHANGED <<created, chosen, saved>>
    /\ UNCHANGED <<profile, loaded, heeds, listeners, ui, reads, checks, signing, writes, raced,
                   crossed, late, missed, presses, faults>>

\* The account was created, but the device does not learn it.
SignUpLost(d, r) ==
    /\ faults < MaxFaults /\ faults' = faults + 1
    /\ r \in creating[d] /\ r.account \notin created
    /\ creating' = [creating EXCEPT ![d] = @ \ {r}]
    /\ created' = created \cup {r.account}
    /\ chosen' = [chosen EXCEPT ![r.account] = r.name]
    /\ UNCHANGED <<profile, auth, ui, reads, checks, signing, writes, raced, crossed, late, missed,
                   presses>>

-----------------------------------------------------------------------------
(* The main queue *)

\* What the block of listen does with the user it is called with; mutant: it
\* leaves the session.
HeardKeepsSession(s, u) == [s EXCEPT !.isLoggedIn = (u # Nobody)]
Heard(s, u) == IF u = Nobody THEN NoSession ELSE [s EXCEPT !.isLoggedIn = TRUE]

(* The listeners in ls are told of the current user; FIRAuth calls the     *)
(* block only if the user is another than the last time.                  *)
Tell(d, ls) ==
    LET u == currentUser(d)
        Called == {l \in ls : listeners[d][l].told # u}
        Of(i) == {l \in Called : listeners[d][l].instance = i}
    IN  /\ listeners' = [listeners EXCEPT ![d] =
              [l \in DOMAIN @ |-> IF l \in Called THEN [@[l] EXCEPT !.told = u] ELSE @[l]]]
        /\ app' = [app EXCEPT ![d] =
              [i \in Instances |-> IF Of(i) = {} THEN @[i] ELSE Heard(@[i], u)]]
        /\ reads' = [reads EXCEPT ![d] =
              [i \in Instances |-> [a \in Accounts |->
                 IF a = u THEN @[i][a] + Cardinality(Of(i)) ELSE @[i][a]]]]

Task(d, kind) == main[d] # <<>> /\ Head(main[d]).kind = kind
Done(d) == main' = [main EXCEPT ![d] = Tail(@)]

\* The SDK is told the user that was posted, the listeners the current one.
RunNotify(d) ==
    /\ Task(d, "notify") /\ Done(d)
    /\ heeds' = [heeds EXCEPT ![d] = Head(main[d]).user]
    /\ Tell(d, DOMAIN listeners[d])
    /\ UNCHANGED <<remote, saved, loaded, shown, root, checks, creating, signing, writes, history,
                   presses, faults>>

RunHear(d) ==
    /\ Task(d, "hear") /\ Done(d)
    /\ Tell(d, {Head(main[d]).listener})
    /\ UNCHANGED <<remote, saved, loaded, heeds, shown, root, checks, creating, signing, writes,
                   history, presses, faults>>

\* A process that ends keeps the keychain and the writes that were stored.
Die(d) ==
    /\ loaded' = [loaded EXCEPT ![d] = FALSE]
    /\ main' = [main EXCEPT ![d] = <<>>]
    /\ heeds' = [heeds EXCEPT ![d] = Nobody]
    /\ listeners' = [listeners EXCEPT ![d] = <<>>]
    /\ app' = [app EXCEPT ![d] = [i \in Instances |-> NoSession]]
    /\ shown' = [shown EXCEPT ![d] = 1]
    /\ root' = [root EXCEPT ![d] = "content"]
    /\ reads' = [reads EXCEPT ![d] = NoReads]
    /\ checks' = [checks EXCEPT ![d] = {}]
    /\ creating' = [creating EXCEPT ![d] = {}]
    /\ signing' = [signing EXCEPT ![d] = {}]
    /\ \E k \in 0..Len(writes[d]) : writes' = [writes EXCEPT ![d] = SubSeq(@, 1, k)]
    /\ late' = [late EXCEPT ![d] = {}]
    /\ missed' = [missed EXCEPT ![d] = {}]
    /\ UNCHANGED <<remote, saved, chosen, raced, crossed>>

\* addUserToDB, under the user who is current when the completion runs; the
\* app dies if there is none.
RunSignedUp(d) ==
    /\ Task(d, "signedUp")
    /\ IF currentUser(d) = Nobody
       THEN Die(d)
       ELSE /\ Done(d)
            /\ writes' = [writes EXCEPT ![d] =
                 Append(@, [by |-> heeds[d], account |-> currentUser(d), name |-> Head(main[d]).name])]
            /\ UNCHANGED <<remote, saved, loaded, heeds, listeners, ui, reads, checks, creating,
                           signing, history>>
    /\ UNCHANGED <<presses, faults>>

-----------------------------------------------------------------------------
(* Answers of the database *)

\* No listener of the object was last called with another user.
Current(d, i, a) == \A l \in DOMAIN listeners[d] :
                       listeners[d][l].instance = i => listeners[d][l].told \in {a, Unheard}

\* Mutant: an answer that comes twice.
AwaitedOrNot(d, i, a) == TRUE
Awaited(d, i, a) == reads[d][i][a] > 0

\* setUserData answers an object.
SetSession(d, i, a, u) ==
    /\ Awaited(d, i, a)
    /\ reads' = [reads EXCEPT ![d][i][a] = @ - 1]
    /\ app' = [app EXCEPT ![d][i].session = u]
    /\ late' = [late EXCEPT ![d] = IF Current(d, i, a) THEN @ \ {i} ELSE @ \cup {i}]
    /\ missed' = [missed EXCEPT ![d] = IF u = Nobody THEN @ \cup {i} ELSE @ \ {i}]
    /\ UNCHANGED <<remote, auth, shown, root, checks, creating, signing, writes, chosen, raced,
                   crossed, presses>>

ReadAnswered(d, i, a) ==
    /\ SetSession(d, i, a, IF Seen(d, a) = NoName THEN Nobody ELSE a)
    /\ UNCHANGED faults

ReadFails(d, i, a) ==
    /\ faults < MaxFaults /\ faults' = faults + 1
    /\ SetSession(d, i, a, Nobody)

Taken(d, n) == \E a \in Accounts : Seen(d, a) = n
\* Some other registration found the name free and has not written it yet.
Held(n) == \E e \in Devices :
              \/ \E r \in creating[e] : r.name = n
              \/ \E i \in DOMAIN main[e] : main[e][i] = SignedUp(n)
              \/ \E i \in DOMAIN writes[e] : writes[e][i].name = n
\* A write that waits on the device hides who has the name on the server.
Hidden(d, n) == \E a \in Accounts : profile[a] = n /\ Seen(d, a) # n

\* The completion of isUniqueUsername in registerCheck; mutant: it ignores
\* the answer.
ProceedsAnyway(taken) == TRUE
Proceeds(taken) == ~taken

CheckAnswered(d, r) ==
    /\ r \in checks[d]
    /\ checks' = [checks EXCEPT ![d] = @ \ {r}]
    /\ IF Proceeds(Taken(d, r.name))
       THEN /\ creating' = [creating EXCEPT ![d] = @ \cup {r}]
            /\ raced' = IF Held(r.name) \/ Hidden(d, r.name) THEN raced \cup {r.name} ELSE raced
       ELSE UNCHANGED <<creating, raced>>
    /\ UNCHANGED <<remote, auth, ui, reads, signing, writes, chosen, crossed, late, missed, presses,
                   faults>>

\* Answered from the cache of an offline device, which need not hold the
\* document that has the name; or with an error, which registerCheck unwraps.
CheckAnsweredOffline(d, r) ==
    /\ faults < MaxFaults /\ faults' = faults + 1
    /\ r \in checks[d]
    /\ checks' = [checks EXCEPT ![d] = @ \ {r}]
    /\ creating' = [creating EXCEPT ![d] = @ \cup {r}]
    /\ raced' = raced \cup {r.name}
    /\ UNCHANGED <<remote, auth, ui, reads, signing, writes, chosen, crossed, late, missed, presses>>

CheckFails(d) ==
    /\ faults < MaxFaults /\ faults' = faults + 1
    /\ checks[d] # {}
    /\ Die(d)
    /\ UNCHANGED presses

\* The SDK delivers the writes of the account it acts for, in order.
Deliver(d, i) ==
    /\ i \in DOMAIN writes[d] /\ writes[d][i].by = heeds[d]
    /\ \A j \in 1..(i - 1) : writes[d][j].by # heeds[d]
    /\ profile' = [profile EXCEPT ![writes[d][i].account] = writes[d][i].name]
    /\ writes' = [writes EXCEPT ![d] = SubSeq(@, 1, i - 1) \o SubSeq(@, i + 1, Len(@))]
    /\ UNCHANGED <<created, auth, ui, reads, checks, creating, signing, history, presses, faults>>

-----------------------------------------------------------------------------
(* The screens *)

Press == presses < MaxPresses /\ presses' = presses + 1

\* addStateDidChangeListener, which calls the new listener; mutant: it is not.
ListenUncalled(d) ==
    /\ listeners' = [listeners EXCEPT ![d] = Append(@, [instance |-> shown[d], told |-> Unheard])]
    /\ UNCHANGED main
Listen(d) ==
    /\ listeners' = [listeners EXCEPT ![d] = Append(@, [instance |-> shown[d], told |-> Unheard])]
    /\ main' = [main EXCEPT ![d] = Append(@, Hear(Len(listeners[d]) + 1))]

\* ContentView.onAppear: on the first showing and whenever it comes back.
Appear(d) ==
    /\ root[d] = "content"
    /\ Cardinality({l \in DOMAIN listeners[d] : listeners[d][l].instance = shown[d]}) < MaxListeners
    /\ Listen(d)
    /\ UNCHANGED <<remote, saved, loaded, heeds, ui, calls, history, presses, faults>>

Busy(d) == \/ checks[d] # {} \/ creating[d] # {} \/ signing[d] # {}
           \/ \E i \in DOMAIN main[d] : main[d][i].kind = "signedUp"
Cross(d) == crossed' = IF Busy(d) THEN crossed \cup {d} ELSE crossed

\* loginCheck and registerCheck look at isLoggedIn at once, before any
\* answer, and show the feed if an earlier attempt has set it.
ShowFeed(d) == root' = [root EXCEPT ![d] = IF Visible(d).isLoggedIn THEN "feed" ELSE @]

LogIn(d, a) ==
    /\ Press /\ HomeShown(d)
    /\ signing' = [signing EXCEPT ![d] = @ \cup {a}]
    /\ ShowFeed(d) /\ Cross(d)
    /\ UNCHANGED <<remote, auth, app, shown, reads, checks, creating, writes, chosen, raced, late,
                   missed, faults>>

Register(d, r) ==
    /\ Press /\ HomeShown(d)
    /\ checks' = [checks EXCEPT ![d] = @ \cup {r}]
    /\ ShowFeed(d) /\ Cross(d)
    /\ UNCHANGED <<remote, auth, app, shown, reads, creating, signing, writes, chosen, raced, late,
                   missed, faults>>

\* goToLogin puts a new FirebaseSession on the screen and signs out through
\* the old one, which keeps its listeners.
LogOut(d) ==
    /\ Press /\ FeedShown(d) /\ loaded[d]
    /\ shown[d] < MaxInstances /\ shown' = [shown EXCEPT ![d] = @ + 1]
    /\ root' = [root EXCEPT ![d] = "content"]
    /\ app' = [app EXCEPT ![d][shown[d]] = NoSession]
    /\ IF saved[d] = Nobody THEN UNCHANGED <<saved, main>> ELSE SetUser(d, Nobody, <<>>)
    /\ UNCHANGED <<remote, loaded, heeds, listeners, calls, history, faults>>

\* PublicSessionView unwraps the session; SessionsView of no user asks for a
\* document without a name.  Either ends the process.
UseFeedWithoutSession(d) ==
    /\ Press /\ FeedShown(d) /\ Visible(d).session = Nobody
    /\ Die(d)
    /\ UNCHANGED faults

Restart(d) ==
    /\ faults < MaxFaults /\ faults' = faults + 1
    /\ Die(d)
    /\ UNCHANGED presses

-----------------------------------------------------------------------------
Next == \E d \in Devices :
           \/ Load(d)
           \/ \E a \in Accounts : \E ok \in BOOLEAN : SignInAnswered(d, a, ok)
           \/ SignedOutByForce(d)
           \/ \E r \in Registration : SignUpAnswered(d, r) \/ SignUpLost(d, r)
           \/ RunNotify(d)
           \/ RunHear(d)
           \/ RunSignedUp(d)
           \/ \E i \in Instances : \E a \in Accounts : ReadAnswered(d, i, a) \/ ReadFails(d, i, a)
           \/ \E r \in Registration : CheckAnswered(d, r) \/ CheckAnsweredOffline(d, r)
           \/ CheckFails(d)
           \/ \E i \in DOMAIN writes[d] : Deliver(d, i)
           \/ Appear(d)
           \/ \E a \in Accounts : LogIn(d, a)
           \/ \E r \in Registration : Register(d, r)
           \/ LogOut(d)
           \/ UseFeedWithoutSession(d)
           \/ Restart(d)

Spec == Init /\ [][Next]_vars

(* The queues run, a ContentView that is shown appears, and the servers     *)
(* answer in the end.                                                     *)
Fairness == \A d \in Devices :
               /\ WF_vars(Load(d))
               /\ WF_vars(RunNotify(d) \/ RunHear(d) \/ RunSignedUp(d))
               /\ WF_vars(Appear(d))
               /\ \A i \in Instances, a \in Accounts : WF_vars(ReadAnswered(d, i, a))

FairSpec == Spec /\ Fairness

-----------------------------------------------------------------------------
(* Properties *)

TypeOK ==
    /\ created \subseteq Accounts
    /\ profile \in [Accounts -> Names \cup {NoName}]
    /\ saved \in [Devices -> Users]
    /\ loaded \in [Devices -> BOOLEAN]
    /\ main \in [Devices -> Seq([kind : {"notify", "hear", "signedUp"}, user : Users,
                                 name : Names \cup {NoName}, listener : Nat])]
    /\ heeds \in [Devices -> Users]
    /\ listeners \in [Devices -> Seq([instance : Instances, told : Users \cup {Unheard}])]
    /\ app \in [Devices -> [Instances -> [session : Users, isLoggedIn : BOOLEAN]]]
    /\ shown \in [Devices -> Instances]
    /\ root \in [Devices -> {"content", "feed"}]
    /\ reads \in [Devices -> [Instances -> [Accounts -> Nat]]]
    /\ checks \in [Devices -> SUBSET Registration]
    /\ creating \in [Devices -> SUBSET Registration]
    /\ signing \in [Devices -> SUBSET Accounts]
    /\ writes \in [Devices -> Seq([by : Users, account : Accounts, name : Names])]
    /\ chosen \in [Accounts -> Names \cup {NoName}]
    /\ raced \subseteq Names
    /\ crossed \subseteq Devices
    /\ late \in [Devices -> SUBSET Instances]
    /\ missed \in [Devices -> SUBSET Instances]
    /\ presses \in 0..MaxPresses
    /\ faults \in 0..MaxFaults

Notifying(d) == \E i \in DOMAIN main[d] : main[d][i].kind = "notify"
Hearing(d, l) == \E i \in DOMAIN main[d] : main[d][i] = Hear(l)

(* Once no task is left that would tell it, every listener was last called *)
(* with the current user, and the Firestore SDK acts for the current user: *)
(* neither the start from the keychain, nor a late registration, nor calls *)
(* left out because the user had not changed, leave one behind.           *)
EverybodyTold ==
    \A d \in Devices : ~Notifying(d) =>
       /\ heeds[d] = currentUser(d)
       /\ \A l \in DOMAIN listeners[d] :
             listeners[d][l].told = currentUser(d) \/ Hearing(d, l)

Listens(d) == \E l \in DOMAIN listeners[d] :
                 listeners[d][l].instance = shown[d] /\ ~Hearing(d, l)

(* The FirebaseSession on the screen says whether somebody is signed in    *)
(* and shows nobody else, once it was told and its reads are answered,    *)
(* unless the last answer was for a user of before.                       *)
ScreenFollows ==
    \A d \in Devices : ~Notifying(d) /\ Listens(d) =>
       /\ Visible(d).isLoggedIn = (currentUser(d) # Nobody)
       /\ \/ \E a \in Accounts : reads[d][shown[d]][a] > 0
          \/ shown[d] \in late[d]
          \/ Visible(d).session \in {Nobody, currentUser(d)}

(* users/{a} carries the name a was registered with, unless a device began *)
(* a sign-in or sign-up before the one under way had ended: addUserToDB    *)
(* writes for the user who is current when it runs.                       *)
ProfileIsOwn ==
    crossed = {} => \A a \in Accounts : profile[a] \in {NoName, chosen[a]}

(* Two accounts have the same user name only if one registration checked   *)
(* it while another had found it free and not written it yet, or offline, *)
(* or on a device that held back a write that would give it up.            *)
UniqueUnlessRaced ==
    \A a, b \in Accounts : a # b /\ profile[a] = profile[b] => profile[a] \in raced \cup {NoName}

(* In the end a signed-in device shows its user, unless the document was   *)
(* not there when it was read, the read failed, or a late answer came.     *)
EventuallyIn ==
    <>[](\A d \in Devices :
           \/ Visible(d).session = currentUser(d)
           \/ shown[d] \in late[d] \cup missed[d])
=============================================================================
