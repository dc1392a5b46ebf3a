# A verification project for Study Buddy

Study Buddy (`src/StudioSession/StudioSession/`, SwiftUI) lets students create
study rooms, find nearby ones and join them.  All its state lives in Cloud
Firestore; every view talks to it through one object, `FirebaseSession`.  The
app has no server code of its own, so what makes it correct is decided by two
things: which writes each button issues, and what the Firestore SDK (vendored
under `src/StudioSession/Pods/FirebaseFirestore/`) does with them when devices
go offline, die, switch accounts and interleave.  Both are modelled here.

Paths below are relative to `src/StudioSession/StudioSession/` (app) and
`src/StudioSession/Pods/FirebaseFirestore/Firestore/core/src/` (SDK).

## 1. Inventory

| component | state it keeps | operations | what is hard |
|---|---|---|---|
| Room operations: `FirebaseSession.swift` 255-356, `PublicSessionView.swift`, `CreateSessionView.swift`, `Session.swift` | `sessions/{s}` (members, pendingMembers, creator, id), `users/{u}.sessions`; the lists on the screen | create, join, leave, request, grant, deny, check password | a membership is kept twice and written by two independent writes; no completion, no transaction; decisions from lists loaded earlier; several devices |
| Write path of the SDK: `core/firestore_client.cc`, `core/sync_engine.cc`, `local/local_store.cc`, `local/leveldb_mutation_queue.cc`, `remote/remote_store.cc`, `remote/stream.cc`, `remote/write_stream.cc` | worker queue, a mutation queue per account on disk, batch-id counter, completions, pipeline of at most ten batches, stream state, handshake flag, idle timer | write, credential change, stream open / handshake / result / close, backoff, idle, connectivity change, restart | replies without ids, replays after a broken stream, head-of-line refusals, queue swap on account change, recycled batch ids |
| Document semantics of the SDK: `model/transform_operation.cc`, `model/set_mutation.cc`, `model/precondition.cc`, `local/local_documents_view.cc` | documents | arrayUnion, arrayRemove, set, exists precondition, reads over pending writes | idempotence under replay; an update of a missing document |
| Account session: `FirebaseSession.swift` 21-110 and 215-230, `SignUpView.swift`, `LoginView.swift`, `ProfileView.swift`, `ContentView.swift`; `FIRAuth.m` behind them | `session`, `isLoggedIn`, the listener handle, `users/{u}`; the current user, the keychain, the main queue | listen, setUserData, logIn, logOut, signUp, addUserToDB, isUniqueUsername; load, sign-in, sign-up, sign-out, notifications | late answers after a forced sign-out, a listener before the document exists, several listeners, check-then-act on user names |
| Room screen lists: `PublicSessionView.swift` 98-309 | `users`, `pendingUsers` as arrays | onAppear, answers, buttons | reads of an earlier appearance, duplicates, lookup by id after a test by name |
| Feed and nearby query: `FeedView.swift`, `FirebaseSession.swift` 127-159, `LocationManager.swift` | the location, the list of rooms | getSessionsByLoc | the box: its western edge is computed from the latitude, and geo points are compared latitude first |
| A user's rooms: `SessionsView.swift`, `FirebaseSession.swift` 177-186 | the list of rooms | getUserSessions, getSession | a listed room that does not exist, answers of an earlier appearance |
| One-shot reads of the SDK: `api/document_reference.cc`, `core/event_manager.cc`, `core/query_listener.cc`, `core/sync_engine.cc`, `core/view.cc`, `remote/online_state_tracker.cc`, `remote/remote_store.cc`, `remote/stream.cc` | listeners, views, targets, the watch stream, the online state and its timer | getDocument, listen and stop listening, stream open / close / idle, timer, snapshots, refusals | a listener that removes itself over two queues, ten seconds of doubt, views shared between calls |
| Watch stream bookkeeping: `remote/remote_event.cc`, `remote/remote_store.cc` 154-366, `local/local_store.cc` 255-368 | outstanding answers and the current flag per target, pending documents, the cache | watch, unwatch, target changes, document changes, snapshots, refusals | messages about an earlier listen of the same target; silence taken for a deletion |
| Friends: `FirebaseSession.swift` 317-337, `FriendsView.swift`, `UserView.swift` | `friends`, `pendingFriends` | requestFriend, addFriend, denyFriend | `addFriend` and `denyFriend` have no caller yet |
| Shell and templates: `StudyBuddyApp.swift`, `Persistence.swift`, `Constants.swift`, `UsernameView.swift`, `PrivateSessionView.swift` | - | - | nothing: start-up, an unused CoreData stack, colours, placeholders |

How they interact: a button calls a method of `FirebaseSession`; the method
issues one to three writes, each a task of the SDK's single worker queue; the
worker puts it in the mutation queue of the signed-in account and pushes it
into the write pipeline; the write stream carries it to the server, which
commits or refuses it; reads travel the same worker queue and see the pending
writes of their own account.  No method waits for a write, and no caller looks
at an error beyond a `print`.

What must be true of each part: the two copies of a membership agree and say
what was last asked for; a private room is entered by consent only; a room that
exists has an id, or is about to; nobody lists a room that does not exist; the
SDK delivers the writes of an account in order, at least once, under the
account that issued them, and never gets stuck.  The screen follows the user
who is signed in, and a user name has one owner.  The lists of a screen are what
the room, or the user's document, says, each entry once; the feed lists what is
near.  A read is answered once, by the server unless the device is offline, and
nothing the server said about an earlier listen counts for a later one.  `PROJECT.json` lists the
hazards at their lines.

## 2. Modules

```
Delivery ----- abstract: what the SDK promises about a queue of writes
   ^   ^
   |   |  INSTANCE (the writes of a device), also by RoomList
   |   Rooms ------- the app's room operations over the server's documents
   |     ^   ^
   |     |   RoomsProofs   theorems: types, all the safety properties, Delivery
   |   MCRooms             instances for TLC
   |
   |  refinement (ImplementsDelivery)
WritePipeline ------- the SDK's write path on one device
   ^     ^
   |     WritePipelineProofs   theorems: order, correlation, ids, accounts, Delivery
   MCWritePipeline

Account      who is signed in        OneShotRead   getDocument in the SDK
RoomScreen   lists of one room       WatchChanges  what the watch stream says
RoomList     a user's rooms             of targets that come and go
Nearby       feed and query
   each with its MC module, MCAccount and so on, and its theorems, AccountProofs
   and so on, which extend it
```

### Delivery

A client is the mutation queue of one account on one device.  `out[c]` is the
sequence of writes handed over and not yet acknowledged, split by two counters:
the first `sent[c]` are committed by the server but their responses unread, the
first `stored[c]` are on disk, the rest are tasks of the worker queue.  `Store`
is the worker running a task, `Commit` the server, `Ack` and `Refuse` the two
verdicts a device can read, `Break` a stream lost with responses unread (the
handshake resumes nothing, `remote/write_stream.cc` 73), `Crash` the process.

### Rooms

The server is `value[f]`, the set of pairs <<user, room>> in each of the three
arrays, and `doc[s]`, whether the room's document is missing, there without its
`id` field, or complete.  A call appends the writes of the method to the
device's queue (`uploadSession`, `joinSession`, ... are the same two or three
writes, in the same order, as the methods of those names); `Commit` applies the
next one: `addDocument` sets the whole document, so a replayed creation resets
both arrays; an update of a missing document is refused (`Accepts`).  The
buttons are actions with the conditions of the views: `PublicButton` is the
single button of a public room, `GrantRequest` and `DenyRequest` need
`isCreator`.  `screen[d]` keeps what the room said when it was loaded
(`members`, `pendingMembers`) and the lists on the screen, which `Reappear`
empties, `Answer` fills read by read - before or after a button was used - and
the buttons edit at once without waiting for the server.  A password is checked
by a read whose answer may come when the screen shows something else (`checks`).
Reading goes through the worker queue, so a device sees the server's state with
all its own pending writes laid over it (`Reads`); reads from the cache of an
offline device, which are older still, are not modelled.

History variables record what the last call about a pair asked for (`wanted`)
and which pairs are excused: the call was issued while another device still had
a write about the same pair on its way, or one of its writes was lost in a
crash or refused.  The code has no way to order or repair these, so no
property is claimed of them; everything else is claimed.

Abstractions: user names are distinct and so is the creator's (`isCreator`
compares names); the lists on the screen are sets; names, dates and places are
left out; the security rules are not in the repository, so any write may be
refused, up to `MaxRefusals`.

### WritePipeline

One device, several accounts.  Each action is one task of the worker queue, as
in the code: `RunWrite` is `SyncEngine::WriteMutations` with
`LocalStore::WriteLocally` and `RemoteStore::FillWritePipeline`,
`RunCredentialChange` swaps the mutation queue, recomputes the next batch id
from disk and restarts the network, and so on for stream open, handshake,
result, close with a refusal or another error, backoff, idle timer and
connectivity change.  `net` holds `write_pipeline_`, the stream state, the
handshake flag, the idle timer and what travels on the gRPC stream.  The three
`Server...` actions are the environment.

Taken as given of the server: it answers the requests of a stream in order, it
ends a stream while writes are pending only with an error (an OK status would
trip the assertion at `remote/remote_store.cc` 456), and it does not commit
requests of a stream after the device saw that stream end.  A write that is a
`RESOURCE_EXHAUSTED`, `UNAUTHENTICATED` or other passing error is
`OnStreamBroken`; one that `Datastore::IsPermanentWriteError` accepts is
`ServerReject`.  A batch holds one write, because the app never uses
`WriteBatch`.  The stream token, the watch stream and `disableNetwork` are left
out: the first is never sent in the handshake, the others do not touch writes
of this app.

### Account

A device has a keychain (`saved`), the main queue (`main`) with the tasks
`FIRAuth` leaves on it, and the `FirebaseSession` objects of its process with
their listeners.  `FIRAuth` changes the user on a queue of its own and posts a
task (`Notify`) that, when it runs, tells the Firestore SDK the user that was
posted and each listener the user who is current *then*; a listener is called
by a task of its own when it is added (`Hear`), and the block is left out when
the user is that of its last call (`addAuthStateDidChangeListener`).  `Listen`,
`LogIn`, `Register`, `LogOut` are the views; `logOut` puts a new object on the
screen and clears the old one, whose listeners stay.  `reads` counts the answers
an object awaits from `setUserData`; `RunSignedUp` is the completion that calls
`addUserToDB` for whoever is current.  Tokens, requests and their retries are an
answer that comes or fails.  Excused are sign-ins begun before another ended
(`crossed`), answers for a user of before (`late`) and reads that found no
document (`missed`): the code does not prevent them, and the properties say
that nothing else goes wrong.

### RoomScreen and RoomList

`RoomScreen` is one `PublicSessionView`: `list` are `users` and `pendingUsers`
as sequences, `sesh` the room as loaded, `view` the room as the SDK has it
with the device's own writes, `reads` the answers awaited.  The buttons test by
displayName and remove by id, as written.  `Rooms` has the same buttons over the
database, with sets for lists: it asks what the writes come to, this module what
the screen comes to.  The label "Current Members" and the buttons go by these
lists; a list is excused (`excused`) for a user somebody else changed, one the
room gained or lost since it was loaded, and one added while listed or read.
`NameOf` says who is called what; two may be called the same.

`RoomList` is `SessionsView`: `first` and `second` count the two levels of
answers; an answer without a document, or without its id, ends the app
(`RoomAnswered`).  `doc` and `sessions` are the server's, and change by the writes
of `Devices`, which travel as `Delivery` has it: the three of `uploadSession`,
none of which waits for another, and those of joining and leaving to the user's
document.  So a room may be listed although its creation was refused, and a
creation sent again after a broken stream takes the id of a listed room away
(`Apply`); `spoiled` remembers the rooms of which either happened.  The device
that shows the list reads the server's documents; it is one without writes
of its own under way.

### Nearby

Degrees are integers; `LatStep` and `LonStep` stand for the two products of
`getSessionsByLoc`.  `Less` is the SDK's order of GeoPoints, `Lesser` and
`Greater` the bounds as computed, `InBox` what they were meant to enclose.  The
feed asks in `Appear` at whatever place it has, `Here`, and shows answers as
they come: the server's (`QueryAnswered`), an error (`QueryFails`), or, on an
offline device, what the cache has of the query, which is no error either
(`QueryAnsweredOffline`, `api/query_core.cc` 145).  `cached` are the rooms in
the cache: those the server answered with, those created here, and those other
screens have read (`LoadRoom`).  `seen` are the rooms the user was shown or created.
Creating a room is one step here; `Rooms` and `RoomList` have its three writes.

### OneShotRead

`getDocument` is a listener that removes itself on its first event.  Two queues:
`worker` runs `AddQueryListener` and `RemoveQueryListener` with everything they
call (event manager, sync engine, remote store), `main` delivers events to the
app.  One document is one query, one target and one view.  `request[k]` is what
the current stream knows of a target; `onlineState`, `failures` and `timer` are
the tracker's.  `RemoveQueryListener` with `StopListening` leaves an open stream
idle and resets the tracker of one that is not open; the stream's closing, the
idle timer, a restart of the network, a refusal and snapshots are actions of
their own.  An answer from the cache of a document that is not there is an
error to the app; it counts as an answer here.  The assertions of the code are
recorded in `broken`.

### WatchChanges

The same stream, seen from the targets: requests and responses are queues, the
server answers each request, in between sends documents, CURRENT, RESET and
snapshots, and `state[k]` is the aggregator's `TargetState` (`outstanding`,
`current`).  Messages carry, as history, the listen they were meant for (`gen`).
`ReceiveSnapshot` is `CreateRemoteEvent` with `LocalStore::ApplyRemoteEvent` and
the view's sync state.  Taken as given of the server: every request is answered
once, in order, an unwatch of a target it refused included; a snapshot may come
while a target is not yet CURRENT; snapshots carry resume tokens, so that every
active target is part of the event.  A target is one document, as in all reads
of this app that name a document; existence filters, which count documents of
queries, and limbo resolutions, which only queries need, are left out.

### The rest of the plan

Queries of several documents in `WatchChanges`, with existence filters, and the
theorems of `WatchChanges` for them.

## 3. What TLC checks

What is proved for all constants is not checked again where the run is there for
another question: the type invariants of `Rooms`, `Nearby` and `RoomList` and
`RowsAreInBand` have no run, and each of the other properties of `Rooms` has one.
One account on two devices, and convergence under refusals by the rules, have no
run for the same reason: the theorems about `Rooms` hold for any `DeviceUser` and
`MaxRefusals`.

| run | question | bounds | distinct states |
|---|---|---|---|
| `rooms_public` | do the arrays of a public room end up as asked and in agreement, through a fault? | 2 accounts, 2 phones, 1 room, 3 calls, 1 fault, accounts symmetric | 0.5 M |
| `rooms_private` | does anybody get in without consent, through request, grant, deny, password; do all queues drain and memberships agree in the end? | as above, 4 calls, or 3 and 1 fault, or 2 and 1 refusal; queues of 3 writes together; fair | 0.3 M |
| `rooms_half_created` | can an app die of a room without an id? (yes) | 1 call, 1 fault | - |
| `pipeline` | order, ids, correlation and accounts in the SDK; does it implement `Delivery`; does the last account's queue drain? | 2 accounts, pipeline of 2, 1 refusal, 4 writes, 1 switch and 2 faults, or 3 writes, 2 switches and 1 fault; fair | 0.3 M |
| `account_session` | do listeners, SDK and screen follow the user, is whoever is signed in shown in the end? | 1 device, 2 accounts, 2 names, 2 objects with 2 listeners each, 2 presses and 1 fault or 1 press and 2 faults; fair | 0.3 M |
| `account_names` | is a profile's name one's own, has a name one owner? | 1 device, 3 accounts, 2 names, 1 object without listeners, 4 presses, 2 faults | 0.7 M |
| `screen_lists` | are the lists the room's, each user once? | 2 users, a public or a private room, 2 appearances, 2 checks, 3 buttons, 1 change | 2.3 M |
| `screen_namesakes` | can the button end the app, which finds by name and removes by id? (yes) | as above, both users of one name | - |
| `list_rooms` | can every listed room be loaded, are the rows the rooms? | 2 rooms, 2 devices, 2 appearances, 3 calls, 2 faults, 4 of these together, rooms and devices symmetric | 1.8 M |
| `nearby_feed` | does the query miss anything near, and are the rows of the last query? | 2 rooms, 5 places, 2 moves, 3 appearances, 1 query that fails or meets the device offline, steps 1 and 2 | 2.4 M |
| `read_once` | is a read answered, once, rightly, without leaks? | 2 reads of one document with 2 of break, restart and refusal, or of two documents with 1; fair | 0.2 M |
| `watch_again` | does anything said of an earlier listen count for a new one, is a listener told in the end? | 1 target, 3 listens, 3 messages each way, 2 commits, the second without faults, 1 RESET, 1 refusal, 1 break; fair | 0.4 M |

Why these bounds are enough to be of interest.  Three calls are a creation and
two calls that race about its room: two joins, a join and a leave, a request
and its grant; a creation is three writes and a grant three, so a queue holds
up to nine and a fault can fall between any two; in `rooms_private` the queues
hold three together.  One fault already loses a
tail or replays a head in every position.  The fourth call of `rooms_private` is
the second decision about a request, from a list loaded before the first; it is
checked without a fault, and `EntryByConsent` below has no bounds.  The pipeline of two (ten in the
code) is full, refilled and overtaken with four writes.  One switch of account leaves writes of the old
one on the worker queue, the second comes back to an account whose queue was
left half delivered.

Names need a run of their own.  The ways to one name for two accounts are long:
the longest takes three accounts and three presses, a registration that crosses a
log-in, is completed for the account that logged in, and so leaves a write that
waits to take that account's name from it, and another that is checked meanwhile.
Neither listeners nor a second object have a part in them.

Two presses are a sign-in that overlaps a sign-up, or a log-out followed by
either, and two objects with two listeners the process that has logged out once
and shown its `ContentView` twice.  Two appearances of a screen let the answers
of the first arrive in the second.  Two reads of one document share a view, hand
it over or follow each other, and two of two documents share the stream.  Three
listens with three messages under way each way are unwatch and watch again, twice,
before the first answer.  The rooms of `list_rooms` are created by one device and
joined by the other, and two faults replay a creation and lose what follows it, or
refuse it and its id.  The five places of `nearby_feed` are one each of the
cases the order of GeoPoints tells apart.

Six MC modules bound their instance further with `Affordable`, which trades one
bound against another (the second account switch is checked with one fault
less, a second decision about a request with none) and is a conjunct of every step
of `AffordableSpec`, or, in `rooms_private`, a state constraint, which comes to the
same.  It only refuses steps that count against a bound or add to a queue - calls,
faults, changes by others - and no such step is assumed fair, so the liveness
properties mean the same.

`CHECK_DEADLOCK` is off throughout: with all calls made and all queues empty the models stop, as the
program waits for its users.

Symmetry.  `rooms_public` may swap the two accounts together with their phones,
because nothing in a public room tells them apart; the properties name no account
and no device.
In `list_rooms` rooms and devices may be swapped: all start alike, and no property
or action names one.  `rooms_private` has no symmetry, because one account
knows the password and creates the room and the other has to ask, and the runs with a liveness property use none.

Fairness.  `FairSpec` of `Rooms`: a device that can reach the server keeps
running its worker queue and its stream, so `Store`, `Commit`, `Ack` are weakly
fair, and so is the refusal of a write the server cannot accept; nothing is
assumed of users, faults or refusals by rules.  `FairSpec` of `WritePipeline`:
the worker queue runs its tasks in order, timers fire, streams open and the
server answers; nothing is assumed of the idle timer, the app's calls, account
changes or faults, which are finite in number.  `Account`: `FIRAuth` reads the
keychain, the main queue runs, a `ContentView` that is shown appears, and reads
are answered; no more is needed for `EventuallyIn`, which asks nothing of presses
and requests.  `OneShotRead`: both queues run, timers fire, an attempt to connect ends
one way or the other, and a server that has a request answers it.
`WatchChanges`: both sides take their messages, a stream that is needed opens, and
the server, which has finitely much to say, says it and closes it with a snapshot.

What the runs show.  All properties hold except those of two runs, which are
disagreements within the code.  `rooms_half_created`: `Session.init` unwraps the id of every room (`Session.swift` 31) but
`uploadSession` creates the room without one and adds it in a second write
(`FirebaseSession.swift` 258-279).  A phone that loads nearby rooms in between
dies; if the creator's phone dies in between (`Lost` in `IdFollows`), every
phone that finds the room does.  `screen_namesakes`: the buttons of a room test the
list by name and unwrap the index they find by id (`PublicSessionView.swift` 104,
231).  Nothing keeps names apart (`raced` below), and with a namesake among the
members the index is not there.

Elsewhere the properties hold because they name what they do not promise.  The
code goes wrong in the following ways; each is a reachable behaviour of the
model and an excuse or an action of its own there, not an invariant.

- The log-in and sign-up buttons look at `isLoggedIn` at once
  (`SignUpView.swift` 94, `LoginView.swift` 76).  A second press finds what the
  first has set and shows the feed before the user was read; `session.session!`
  then ends the app (`UseFeedWithoutSession` of `Account`).
- A user name is checked in one read and taken in a later write: two
  registrations in between both get it (`raced`).  The read sees the device's own
  pending writes in place of what the server has, so one that waits to give an
  account another name hides who has the old one (`Hidden` in `Account`).  `isCreator` and the buttons of
  a room go by that name.
- `addUserToDB` writes for the user who is current when it runs, not the one it
  was called for (`crossed`), and a listener reads the profile of a new account
  before it is written (`missed`).
- A room is listed without waiting for its creation.  `SessionsView` dies of a listed
  room whose creation or id was refused, and of a whole one whose creation is sent
  again after a broken stream, until its id is (`spoiled` in `RoomList`).
- The western edge of the nearby query is reckoned from the latitude
  (`FirebaseSession.swift` 132), and GeoPoints are ordered by latitude first, so
  the query returns a band of latitudes around the globe: `RowsAreInBand` is all
  that can be said.  Next to a pole or the date line its bounds are no places, and
  making them ends the app (`ended` in `Nearby`).  The feed asks before the
  first fix, about (0, 0), and not again while it is shown.  Offline it shows what
  the cache has as if it were all.
- `RemoteStore::StopListening` sets the online state back to Unknown while an
  attempt to connect goes on, and only the start of a stream sets the timer
  (`remote/remote_store.cc` 163, 187): a read after that waits for the attempt to
  end, not ten seconds.  `EventuallyAnswered` therefore needs the fairness of the
  attempt.
- `TargetState` keeps `current_` when a target is added back before its removal was
  answered (`remote/remote_event.cc` 161; `stale` in `WatchChanges`), and the refusal of
  a target that was given up, or given up and asked for again, leaves its count of
  outstanding answers wrong (`remote/remote_store.cc` 357; `leaked`).  The next stream
  counts anew, but what was recorded under a wrong count or flag stays in the cache:
  a target that was `leaked` is `stale` from then on.

Each property is exercised by a mutant of the code: an operator such as
`unjoinSessionOneSided` or `NextIdFromOwnQueue` that stands beside the one it
mutates, is used by no specification, and breaks the property if put in its
place.

## 4. What is proved

`RoomsProofs.tla`, checked by TLAPS for all users, devices, rooms and bounds
that satisfy `RoomsAssumption` (accounts of devices are users, the placeholders
`Nobody` and `NoRoom` are neither users nor rooms, bounds are naturals):

- `TypeCorrect`: `Spec => []TypeOK`, which includes `sent <= stored <= Len(out)`
  for each queue.  `TypeOK` is inductive; one step per action.
- `ServerConverges`: `Spec => []Converged`.  `Converged` speaks only of pairs
  nobody holds a write about, so it is not inductive.  `Converging` says what
  is true on the way: for a pair that is not excused at most one device holds
  writes about it, the last of them is the one that was wanted, and once the
  server has committed that one it shows it.  A replay (`Break`) only forgets
  that it was committed; a refusal or a crash excuses what it loses; a call by
  another device while writes are on their way excuses the pair, and a call
  without such contention replaces the last write (here the proof needs that no
  call writes a pair of an array twice, lemma `CallsSingle`).  The lemmas
  `ConcatQueue`, `TailQueue`, `PrefixQueue` say what appending, acknowledging
  and crashing do to the positions of a queue.

For the rest, `StepKinds` first sorts the
steps of `Next` into creations, other calls, commits, writes that leave a queue,
deaths and the rest, and each theorem argues by those kinds:

- `NothingDangles`: `Spec => []NoDanglingSession`.  Inductive is
  `CreationFirst`: as long as a room does not exist, every uncommitted write
  that names it waits behind its creation in the same queue, and only a screen
  of the device that creates it shows it - or the creation was lost.
- `MembershipsAgree`: `Spec => []MembershipAgrees`.  Follows from `Converged`
  once `wanted` is the same for both copies (`WantedAgrees`): every call
  touches both or neither, and a creation may clear the members only because
  the id it draws occurs nowhere yet (`Unheard`).
- `IdsFollow`: `Spec => []IdFollows`.  `IdComing`: in every queue the write of
  the id stands right behind the creation or was lost, so a creation that is
  replayed after a broken stream, which takes the id away again, still has one
  coming.
- `EntryByConsent`: `Spec => []PrivateByConsent`.  `ConsentFirst`: the writes on
  their way are consented to as well, and every pending request, on the server,
  on its way or on a screen, was made; consent is never withdrawn.
- `Delivers`: `Spec => D!Spec`.  The devices of `Rooms` do to their queues only what
  `Delivery` allows, with at most three writes per call.  Together with
  `Implements` below this ties the two halves of the project: what `Rooms` builds
  on is what the SDK's write path does.

`NearbyProofs.tla`, from `NearbyAssumption` (places and (0, 0) are coordinates,
steps are positive, `NoFix` and `NoPlace` are no coordinates), for any rooms,
places, globe and steps:

- `TypeCorrect`: `Spec => []TypeOK`.
- `NoneMissed`: `Spec => []MissesNoneNearby`, whoever answers.  What lies in the intended box lies
  between the two bounds, wherever the western one was put (lemma on `Less`): the
  first comparison is of latitudes, and the box is open.  Inductive is that the
  rows are what the query of the last answer found among rooms that include those
  it must know, that whatever was shown or created here is in the cache (`seen`), and
  that places never change.
- `InBand`: `Spec => []RowsAreInBand`, from the same order.
- `OfLastQuery`: `Spec => []RowsAreOfLastQuery`.  Inductive is that at most
  one query is under way unless two overlapped, and that it is the latest.

`RoomListProofs.tla`, from `RoomListAssumption` (the bounds are naturals), for any
rooms, devices and bounds:

- `TypeCorrect`: `Spec => []TypeOK`.
- `ReadyUnlessSpoiled`: `Spec => []RoomsAreReady`.  Inductive is `Ready`: while a room
  that is not spoiled is not whole, it is not listed and not being read; the write of
  its id is uncommitted and ahead of each write of its queue that
  lists it (`Ahead`, `Coming`), and whoever has opened it is the device that has
  that write queued.  A refused id, or a creation that comes again for a whole room,
  spoils it; every other step, a device's death included, keeps the order.
- `RowsAgree`: `Spec => []ListAgrees`.  `ListAgrees` is inductive together with
  `Excusing`: two reads of the ids are under way only after an appearance that
  excused every room, so that an answer that counts finds no row and no read of
  its rooms.  `RowAppended` counts a row that is added.

`WritePipelineProofs.tla`, from `PipelineAssumption` (the pipeline holds at least
one batch, the bounds are naturals), for any accounts, limit and bounds.  One
invariant, `Inv`, serves all the theorems; `Stepping` has one lemma per action.

- `TypeCorrect`: `Spec => []TypeOK`.
- `InOrder`: `Spec => []PipelineIsPrefix`.  What `FillWritePipeline` does is said
  once (`Filling`): given a pipeline that holds the first k batches of a queue
  sorted by id, seeking past the id of the last one (`Seeking`) finds the
  (k+1)-st, and what is added makes it the prefix the limit allows.  The queues
  are sorted because ids are handed out in order (`BatchIdsUnique`).
- `StreamCarries`: `Spec => []StreamCarriesPipeline`.  `Carries` adds to it that the
  server refuses a write only after the handshake.  Every way a stream is given
  up ends in one that carries nothing (`Silent`: lemmas `Stopping`, `Restarting`,
  `Reopening`, `Refusing`), whatever is left in the pipeline; an answer moves one
  message from `wire` to `replies` (`Moved`).
- `UniqueIds`: `Spec => []BatchIdsUnique`.  The counter read from the disk is past
  the ids of all accounts (`Recounting`), and a batch is appended above them all
  (`Queueing`); what leaves is the first (`Removing`), found by its id.
- `RightAccounts`: `Spec => []RightAccount`.  Inductive is `Follows`: on the worker
  queue a write has the account of the task before it, and the app's account is
  that of the last task.
- `OnlySettledLeave`: `Spec => LeavesOnlySettled`, an action property.  `Decided`
  says that unread replies are about committed writes and a refusal about the
  refused one; past the handshake those are the head of the pipeline
  (`Carrying`), which is the head of the queue (`First`), and only the head leaves.
- `Implements`: `Spec => ImplementsDelivery`, the refinement of `Delivery`.  A client
  is an account; the part of its writes that only the worker queue knows is the
  ascending list of their numbers (`Ascending(Unrun(u))`), so that the proof needs
  what such a list becomes when its largest number joins (`ListGrows`) and when
  its least leaves (`ListShrinks`).  These are the two cases because the tasks are
  in the order of their numbers (`InTurn`), which with `Inv` and the existence of
  the lists (`Listed`) is the invariant.  Then each action has a lemma: a call is
  `Dispatch`, a task that runs is `Store`, a commit is `Commit`, a result that is
  read is `Ack`, a refusal that is read is `Refuse` - both take the head of the
  queue, for the reason `OnlySettledLeave` gives -, a stream lost with replies
  unread, also by a change of account, is `Break` of the account it was for, a
  restart is `Crash` of all accounts, and the rest changes nothing of it.

`AccountProofs.tla`, from `AccountAssumption` (registered names are names of accounts,
the three markers are none, the bounds are naturals), for any devices, accounts,
names and bounds.  `Inv` has a part for the tasks of the main queue, one for the
screens, one for accounts, one for attempts and one for names; the first two are
about one device and a step of another leaves them alone (`StepsElsewhere`).

- `TypeCorrect`: `Spec => []TypeOK`.  Needs that `Hear` names a listener that exists
  (`Tasks`).
- `EverybodyIsTold`: `Spec => []EverybodyTold`.  `Posted`: the last notification on
  the main queue is of the user who is current, because every change of user posts
  one, the start included; `Told`: without one on the queue, SDK and listeners know.
- `ScreenIsRight`: `Spec => []ScreenFollows`.  A user that did not change is not
  told again, so what an object says of `isLoggedIn` goes back to *some* of its
  listeners that was told so (`Shows`), while the user it shows is the one *all* of
  them were told of last (`Settled`), unless an answer is awaited or came late.
- `OwnProfiles`: `Spec => []ProfileIsOwn`.  `OneAttempt`: unless presses cross, a
  device has one registration being checked, created or completed, or sign-ins,
  never two of these; so the user who is current when a completion runs is the one
  it is for, or nobody (`OwnName`).
- `UniqueNames`: `Spec => []UniqueUnlessRaced`.  `Unique`: a name that was not raced
  for is in one place at most of all registrations, completions, writes and
  profiles of all devices; a step moves it from one kind of place to the next
  (`NameSignsUp`, `NameIsWritten`, `NameIsDelivered`) or takes it away, and a check
  that finds it free finds it nowhere (`Freed`).  The proof of `Freed` did not go
  through at first: a waiting write hides the owner of a name, which no run had
  the bounds to show.  `raced` says so now, and `account_names` shows the case.

`RoomScreenProofs.tla`, from `RoomScreenAssumption` (the user and the creator are
users, users have names, the bounds are naturals), for any users, names and bounds:

- `TypeCorrect`: `Spec => []TypeOK`.
- `ListsAccount`: `Spec => []ListsAgree`.  Inductive with the types.  The places of a
  user in a list are counted (`Times`), and a lemma each says what appending
  (`OneMore`) and removing (`OneLess`, `RemovesOne`) do to the count.

`OneShotReadProofs.tla`, from `OneShotReadAssumption` (every call reads some document,
the bounds are naturals), for any documents, calls and bounds.  `Inv` has three parts.
`Answering`: a call is added once and removed later, events are of listeners that
were added, an error is the last event, whoever was answered is muted or gone.
`Tracking`: targets are what is listened to, the timer runs only while a stream is
wanted and the state unknown, the stream idles only without targets.  `InSync`: a
view in sync and the events of it are no older than the calls they were made for.

- `TypeCorrect`: `Spec => []TypeOK`.
- `OneAnswer`: `Spec => []AnsweredOnce`.
- `TargetsAreListeners`: `Spec => []NoTargetLeaks`.
- `NeverAsserts`: `Spec => []AssertionsHold`.
- `FreshAnswers`: `Spec => FreshUnlessShared`, an action property.

`WatchChangesProofs.tla`, from `WatchChangesAssumption` (the markers `Absent` and
`Nothing` are no values of what they mark, the bounds are naturals), for any targets
and bounds.  `Inv` says of every target (`Watching`): it is watched and unwatched in
turn, and the last request is what is wanted; what the server says after the last
answer is about the present listen (`SaidNow`); documents come in order and were
true at their time (`InOrder`, `AllTrue`); and whoever takes the target to be
current knows, or is about to be told before it, what a snapshot vouches for
(`Showing`).  The last two hold of the two queues together, so each message has a
lemma about the target it names and `HearingOther` about all others.

- `TypeCorrect`: `Spec => []TypeOK`.
- `CountsAreRight`: `Spec => []CountsUnlessRejected`.  Each stream starts with right
  counts, whatever a refusal did to those of the stream before.
- `NoStraying`: `Spec => []NothingStrays`.
- `TruthfulCache`: `Spec => []CacheIsTruthful`.
- `FreshViews`: `Spec => []SyncedIsFresh`.

Only model-checked: liveness (`EventuallyAgrees`, `LastAccountDrains`,
`EventuallyIn`, `EventuallyAnswered`, `EventuallySynced`), which is out of the
prover's reach.

## 5. Not modelled

- Friends: `requestFriend` is one `arrayUnion`; `addFriend` and `denyFriend` have no
  caller; `FriendsView` reads its list as `RoomScreen` does.  `updateProfile`,
  `updateUsername`, `chooseUsername`, `unbind`, `getSessions` and
  `getSessionMembers` have no caller either.
- In the SDK: queries of several documents with their limbo documents and existence
  filters, cache-only and server-only reads, snapshot listeners, transactions,
  bundles, `disableNetwork`, garbage collection of the cache, and
  the credentials behind a stream.  The app uses the first (the nearby query, the
  check of a user name), but only as a set of documents, which is what `Nearby`
  and `Account` make of it; the others it does not use or cannot observe.
- Stale reads of an offline device: `Rooms` and `RoomList` read the server's state,
  `Rooms` under the device's own writes; `RoomScreen` lets the room differ from what
  was loaded.  `Nearby`, and `Account` for names, have answers of the cache.
- Security rules: not in the repository, represented by arbitrary refusals.
- Start-up, CoreData template, colours, layout.
- The other pods - gRPC, BoringSSL, Abseil, LevelDB, protocol buffers and the
  rest of Firebase - which are almost all of the repository's lines.  The app's own
  logic does not call them; where the modelled code does, they are a stream that
  carries messages in order or breaks, a store that keeps what was committed to it,
  and a server that answers.  The share of the repository's lines that is modelled
  is small for that reason, the share of the app's own is not.
