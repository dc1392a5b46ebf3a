--------------------------- MODULE OneShotRead ---------------------------
(***************************************************************************)
(* Reading a document once (DocumentReference::GetDocument) in the         *)
(* Firestore SDK: a listener that is removed by its first event, the event *)
(* manager and the views it listens to, the watch stream that answers, and *)
(* the tracker that after ten seconds, or one failed attempt, calls the    *)
(* device offline, so that what is cached is answered.                     *)
(*                                                                         *)
(* Two queues: the worker queue, which runs everything but the app, and    *)
(* the main queue, which runs the app and delivers the events.  Targets,   *)
(* queries and views are one to one here: a query is one document.         *)
(***************************************************************************)
EXTENDS Integers, Sequences, SequencesExt

CONSTANTS Keys,            \* documents
          Reads,           \* calls of getDocument
          KeyOf,           \* the document a call reads
          MaxVersion,      \* bound on the versions of a document
          MaxBreaks,       \* bound on open streams that break
          MaxRestarts,     \* bound on changes of the network or of the user
          MaxRejections    \* bound on reads that the rules refuse

ASSUME OneShotReadAssumption ==
    /\ KeyOf \in [Reads -> Keys]
    /\ {MaxVersion, MaxBreaks, MaxRestarts, MaxRejections} \subseteq Nat

VARIABLES
    version,        \* the document on the server; 0: there is none
    cache,          \* the document in the device's cache; Unknown: nothing
    worker,         \* tasks of the calls on the worker queue
    main,           \* events on the main queue
    phase,          \* where a call is
    raised,         \* calls whose listener raised its initial event
    muted,          \* calls whose listener is muted
    completions,    \* times a call was answered
    targets,        \* documents listened to
    current,        \* views in sync with the server
    request,        \* the listen request of a target on this stream
    stream,         \* state of the watch stream
    idle,           \* is its idle timer set?
    onlineState, failures, timer,      \* the online state tracker
    asked,          \* history: the version on the server when a call was made
    shared,         \* history: calls that found another listening to their query
    broken,         \* history: did an assertion of the code fail?
    breaks, restarts, rejections

calls == <<worker, main, phase, raised, muted, completions>>
net == <<targets, current, request, stream, idle>>
tracker == <<onlineState, failures, timer>>
bounds == <<breaks, restarts, rejections>>
history == <<asked, shared, broken>>
vars == <<version, cache, calls, net, tracker, history, bounds>>

Unknown == -1
Event(r, ver, cached) == [read |-> r, ok |-> TRUE, ver |-> ver, cached |-> cached]
Failure(r) == [read |-> r, ok |-> FALSE, ver |-> Unknown, cached |-> FALSE]
AddTask(r) == [kind |-> "add", read |-> r]
RemoveTask(r) == [kind |-> "remove", read |-> r]

Init ==
    /\ version \in [Keys -> {0, 1} \cap 0..MaxVersion]
    /\ cache \in [Keys -> {Unknown} \cup (0..MaxVersion)]
    /\ \A k \in Keys : cache[k] <= version[k]
    /\ worker = <<>>
    /\ main = <<>>
    /\ phase = [r \in Reads |-> "idle"]
    /\ raised = {}
    /\ muted = {}
    /\ completions = [r \in Reads |-> 0]
    /\ targets = {}
    /\ current = [k \in Keys |-> FALSE]
    /\ request = [k \in Keys |-> "none"]
    /\ stream = "initial"
    /\ idle = FALSE
    /\ onlineState = "Unknown"
    /\ failures = 0
    /\ timer = FALSE
    /\ asked = [r \in Reads |-> Unknown]
    /\ shared = {}
    /\ broken = FALSE
    /\ breaks = 0
    /\ restarts = 0
    /\ rejections = 0

-----------------------------------------------------------------------------
(* Query listeners *)

Listeners(k) == {r \in Reads : phase[r] = "listening" /\ KeyOf[r] = k}

\* ShouldRaiseInitialEvent with wait_for_sync_when_online.
ShouldRaise(synced, state) == synced \/ state = "Offline"

\* The listeners are shown the views; those that have raised their initial
\* event raise another one if their view has changed.
Raise(synced, state, docs, changed) ==
    LET first == {r \in Reads : /\ phase[r] = "listening" /\ r \notin raised
                               /\ ShouldRaise(synced[KeyOf[r]], state)}
        again == {r \in raised : phase[r] = "listening" /\ KeyOf[r] \in changed}
    IN  /\ raised' = raised \cup first
        /\ main' = main \o SetToSeq({Event(r, docs[KeyOf[r]], ~synced[KeyOf[r]]) :
                                        r \in first \cup again})

-----------------------------------------------------------------------------
(* The online state tracker: what becomes of its three variables; of the   *)
(* failures only whether there were any matters.                           *)

\* Mutant: the timer is not cancelled.
UpdateStateTicking(s) == onlineState' = s /\ failures' = 0 /\ UNCHANGED timer
UpdateState(s) == onlineState' = s /\ failures' = 0 /\ timer' = FALSE

\* HandleWatchStreamStart
WatchStreamStarts ==
    /\ UNCHANGED failures
    /\ IF failures = 0 THEN onlineState' = "Unknown" /\ timer' = TRUE
                       ELSE UNCHANGED <<onlineState, timer>>
\* ... its assertion.
StartAsserts == failures = 0 => ~timer

\* HandleWatchStreamFailure, and HandleWatchStreamStart: an attempt that
\* failed makes the device offline, a stream that broke is tried again.
WatchStreamFails ==
    IF onlineState = "Online"
    THEN onlineState' = "Unknown" /\ failures' = 0 /\ timer' = TRUE
    ELSE onlineState' = "Offline" /\ failures' = 1 /\ timer' = FALSE
FailAsserts == onlineState = "Online" => failures = 0 /\ ~timer

Breaks(ok) == broken' = (broken \/ ~ok)

-----------------------------------------------------------------------------
(* The app *)

\* GetDocument: a snapshot listener, added on the worker queue.
Get(r) ==
    /\ phase[r] = "idle"
    /\ phase' = [phase EXCEPT ![r] = "adding"]
    /\ worker' = Append(worker, AddTask(r))
    /\ asked' = [asked EXCEPT ![r] = version[KeyOf[r]]]
    /\ UNCHANGED <<version, cache, main, raised, muted, completions, net, tracker, shared,
                   broken, bounds>>

\* Mutant: a listener is removed, but not muted.
MuteNot(r) == muted' = muted
Mute(r) == muted' = muted \cup {r}

(* The main queue: AsyncEventListener drops the events of a muted listener *)
(* and ListenOnce mutes and removes itself before it tells the app, but    *)
(* not on an error, after which the event manager has forgotten it.        *)
Deliver ==
    /\ main # <<>>
    /\ LET e == Head(main)
           r == e.read
       IN  /\ main' = Tail(main)
           /\ IF r \in muted
              THEN UNCHANGED <<worker, muted, completions>>
              ELSE /\ completions' = [completions EXCEPT ![r] = @ + 1]
                   /\ IF e.ok
                      THEN /\ Mute(r)
                           /\ worker' = Append(worker, RemoveTask(r))
                      ELSE UNCHANGED <<worker, muted>>
    /\ UNCHANGED <<version, cache, phase, raised, net, tracker, asked, shared, broken, bounds>>

-----------------------------------------------------------------------------
(* The worker queue: listening and no longer listening *)

IsOpen == stream = "open"
IsStarted == stream \in {"starting", "backoff", "open"}

\* MarkIdle; mutant: whatever the stream's state.
MarksIdleAlways(last) == last
MarksIdle(last) == IsOpen /\ last

\* A request that was withdrawn may still be answered, to no effect on views.
Withdrawn(k) == [request EXCEPT ![k] = IF @ = "none" THEN "none" ELSE "withdrawn"]

\* Mutant: a target that is listened to while the stream is open is not sent.
WatchLater(k) == request' = [request EXCEPT ![k] = "none"] /\ idle' = idle
SendWatchRequest(k) == request' = [request EXCEPT ![k] = "sent"] /\ idle' = FALSE

(* AddQueryListener: the view of another call is used as it is; else the   *)
(* query is listened to, and the stream started or sent the request.      *)
AddQueryListener(r) ==
    LET k == KeyOf[r]
        synced == k \in targets /\ current[k]
    IN  /\ worker # <<>> /\ Head(worker) = AddTask(r) /\ worker' = Tail(worker)
        /\ phase' = [phase EXCEPT ![r] = "listening"]
        /\ shared' = IF Listeners(k) = {} THEN shared ELSE shared \cup {r}
        /\ IF ShouldRaise(synced, onlineState)
           THEN raised' = raised \cup {r} /\ main' = Append(main, Event(r, cache[k], ~synced))
           ELSE UNCHANGED <<raised, main>>
        /\ targets' = targets \cup {k}
        /\ current' = [current EXCEPT ![k] = synced]
        /\ IF k \in targets
           THEN UNCHANGED <<request, stream, idle, tracker, broken>>
           ELSE \/ /\ ~IsStarted
                   /\ stream' = IF stream = "error" THEN "backoff" ELSE "starting"
                   /\ WatchStreamStarts /\ Breaks(StartAsserts)
                   /\ UNCHANGED <<request, idle>>
                \/ /\ IsOpen /\ SendWatchRequest(k)
                   /\ UNCHANGED <<stream, tracker, broken>>
                \/ /\ IsStarted /\ ~IsOpen
                   /\ UNCHANGED <<request, stream, idle, tracker, broken>>
        /\ UNCHANGED <<version, cache, muted, completions, asked, bounds>>

\* Is the call the last listener of its query?  Mutants: any will do; queries
\* are listened to for good.
StopsNever(r) == FALSE
StopsAtOnce(r) == phase[r] = "listening"
Stops(r) == phase[r] = "listening" /\ Listeners(KeyOf[r]) = {r}

(* RemoveQueryListener: the last listener of a query stops listening.  The *)
(* last target leaves an open stream idle, and a stream that is not open   *)
(* as it is, with the tracker reset.                                       *)
RemoveQueryListener(r) ==
    LET k == KeyOf[r]
        stops == Stops(r)
        last == targets = {k}
    IN  /\ worker # <<>> /\ Head(worker) = RemoveTask(r) /\ worker' = Tail(worker)
        /\ phase' = [phase EXCEPT ![r] = "gone"]
        /\ IF stops
           THEN /\ targets' = targets \ {k}
                /\ current' = [current EXCEPT ![k] = FALSE]
                /\ request' = Withdrawn(k)
                /\ idle' = MarksIdle(last)
                /\ IF last /\ ~IsOpen THEN UpdateState("Unknown") ELSE UNCHANGED tracker
           ELSE UNCHANGED <<targets, current, request, idle, tracker>>
        /\ Breaks(stops => k \in targets)
        /\ UNCHANGED <<version, cache, main, raised, muted, completions, stream, asked, shared,
                       bounds>>

-----------------------------------------------------------------------------
(* The watch stream *)

StreamOpens ==
    /\ stream = "starting" /\ stream' = "open"
    /\ request' = [k \in Keys |-> IF k \in targets THEN "sent" ELSE "none"]
    /\ UNCHANGED <<version, cache, calls, targets, current, idle, tracker, history, bounds>>

BackoffEnds ==
    /\ stream = "backoff" /\ stream' = "starting"
    /\ UNCHANGED <<version, cache, calls, targets, current, request, idle, tracker, history, bounds>>

\* Going offline takes every view out of sync.
Synced(state) == IF state = "Offline" THEN [k \in Keys |-> FALSE] ELSE current
Desynced(state) == {k \in targets : current[k] /\ state = "Offline"}

Views == /\ current' = Synced(onlineState')
         /\ Raise(Synced(onlineState'), onlineState', cache, Desynced(onlineState'))
         /\ UNCHANGED <<version, cache, worker, phase, muted, completions, asked, shared>>

(* OnWatchStreamClose with an error: with targets the stream is tried      *)
(* again after a pause.                                                    *)
CloseWithError ==
    /\ request' = [k \in Keys |-> "none"]
    /\ idle' = FALSE
    /\ IF targets # {}
       THEN stream' = "backoff" /\ WatchStreamFails /\ Breaks(FailAsserts)
       ELSE stream' = "error" /\ UpdateState("Unknown") /\ UNCHANGED broken
    /\ Views
    /\ UNCHANGED targets

\* An attempt fails: no token, no network, no server.
AttemptFails == stream = "starting" /\ CloseWithError /\ UNCHANGED bounds

StreamBreaks == /\ breaks < MaxBreaks /\ breaks' = breaks + 1
                /\ IsOpen /\ CloseWithError
                /\ UNCHANGED <<restarts, rejections>>

\* The idle timer stops the stream; OnWatchStreamClose asserts that it is not
\* needed.
IdleTimeout ==
    /\ idle /\ IsOpen
    /\ stream' = "initial"
    /\ idle' = FALSE
    /\ request' = [k \in Keys |-> "none"]
    /\ UpdateState("Unknown")
    /\ Breaks(targets = {})
    /\ UNCHANGED <<version, cache, calls, targets, current, asked, shared, bounds>>

(* RestartNetwork: the user changed, or the network came back. *)
RestartNetwork ==
    /\ restarts < MaxRestarts /\ restarts' = restarts + 1
    /\ request' = [k \in Keys |-> "none"]
    /\ idle' = FALSE
    /\ IF targets # {}
       THEN stream' = "starting" /\ onlineState' = "Unknown" /\ failures' = 0 /\ timer' = TRUE
       ELSE stream' = "initial" /\ UpdateState("Unknown")
    /\ UNCHANGED <<version, cache, calls, targets, current, history, breaks, rejections>>

\* The tracker's timer, and its assertion.
OnlineStateTimeout ==
    /\ timer /\ timer' = FALSE
    /\ onlineState' = "Offline" /\ UNCHANGED failures
    /\ Breaks(onlineState = "Unknown")
    /\ Views
    /\ UNCHANGED <<targets, request, stream, idle, bounds>>

-----------------------------------------------------------------------------
(* What the server says on an open stream: the device is online. *)

\* A message that changes no view, such as the confirmation that a target was
\* added or removed.
ServerConfirms(k) ==
    /\ IsOpen /\ request[k] # "none"
    /\ UpdateState("Online")
    /\ UNCHANGED <<version, cache, calls, net, history, bounds>>

\* A snapshot of a target: the first answers its request, later ones follow
\* the document.
Snapshot(k) ==
    /\ IsOpen
    /\ \/ request[k] = "sent"
       \/ request[k] = "served" /\ cache[k] # version[k]
    /\ UpdateState("Online")
    /\ cache' = [cache EXCEPT ![k] = version[k]]
    /\ current' = [current EXCEPT ![k] = TRUE]
    /\ request' = [request EXCEPT ![k] = "served"]
    /\ Raise(current', "Online", cache',
             IF current[k] /\ cache[k] = version[k] THEN {} ELSE {k})
    /\ UNCHANGED <<version, worker, phase, muted, completions, targets, stream, idle, history,
                   bounds>>

(* ProcessTargetError: the listeners are told and forgotten. *)
TargetRejected(k) ==
    /\ rejections < MaxRejections /\ rejections' = rejections + 1
    /\ IsOpen /\ request[k] \in {"sent", "served"}
    /\ UpdateState("Online")
    /\ targets' = targets \ {k}
    /\ current' = [current EXCEPT ![k] = FALSE]
    /\ request' = Withdrawn(k)
    /\ phase' = [r \in Reads |-> IF r \in Listeners(k) THEN "gone" ELSE phase[r]]
    /\ main' = main \o SetToSeq({Failure(r) : r \in Listeners(k)})
    /\ UNCHANGED <<version, cache, worker, raised, muted, completions, stream, idle, history,
                   breaks, restarts>>

ServerWrite(k) ==
    /\ version[k] < MaxVersion
    /\ version' = [version EXCEPT ![k] = @ + 1]
    /\ UNCHANGED <<cache, calls, net, tracker, history, bounds>>

-----------------------------------------------------------------------------
Next == \/ \E r \in Reads : Get(r) \/ AddQueryListener(r) \/ RemoveQueryListener(r)
        \/ Deliver
        \/ StreamOpens
        \/ BackoffEnds
        \/ AttemptFails
        \/ StreamBreaks
        \/ IdleTimeout
        \/ RestartNetwork
        \/ OnlineStateTimeout
        \/ \E k \in Keys : \/ ServerConfirms(k)
                           \/ Snapshot(k)
                           \/ TargetRejected(k)
                           \/ ServerWrite(k)

Spec == Init /\ [][Next]_vars

(* The device's own queues and timers. *)
DeviceFairness ==
    /\ \A r \in Reads : WF_vars(AddQueryListener(r)) /\ WF_vars(RemoveQueryListener(r))
    /\ WF_vars(Deliver)
    /\ WF_vars(OnlineStateTimeout)
    /\ WF_vars(BackoffEnds)
    /\ WF_vars(IdleTimeout)

\* gRPC ends every attempt, and a server that has a request answers it.
Fairness == /\ DeviceFairness
            /\ WF_vars(StreamOpens \/ AttemptFails)
            /\ \A k \in Keys : WF_vars(request[k] = "sent" /\ Snapshot(k))

FairSpec == Spec /\ Fairness

-----------------------------------------------------------------------------
(* Properties *)

TypeOK ==
    /\ version \in [Keys -> 0..MaxVersion]
    /\ cache \in [Keys -> Unknown..MaxVersion]
    /\ worker \in Seq([kind : {"add", "remove"}, read : Reads])
    /\ main \in Seq([read : Reads, ok : BOOLEAN, ver : Unknown..MaxVersion, cached : BOOLEAN])
    /\ phase \in [Reads -> {"idle", "adding", "listening", "gone"}]
    /\ raised \subseteq Reads
    /\ muted \subseteq Reads
    /\ completions \in [Reads -> Nat]
    /\ targets \subseteq Keys
    /\ current \in [Keys -> BOOLEAN]
    /\ request \in [Keys -> {"none", "sent", "served", "withdrawn"}]
    /\ stream \in {"initial", "starting", "backoff", "open", "error"}
    /\ idle \in BOOLEAN /\ (idle => IsOpen)
    /\ onlineState \in {"Unknown", "Online", "Offline"}
    /\ failures \in 0..1
    /\ timer \in BOOLEAN
    /\ asked \in [Reads -> Unknown..MaxVersion]
    /\ shared \subseteq Reads
    /\ broken \in BOOLEAN
    /\ breaks \in 0..MaxBreaks
    /\ restarts \in 0..MaxRestarts
    /\ rejections \in 0..MaxRejections

(* A call is answered once at most, though its listener may raise several  *)
(* events, or an event and an error, before it is removed.                 *)
AnsweredOnce == \A r \in Reads : completions[r] <= 1

(* A document is listened to exactly as long as some call listens to it:   *)
(* no target leaks, and no call waits for one that is gone.                *)
NoTargetLeaks == targets = {k \in Keys : Listeners(k) # {}}

(* No assertion of the tracker, of the stream's closing or of StopListening *)
(* fails, however calls, timers and the stream interleave.                 *)
AssertionsHold == ~broken

(* An answer that is not from the cache is at least as new as the document *)
(* was when the call was made, unless the call was handed the view of      *)
(* another: no view outlives the calls it was made for.                    *)
FreshUnlessShared ==
    [][\A r \in Reads \ shared :
          completions'[r] > completions[r] /\ main[1].ok /\ ~main[1].cached
             => main[1].ver >= asked[r]]_vars

(* Every call of GetDocument is answered in the end, by the server or,     *)
(* once the device counts as offline, by the cache.                        *)
EventuallyAnswered ==
    \A r \in Reads : [](phase[r] = "adding" => <>(completions[r] = 1))
=============================================================================
