--------------------------- MODULE WatchChanges ---------------------------
(***************************************************************************)
(* What the watch stream says of targets that come and go: RemoteStore     *)
(* sends requests to watch and unwatch, the server answers them in order   *)
(* and in between sends documents, CURRENT, RESET and snapshots, and the   *)
(* WatchChangeAggregator decides, by counting the answers that are due,    *)
(* which of it is about the target as it is listened to now.               *)
(*                                                                         *)
(* A document that is read again soon is the same target with the same id, *)
(* so messages about the read before are still on their way.  A target is  *)
(* one document here.  Why and when reads come is OneShotRead's business.  *)
(***************************************************************************)
EXTENDS Integers, Sequences, FiniteSets, SequencesExt

CONSTANTS Targets,
          Absent, Nothing,   \* no TargetState; no document known or pending
          MaxListens,        \* bound on the times targets are listened to
          MaxCommits,        \* bound on commits of the server
          MaxInFlight,       \* bound on messages under way before the server says more
          MaxBreaks,         \* bound on streams that break
          MaxResets,         \* bound on RESETs
          MaxRejections      \* bound on watch requests that are refused

ASSUME WatchChangesAssumption ==
    /\ {MaxListens, MaxCommits, MaxInFlight, MaxBreaks, MaxResets, MaxRejections} \subseteq Nat
    /\ Absent \notin [outstanding : Int, current : BOOLEAN]
    /\ Nothing \notin [at : Nat, exists : BOOLEAN]

VARIABLES
    log,          \* commits of the server; time is their number
    serving,      \* targets as the server has them
    open,         \* is the stream open?
    requests,     \* messages to the server
    responses,    \* messages from the server
    listening,    \* listen_targets_
    state,        \* target_states_ of the aggregator
    updates,      \* pending_document_updates_
    cache,        \* documents in the device's cache
    synced,       \* views told by an event that they are current
    gen,          \* how often a target was listened to
    since,        \* history: when it was listened to last
    stale,        \* history: targets told of under a wrong flag, or once under a wrong count
    leaked,       \* history: targets one of whose answers was not counted on this stream
    strayed,      \* history: was something of an earlier listen accepted?
    breaks, resets, rejections

server == <<log, serving>>
wire == <<open, requests, responses>>
aggregator == <<state, updates>>
history == <<gen, since, stale, leaked, strayed>>
bounds == <<breaks, resets, rejections>>
vars == <<server, wire, listening, aggregator, cache, synced, history, bounds>>

now == Len(log)
\* When a document last changed, up to a time, and whether it then existed.
Changed(k, t) == {i \in 1..t : log[i].key = k}
LastChange(k, t) == IF Changed(k, t) = {} THEN 0 ELSE Max(Changed(k, t))
ExistsAt(k, t) == LastChange(k, t) > 0 /\ log[LastChange(k, t)].exists

Doc(at, exists) == [at |-> at, exists |-> exists]
Request(op, k, have) == [op |-> op, key |-> k, gen |-> gen'[k], have |-> have]
Message(type, k, g, at, exists) ==
    [type |-> type, key |-> k, gen |-> g, at |-> at, exists |-> exists]

Off == [status |-> "off", gen |-> 0, sent |-> 0]
Fresh == [outstanding |-> 0, current |-> FALSE]

Init ==
    /\ log \in UNION {[1..n -> [key : Targets, exists : {TRUE}]] : n \in {0, 1} \cap 0..MaxCommits}
    /\ serving = [k \in Targets |-> Off]
    /\ open = FALSE
    /\ requests = <<>>
    /\ responses = <<>>
    /\ listening = {}
    /\ state = [k \in Targets |-> Absent]
    /\ updates = [k \in Targets |-> Nothing]
    /\ cache = [k \in Targets |-> Nothing]
    /\ synced = [k \in Targets |-> FALSE]
    /\ gen = [k \in Targets |-> 0]
    /\ since = [k \in Targets |-> 0]
    /\ stale = {}
    /\ leaked = {}
    /\ strayed = FALSE
    /\ breaks = 0
    /\ resets = 0
    /\ rejections = 0

-----------------------------------------------------------------------------
(* RemoteStore: listening, and the stream *)

Ensure(k) == IF state[k] = Absent THEN Fresh ELSE state[k]

\* The request carries a token of what the cache has: the server skips that.
Have(k) == IF cache[k] = Nothing THEN 0 ELSE cache[k].at

\* RecordPendingTargetRequest; mutant: only watching counts.
RecordWatchOnly(k, op) == [Ensure(k) EXCEPT !.outstanding = @ + (IF op = "watch" THEN 1 ELSE 0)]
Record(k, op) == [Ensure(k) EXCEPT !.outstanding = @ + 1]

\* SendWatchRequest and SendUnwatchRequest, if the stream is open.
Send(op, k) ==
    IF open THEN /\ state' = [state EXCEPT ![k] = Record(k, op)]
                 /\ requests' = Append(requests, Request(op, k, Have(k)))
            ELSE UNCHANGED <<state, requests>>

Listen(k) ==
    /\ k \notin listening /\ listening' = listening \cup {k}
    /\ gen[k] < MaxListens /\ gen' = [gen EXCEPT ![k] = @ + 1]
    /\ since' = [since EXCEPT ![k] = now]
    /\ synced' = [synced EXCEPT ![k] = FALSE]
    /\ Send("watch", k)
    /\ UNCHANGED <<server, open, responses, updates, cache, stale, leaked, strayed, bounds>>

StopListening(k) ==
    /\ k \in listening /\ listening' = listening \ {k}
    /\ synced' = [synced EXCEPT ![k] = FALSE]
    /\ UNCHANGED gen
    /\ Send("unwatch", k)
    /\ UNCHANGED <<server, open, responses, updates, cache, since, stale, leaked, strayed,
                   bounds>>

\* OnWatchStreamOpen, with an aggregator of its own.
StreamOpens ==
    /\ ~open /\ open' = TRUE
    /\ listening # {}
    /\ UNCHANGED gen
    /\ state' = [k \in Targets |->
                   IF k \in listening THEN [Fresh EXCEPT !.outstanding = 1] ELSE Absent]
    /\ requests' = LET ks == SetToSeq(listening)
                   IN  [i \in DOMAIN ks |-> Request("watch", ks[i], Have(ks[i]))]
    /\ UNCHANGED <<server, responses, listening, updates, cache, synced, since, stale, leaked,
                   strayed, bounds>>

\* A closed stream is told nothing any more; mutant: what was under way comes.
StillHeard(messages) == messages
Unheard(messages) == <<>>

(* The next stream counts anew, but what was recorded under a wrong count  *)
(* stays recorded.                                                         *)
StreamBreaks ==
    /\ breaks < MaxBreaks /\ breaks' = breaks + 1
    /\ open /\ open' = FALSE
    /\ requests' = <<>>
    /\ responses' = Unheard(responses)
    /\ serving' = [k \in Targets |-> Off]
    /\ state' = [k \in Targets |-> Absent]
    /\ updates' = [k \in Targets |-> Nothing]
    /\ stale' = stale \cup leaked
    /\ leaked' = {}
    /\ UNCHANGED <<log, listening, cache, synced, gen, since, strayed, resets, rejections>>

-----------------------------------------------------------------------------
(* The server *)

client == <<listening, aggregator, cache, synced, gen, since, stale, leaked, strayed>>

Commit(k, exists) ==
    /\ now < MaxCommits
    /\ exists # ExistsAt(k, now) \/ exists
    /\ log' = Append(log, [key |-> k, exists |-> exists])
    /\ UNCHANGED <<serving, wire, client, bounds>>

TakeRequest(op) == requests # <<>> /\ Head(requests).op = op /\ requests' = Tail(requests)
Say(m) == responses' = Append(responses, m)

ServerAdds ==
    /\ TakeRequest("watch")
    /\ LET q == Head(requests)
       IN  /\ serving' = [serving EXCEPT ![q.key] =
                            [status |-> "added", gen |-> q.gen, sent |-> q.have]]
           /\ Say(Message("added", q.key, q.gen, 0, FALSE))
    /\ UNCHANGED <<log, open, client, bounds>>

\* The rules refuse the read: a removal with a cause, instead of ADD.
ServerRejects ==
    /\ TakeRequest("watch")
    /\ rejections < MaxRejections /\ rejections' = rejections + 1
    /\ Say(Message("rejected", Head(requests).key, Head(requests).gen, 0, FALSE))
    /\ UNCHANGED <<server, open, client, breaks, resets>>

\* Every request is answered, as the client expects: that for a target which
\* the server refused, too.
ServerRemoves ==
    /\ TakeRequest("unwatch")
    /\ LET q == Head(requests)
       IN  /\ serving' = [serving EXCEPT ![q.key] = Off]
           /\ Say(Message("removed", q.key, q.gen, 0, FALSE))
    /\ UNCHANGED <<log, open, client, bounds>>

Speaks == open /\ Len(responses) < MaxInFlight
UpToDate(k) == LastChange(k, now) <= serving[k].sent
Served(k) == serving[k].status # "off"

ServerSendsDocument(k) ==
    /\ Speaks /\ Served(k) /\ ~UpToDate(k)
    /\ serving' = [serving EXCEPT ![k].sent = LastChange(k, now)]
    /\ Say(Message("document", k, serving[k].gen, LastChange(k, now), ExistsAt(k, now)))
    /\ UNCHANGED <<log, open, requests, client, bounds>>

ServerSaysCurrent(k) ==
    /\ Speaks /\ serving[k].status = "added" /\ UpToDate(k)
    /\ serving' = [serving EXCEPT ![k].status = "current"]
    /\ Say(Message("current", k, serving[k].gen, 0, FALSE))
    /\ UNCHANGED <<log, open, requests, client, bounds>>

ServerResets(k) ==
    /\ resets < MaxResets /\ resets' = resets + 1
    /\ Speaks /\ Served(k)
    /\ serving' = [serving EXCEPT ![k].status = "added", ![k].sent = 0]
    /\ Say(Message("reset", k, serving[k].gen, 0, FALSE))
    /\ UNCHANGED <<log, open, requests, client, breaks, rejections>>

\* Everything about the targets that are CURRENT was sent: a snapshot.
ServerSnapshot ==
    /\ Speaks /\ \E k \in Targets : Served(k)
    /\ \A k \in Targets : serving[k].status = "current" => UpToDate(k)
    /\ \A i \in DOMAIN responses : responses[i].type # "snapshot"
    /\ Say([type |-> "snapshot", at |-> now])
    /\ UNCHANGED <<server, open, requests, client, bounds>>

-----------------------------------------------------------------------------
(* OnWatchStreamChange *)

Receive(type) ==
    /\ responses # <<>> /\ Head(responses).type = type
    /\ responses' = Tail(responses)
    /\ UNCHANGED <<server, open, requests, gen, since, bounds>>

\* IsActiveTarget; mutant: answers that are due do not matter.
ActiveIfListening(k) == k \in listening
Active(k) == k \in listening /\ Ensure(k).outstanding = 0

\* What of an earlier listen is accepted has strayed.
Accepts(m) ==
    strayed' = (strayed \/ (Active(m.key) /\ m.gen # gen[m.key] /\ m.key \notin leaked))

\* RecordTargetResponse; a target freshly added keeps its flag.
ReceiveAdded ==
    /\ Receive("added")
    /\ LET k == Head(responses).key
           s == [Ensure(k) EXCEPT !.outstanding = @ - 1]
       IN  /\ state' = [state EXCEPT ![k] = s]
           /\ stale' = IF s.outstanding = 0 /\ s.current THEN stale \cup {k} ELSE stale
    /\ UNCHANGED <<listening, updates, cache, synced, leaked, strayed>>

\* The state of a target removed for good; mutant: of any target removed.
ForgottenAtOnce(s) == Absent
Forgotten(s) == IF s.outstanding = 0 THEN Absent ELSE s
ReceiveRemoved ==
    /\ Receive("removed")
    /\ LET k == Head(responses).key
       IN  state' = [state EXCEPT ![k] = Forgotten([Ensure(k) EXCEPT !.outstanding = @ - 1])]
    /\ UNCHANGED <<listening, updates, cache, synced, stale, leaked, strayed>>

ReceiveCurrent ==
    /\ Receive("current")
    /\ LET m == Head(responses)
       IN  /\ state' = [state EXCEPT ![m.key] =
                          [Ensure(m.key) EXCEPT !.current = @ \/ Active(m.key)]]
           /\ Accepts(m)
    /\ UNCHANGED <<listening, updates, cache, synced, stale, leaked>>

\* ResetTarget
ReceiveReset ==
    /\ Receive("reset")
    /\ LET m == Head(responses)
       IN  /\ state' = [state EXCEPT ![m.key] = IF Active(m.key) THEN Fresh ELSE Ensure(m.key)]
           /\ Accepts(m)
    /\ UNCHANGED <<listening, updates, cache, synced, stale, leaked>>

ReceiveDocument ==
    /\ Receive("document")
    /\ LET m == Head(responses)
       IN  /\ IF Active(m.key)
              THEN /\ updates' = [updates EXCEPT ![m.key] = Doc(m.at, m.exists)]
                   /\ state' = [state EXCEPT ![m.key] = Ensure(m.key)]
              ELSE UNCHANGED aggregator
           /\ Accepts(m)
    /\ UNCHANGED <<listening, cache, synced, stale, leaked>>

\* LocalStore ignores what is not newer.
Newer(doc, old) == old = Nothing \/ doc.at > old.at

\* A target that is current and of which nothing was received is a document
\* that does not exist; mutant: current or not.
MissingAnyway(k) == updates[k] = Nothing /\ (cache[k] = Nothing \/ ~cache[k].exists)
Missing(k) == state[k].current /\ updates[k] = Nothing /\ (cache[k] = Nothing \/ ~cache[k].exists)

(* CreateRemoteEvent and ApplyRemoteEvent: documents, and whether views are *)
(* current.                                                               *)
ReceiveSnapshot ==
    /\ Receive("snapshot")
    /\ LET told == {k \in Targets : state[k] # Absent /\ Active(k)}
           doc == [k \in Targets |-> IF k \in told /\ Missing(k)
                                     THEN Doc(Head(responses).at, FALSE) ELSE updates[k]]
       IN  /\ cache' = [k \in Targets |-> IF doc[k] # Nothing /\ Newer(doc[k], cache[k])
                                          THEN doc[k] ELSE cache[k]]
           /\ synced' = [k \in Targets |-> IF k \in told THEN state[k].current ELSE synced[k]]
    /\ updates' = [k \in Targets |-> Nothing]
    /\ UNCHANGED <<listening, state, stale, leaked, strayed>>

Requested(k) == Cardinality({i \in DOMAIN requests : requests[i].key = k})
IsAnswer(m, k) == m.type \in {"added", "removed", "rejected"} /\ m.key = k
Answered(k) == Cardinality({i \in DOMAIN responses : IsAnswer(responses[i], k)})

\* ProcessTargetError: a target that is not listened to any more is ignored,
\* with what it counts, and one that is loses its count.
ReceiveRejected ==
    /\ Receive("rejected")
    /\ LET k == Head(responses).key
       IN  /\ IF k \in listening
              THEN /\ listening' = listening \ {k}
                   /\ state' = [state EXCEPT ![k] = Absent]
                   /\ synced' = [synced EXCEPT ![k] = FALSE]
              ELSE UNCHANGED <<listening, state, synced>>
           /\ leaked' = IF k \in listening /\ Requested(k) + Answered(k) = 1
                        THEN leaked ELSE leaked \cup {k}
    /\ UNCHANGED <<updates, cache, stale, strayed>>

Receives == \/ ReceiveAdded \/ ReceiveRemoved \/ ReceiveCurrent \/ ReceiveReset
            \/ ReceiveDocument \/ ReceiveSnapshot \/ ReceiveRejected

-----------------------------------------------------------------------------
Next == \/ \E k \in Targets : \/ Listen(k)
                              \/ StopListening(k)
                              \/ \E exists \in BOOLEAN : Commit(k, exists)
                              \/ ServerSendsDocument(k)
                              \/ ServerSaysCurrent(k)
                              \/ ServerResets(k)
        \/ StreamOpens
        \/ StreamBreaks
        \/ ServerAdds
        \/ ServerRejects
        \/ ServerRemoves
        \/ ServerSnapshot
        \/ Receives

Spec == Init /\ [][Next]_vars

(* Messages are taken on both sides, a stream that is needed opens, and    *)
(* the server brings its targets to a snapshot.                            *)
Fairness ==
    /\ WF_vars(StreamOpens)
    /\ WF_vars(ServerAdds \/ ServerRejects)
    /\ WF_vars(ServerRemoves)
    /\ WF_vars(Receives)
    /\ WF_vars(ServerSnapshot)
    /\ \A k \in Targets : WF_vars(ServerSendsDocument(k)) /\ WF_vars(ServerSaysCurrent(k))

FairSpec == Spec /\ Fairness

-----------------------------------------------------------------------------
(* Properties *)

TypeOK ==
    /\ log \in Seq([key : Targets, exists : BOOLEAN])
    /\ serving \in [Targets -> [status : {"off", "added", "current"}, gen : Nat, sent : 0..now]]
    /\ open \in BOOLEAN
    /\ requests \in Seq([op : {"watch", "unwatch"}, key : Targets, gen : Nat, have : 0..now])
    /\ responses \in Seq([type : {"added", "removed", "rejected", "current", "reset", "document"},
                          key : Targets, gen : Nat, at : 0..now, exists : BOOLEAN]
                         \cup [type : {"snapshot"}, at : 0..now])
    /\ open \/ (requests = <<>> /\ responses = <<>>)
    /\ listening \subseteq Targets
    /\ state \in [Targets -> [outstanding : Int, current : BOOLEAN] \cup {Absent}]
    /\ updates \in [Targets -> [at : 0..now, exists : BOOLEAN] \cup {Nothing}]
    /\ cache \in [Targets -> [at : 0..now, exists : BOOLEAN] \cup {Nothing}]
    /\ synced \in [Targets -> BOOLEAN]
    /\ gen \in [Targets -> 0..MaxListens]
    /\ since \in [Targets -> 0..now]
    /\ stale \subseteq Targets
    /\ leaked \subseteq Targets
    /\ strayed \in BOOLEAN
    /\ breaks \in 0..MaxBreaks
    /\ resets \in 0..MaxResets
    /\ rejections \in 0..MaxRejections

(* The aggregator waits for exactly the answers that are still to come,    *)
(* unless, on this very stream, a refusal met a target that had been given *)
(* up or was listened to anew in the meantime.                             *)
CountsUnlessRejected ==
    \A k \in Targets \ leaked : Ensure(k).outstanding = Requested(k) + Answered(k)

(* Nothing that the server said about an earlier listen of a target is     *)
(* taken for a word about the present one, as long as its count is right.  *)
NothingStrays == ~strayed

(* What the cache says of a document is what the server had at that time:  *)
(* deletes that are made up from silence, too.                             *)
CacheIsTruthful ==
    \A k \in Targets \ (stale \cup leaked) :
       cache[k] # Nothing => /\ cache[k].exists = ExistsAt(k, cache[k].at)
                             /\ cache[k].exists => LastChange(k, cache[k].at) = cache[k].at

(* A view that an event called current shows the document at least as it   *)
(* was when it was listened to.                                            *)
SyncedIsFresh ==
    \A k \in listening \ (stale \cup leaked) :
       synced[k] => cache[k] # Nothing /\ cache[k].at >= LastChange(k, since[k])

(* Who listens is told by the server in the end.                           *)
EventuallySynced ==
    \A k \in Targets : [](k \in listening => <>(synced[k] \/ k \notin listening \/ k \in leaked))
=============================================================================
