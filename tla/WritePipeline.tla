-------------------------- MODULE WritePipeline --------------------------
(***************************************************************************)
(* How the Firestore SDK the app is built on delivers the writes of one    *)
(* device: the worker queue, the mutation queue each account has on disk,  *)
(* RemoteStore's write pipeline and the write stream.  The server and gRPC *)
(* are the environment.  A batch is [id, write, owner]: the batch id, the  *)
(* number of the write and the account it was issued under.                *)
(*                                                                         *)
(* Everything below runs on the worker queue, so a step is atomic.         *)
(***************************************************************************)
EXTENDS Naturals, Sequences, FiniteSets, SequencesExt, FiniteSetsExt

CONSTANTS Users,         \* the accounts used on the device
          MaxPending,    \* kMaxPendingWrites
          MaxWrites,     \* bound on the writes of the app
          MaxSwitches,   \* bound on credential changes
          MaxFaults,     \* bound on broken streams, network changes, restarts
          MaxRejects     \* bound on writes the server refuses for good

ASSUME PipelineAssumption == /\ MaxPending \in Nat \ {0}
                             /\ {MaxWrites, MaxSwitches, MaxFaults, MaxRejects} \subseteq Nat

VARIABLES
    auth,        \* the account FirebaseAuth last announced
    worker,      \* tasks on the worker queue
    user,        \* SyncEngine::current_user_
    queue,       \* the mutation queue of each account, on disk
    nextBatchId, \* LevelDbMutationQueue::next_batch_id_
    callbacks,   \* SyncEngine::mutation_callbacks_: batch ids of each account
    net,         \* RemoteStore and its write stream, see Net
    committed,   \* history: the writes the server has committed
    rejected,    \* history: the writes the server has refused for good
    issued, switches, faults, rejects

local == <<auth, worker, user, queue, nextBatchId, callbacks>>
bounds == <<issued, switches, faults, rejects>>
vars == <<local, net, committed, rejected, bounds>>

Batch == [id : Nat, write : 1..MaxWrites, owner : Users]
Hello == [id |-> 0, write |-> 0]   \* the handshake and its reply

(* pipeline: write_pipeline_;  stream: Stream::state_;                     *)
(* handshake: handshake_complete_;  idle: an idleness timer is scheduled;  *)
(* wire and replies: what travels on the gRPC stream;  refusal: the server *)
(* has ended the stream with a permanent error, after these replies.       *)
Net == [pipeline : Seq(Batch), stream : {"Initial", "Starting", "Open", "Error", "Backoff"},
        handshake : BOOLEAN, idle : BOOLEAN,
        wire : Seq(Batch \cup {Hello}), replies : Seq(Batch \cup {Hello}), refusal : BOOLEAN]

IsStarted(n) == n.stream \in {"Starting", "Open", "Backoff"}
ShouldStartWriteStream(n) == ~IsStarted(n) /\ n.pipeline # <<>>

\* Stream::Start: after an error it backs off first.
Start(n) == [n EXCEPT !.stream = IF @ = "Error" THEN "Backoff" ELSE "Starting"]

StartIfNeeded(n) == IF ShouldStartWriteStream(n) THEN Start(n) ELSE n

\* The rows of a queue from the first whose id is past the last one sent;
\* mutant: the batch that follows is skipped.
RowsAfter(q, last) == SubSeq(q, Min({i \in DOMAIN q : q[i].id > last} \cup {Len(q) + 1}), Len(q))
BatchesAfterNext(q, last) == RowsAfter(q, last + 1)

\* NextMutationBatchAfterBatchId, repeatedly: a seek among the rows, which
\* are sorted by id.  Batch ids start at 1; the code's kBatchIdUnknown, -1,
\* is 0 here.
BatchesAfter(q, last) == RowsAfter(q, last)

(* RemoteStore::FillWritePipeline over the batches q of the current user. *)
FillWritePipeline(n, q) ==
    LET last == IF n.pipeline = <<>> THEN 0 ELSE Last(n.pipeline).id
        later == BatchesAfter(q, last)
        new == SubSeq(later, 1, Min({Len(later), MaxPending - Len(n.pipeline)}))
        ready == n.stream = "Open" /\ n.handshake
        filled == [n EXCEPT !.pipeline = @ \o new,
                            !.wire = IF ready THEN @ \o new ELSE @]
    IN  StartIfNeeded(
          IF new # <<>> THEN [filled EXCEPT !.idle = @ /\ ~ready]
          ELSE [filled EXCEPT !.idle = @ \/ (filled.pipeline = <<>> /\ n.stream = "Open")])

\* Stream::Close up to the listener's callback: the gRPC stream is gone, and
\* with it all that was travelling on it.
Close(n, state) == [n EXCEPT !.stream = state, !.idle = FALSE, !.wire = <<>>,
                             !.replies = <<>>, !.refusal = FALSE]

Stop(n) == IF IsStarted(n) THEN [Close(n, "Initial") EXCEPT !.handshake = FALSE] ELSE n

InhibitBackoff(n) == [n EXCEPT !.stream = "Initial"]

\* Mutant: the pipeline survives the restart.
RestartNetworkKeeping(n, q) == FillWritePipeline(InhibitBackoff(Stop(n)), q)

(* RemoteStore::RestartNetwork: drop the stream and the pipeline, refill. *)
RestartNetwork(n, q) ==
    FillWritePipeline(InhibitBackoff([Stop(n) EXCEPT !.pipeline = <<>>]), q)

\* Mutants: the closed stream counts as past its handshake; it stays closed.
CloseTransientReady(n) == StartIfNeeded(Close(n, "Error"))
CloseTransientForGood(n) == [Close(n, "Error") EXCEPT !.handshake = FALSE]

(* OnWriteStreamClose for an error that is not a refusal of a write. *)
CloseTransient(n) == [StartIfNeeded(Close(n, "Error")) EXCEPT !.handshake = FALSE]

(* OnWriteStreamClose, HandleWriteError for a refused write. *)
CloseRefused(n, q) ==
    LET dropped == InhibitBackoff([Close(n, "Error") EXCEPT !.pipeline = Tail(@)])
    IN  [StartIfNeeded(FillWritePipeline(dropped, q)) EXCEPT !.handshake = FALSE]

Ids(q) == {q[i].id : i \in DOMAIN q}

\* Mutant: only the batches of the current account are looked at.
NextIdFromOwnQueue == 1 + Max({0} \cup Ids(queue[auth]))

\* LoadNextBatchIdFromDb: one more than any batch id on disk, of any account.
NextIdFromDb == 1 + Max({0} \cup UNION {Ids(queue[u]) : u \in Users})

EmptyNet == [pipeline |-> <<>>, stream |-> "Initial", handshake |-> FALSE, idle |-> FALSE,
             wire |-> <<>>, replies |-> <<>>, refusal |-> FALSE]

Init == /\ auth \in Users
        /\ worker = <<>>
        /\ user = auth
        /\ queue = [u \in Users |-> <<>>]
        /\ nextBatchId = 1
        /\ callbacks = [u \in Users |-> {}]
        /\ net = EmptyNet
        /\ committed = {}
        /\ rejected = {}
        /\ issued = 0 /\ switches = 0 /\ faults = 0 /\ rejects = 0

-----------------------------------------------------------------------------
(* The app's threads only enqueue. *)

WriteMutations ==
    /\ issued < MaxWrites
    /\ issued' = issued + 1
    /\ worker' = Append(worker, [task |-> "write", write |-> issued + 1, owner |-> auth])
    /\ UNCHANGED <<auth, user, queue, nextBatchId, callbacks, net, committed, rejected,
                   switches, faults, rejects>>

\* Mutant: the change is applied at once instead of queued behind the writes.
CredentialChangeAtOnce(u) ==
    /\ switches < MaxSwitches
    /\ switches' = switches + 1
    /\ auth' = u
    /\ user' = u
    /\ nextBatchId' = IF u # user THEN NextIdFromDb ELSE nextBatchId
    /\ net' = RestartNetwork(net, queue[u])
    /\ UNCHANGED <<worker, queue, callbacks, committed, rejected, issued, faults, rejects>>

CredentialChange(u) ==
    /\ switches < MaxSwitches
    /\ switches' = switches + 1
    /\ auth' = u
    /\ worker' = Append(worker, [task |-> "user", owner |-> u])
    /\ UNCHANGED <<user, queue, nextBatchId, callbacks, net, committed, rejected,
                   issued, faults, rejects>>

(* SyncEngine::WriteMutations, LocalStore::WriteLocally. *)
RunWrite ==
    /\ worker # <<>> /\ Head(worker).task = "write"
    /\ LET b == [id |-> nextBatchId, write |-> Head(worker).write, owner |-> Head(worker).owner]
       IN  /\ queue' = [queue EXCEPT ![user] = Append(@, b)]
           /\ callbacks' = [callbacks EXCEPT ![user] = @ \cup {b.id}]
    /\ nextBatchId' = nextBatchId + 1
    /\ net' = FillWritePipeline(net, queue'[user])
    /\ worker' = Tail(worker)
    /\ UNCHANGED <<auth, user, committed, rejected, bounds>>

(* SyncEngine::HandleCredentialChange, LocalStore::HandleUserChange. *)
RunCredentialChange ==
    /\ worker # <<>> /\ Head(worker).task = "user"
    /\ user' = Head(worker).owner
    /\ nextBatchId' = IF user' # user THEN NextIdFromDb ELSE nextBatchId
    /\ net' = RestartNetwork(net, queue[user'])
    /\ worker' = Tail(worker)
    /\ UNCHANGED <<auth, queue, callbacks, committed, rejected, bounds>>

-----------------------------------------------------------------------------
(* The write stream. *)

OnStreamOpen ==
    /\ net.stream = "Starting"
    /\ net' = [net EXCEPT !.stream = "Open", !.wire = <<Hello>>]
    /\ UNCHANGED <<local, committed, rejected, bounds>>

OnHandshakeComplete ==
    /\ net.replies # <<>> /\ ~net.handshake
    /\ net' = [net EXCEPT !.handshake = TRUE, !.replies = Tail(@),
                          !.wire = @ \o net.pipeline, !.idle = @ /\ net.pipeline = <<>>]
    /\ UNCHANGED <<local, committed, rejected, bounds>>

\* RemoveMutationBatch asserts that the row is there.
Row(q, b) == CHOOSE i \in DOMAIN q : q[i].id = b.id

(* A batch leaves the mutation queue, by its id, and its callback fires. *)
RemoveBatch(b) ==
    /\ queue' = [queue EXCEPT ![user] = RemoveAt(@, Row(@, b))]
    /\ callbacks' = [callbacks EXCEPT ![user] = @ \ {b.id}]
    /\ UNCHANGED <<auth, worker, user, nextBatchId>>

(* The reply is taken for the first write of the pipeline, whatever it is. *)
OnMutationResult ==
    /\ net.replies # <<>> /\ net.handshake
    /\ RemoveBatch(Head(net.pipeline))
    /\ net' = FillWritePipeline([net EXCEPT !.pipeline = Tail(@), !.replies = Tail(@)],
                                queue'[user])
    /\ UNCHANGED <<committed, rejected, bounds>>

OnRefusal ==
    /\ net.refusal /\ net.replies = <<>>
    /\ RemoveBatch(Head(net.pipeline))
    /\ net' = CloseRefused(net, queue'[user])
    /\ UNCHANGED <<committed, rejected, bounds>>

\* Mutant: any error of an open stream is taken for a refusal.
OnStreamBrokenDropping ==
    /\ net.stream = "Open"
    /\ faults < MaxFaults /\ faults' = faults + 1
    /\ IF net.handshake /\ net.pipeline # <<>>
       THEN /\ RemoveBatch(Head(net.pipeline))
            /\ net' = CloseRefused(net, queue'[user])
       ELSE net' = CloseTransient(net) /\ UNCHANGED local
    /\ UNCHANGED <<committed, rejected, issued, switches, rejects>>

(* An error that is no verdict on a write: the replies that have not been  *)
(* read are lost with the stream, what they acknowledge is not.            *)
OnStreamBroken ==
    /\ net.stream \in {"Starting", "Open"}
    /\ faults < MaxFaults /\ faults' = faults + 1
    /\ net' = CloseTransient(net)
    /\ UNCHANGED <<local, committed, rejected, issued, switches, rejects>>

BackoffElapsed ==
    /\ net.stream = "Backoff"
    /\ net' = [net EXCEPT !.stream = "Starting"]
    /\ UNCHANGED <<local, committed, rejected, bounds>>

IdleTimeout ==
    /\ net.idle
    /\ net' = Stop(net)
    /\ UNCHANGED <<local, committed, rejected, bounds>>

(* The connectivity monitor saw the network come back or change. *)
ConnectivityChange ==
    /\ faults < MaxFaults /\ faults' = faults + 1
    /\ net' = RestartNetwork(net, queue[user])
    /\ UNCHANGED <<local, committed, rejected, issued, switches, rejects>>

(* The process dies and starts again under the account Auth remembers. *)
ProcessRestart ==
    /\ faults < MaxFaults /\ faults' = faults + 1
    /\ worker' = <<>>
    /\ user' = auth
    /\ nextBatchId' = NextIdFromDb
    /\ callbacks' = [u \in Users |-> {}]
    /\ net' = FillWritePipeline(EmptyNet, queue[auth])
    /\ UNCHANGED <<auth, queue, committed, rejected, issued, switches, rejects>>

-----------------------------------------------------------------------------
(* The server: it answers the requests of the stream in order. *)

ServerHello ==
    /\ net.wire # <<>> /\ Head(net.wire) = Hello
    /\ net' = [net EXCEPT !.wire = Tail(@), !.replies = Append(@, Hello)]
    /\ UNCHANGED <<local, committed, rejected, bounds>>

ServerCommit ==
    /\ net.wire # <<>> /\ Head(net.wire) # Hello /\ ~net.refusal
    /\ committed' = committed \cup {Head(net.wire).write}
    /\ net' = [net EXCEPT !.wire = Tail(@), !.replies = Append(@, Head(net.wire))]
    /\ UNCHANGED <<local, rejected, bounds>>

ServerReject ==
    /\ net.wire # <<>> /\ Head(net.wire) # Hello /\ ~net.refusal
    /\ rejects < MaxRejects /\ rejects' = rejects + 1
    /\ rejected' = rejected \cup {Head(net.wire).write}
    /\ net' = [net EXCEPT !.refusal = TRUE]
    /\ UNCHANGED <<local, committed, issued, switches, faults>>

Next == \/ WriteMutations \/ \E u \in Users : CredentialChange(u)
        \/ RunWrite \/ RunCredentialChange
        \/ OnStreamOpen \/ OnHandshakeComplete \/ OnMutationResult \/ OnRefusal
        \/ OnStreamBroken \/ BackoffElapsed \/ IdleTimeout
        \/ ConnectivityChange \/ ProcessRestart
        \/ ServerHello \/ ServerCommit \/ ServerReject

Spec == Init /\ [][Next]_vars

(* The worker queue runs its tasks, timers fire, and a reachable server    *)
(* opens streams and answers.  Nothing is assumed of the idle timer.       *)
Fairness == /\ WF_vars(RunWrite \/ RunCredentialChange)
            /\ WF_vars(OnStreamOpen)
            /\ WF_vars(OnHandshakeComplete)
            /\ WF_vars(OnMutationResult)
            /\ WF_vars(OnRefusal)
            /\ WF_vars(BackoffElapsed)
            /\ WF_vars(ServerHello \/ ServerCommit)

FairSpec == Spec /\ Fairness

-----------------------------------------------------------------------------
(* Properties *)

Task == [task : {"write"}, write : 1..MaxWrites, owner : Users]
          \cup [task : {"user"}, owner : Users]

TypeOK ==
    /\ auth \in Users /\ user \in Users
    /\ worker \in Seq(Task)
    /\ queue \in [Users -> Seq(Batch)]
    /\ nextBatchId \in Nat
    /\ callbacks \in [Users -> SUBSET (1..nextBatchId)]
    /\ net \in Net
    /\ committed \subseteq 1..issued /\ rejected \subseteq 1..issued
    /\ issued \in 0..MaxWrites /\ switches \in 0..MaxSwitches
    /\ faults \in 0..MaxFaults /\ rejects \in 0..MaxRejects

(* The pipeline is what the limit lets through of the current account's   *)
(* queue, from its head and without a gap, across refills, credential     *)
(* changes and restarts, and it always has a stream that will send it.    *)
PipelineIsPrefix ==
    /\ net.pipeline = SubSeq(queue[user], 1, Min({MaxPending, Len(queue[user])}))
    /\ net.pipeline # <<>> => IsStarted(net)

(* A reply is taken for the first write of the pipeline: so the replies   *)
(* and requests of a stream past its handshake must be the pipeline, and  *)
(* before it nothing but the handshake may travel.  A stream is idle only *)
(* when closing it abandons nothing (the HARD_ASSERTs of RemoteStore and  *)
(* Stream about an empty pipeline, a graceful stop and the handshake).    *)
StreamCarriesPipeline ==
    /\ net.handshake => net.stream = "Open" /\ net.replies \o net.wire = net.pipeline
    /\ ~net.handshake => net.replies \o net.wire \in {<<>>, <<Hello>>}
    /\ net.stream # "Open" => net.replies \o net.wire = <<>>
    /\ net.idle => net.handshake /\ net.pipeline = <<>>
    /\ net.refusal => net.wire # <<>>

(* No two batches of any accounts share an id and each queue is sorted by *)
(* id, although a user change and a restart recompute the counter; no     *)
(* completion is left registered for a batch that is gone, so a later     *)
(* batch with a recycled id cannot fire it.                               *)
BatchIdsUnique ==
    /\ \A u, v \in Users : \A i \in DOMAIN queue[u], j \in DOMAIN queue[v] :
          /\ queue[u][i].id = queue[v][j].id => u = v /\ i = j
          /\ u = v /\ i < j => queue[u][i].id < queue[v][j].id
    /\ \A u \in Users : Ids(queue[u]) \subseteq 1..(nextBatchId - 1)
    /\ \A u \in Users : callbacks[u] \subseteq Ids(queue[u])

(* A write enters the queue of the account it was issued under, although  *)
(* it reaches the worker queue before or after a credential change.       *)
RightAccount == \A u \in Users : \A i \in DOMAIN queue[u] : queue[u][i].owner = u

(* A batch leaves its queue only when the server has committed that very  *)
(* write or refused it: no reply is credited to another write.            *)
LeavesOnlySettled ==
    [][\A u \in Users : \A b \in ToSet(queue[u]) \ ToSet(queue'[u]) :
          b.write \in committed \cup rejected]_vars

(* Whatever breaks, finitely often, and whoever signs in last: that       *)
(* account's writes are all delivered in the end.                         *)
LastAccountDrains == <>[](worker = <<>> /\ queue[user] = <<>>)

(* The SDK implements Delivery: a client per account, whose writes are    *)
(* those of its queue and those the worker queue has still to run.  The    *)
(* latter are listed by their numbers: the app counts its writes up, and   *)
(* the worker queue runs them in that order.                               *)
Numbers(q) == [i \in DOMAIN q |-> q[i].write]

WritesOf(u) == {i \in DOMAIN worker : worker[i].task = "write" /\ worker[i].owner = u}
Unrun(u) == {worker[i].write : i \in WritesOf(u)}

Lists(s, S) == /\ s \in [1..Cardinality(S) -> S]
               /\ \A i, j \in DOMAIN s : i < j => s[i] < s[j]
               /\ \A x \in S : \E i \in DOMAIN s : s[i] = x
Ascending(S) == CHOOSE s \in [1..Cardinality(S) -> S] : Lists(s, S)

D == INSTANCE Delivery WITH
       Clients <- Users,
       Writes  <- 1..MaxWrites,
       MaxCall <- 1,
       out     <- [u \in Users |-> Numbers(queue[u]) \o Ascending(Unrun(u))],
       stored  <- [u \in Users |-> Len(queue[u])],
       sent    <- [u \in Users |-> IF u = user /\ net.handshake THEN Len(net.replies) ELSE 0]

ImplementsDelivery == D!Spec
=============================================================================
