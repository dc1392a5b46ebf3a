---------------------------- MODULE Delivery ----------------------------
(***************************************************************************)
(* What the Firestore SDK promises the app about the writes it is handed.  *)
(* A client is the mutation queue of one signed-in account on one device.  *)
(* Every write call of FirebaseSession.swift ends in                       *)
(* FirestoreClient::WriteMutations, which only enqueues work; from there   *)
(* the writes of a client are delivered in order and at least once:        *)
(*                                                                         *)
(*    out[c]   =  |-- committed --|-- persisted --|-- in memory only --|   *)
(*                                 ^               ^                       *)
(*                              sent[c]         stored[c]                  *)
(*                                                                         *)
(* The writes before sent[c] have been committed by the server but their   *)
(* responses have not been read; those before stored[c] are in the         *)
(* persisted mutation queue; the rest are tasks of the worker queue and    *)
(* die with the process.  WritePipeline shows how the SDK implements this; *)
(* Rooms uses these actions for the writes of its devices.                 *)
(***************************************************************************)
EXTENDS Naturals, Sequences

CONSTANTS Clients,   \* mutation queues: an account on a device
          Writes,    \* what a call can write
          MaxCall    \* the most writes one call of the app issues

VARIABLES out,       \* the writes handed over and not yet acknowledged
          stored,    \* how many of them the device has persisted
          sent       \* how many the server has committed, unacknowledged

vars == <<out, stored, sent>>

TypeOK == /\ out \in [Clients -> Seq(Writes)]
          /\ stored \in [Clients -> Nat]
          /\ sent \in [Clients -> Nat]
          /\ \A c \in Clients : sent[c] <= stored[c] /\ stored[c] <= Len(out[c])

Init == /\ out = [c \in Clients |-> <<>>]
        /\ stored = [c \in Clients |-> 0]
        /\ sent = [c \in Clients |-> 0]

-----------------------------------------------------------------------------
\* The app issues the writes of one call: each is a task of the worker queue.
Dispatch(c, ws) == /\ out' = [out EXCEPT ![c] = @ \o ws]
                   /\ UNCHANGED <<stored, sent>>

\* The worker queue runs the next write: it enters the mutation queue.
Store(c) == /\ stored[c] < Len(out[c])
            /\ stored' = [stored EXCEPT ![c] = @ + 1]
            /\ UNCHANGED <<out, sent>>

\* The server commits the next write of the stream.
Commit(c) == /\ sent[c] < stored[c]
             /\ sent' = [sent EXCEPT ![c] = @ + 1]
             /\ UNCHANGED <<out, stored>>

\* The oldest write leaves the queue.
DropHead(c) == /\ out' = [out EXCEPT ![c] = Tail(@)]
               /\ stored' = [stored EXCEPT ![c] = @ - 1]

\* The device reads the response to its oldest write.
Ack(c) == /\ sent[c] > 0
          /\ DropHead(c)
          /\ sent' = [sent EXCEPT ![c] = @ - 1]

\* The device learns that its oldest write is refused for good and drops it;
\* the writes behind it stay.
Refuse(c) == /\ sent[c] = 0
             /\ stored[c] > 0
             /\ DropHead(c)
             /\ UNCHANGED sent

\* The stream breaks with responses unread.  The new stream resumes nothing:
\* the committed writes will be sent, and committed, again.
Break(c) == /\ sent[c] > 0
            /\ sent' = [sent EXCEPT ![c] = 0]
            /\ UNCHANGED <<out, stored>>

\* The process holding the queues cs dies and restarts: what it persisted
\* is all that is left.
Crash(cs) == /\ out' = [c \in Clients |-> IF c \in cs THEN SubSeq(out[c], 1, stored[c])
                                                     ELSE out[c]]
             /\ sent' = [c \in Clients |-> IF c \in cs THEN 0 ELSE sent[c]]
             /\ UNCHANGED stored

-----------------------------------------------------------------------------
DispatchAny(c) == \E n \in 1..MaxCall : \E ws \in [1..n -> Writes] : Dispatch(c, ws)

Next == \/ \E c \in Clients : \/ DispatchAny(c)
                              \/ Store(c)
                              \/ Commit(c)
                              \/ Ack(c)
                              \/ Refuse(c)
                              \/ Break(c)
        \/ \E cs \in SUBSET Clients : Crash(cs)

Spec == Init /\ [][Next]_vars
=============================================================================
