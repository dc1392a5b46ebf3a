-------------------------- MODULE RoomsProofs --------------------------
(***************************************************************************)
(* Proofs about Rooms, for any users, devices, rooms and bounds: what the  *)
(* server converges to, that no room is listed before it exists, that an   *)
(* id follows every creation, that a private room is entered by consent,   *)
(* that the two copies of a membership agree, and that the devices stay    *)
(* within what Delivery offers.                                            *)
(***************************************************************************)
EXTENDS Rooms, SequenceTheorems, TLAPS

(* What the positions of a queue become. *)

\* Handing over writes appends them.
LEMMA ConcatQueue ==
    ASSUME NEW S, NEW s \in Seq(S), NEW t \in Seq(S)
    PROVE  /\ s \o t \in Seq(S)
           /\ Len(s \o t) = Len(s) + Len(t)
           /\ \A i \in 1..Len(s) : (s \o t)[i] = s[i]
           /\ \A i \in 1..Len(t) : (s \o t)[Len(s) + i] = t[i]
  BY SMT

\* An acknowledged or refused write leaves at the head.
LEMMA TailQueue ==
    ASSUME NEW S, NEW s \in Seq(S), Len(s) > 0
    PROVE  /\ Tail(s) \in Seq(S)
           /\ Len(Tail(s)) = Len(s) - 1
           /\ \A i \in 1..(Len(s) - 1) : Tail(s)[i] = s[i + 1]
           /\ Head(s) = s[1]
  BY SMT

\* A crash keeps a prefix.
LEMMA PrefixQueue ==
    ASSUME NEW S, NEW s \in Seq(S), NEW n \in 0..Len(s)
    PROVE  /\ SubSeq(s, 1, n) \in Seq(S)
           /\ Len(SubSeq(s, 1, n)) = n
           /\ \A i \in 1..n : SubSeq(s, 1, n)[i] = s[i]
  BY SMT

-----------------------------------------------------------------------------
(* The writes of each call. *)

\* About a pair, a call says one thing only.
Single(ws) == \A f \in Fields, p \in Pairs : \A i, j \in DOMAIN ws :
                 Touches(ws[i], f, p) /\ Touches(ws[j], f, p) => i = j

LEMMA CallWrites ==
    ASSUME NEW u \in Users, NEW s \in Rooms
    PROVE  /\ uploadSession(u, s) \in Seq(Writes)
           /\ joinSession(u, s) \in Seq(Writes)
           /\ unjoinSession(u, s) \in Seq(Writes)
           /\ requestAccess(u, s) \in Seq(Writes)
           /\ grantAccess(u, s) \in Seq(Writes)
           /\ denyAccess(u, s) \in Seq(Writes)
  <1>1. \A op \in {"create", "setId", "union", "remove"}, f \in Fields \cup {"doc"} :
           Write(op, f, u, s) \in Writes
    BY DEF Write, Writes
  <1>2. /\ Create(u, s) \in Writes /\ SetId(u, s) \in Writes
        /\ \A f \in Fields : ArrayUnion(f, u, s) \in Writes /\ ArrayRemove(f, u, s) \in Writes
    BY <1>1 DEF Create, SetId, ArrayUnion, ArrayRemove
  <1>3. {"sessions", "members", "pendingMembers"} \subseteq Fields
    BY DEF Fields
  <1> QED
    BY <1>2, <1>3 DEF uploadSession, joinSession, unjoinSession, requestAccess,
                      grantAccess, denyAccess

-----------------------------------------------------------------------------
(* Type correctness. *)

LEMMA InitType == Init => TypeOK
  BY RoomsAssumption DEF Init, TypeOK, D!Init, D!TypeOK, Fields, Pairs, NoScreen, Screens

LEMMA DeliveryType ==
    ASSUME TypeOK, NEW d \in Devices
    PROVE  /\ \A ws \in Seq(Writes) : D!Dispatch(d, ws) => D!TypeOK'
           /\ D!Store(d) => D!TypeOK'
           /\ D!Commit(d) => D!TypeOK'
           /\ D!Ack(d) => D!TypeOK'
           /\ D!Refuse(d) => D!TypeOK'
           /\ D!Break(d) => D!TypeOK'
           /\ D!Crash({d}) => D!TypeOK'
  <1> USE DEF TypeOK, D!TypeOK
  <1>1. ASSUME NEW ws \in Seq(Writes), D!Dispatch(d, ws)
        PROVE  D!TypeOK'
    <2>1. out[d] \o ws \in Seq(Writes) /\ Len(out[d] \o ws) = Len(out[d]) + Len(ws)
      BY ConcatQueue
    <2> QED BY <1>1, <2>1 DEF D!Dispatch
  <1>2. D!Store(d) => D!TypeOK'
    BY DEF D!Store
  <1>3. D!Commit(d) => D!TypeOK'
    BY DEF D!Commit
  <1>4. Len(out[d]) > 0 => Tail(out[d]) \in Seq(Writes) /\ Len(Tail(out[d])) = Len(out[d]) - 1
    BY TailQueue
  <1>5. D!Ack(d) => D!TypeOK'
    BY <1>4 DEF D!Ack, D!DropHead
  <1>6. D!Refuse(d) => D!TypeOK'
    BY <1>4 DEF D!Refuse, D!DropHead
  <1>7. D!Break(d) => D!TypeOK'
    BY DEF D!Break
  <1>8. /\ SubSeq(out[d], 1, stored[d]) \in Seq(Writes)
        /\ Len(SubSeq(out[d], 1, stored[d])) = stored[d]
    BY PrefixQueue
  <1>9. D!Crash({d}) => D!TypeOK'
    BY <1>8 DEF D!Crash
  <1> QED BY <1>1, <1>2, <1>3, <1>5, <1>6, <1>7, <1>9

LEMMA CallType ==
    ASSUME TypeOK, NEW d \in Devices, NEW ws \in Seq(Writes), Call(d, ws)
    PROVE  /\ D!TypeOK'
           /\ doc' = doc /\ value' = value /\ lost' = lost
           /\ wanted' \in [Fields -> SUBSET Pairs]
           /\ excused' \in [Fields -> SUBSET Pairs]
           /\ ops' \in 0..MaxOps /\ faults' = faults /\ refusals' = refusals
  <1>1. D!TypeOK'
    BY DeliveryType DEF Call
  <1>2. ops' \in 0..MaxOps
    BY RoomsAssumption DEF Call, TypeOK
  <1> QED BY <1>1, <1>2 DEF Call, TypeOK

LEMMA ShowType ==
    ASSUME TypeOK, NEW d \in Devices, NEW us \in SUBSET Users, NEW ps \in SUBSET Users,
           Show(d, us, ps)
    PROVE  screen' \in [Devices -> Screens]
  <1>1. screen \in [Devices -> Screens]
    BY DEF TypeOK, Screens
  <1>2. [screen[d] EXCEPT !.users = us, !.pendingUsers = ps] \in Screens
    BY <1>1 DEF Screens
  <1>3. screen' = [screen EXCEPT ![d] = [screen[d] EXCEPT !.users = us, !.pendingUsers = ps]]
    BY DEF Show
  <1> QED BY <1>1, <1>2, <1>3

LEMMA NextType == TypeOK /\ [Next]_vars => TypeOK'
  <1> SUFFICES ASSUME TypeOK, [Next]_vars
               PROVE  TypeOK'
    OBVIOUS
  <1> USE RoomsAssumption
  <1>0. D!TypeOK
    BY DEF TypeOK
  <1>1. ASSUME NEW d \in Devices, NEW s \in Rooms, CreateRoom(d, s)
        PROVE  TypeOK'
    <2>1. Me(d) \in Users /\ uploadSession(Me(d), s) \in Seq(Writes)
      BY CallWrites DEF Me
    <2> QED BY <1>1, <2>1, CallType DEF CreateRoom, TypeOK, app
  <1>2. ASSUME NEW d \in Devices, NEW s \in Rooms, OpenRoom(d, s)
        PROVE  TypeOK'
    <2>1. screen' \in [Devices -> Screens]
    <3>1. Array(d, "members", s) \in SUBSET Users /\ Array(d, "pendingMembers", s) \in SUBSET Users
      BY DEF Array
    <3>2. [room |-> s, members |-> Array(d, "members", s),
           pendingMembers |-> Array(d, "pendingMembers", s),
           users |-> {}, pendingUsers |-> {}] \in Screens
      BY <3>1 DEF Screens
    <3> QED BY <1>2, <3>2 DEF OpenRoom, TypeOK
    <2> QED BY <1>2, <2>1 DEF OpenRoom, TypeOK, delivery, server, history, D!TypeOK
  <1>3. ASSUME NEW d \in Devices, PublicButton(d)
        PROVE  TypeOK'
    <2>1. Me(d) \in Users /\ screen[d].room \in Rooms
      BY <1>3 DEF Me, PublicButton
    <2>2. /\ unjoinSession(Me(d), screen[d].room) \in Seq(Writes)
          /\ joinSession(Me(d), screen[d].room) \in Seq(Writes)
      BY <2>1, CallWrites
    <2>3. screen' \in [Devices -> Screens]
    <3>1. /\ screen[d].users \in SUBSET Users /\ screen[d].pendingUsers \in SUBSET Users
          /\ screen[d].users \ {Me(d)} \in SUBSET Users
          /\ screen[d].users \cup {Me(d)} \in SUBSET Users
      BY <2>1 DEF TypeOK, Screens
    <3> QED BY <1>3, <3>1, ShowType DEF PublicButton
    <2> QED BY <1>3, <2>2, <2>3, CallType DEF PublicButton, TypeOK
  <1>4. ASSUME NEW d \in Devices, LeavePrivate(d)
        PROVE  TypeOK'
    <2>1. Me(d) \in Users /\ screen[d].room \in Rooms
      BY <1>4 DEF Me, LeavePrivate
    <2>2. unjoinSession(Me(d), screen[d].room) \in Seq(Writes)
      BY <2>1, CallWrites
    <2>3. screen' \in [Devices -> Screens]
    <3>1. /\ screen[d].pendingUsers \in SUBSET Users
          /\ screen[d].users \ {Me(d)} \in SUBSET Users
      BY <2>1 DEF TypeOK, Screens
    <3> QED BY <1>4, <3>1, ShowType DEF LeavePrivate
    <2> QED BY <1>4, <2>2, <2>3, CallType DEF LeavePrivate, TypeOK
  <1>5. ASSUME NEW d \in Devices, AskAccess(d)
        PROVE  TypeOK'
    <2>1. Me(d) \in Users /\ screen[d].room \in Rooms
      BY <1>5 DEF Me, AskAccess
    <2>2. requestAccess(Me(d), screen[d].room) \in Seq(Writes)
      BY <2>1, CallWrites
    <2>3. screen' \in [Devices -> Screens]
    <3>1. /\ screen[d].users \in SUBSET Users
          /\ screen[d].pendingUsers \cup {Me(d)} \in SUBSET Users
      BY <2>1 DEF TypeOK, Screens
    <3> QED BY <1>5, <3>1, ShowType DEF AskAccess
    <2>4. asked' \subseteq Pairs
      BY <1>5, <2>1 DEF AskAccess, TypeOK, Pairs
    <2> QED BY <1>5, <2>2, <2>3, <2>4, CallType DEF AskAccess, TypeOK
  <1>6. ASSUME NEW d \in Devices, NEW s \in Rooms, JoinWithPassword(d, s)
        PROVE  TypeOK'
    <2>1. Me(d) \in Users /\ joinSession(Me(d), s) \in Seq(Writes)
      BY CallWrites DEF Me
    <2>2. screen' \in [Devices -> Screens]
    <3>1. /\ screen[d].pendingUsers \in SUBSET Users
          /\ screen[d].users \cup {Me(d)} \in SUBSET Users
      BY <2>1 DEF TypeOK, Screens
    <3>2. screen \in [Devices -> Screens]
      BY DEF TypeOK, Screens
    <3> QED BY <1>6, <3>1, <3>2, ShowType DEF JoinWithPassword
    <2>3. checks' \subseteq Devices \X Rooms
      BY <1>6 DEF JoinWithPassword, TypeOK
    <2> QED BY <1>6, <2>1, <2>2, <2>3, CallType DEF JoinWithPassword, TypeOK
  <1>7. ASSUME NEW d \in Devices, NEW u \in Users, GrantRequest(d, u)
        PROVE  TypeOK'
    <2>1. screen[d].room \in Rooms
      BY <1>7 DEF GrantRequest, isCreator
    <2>2. grantAccess(u, screen[d].room) \in Seq(Writes)
      BY <2>1, CallWrites
    <2>3. screen' \in [Devices -> Screens]
    <3>1. /\ screen[d].users \cup {u} \in SUBSET Users
          /\ screen[d].pendingUsers \ {u} \in SUBSET Users
      BY DEF TypeOK, Screens
    <3> QED BY <1>7, <3>1, ShowType DEF GrantRequest
    <2>4. granted' \subseteq Pairs
      BY <1>7, <2>1 DEF GrantRequest, TypeOK, Pairs
    <2> QED BY <1>7, <2>2, <2>3, <2>4, CallType DEF GrantRequest, TypeOK
  <1>8. ASSUME NEW d \in Devices, NEW u \in Users, DenyRequest(d, u)
        PROVE  TypeOK'
    <2>1. screen[d].room \in Rooms
      BY <1>8 DEF DenyRequest, isCreator
    <2>2. denyAccess(u, screen[d].room) \in Seq(Writes)
      BY <2>1, CallWrites
    <2>3. screen' \in [Devices -> Screens]
    <3>1. /\ screen[d].users \in SUBSET Users
          /\ screen[d].pendingUsers \ {u} \in SUBSET Users
      BY DEF TypeOK, Screens
    <3> QED BY <1>8, <3>1, ShowType DEF DenyRequest
    <2> QED BY <1>8, <2>2, <2>3, CallType DEF DenyRequest, TypeOK
  <1>9. ASSUME NEW d \in Devices, Store(d) \/ Ack(d)
        PROVE  TypeOK'
    BY <1>9, DeliveryType DEF Store, Ack, TypeOK, server, app, history
  <1>10. ASSUME NEW d \in Devices, Commit(d)
         PROVE  TypeOK'
    <2>1. doc' \in [Rooms -> {"none", "noId", "full"}]
      BY <1>10 DEF Commit, Apply, TypeOK
    <2>2. value' \in [Fields -> SUBSET Pairs]
      BY <1>10 DEF Commit, Apply
    <2> QED BY <1>10, <2>1, <2>2, DeliveryType DEF Commit, TypeOK, app, history
  <1>11. ASSUME NEW d \in Devices, NEW ws \in SUBSET Writes, Lose(ws)
         PROVE  lost' \subseteq Writes /\ excused' \in [Fields -> SUBSET Pairs]
    BY <1>11 DEF Lose, TypeOK
  <1>12. ASSUME NEW d \in Devices, Refuse(d)
         PROVE  TypeOK'
    <2>1. Head(out[d]) \in Writes
      BY <1>12 DEF Refuse, D!Refuse, TypeOK, D!TypeOK
    <2>2. refusals' \in 0..MaxRefusals
      BY <1>12 DEF Refuse, TypeOK
    <2> QED BY <1>12, <2>1, <2>2, <1>11, DeliveryType DEF Refuse, TypeOK, server, app
  <1>13. ASSUME NEW d \in Devices, Break(d)
         PROVE  TypeOK'
    <2>1. faults' \in 0..MaxFaults
      BY <1>13 DEF Break, TypeOK
    <2> QED BY <1>13, <2>1, DeliveryType DEF Break, TypeOK, server, app, history
  <1>14. ASSUME NEW d \in Devices, faults < MaxFaults, Die(d)
         PROVE  TypeOK'
    <2>1. {out[d][i] : i \in (stored[d] + 1)..Len(out[d])} \in SUBSET Writes
      BY DEF TypeOK, D!TypeOK
    <2>2. faults' \in 0..MaxFaults
      BY <1>14 DEF Die, TypeOK
    <2>3. screen' \in [Devices -> Screens]
      BY <1>14 DEF Die, NoScreen, TypeOK, Screens
    <2>4. checks' \subseteq Devices \X Rooms
      BY <1>14 DEF Die, TypeOK
    <2> QED BY <1>14, <2>1, <2>2, <2>3, <2>4, <1>11, DeliveryType DEF Die, TypeOK, server
  <1>15. CASE UNCHANGED vars
    BY <1>15 DEF vars, TypeOK, D!TypeOK, delivery, server, app, history
  <1>16. ASSUME NEW d \in Devices, Reappear(d) \/ \E u \in Users : Answer(d, u)
         PROVE  TypeOK'
    <2>1. screen' \in [Devices -> Screens]
    <3>1. /\ screen[d].users \in SUBSET Users
          /\ screen[d].pendingUsers \in SUBSET Users
          /\ \A u \in Users : /\ screen[d].users \cup {u} \in SUBSET Users
                               /\ screen[d].pendingUsers \cup {u} \in SUBSET Users
          /\ {} \in SUBSET Users
      BY DEF TypeOK, Screens
    <3> QED BY <1>16, <3>1, ShowType DEF Reappear, Answer
    <2> QED BY <1>16, <2>1 DEF Reappear, Answer, TypeOK, delivery, server, history, D!TypeOK
  <1>17. ASSUME NEW d \in Devices, CheckPassword(d) \/ \E s \in Rooms : WrongPassword(d, s)
         PROVE  TypeOK'
    <2>1. checks' \subseteq Devices \X Rooms
    <3>1. CheckPassword(d) =>
             screen[d].room \in Rooms /\ checks' = checks \cup {<<d, screen[d].room>>}
      BY DEF CheckPassword
    <3>2. (\E s \in Rooms : WrongPassword(d, s)) => checks' \subseteq checks
      BY DEF WrongPassword
    <3> QED BY <1>17, <3>1, <3>2 DEF TypeOK
    <2> QED BY <1>17, <2>1 DEF CheckPassword, WrongPassword, TypeOK, delivery, server, history,
                               D!TypeOK
  <1> QED
    BY <1>1, <1>2, <1>3, <1>4, <1>5, <1>6, <1>7, <1>8, <1>9, <1>10, <1>12, <1>13,
       <1>14, <1>15, <1>16, <1>17 DEF Next, Crash, LoadHalfCreated

(* Every variable keeps its type, and each queue keeps its order of      *)
(* positions: committed, persisted, handed over.                         *)
THEOREM TypeCorrect == Spec => []TypeOK
  <1> QED BY InitType, NextType, PTL DEF Spec

-----------------------------------------------------------------------------
(* Converged.                                                              *)
(*                                                                         *)
(* The body of Converging for one pair, and, for each way a queue changes, *)
(* why it is kept.                                                         *)

PairConverging(f, p) ==
    /\ \A d, e \in Devices : Queued(d, f, p) /\ Queued(e, f, p) => d = e
    /\ \A d \in Devices : \A i \in DOMAIN out[d] : IsLast(d, i, f, p) =>
          /\ Leaves(out[d][i], f, p) <=> p \in wanted[f]
          /\ i <= sent[d] => (p \in value[f] <=> p \in wanted[f])
    /\ Settled(f, p) => (p \in value[f] <=> p \in wanted[f])

LEMMA Domains ==
    ASSUME TypeOK
    PROVE  /\ out \in [Devices -> Seq(Writes)]
           /\ sent \in [Devices -> Nat] /\ stored \in [Devices -> Nat]
           /\ \A d \in Devices : /\ DOMAIN out[d] = 1..Len(out[d])
                                 /\ Len(out[d]) \in Nat
                                 /\ sent[d] <= stored[d] /\ stored[d] <= Len(out[d])
  BY DEF TypeOK, D!TypeOK

\* These operators after a step, in terms of the queues after it.
LEMMA After ==
    ASSUME NEW d, NEW f, NEW p
    PROVE  /\ Queued(d, f, p)' <=> \E i \in DOMAIN out'[d] : Touches(out'[d][i], f, p)
           /\ \A i : IsLast(d, i, f, p)' <=>
                 /\ Touches(out'[d][i], f, p)
                 /\ \A j \in DOMAIN out'[d] : j > i => ~Touches(out'[d][j], f, p)
           /\ \A i : Leaves(out[d][i], f, p)' <=> Leaves(out'[d][i], f, p)
  BY DEF Queued, IsLast, Touches, Leaves

LEMMA CallConverging ==
    ASSUME TypeOK, TypeOK', Converging, NEW d \in Devices, NEW ws \in Seq(Writes),
           Single(ws), Call(d, ws)
    PROVE  Converging'
  <1> SUFFICES ASSUME NEW f \in Fields, NEW p \in Pairs, p \notin excused'[f]
               PROVE  PairConverging(f, p)'
    BY DEF Converging, PairConverging
  <1>1. /\ out' = [out EXCEPT ![d] = out[d] \o ws]
        /\ sent' = sent /\ value' = value
        /\ p \in wanted'[f] <=> IF Decided(ws, f, p)
                                THEN \E i \in DOMAIN ws : Touches(ws[i], f, p) /\ Leaves(ws[i], f, p)
                                ELSE p \in wanted[f]
        /\ IF Decided(ws, f, p) THEN ~Contended(d, f, p) ELSE p \notin excused[f]
    BY DEF Call, D!Dispatch
  <1>2. /\ \A e \in Devices : /\ DOMAIN out[e] = 1..Len(out[e]) /\ Len(out[e]) \in Nat
                              /\ sent[e] <= Len(out[e]) /\ sent[e] \in Nat
        /\ \A e \in Devices \ {d} : out'[e] = out[e]
        /\ DOMAIN out'[d] = 1..(Len(out[d]) + Len(ws))
        /\ \A i \in 1..Len(out[d]) : out'[d][i] = out[d][i]
        /\ \A i \in 1..Len(ws) : out'[d][Len(out[d]) + i] = ws[i]
        /\ DOMAIN ws = 1..Len(ws) /\ Len(ws) \in Nat
    <2>1. out[d] \in Seq(Writes)
      BY Domains
    <2>2. out'[d] = out[d] \o ws
      BY <1>1, Domains
    <2> QED BY <1>1, <2>1, <2>2, Domains, ConcatQueue
  <1>3. CASE Decided(ws, f, p)
    <2>1. PICK k \in DOMAIN ws : Touches(ws[k], f, p)
      BY <1>3 DEF Decided
    <2>2. \A i \in DOMAIN ws : Touches(ws[i], f, p) => i = k
      BY <2>1 DEF Single
    <2>3. p \in wanted'[f] <=> Leaves(ws[k], f, p)
      BY <1>1, <1>3, <2>1, <2>2
    <2>4. \A e \in Devices \ {d} : ~Queued(e, f, p)'
      BY <1>1, <1>2, <1>3 DEF Contended, Queued
    <2>5. Queued(d, f, p)'
      BY <1>2, <2>1, After
    <2>6. ASSUME NEW i \in DOMAIN out'[d], IsLast(d, i, f, p)'
          PROVE  i = Len(out[d]) + k
      <3>0. /\ i \in 1..(Len(out[d]) + Len(ws)) /\ k \in 1..Len(ws)
            /\ Touches(out'[d][i], f, p)
            /\ \A j \in DOMAIN out'[d] : j > i => ~Touches(out'[d][j], f, p)
        BY <1>2, <2>6, After
      <3>1. i >= Len(out[d]) + k
        <4>1. Len(out[d]) + k \in DOMAIN out'[d] /\ Touches(out'[d][Len(out[d]) + k], f, p)
          BY <1>2, <2>1, <3>0
        <4>2. ~(Len(out[d]) + k > i)
          BY <3>0, <4>1
        <4>3. Len(out[d]) \in Nat /\ k \in Nat /\ i \in Nat
          BY <1>2, <3>0
        <4> QED BY <4>2, <4>3
      <3>2. i - Len(out[d]) \in DOMAIN ws /\ i = Len(out[d]) + (i - Len(out[d]))
        BY <1>2, <3>0, <3>1
      <3>3. Touches(ws[i - Len(out[d])], f, p)
        BY <1>2, <3>0, <3>2
      <3> QED BY <1>2, <2>2, <3>2, <3>3
    <2>7. ASSUME NEW i \in DOMAIN out'[d], IsLast(d, i, f, p)'
          PROVE  /\ Leaves(out'[d][i], f, p) <=> p \in wanted'[f]
                 /\ ~(i <= sent'[d])
      <3>1. i = Len(out[d]) + k /\ out'[d][i] = ws[k]
        BY <1>2, <2>1, <2>6, <2>7
      <3> QED BY <1>1, <1>2, <2>1, <2>3, <3>1
    <2>8. \A e \in Devices : \A i \in DOMAIN out'[e] : IsLast(e, i, f, p)' => e = d
      BY <2>4 DEF Queued, IsLast
    <2>9. ~Settled(f, p)'
      BY <2>5 DEF Settled
    <2> QED BY <2>4, <2>7, <2>8, <2>9 DEF PairConverging
  <1>4. CASE ~Decided(ws, f, p)
    <2>1. PairConverging(f, p) /\ (p \in wanted'[f] <=> p \in wanted[f])
      BY <1>1, <1>4 DEF Converging, PairConverging
    <2>2. \A i \in DOMAIN ws : ~Touches(ws[i], f, p)
      BY <1>4 DEF Decided
    <2>3. \A i \in DOMAIN out'[d] : Touches(out'[d][i], f, p) =>
             i \in DOMAIN out[d] /\ out'[d][i] = out[d][i]
      <3> SUFFICES ASSUME NEW i \in DOMAIN out'[d], i > Len(out[d])
                   PROVE  ~Touches(out'[d][i], f, p)
        BY <1>2
      <3>1. i - Len(out[d]) \in 1..Len(ws) /\ i = Len(out[d]) + (i - Len(out[d]))
        BY <1>2
      <3> QED BY <1>2, <2>2, <3>1
    <2>4. \A e \in Devices : Queued(e, f, p)' <=> Queued(e, f, p)
      <3>1. Queued(d, f, p)' <=> Queued(d, f, p)
        BY <1>2, <2>3, After DEF Queued
      <3> QED BY <1>2, <3>1 DEF Queued
    <2>5. \A e \in Devices : \A i \in DOMAIN out'[e] : IsLast(e, i, f, p)' =>
             i \in DOMAIN out[e] /\ out'[e][i] = out[e][i] /\ IsLast(e, i, f, p)
      <3>1. ASSUME NEW i \in DOMAIN out'[d], IsLast(d, i, f, p)'
            PROVE  i \in DOMAIN out[d] /\ out'[d][i] = out[d][i] /\ IsLast(d, i, f, p)
        <4>1. /\ Touches(out'[d][i], f, p)
              /\ \A j \in DOMAIN out'[d] : j > i => ~Touches(out'[d][j], f, p)
          BY <3>1, After
        <4>2. i \in DOMAIN out[d] /\ out'[d][i] = out[d][i]
          BY <2>3, <4>1
        <4>3. \A j \in DOMAIN out[d] : j \in DOMAIN out'[d] /\ out'[d][j] = out[d][j]
          BY <1>2
        <4> QED BY <4>1, <4>2, <4>3 DEF IsLast
      <3> QED BY <1>2, <3>1 DEF IsLast
    <2>6. Settled(f, p)' <=> Settled(f, p)
      BY <2>4 DEF Settled
    <2>7. \A e, g \in Devices : Queued(e, f, p)' /\ Queued(g, f, p)' => e = g
      BY <2>1, <2>4 DEF PairConverging
    <2>8. \A e \in Devices : \A i \in DOMAIN out'[e] : IsLast(e, i, f, p)' =>
            /\ Leaves(out'[e][i], f, p) <=> p \in wanted'[f]
            /\ i <= sent'[e] => (p \in value'[f] <=> p \in wanted'[f])
      BY <1>1, <2>1, <2>5 DEF PairConverging
    <2>9. Settled(f, p)' => (p \in value'[f] <=> p \in wanted'[f])
      BY <1>1, <2>1, <2>6 DEF PairConverging
    <2> QED BY <2>7, <2>8, <2>9 DEF PairConverging
  <1> QED BY <1>3, <1>4

\* A step that changes no queue and no array: a read, a write persisted,
\* a broken stream.
LEMMA QuietConverging ==
    ASSUME TypeOK, TypeOK', Converging,
           out' = out, value' = value, wanted' = wanted, excused' = excused,
           \A e \in Devices : sent'[e] <= sent[e]
    PROVE  Converging'
  <1> SUFFICES ASSUME NEW f \in Fields, NEW p \in Pairs, p \notin excused'[f]
               PROVE  PairConverging(f, p)'
    BY DEF Converging, PairConverging
  <1>1. PairConverging(f, p)
    BY DEF Converging, PairConverging
  <1>2. \A e \in Devices : \A i \in DOMAIN out[e] : i <= sent'[e] => i <= sent[e]
    BY Domains DEF TypeOK, D!TypeOK
  <1>3. \A e \in Devices : /\ Queued(e, f, p)' <=> Queued(e, f, p)
                           /\ \A i : IsLast(e, i, f, p)' <=> IsLast(e, i, f, p)
    BY DEF Queued, IsLast
  <1>4. Settled(f, p)' <=> Settled(f, p)
    BY <1>3 DEF Settled
  <1> QED BY <1>1, <1>2, <1>3, <1>4 DEF PairConverging

LEMMA CommitConverging ==
    ASSUME TypeOK, TypeOK', Converging, NEW d \in Devices, Commit(d)
    PROVE  Converging'
  <1> SUFFICES ASSUME NEW f \in Fields, NEW p \in Pairs, p \notin excused'[f]
               PROVE  PairConverging(f, p)'
    BY DEF Converging, PairConverging
  <1> DEFINE k == sent[d] + 1
  <1>1. /\ out' = out /\ wanted' = wanted /\ excused' = excused
        /\ sent' = [sent EXCEPT ![d] = k]
        /\ k \in DOMAIN out[d]
        /\ \A e \in Devices : DOMAIN out[e] = 1..Len(out[e]) /\ sent[e] \in Nat
    BY Domains DEF Commit, D!Commit, history
  <1>2. p \in value'[f] <=> IF Touches(out[d][k], f, p) THEN Leaves(out[d][k], f, p)
                                                       ELSE p \in value[f]
    BY DEF Commit, Apply, Upcoming
  <1>3. PairConverging(f, p)
    BY <1>1 DEF Converging, PairConverging
  <1>4. \A e \in Devices : /\ Queued(e, f, p)' <=> Queued(e, f, p)
                           /\ \A i : IsLast(e, i, f, p)' <=> IsLast(e, i, f, p)
    BY <1>1 DEF Queued, IsLast
  <1>5. Settled(f, p)' <=> Settled(f, p)
    BY <1>4 DEF Settled
  <1>6. CASE Touches(out[d][k], f, p)
    <2>1. Queued(d, f, p) /\ ~Settled(f, p)
      BY <1>1, <1>6 DEF Queued, Settled
    <2>2. ASSUME NEW e \in Devices, NEW i \in DOMAIN out[e], IsLast(e, i, f, p)
          PROVE  /\ Leaves(out[e][i], f, p) <=> p \in wanted[f]
                 /\ i <= sent'[e] => (p \in value'[f] <=> p \in wanted[f])
      <3>1. e = d
        BY <1>3, <2>1, <2>2 DEF PairConverging, IsLast, Queued
      <3>2. ~(k > i)
        BY <1>1, <1>6, <2>2, <3>1 DEF IsLast
      <3>3. i <= sent'[e] => i = k
        BY <1>1, <3>1, <3>2
      <3> QED BY <1>2, <1>3, <1>6, <2>2, <3>1, <3>3 DEF PairConverging
    <2> QED BY <1>1, <1>3, <1>4, <1>5, <2>1, <2>2 DEF PairConverging
  <1>7. CASE ~Touches(out[d][k], f, p)
    <2>1. p \in value'[f] <=> p \in value[f]
      BY <1>2, <1>7
    <2>2. ASSUME NEW e \in Devices, NEW i \in DOMAIN out[e], IsLast(e, i, f, p), i <= sent'[e]
          PROVE  i <= sent[e]
      <3>1. e = d => i # k
        BY <1>7, <2>2 DEF IsLast
      <3> QED BY <1>1, <2>2, <3>1
    <2> QED BY <1>1, <1>3, <1>4, <1>5, <2>1, <2>2 DEF PairConverging
  <1> QED BY <1>6, <1>7

\* The oldest write of d leaves, unless it decides a pair and was not committed.
LEMMA DropConverging ==
    ASSUME TypeOK, TypeOK', Converging, NEW d \in Devices,
           Len(out[d]) > 0, out' = [out EXCEPT ![d] = Tail(@)],
           sent' = [sent EXCEPT ![d] = IF sent[d] > 0 THEN sent[d] - 1 ELSE 0],
           value' = value, wanted' = wanted,
           \A f \in Fields : \A p \in Pairs \ excused'[f] :
              p \notin excused[f] /\ (Touches(out[d][1], f, p) => sent[d] > 0)
    PROVE  Converging'
  <1> SUFFICES ASSUME NEW f \in Fields, NEW p \in Pairs, p \notin excused'[f]
               PROVE  PairConverging(f, p)'
    BY DEF Converging, PairConverging
  <1>1. PairConverging(f, p)
    BY DEF Converging, PairConverging
  <1>2. /\ \A e \in Devices : DOMAIN out[e] = 1..Len(out[e]) /\ Len(out[e]) \in Nat /\ sent[e] \in Nat
        /\ \A e \in Devices \ {d} : out'[e] = out[e] /\ sent'[e] = sent[e]
        /\ DOMAIN out'[d] = 1..(Len(out[d]) - 1)
        /\ \A i \in DOMAIN out'[d] : i + 1 \in DOMAIN out[d] /\ out'[d][i] = out[d][i + 1]
    <2>1. out[d] \in Seq(Writes) /\ out'[d] = Tail(out[d])
      BY Domains
    <2> QED BY <2>1, Domains, TailQueue
  <1>3. \A i \in DOMAIN out[d] : i = 1 \/ (i - 1 \in DOMAIN out'[d] /\ out[d][i] = out'[d][i - 1])
    BY <1>2
  <1>4. \A e \in Devices : Queued(e, f, p)' => Queued(e, f, p)
    <2>1. Queued(d, f, p)' => Queued(d, f, p)
      BY <1>2, After DEF Queued
    <2> QED BY <1>2, <2>1 DEF Queued
  <1>5. ASSUME NEW i \in DOMAIN out'[d], IsLast(d, i, f, p)'
        PROVE  i + 1 \in DOMAIN out[d] /\ IsLast(d, i + 1, f, p)
    <2>1. Touches(out[d][i + 1], f, p)
      BY <1>2, <1>5, After
    <2>2. ASSUME NEW j \in DOMAIN out[d], j > i + 1
          PROVE  ~Touches(out[d][j], f, p)
      <3>1. j - 1 \in DOMAIN out'[d] /\ out[d][j] = out'[d][j - 1] /\ j - 1 > i
        BY <1>2, <1>3, <2>2
      <3>2. \A m \in DOMAIN out'[d] : m > i => ~Touches(out'[d][m], f, p)
        BY <1>5, After
      <3> QED BY <3>1, <3>2
    <2> QED BY <1>2, <2>1, <2>2 DEF IsLast
  <1>6. \A e \in Devices : \A i \in DOMAIN out'[e] : IsLast(e, i, f, p)' =>
            /\ Leaves(out'[e][i], f, p) <=> p \in wanted'[f]
            /\ i <= sent'[e] => (p \in value'[f] <=> p \in wanted'[f])
    <2>1. ASSUME NEW i \in DOMAIN out'[d], IsLast(d, i, f, p)'
          PROVE  /\ Leaves(out'[d][i], f, p) <=> p \in wanted'[f]
                 /\ i <= sent'[d] => (p \in value'[f] <=> p \in wanted'[f])
      <3>1. i <= sent'[d] => i + 1 <= sent[d]
        BY <1>2, Domains
      <3> QED BY <1>1, <1>2, <1>5, <2>1, <3>1 DEF PairConverging
    <2>2. ASSUME NEW e \in Devices \ {d}, NEW i \in DOMAIN out'[e], IsLast(e, i, f, p)'
          PROVE  /\ Leaves(out'[e][i], f, p) <=> p \in wanted'[f]
                 /\ i <= sent'[e] => (p \in value'[f] <=> p \in wanted'[f])
      <3>1. IsLast(e, i, f, p)
        BY <1>2, <2>2, After DEF IsLast
      <3> QED BY <1>1, <1>2, <2>2, <3>1 DEF PairConverging
    <2> QED BY <2>1, <2>2
  <1>7. ASSUME Settled(f, p)'
        PROVE  p \in value[f] <=> p \in wanted[f]
    <2>1. \A e \in Devices \ {d} : ~Queued(e, f, p)
      BY <1>2, <1>7 DEF Settled, Queued
    <2>2. \A i \in DOMAIN out[d] : i # 1 => ~Touches(out[d][i], f, p)
      <3>1. \A i \in DOMAIN out'[d] : ~Touches(out'[d][i], f, p)
        BY <1>7, After DEF Settled
      <3> QED BY <1>3, <3>1
    <2>3. CASE Touches(out[d][1], f, p)
      <3>1. 1 \in DOMAIN out[d] /\ IsLast(d, 1, f, p)
        BY <1>2, <2>2, <2>3 DEF IsLast
      <3>2. 1 <= sent[d]
        BY <1>2, <2>3
      <3> QED BY <1>1, <3>1, <3>2 DEF PairConverging
    <2>4. CASE ~Touches(out[d][1], f, p)
      <3>1. Settled(f, p)
        BY <2>1, <2>2, <2>4 DEF Settled, Queued
      <3> QED BY <1>1, <3>1 DEF PairConverging
    <2> QED BY <2>3, <2>4
  <1> QED BY <1>1, <1>4, <1>6, <1>7 DEF PairConverging

LEMMA AckConverging ==
    ASSUME TypeOK, TypeOK', Converging, NEW d \in Devices, Ack(d)
    PROVE  Converging'
  <1>1. /\ sent[d] > 0 /\ out' = [out EXCEPT ![d] = Tail(@)]
        /\ sent' = [sent EXCEPT ![d] = sent[d] - 1]
        /\ value' = value /\ wanted' = wanted /\ excused' = excused
    BY DEF Ack, D!Ack, D!DropHead, server, history
  <1>2. Len(out[d]) > 0 /\ sent[d] \in Nat
    BY <1>1, Domains
  <1> QED BY <1>1, <1>2, DropConverging

LEMMA RefuseConverging ==
    ASSUME TypeOK, TypeOK', Converging, NEW d \in Devices, Refuse(d)
    PROVE  Converging'
  <1>1. /\ sent[d] = 0 /\ stored[d] > 0 /\ sent' = sent
        /\ out' = [out EXCEPT ![d] = Tail(@)]
        /\ value' = value /\ wanted' = wanted
        /\ excused' = [f \in Fields |->
              excused[f] \cup {p \in Pairs : \E w \in {Head(out[d])} : Touches(w, f, p)}]
    BY DEF Refuse, D!Refuse, D!DropHead, Lose, server
  <1>2. Len(out[d]) > 0 /\ out[d] \in Seq(Writes) /\ sent \in [Devices -> Nat]
    BY <1>1, Domains
  <1>3. Head(out[d]) = out[d][1]
    BY <1>2, TailQueue
  <1>4. \A f \in Fields : \A p \in Pairs \ excused'[f] :
           p \notin excused[f] /\ ~Touches(out[d][1], f, p)
    BY <1>1, <1>3
  <1>5. sent' = [sent EXCEPT ![d] = IF sent[d] > 0 THEN sent[d] - 1 ELSE 0]
    BY <1>1, <1>2
  <1> QED BY <1>1, <1>2, <1>4, <1>5, DropConverging

LEMMA DieConverging ==
    ASSUME TypeOK, TypeOK', Converging, NEW d \in Devices, Die(d)
    PROVE  Converging'
  <1> SUFFICES ASSUME NEW f \in Fields, NEW p \in Pairs, p \notin excused'[f]
               PROVE  PairConverging(f, p)'
    BY DEF Converging, PairConverging
  <1>1. /\ out' = [e \in Devices |-> IF e \in {d} THEN SubSeq(out[e], 1, stored[e]) ELSE out[e]]
        /\ sent' = [e \in Devices |-> IF e \in {d} THEN 0 ELSE sent[e]]
        /\ value' = value /\ wanted' = wanted
        /\ excused' = [g \in Fields |-> excused[g] \cup
              {q \in Pairs : \E w \in {out[d][i] : i \in (stored[d] + 1)..Len(out[d])} :
                                Touches(w, g, q)}]
    BY DEF Die, D!Crash, Lose, server
  <1>2. p \notin excused[f]
    BY <1>1
  <1>3. \A i \in (stored[d] + 1)..Len(out[d]) : ~Touches(out[d][i], f, p)
    BY <1>1
  <1>4. PairConverging(f, p)
    BY <1>2 DEF Converging, PairConverging
  <1>5. /\ \A e \in Devices : DOMAIN out[e] = 1..Len(out[e]) /\ Len(out[e]) \in Nat
        /\ stored[d] \in 0..Len(out[d])
        /\ \A e \in Devices \ {d} : out'[e] = out[e] /\ sent'[e] = sent[e]
        /\ sent'[d] = 0
        /\ DOMAIN out'[d] = 1..stored[d]
        /\ \A i \in DOMAIN out'[d] : i \in DOMAIN out[d] /\ out'[d][i] = out[d][i]
    <2>1. /\ out[d] \in Seq(Writes) /\ out'[d] = SubSeq(out[d], 1, stored[d])
          /\ stored[d] \in 0..Len(out[d])
      BY <1>1, Domains
    <2> QED BY <1>1, <2>1, Domains, PrefixQueue
  <1>6. \A i \in DOMAIN out[d] : Touches(out[d][i], f, p) => i \in DOMAIN out'[d]
    BY <1>3, <1>5
  <1>7. \A e \in Devices : Queued(e, f, p)' <=> Queued(e, f, p)
    <2>1. Queued(d, f, p)' <=> Queued(d, f, p)
      BY <1>5, <1>6, After DEF Queued
    <2> QED BY <1>5, <2>1 DEF Queued
  <1>8. Settled(f, p)' <=> Settled(f, p)
    BY <1>7 DEF Settled
  <1>9. ASSUME NEW e \in Devices, NEW i \in DOMAIN out'[e], IsLast(e, i, f, p)'
        PROVE  /\ i \in DOMAIN out[e] /\ out'[e][i] = out[e][i] /\ IsLast(e, i, f, p)
               /\ i <= sent'[e] => i <= sent[e]
    <2>1. CASE e = d
      <3>1. /\ Touches(out'[d][i], f, p)
            /\ \A j \in DOMAIN out'[d] : j > i => ~Touches(out'[d][j], f, p)
        BY <1>9, <2>1, After
      <3>2. \A j \in DOMAIN out[d] : j > i => ~Touches(out[d][j], f, p)
        BY <1>5, <1>6, <3>1
      <3>3. ~(i <= sent'[d])
        BY <1>5, <1>9, <2>1
      <3> QED BY <1>5, <1>9, <2>1, <3>1, <3>2, <3>3 DEF IsLast
    <2>2. CASE e # d
      BY <1>5, <1>9, <2>2, After DEF IsLast
    <2> QED BY <2>1, <2>2
  <1> QED BY <1>1, <1>4, <1>7, <1>8, <1>9 DEF PairConverging

\* grantAccess takes the request back first.
LEMMA GrantWrites ==
    ASSUME NEW u \in Users, NEW s \in Rooms
    PROVE  grantAccess(u, s) = <<ArrayRemove("pendingMembers", u, s),
                                 ArrayUnion("sessions", u, s), ArrayUnion("members", u, s)>>
  <1>1. ASSUME NEW a, NEW b, NEW c
        PROVE  <<a>> \o <<b, c>> = <<a, b, c>>
    <2>1. <<a>> \in Seq({a, b, c}) /\ <<b, c>> \in Seq({a, b, c}) /\ <<a, b, c>> \in Seq({a, b, c})
      OBVIOUS
    <2>2. /\ Len(<<a>> \o <<b, c>>) = 3
          /\ (<<a>> \o <<b, c>>)[1] = a
          /\ (<<a>> \o <<b, c>>)[2] = b
          /\ (<<a>> \o <<b, c>>)[3] = c
          /\ <<a>> \o <<b, c>> \in Seq({a, b, c})
      BY <2>1
    <2>3. /\ Len(<<a>> \o <<b, c>>) = Len(<<a, b, c>>)
          /\ \A i \in 1..Len(<<a>> \o <<b, c>>) : (<<a>> \o <<b, c>>)[i] = <<a, b, c>>[i]
      BY <2>2
    <2> QED BY <2>1, <2>2, <2>3, SeqEqual, Zenon
  <1> QED BY <1>1 DEF grantAccess, joinSession

\* None of the app's calls writes the same pair of an array twice.
LEMMA CallsSingle ==
    ASSUME NEW u \in Users, NEW s \in Rooms
    PROVE  /\ Single(uploadSession(u, s))
           /\ Single(joinSession(u, s))
           /\ Single(unjoinSession(u, s))
           /\ Single(requestAccess(u, s))
           /\ Single(grantAccess(u, s))
           /\ Single(denyAccess(u, s))
  <1> USE DEF Single, Touches, Create, SetId, ArrayUnion, ArrayRemove, Write
  <1>1. Single(uploadSession(u, s))
    BY DEF uploadSession
  <1>2. Single(joinSession(u, s)) /\ Single(unjoinSession(u, s))
    BY DEF joinSession, unjoinSession
  <1>3. Single(requestAccess(u, s)) /\ Single(denyAccess(u, s))
    BY DEF requestAccess, denyAccess
  <1>4. Single(grantAccess(u, s))
    BY GrantWrites
  <1> QED BY <1>1, <1>2, <1>3, <1>4

LEMMA NextConverging == TypeOK /\ TypeOK' /\ Converging /\ [Next]_vars => Converging'
  <1> SUFFICES ASSUME TypeOK, TypeOK', Converging, [Next]_vars
               PROVE  Converging'
    OBVIOUS
  <1>1. ASSUME NEW d \in Devices, NEW u \in Users, NEW s \in Rooms,
               NEW ws \in {uploadSession(u, s), joinSession(u, s), unjoinSession(u, s),
                           requestAccess(u, s), grantAccess(u, s), denyAccess(u, s)},
               Call(d, ws)
        PROVE  Converging'
    <2>1. ws \in Seq(Writes) /\ Single(ws)
      BY CallWrites, CallsSingle
    <2> QED BY <1>1, <2>1, CallConverging
  <1>2. \A d \in Devices : Me(d) \in Users
    BY RoomsAssumption DEF Me
  <1>3. ASSUME NEW d \in Devices, NEW s \in Rooms, CreateRoom(d, s)
        PROVE  Converging'
    BY <1>1, <1>2, <1>3 DEF CreateRoom
  <1>4. ASSUME NEW d \in Devices, PublicButton(d)
        PROVE  Converging'
    <2>1. screen[d].room \in Rooms
      BY <1>4, RoomsAssumption DEF PublicButton
    <2> QED BY <1>1, <1>2, <1>4, <2>1 DEF PublicButton
  <1>5. ASSUME NEW d \in Devices, LeavePrivate(d)
        PROVE  Converging'
    BY <1>1, <1>2, <1>5 DEF LeavePrivate
  <1>6. ASSUME NEW d \in Devices, AskAccess(d)
        PROVE  Converging'
    BY <1>1, <1>2, <1>6 DEF AskAccess
  <1>7. ASSUME NEW d \in Devices, NEW s \in Rooms, JoinWithPassword(d, s)
        PROVE  Converging'
    BY <1>1, <1>2, <1>7 DEF JoinWithPassword
  <1>8. ASSUME NEW d \in Devices, NEW u \in Users, GrantRequest(d, u)
        PROVE  Converging'
    BY <1>1, <1>8 DEF GrantRequest, isCreator
  <1>9. ASSUME NEW d \in Devices, NEW u \in Users, DenyRequest(d, u)
        PROVE  Converging'
    BY <1>1, <1>9 DEF DenyRequest, isCreator
  <1>10. ASSUME NEW d \in Devices, NEW s \in Rooms, OpenRoom(d, s)
         PROVE  Converging'
    <2>1. /\ out' = out /\ value' = value /\ wanted' = wanted /\ excused' = excused
          /\ sent' = sent
      BY <1>10 DEF OpenRoom, delivery, server, history
    <2> QED BY <2>1, Domains, QuietConverging
  <1>11. ASSUME NEW d \in Devices, Store(d)
         PROVE  Converging'
    <2>1. /\ out' = out /\ value' = value /\ wanted' = wanted /\ excused' = excused
          /\ sent' = sent
      BY <1>11 DEF Store, D!Store, server, history
    <2> QED BY <2>1, Domains, QuietConverging
  <1>12. ASSUME NEW d \in Devices, Break(d)
         PROVE  Converging'
    <2>1. /\ out' = out /\ value' = value /\ wanted' = wanted /\ excused' = excused
          /\ sent' = [sent EXCEPT ![d] = 0]
      BY <1>12 DEF Break, D!Break, server, history
    <2>2. \A e \in Devices : sent'[e] <= sent[e]
      BY <2>1, Domains
    <2> QED BY <2>1, <2>2, QuietConverging
  <1>13. CASE UNCHANGED vars
    <2>1. /\ out' = out /\ value' = value /\ wanted' = wanted /\ excused' = excused
          /\ sent' = sent
      BY <1>13 DEF vars, delivery, server, history
    <2> QED BY <2>1, Domains, QuietConverging
  <1>14. ASSUME NEW d \in Devices,
                \/ Reappear(d) \/ \E u \in Users : Answer(d, u)
                \/ CheckPassword(d) \/ \E s \in Rooms : WrongPassword(d, s)
         PROVE  Converging'
    <2>1. /\ out' = out /\ value' = value /\ wanted' = wanted /\ excused' = excused
          /\ sent' = sent
      BY <1>14 DEF Reappear, Answer, CheckPassword, WrongPassword, delivery, server, history
    <2> QED BY <2>1, Domains, QuietConverging
  <1> QED
    BY <1>3, <1>4, <1>5, <1>6, <1>7, <1>8, <1>9, <1>10, <1>11, <1>12, <1>13, <1>14,
       CommitConverging, AckConverging, RefuseConverging, DieConverging
    DEF Next, Crash, LoadHalfCreated

(* Once no device holds a write about a pair, the server's array says     *)
(* what the last call about the pair asked for, whatever was sent again   *)
(* and in whatever order devices were heard, unless the pair is excused.  *)
THEOREM ServerConverges == Spec => []Converged
  <1>1. Init => Converging
    BY DEF Init, D!Init, Converging, Queued, IsLast
  <1>2. Converging => Converged
    BY DEF Converging, Converged
  <1>3. Spec => []Converging
    BY <1>1, NextConverging, TypeCorrect, PTL DEF Spec
  <1> QED BY <1>2, <1>3, PTL

-----------------------------------------------------------------------------
(* What the steps do to the positions of the queues. *)

LEMMA QueueCall ==
    ASSUME TypeOK, NEW d \in Devices, NEW ws \in Seq(Writes), Call(d, ws)
    PROVE  /\ sent' = sent /\ doc' = doc /\ value' = value /\ lost' = lost
           /\ \A e \in Devices : \A i \in DOMAIN out[e] :
                 i \in DOMAIN out'[e] /\ out'[e][i] = out[e][i]
           /\ \A e \in Devices : \A i \in DOMAIN out'[e] :
                 \/ i \in DOMAIN out[e] /\ out'[e][i] = out[e][i]
                 \/ e = d /\ \E j \in DOMAIN ws : i = Len(out[d]) + j /\ out'[e][i] = ws[j]
           /\ \A j \in DOMAIN ws : /\ Len(out[d]) + j \in DOMAIN out'[d]
                                   /\ out'[d][Len(out[d]) + j] = ws[j]
  <1>1. /\ out' = [out EXCEPT ![d] = out[d] \o ws]
        /\ sent' = sent /\ doc' = doc /\ value' = value /\ lost' = lost
    BY DEF Call, D!Dispatch
  <1>2. /\ out \in [Devices -> Seq(Writes)]
        /\ DOMAIN out[d] = 1..Len(out[d]) /\ Len(out[d]) \in Nat
    BY Domains
  <1>3. \A e \in Devices \ {d} : out'[e] = out[e]
    BY <1>1, <1>2
  <1>4. out'[d] = out[d] \o ws /\ out[d] \in Seq(Writes)
    BY <1>1, <1>2
  <1>5. DOMAIN ws = 1..Len(ws) /\ Len(ws) \in Nat
    OBVIOUS
  <1>6. /\ out'[d] \in Seq(Writes)
        /\ Len(out'[d]) = Len(out[d]) + Len(ws)
        /\ \A i \in 1..Len(out[d]) : out'[d][i] = out[d][i]
        /\ \A i \in 1..Len(ws) : out'[d][Len(out[d]) + i] = ws[i]
    BY <1>4, ConcatQueue
  <1>7. DOMAIN out'[d] = 1..(Len(out[d]) + Len(ws))
    BY <1>6
  <1>8. \A i \in DOMAIN out'[d] :
           i \in DOMAIN out[d] \/ (i - Len(out[d]) \in DOMAIN ws /\ i = Len(out[d]) + (i - Len(out[d])))
    BY <1>2, <1>5, <1>7
  <1>9. \A i \in DOMAIN out'[d] :
           \/ i \in DOMAIN out[d] /\ out'[d][i] = out[d][i]
           \/ \E j \in DOMAIN ws : i = Len(out[d]) + j /\ out'[d][i] = ws[j]
    BY <1>2, <1>5, <1>6, <1>8
  <1>10. \A i \in DOMAIN out[d] : i \in DOMAIN out'[d] /\ out'[d][i] = out[d][i]
    BY <1>2, <1>5, <1>6, <1>7
  <1>11. \A j \in DOMAIN ws : /\ Len(out[d]) + j \in DOMAIN out'[d]
                              /\ out'[d][Len(out[d]) + j] = ws[j]
    BY <1>2, <1>5, <1>6, <1>7
  <1> QED BY <1>1, <1>3, <1>9, <1>10, <1>11

LEMMA QueueDrop ==
    ASSUME TypeOK, NEW d \in Devices, Len(out[d]) > 0, out' = [out EXCEPT ![d] = Tail(@)]
    PROVE  /\ \A e \in Devices \ {d} : out'[e] = out[e]
           /\ \A i \in DOMAIN out'[d] : i + 1 \in DOMAIN out[d] /\ out'[d][i] = out[d][i + 1]
           /\ \A i \in DOMAIN out[d] :
                 i = 1 \/ (i - 1 \in DOMAIN out'[d] /\ out'[d][i - 1] = out[d][i])
           /\ Head(out[d]) = out[d][1]
  <1>1. out[d] \in Seq(Writes) /\ out'[d] = Tail(out[d])
    BY Domains
  <1>2. DOMAIN out'[d] = 1..(Len(out[d]) - 1) /\ DOMAIN out[d] = 1..Len(out[d]) /\ Len(out[d]) \in Nat
    BY <1>1, Domains, TailQueue
  <1>3. \A i \in 1..(Len(out[d]) - 1) : out'[d][i] = out[d][i + 1]
    BY <1>1, TailQueue
  <1>4. \A i \in DOMAIN out'[d] : i + 1 \in DOMAIN out[d] /\ out'[d][i] = out[d][i + 1]
    BY <1>2, <1>3
  <1>5. \A i \in DOMAIN out[d] : i = 1 \/ (i - 1 \in DOMAIN out'[d] /\ out[d][i] = out[d][(i - 1) + 1])
    BY <1>2
  <1> QED BY <1>1, <1>4, <1>5, Domains, TailQueue

LEMMA QueueDie ==
    ASSUME TypeOK, NEW d \in Devices, Die(d)
    PROVE  /\ doc' = doc /\ value' = value /\ creator' = creator /\ wanted' = wanted
           /\ asked' = asked /\ granted' = granted /\ lost \subseteq lost'
           /\ \A e \in Devices : sent'[e] <= sent[e]
           /\ \A e \in Devices : \A i \in DOMAIN out'[e] :
                 i \in DOMAIN out[e] /\ out'[e][i] = out[e][i]
           /\ \A e \in Devices : \A i \in DOMAIN out[e] :
                 \/ out[e][i] \in lost'
                 \/ \A j \in 1..i : j \in DOMAIN out'[e] /\ out'[e][j] = out[e][j]
           /\ screen'[d] = NoScreen
           /\ \A e \in Devices \ {d} : screen'[e] = screen[e] /\ out'[e] = out[e]
  <1>1. /\ out' = [e \in Devices |-> IF e \in {d} THEN SubSeq(out[e], 1, stored[e]) ELSE out[e]]
        /\ sent' = [e \in Devices |-> IF e \in {d} THEN 0 ELSE sent[e]]
        /\ doc' = doc /\ value' = value /\ creator' = creator /\ wanted' = wanted
        /\ asked' = asked /\ granted' = granted
        /\ lost' = lost \cup {out[d][i] : i \in (stored[d] + 1)..Len(out[d])}
    BY DEF Die, D!Crash, Lose, server
  <1>2. screen'[d] = NoScreen /\ \A e \in Devices \ {d} : screen'[e] = screen[e]
    BY DEF Die, TypeOK
  <1>3. /\ \A e \in Devices : DOMAIN out[e] = 1..Len(out[e]) /\ Len(out[e]) \in Nat /\ sent[e] \in Nat
        /\ stored[d] \in 0..Len(out[d])
        /\ \A e \in Devices \ {d} : out'[e] = out[e]
        /\ out[d] \in Seq(Writes) /\ out'[d] = SubSeq(out[d], 1, stored[d])
    BY <1>1, Domains
  <1>4. DOMAIN out'[d] = 1..stored[d] /\ \A i \in 1..stored[d] : out'[d][i] = out[d][i]
    BY <1>3, PrefixQueue
  <1>5. \A e \in Devices : sent'[e] <= sent[e]
    BY <1>1, <1>3
  <1>6. \A e \in Devices : \A i \in DOMAIN out'[e] : i \in DOMAIN out[e] /\ out'[e][i] = out[e][i]
    <2>1. \A i \in DOMAIN out'[d] : i \in DOMAIN out[d] /\ out'[d][i] = out[d][i]
      BY <1>3, <1>4
    <2> QED BY <1>3, <2>1
  <1>7. ASSUME NEW e \in Devices, NEW i \in DOMAIN out[e], out[e][i] \notin lost', NEW j \in 1..i
        PROVE  j \in DOMAIN out'[e] /\ out'[e][j] = out[e][j]
    <2>1. CASE e = d
      <3>1. ~(i \in (stored[d] + 1)..Len(out[d]))
        BY <1>1, <1>7, <2>1
      <3>2. j \in 1..stored[d]
        BY <1>3, <1>7, <2>1, <3>1
      <3> QED BY <1>4, <2>1, <3>2
    <2>2. CASE e # d
      BY <1>3, <1>7, <2>2
    <2> QED BY <2>1, <2>2
  <1> QED BY <1>1, <1>2, <1>3, <1>5, <1>6, <1>7

LEMMA ShowKeeps ==
    ASSUME TypeOK, NEW d \in Devices, NEW us, NEW ps, Show(d, us, ps)
    PROVE  /\ \A e \in Devices : /\ screen'[e].room = screen[e].room
                                 /\ screen'[e].pendingMembers = screen[e].pendingMembers
           /\ \A e \in Devices \ {d} : screen'[e] = screen[e]
           /\ screen'[d].pendingUsers = ps
  <1>1. screen' = [screen EXCEPT ![d] = [screen[d] EXCEPT !.users = us, !.pendingUsers = ps]]
    BY DEF Show
  <1>2. screen \in [Devices -> Screens]
    BY DEF TypeOK
  <1>3. screen'[d] = [screen[d] EXCEPT !.users = us, !.pendingUsers = ps]
    BY <1>1, <1>2
  <1>4. screen[d] \in Screens
    BY <1>2
  <1>5. /\ screen'[d].room = screen[d].room
        /\ screen'[d].pendingMembers = screen[d].pendingMembers
        /\ screen'[d].pendingUsers = ps
    BY <1>3, <1>4 DEF Screens
  <1>6. \A e \in Devices \ {d} : screen'[e] = screen[e]
    BY <1>1, <1>2
  <1> QED BY <1>5, <1>6

\* A call writes about one room; a creation leads.
LEMMA CallRooms ==
    ASSUME NEW u \in Users, NEW s \in Rooms,
           NEW ws \in {uploadSession(u, s), joinSession(u, s), unjoinSession(u, s),
                       requestAccess(u, s), grantAccess(u, s), denyAccess(u, s)}
    PROVE  /\ ws \in Seq(Writes)
           /\ \A i \in DOMAIN ws : ws[i].room = s
           /\ ws = uploadSession(u, s) => 1 \in DOMAIN ws /\ ws[1].op = "create"
  <1>1. ws \in Seq(Writes)
    BY CallWrites
  <1> USE DEF Create, SetId, ArrayUnion, ArrayRemove, Write
  <1>2. ws = uploadSession(u, s) => /\ \A i \in DOMAIN ws : ws[i].room = s
                                    /\ 1 \in DOMAIN ws /\ ws[1].op = "create"
    BY DEF uploadSession
  <1>3. ws \in {joinSession(u, s), unjoinSession(u, s)} => \A i \in DOMAIN ws : ws[i].room = s
    BY DEF joinSession, unjoinSession
  <1>4. ws \in {requestAccess(u, s), denyAccess(u, s)} => \A i \in DOMAIN ws : ws[i].room = s
    BY DEF requestAccess, denyAccess
  <1>5. ws = grantAccess(u, s) => \A i \in DOMAIN ws : ws[i].room = s
    BY GrantWrites
  <1> QED BY <1>1, <1>2, <1>3, <1>4, <1>5
-----------------------------------------------------------------------------
(* The kinds of steps: a creation, another call about a known room, a      *)
(* commit, the oldest write leaving a queue, a death, and steps that leave *)
(* queues and server alone.                                                *)

Asks(d, u, s) ==
    \E ws \in {joinSession(u, s), unjoinSession(u, s), requestAccess(u, s),
               grantAccess(u, s), denyAccess(u, s)} :
       /\ Call(d, ws)
       /\ screen[d].room = s \/ Exists(d, s)
       /\ creator' = creator
       /\ \A e \in Devices : screen'[e].room = screen[e].room

Drops(d) ==
    /\ Len(out[d]) > 0
    /\ out' = [out EXCEPT ![d] = Tail(@)]
    /\ sent' = [sent EXCEPT ![d] = IF sent[d] > 0 THEN sent[d] - 1 ELSE 0]
    /\ UNCHANGED <<server, screen, wanted>>
    /\ lost \subseteq lost'
    /\ sent[d] > 0 \/ out[d][1] \in lost'

Quiet ==
    /\ UNCHANGED <<out, server, wanted, lost>>
    /\ \A e \in Devices : sent'[e] <= sent[e]
    /\ \A e \in Devices : screen'[e].room = screen[e].room \/ Exists(e, screen'[e].room)

StepKind ==
    \/ \E d \in Devices : \E s \in Rooms : CreateRoom(d, s)
    \/ \E d \in Devices : \E u \in Users : \E s \in Rooms : Asks(d, u, s)
    \/ \E d \in Devices : Commit(d) \/ Drops(d) \/ Die(d)
    \/ Quiet

LEMMA StepKinds == TypeOK /\ [Next]_vars => StepKind
  <1> SUFFICES ASSUME TypeOK, [Next]_vars
               PROVE  StepKind
    OBVIOUS
  <1>1. ASSUME NEW d \in Devices, NEW u \in Users, NEW s \in Rooms,
               NEW ws \in {joinSession(u, s), unjoinSession(u, s),
                           requestAccess(u, s), grantAccess(u, s), denyAccess(u, s)},
               Call(d, ws), creator' = creator,
               screen[d].room = s \/ Exists(d, s),
               screen' = screen \/ \E us, ps \in SUBSET Users : Show(d, us, ps)
        PROVE  StepKind
    <2>1. \A e \in Devices : screen'[e].room = screen[e].room
      BY <1>1, ShowKeeps
    <2>2. Asks(d, u, s)
      BY <1>1, <2>1 DEF Asks
    <2> QED BY <2>2 DEF StepKind
  <1>2. \A d \in Devices : Me(d) \in Users
    BY RoomsAssumption DEF Me
  <1>3. \A d \in Devices : screen[d].users \in SUBSET Users /\ screen[d].pendingUsers \in SUBSET Users
    BY DEF TypeOK, Screens
  <1>4. ASSUME NEW d \in Devices, PublicButton(d)
        PROVE  StepKind
    <2>1. screen[d].room \in Rooms
      BY <1>4, RoomsAssumption DEF PublicButton
    <2>2. \E us, ps \in SUBSET Users : Show(d, us, ps)
      BY <1>2, <1>3, <1>4 DEF PublicButton
    <2> QED BY <1>1, <1>2, <1>4, <2>1, <2>2 DEF PublicButton
  <1>5. ASSUME NEW d \in Devices, LeavePrivate(d)
        PROVE  StepKind
    <2>1. \E us, ps \in SUBSET Users : Show(d, us, ps)
      BY <1>2, <1>3, <1>5 DEF LeavePrivate
    <2> QED BY <1>1, <1>2, <1>5, <2>1 DEF LeavePrivate
  <1>6. ASSUME NEW d \in Devices, AskAccess(d)
        PROVE  StepKind
    <2>1. \E us, ps \in SUBSET Users : Show(d, us, ps)
      BY <1>2, <1>3, <1>6 DEF AskAccess
    <2> QED BY <1>1, <1>2, <1>6, <2>1 DEF AskAccess
  <1>7. ASSUME NEW d \in Devices, NEW s \in Rooms, JoinWithPassword(d, s)
        PROVE  StepKind
    <2>1. screen' = screen \/ \E us, ps \in SUBSET Users : Show(d, us, ps)
      BY <1>2, <1>3, <1>7 DEF JoinWithPassword
    <2> QED BY <1>1, <1>2, <1>7, <2>1 DEF JoinWithPassword
  <1>8. ASSUME NEW d \in Devices, NEW u \in Users, GrantRequest(d, u)
        PROVE  StepKind
    <2>1. \E us, ps \in SUBSET Users : Show(d, us, ps)
      BY <1>3, <1>8 DEF GrantRequest
    <2> QED BY <1>1, <1>8, <2>1 DEF GrantRequest, isCreator
  <1>9. ASSUME NEW d \in Devices, NEW u \in Users, DenyRequest(d, u)
        PROVE  StepKind
    <2>1. \E us, ps \in SUBSET Users : Show(d, us, ps)
      BY <1>3, <1>9 DEF DenyRequest
    <2> QED BY <1>1, <1>9, <2>1 DEF DenyRequest, isCreator
  <1>10. \A e \in Devices : sent[e] <= sent[e]
    BY Domains
  <1>11. ASSUME NEW d \in Devices, NEW s \in Rooms, OpenRoom(d, s)
         PROVE  StepKind
    <2>1. UNCHANGED <<out, server, wanted, lost>> /\ sent' = sent
      BY <1>11 DEF OpenRoom, delivery, server, history
    <2>2. screen'[d].room = s /\ \A e \in Devices \ {d} : screen'[e] = screen[e]
      BY <1>11 DEF OpenRoom, TypeOK
    <2>3. Exists(d, s)
      BY <1>11 DEF OpenRoom
    <2> QED BY <1>10, <2>1, <2>2, <2>3 DEF Quiet, StepKind
  <1>12. ASSUME NEW d \in Devices, Reappear(d) \/ \E u \in Users : Answer(d, u)
         PROVE  StepKind
    <2>1. UNCHANGED <<out, server, wanted, lost>> /\ sent' = sent
      BY <1>12 DEF Reappear, Answer, delivery, server, history
    <2>2. \E us, ps \in SUBSET Users : Show(d, us, ps)
      BY <1>3, <1>12 DEF Reappear, Answer
    <2> QED BY <1>10, <2>1, <2>2, ShowKeeps DEF Quiet, StepKind
  <1>13. ASSUME NEW d \in Devices,
                CheckPassword(d) \/ (\E s \in Rooms : WrongPassword(d, s)) \/ Store(d)
         PROVE  StepKind
    <2>1. /\ UNCHANGED <<out, server, wanted, lost>> /\ sent' = sent
          /\ screen' = screen
      BY <1>13 DEF CheckPassword, WrongPassword, Store, D!Store, delivery, server, history, app
    <2> QED BY <1>10, <2>1 DEF Quiet, StepKind
  <1>14. ASSUME NEW d \in Devices, Break(d)
         PROVE  StepKind
    <2>1. /\ UNCHANGED <<out, server, wanted, lost>> /\ screen' = screen
          /\ sent' = [sent EXCEPT ![d] = 0]
      BY <1>14 DEF Break, D!Break, server, history, app
    <2>2. \A e \in Devices : sent'[e] <= sent[e]
      BY <2>1, Domains
    <2> QED BY <2>1, <2>2 DEF Quiet, StepKind
  <1>15. CASE UNCHANGED vars
    <2>1. /\ UNCHANGED <<out, server, wanted, lost>> /\ sent' = sent
          /\ screen' = screen
      BY <1>15 DEF vars, delivery, server, history, app
    <2> QED BY <1>10, <2>1 DEF Quiet, StepKind
  <1>16. ASSUME NEW d \in Devices, Ack(d)
         PROVE  StepKind
    <2>1. /\ sent[d] > 0 /\ out' = [out EXCEPT ![d] = Tail(@)]
          /\ sent' = [sent EXCEPT ![d] = IF sent[d] > 0 THEN sent[d] - 1 ELSE 0]
          /\ UNCHANGED <<server, screen, wanted>> /\ lost' = lost
      BY <1>16 DEF Ack, D!Ack, D!DropHead, server, history, app
    <2>2. Len(out[d]) > 0
      BY <2>1, Domains
    <2> QED BY <2>1, <2>2 DEF Drops, StepKind
  <1>17. ASSUME NEW d \in Devices, Refuse(d)
         PROVE  StepKind
    <2>1. /\ sent[d] = 0 /\ stored[d] > 0 /\ sent' = sent
          /\ out' = [out EXCEPT ![d] = Tail(@)]
          /\ UNCHANGED <<server, screen, wanted>>
          /\ lost' = lost \cup {Head(out[d])}
      BY <1>17 DEF Refuse, D!Refuse, D!DropHead, Lose, server, app
    <2>2. Len(out[d]) > 0 /\ Head(out[d]) = out[d][1]
      BY <2>1, Domains, QueueDrop
    <2>3. sent' = [sent EXCEPT ![d] = IF sent[d] > 0 THEN sent[d] - 1 ELSE 0]
      BY <2>1, Domains
    <2> QED BY <2>1, <2>2, <2>3 DEF Drops, StepKind
  <1>18. ASSUME NEW d \in Devices, NEW s \in Rooms, CreateRoom(d, s)
         PROVE  StepKind
    BY <1>18 DEF StepKind
  <1>19. ASSUME NEW d \in Devices, Commit(d) \/ Die(d)
         PROVE  StepKind
    BY <1>19 DEF StepKind
  <1>20. ASSUME NEW d \in Devices,
                \/ Reappear(d) \/ \E u \in Users : Answer(d, u)
                \/ PublicButton(d) \/ LeavePrivate(d) \/ AskAccess(d) \/ CheckPassword(d)
                \/ Store(d) \/ Commit(d) \/ Ack(d) \/ Refuse(d) \/ Break(d) \/ Die(d)
         PROVE  StepKind
    BY <1>4, <1>5, <1>6, <1>12, <1>13, <1>14, <1>16, <1>17, <1>19, <1>20
  <1>21. ASSUME NEW d \in Devices, NEW s \in Rooms,
                \/ CreateRoom(d, s) \/ OpenRoom(d, s)
                \/ JoinWithPassword(d, s) \/ WrongPassword(d, s)
         PROVE  StepKind
    BY <1>7, <1>11, <1>13, <1>18, <1>21
  <1>22. ASSUME NEW d \in Devices, NEW u \in Users, GrantRequest(d, u) \/ DenyRequest(d, u)
         PROVE  StepKind
    BY <1>8, <1>9, <1>22
  <1> QED BY <1>15, <1>20, <1>21, <1>22 DEF Next, Crash, LoadHalfCreated

-----------------------------------------------------------------------------
(* NoDanglingSession. *)

\* The body of CreationFirst after a step.
LEMMA WaitsAfter ==
    ASSUME NEW s,
           \A p \in value'["sessions"] : p[2] # s,
           \A e \in Devices : \A i \in DOMAIN out'[e] : out'[e][i].room = s =>
              \E j \in sent'[e] + 1 .. i : out'[e][j].op = "create" /\ out'[e][j].room = s,
           \A e \in Devices : screen'[e].room = s =>
              \E i \in DOMAIN out'[e] : out'[e][i].op = "create" /\ out'[e][i].room = s
    PROVE  Waits(s)'
  BY DEF Waits, HasWrite

\* A room a device shows or reads exists, is being created by that device,
\* or could not be created.
LEMMA ScreenExists ==
    ASSUME CreationFirst, NEW d \in Devices, NEW s \in Rooms,
           screen[d].room = s \/ Exists(d, s)
    PROVE  doc[s] # "none" \/ HasWrite(d, "create", s) \/ Lost("create", s)
  BY DEF CreationFirst, Waits, Exists

LEMMA CallCreation ==
    ASSUME TypeOK, CreationFirst, NEW d \in Devices, NEW s \in Rooms, NEW ws \in Seq(Writes),
           \A i \in DOMAIN ws : ws[i].room = s,
           Call(d, ws),
           \A e \in Devices : screen'[e].room = screen[e].room,
           \/ 1 \in DOMAIN ws /\ ws[1].op = "create"
           \/ screen[d].room = s
           \/ Exists(d, s)
    PROVE  CreationFirst'
  <1> SUFFICES ASSUME NEW r \in Rooms, doc'[r] = "none", ~Lost("create", r)'
               PROVE  Waits(r)'
    BY DEF CreationFirst
  <1>1. /\ sent' = sent /\ doc' = doc /\ value' = value /\ lost' = lost
        /\ \A e \in Devices : \A i \in DOMAIN out[e] :
              i \in DOMAIN out'[e] /\ out'[e][i] = out[e][i]
        /\ \A e \in Devices : \A i \in DOMAIN out'[e] :
              \/ i \in DOMAIN out[e] /\ out'[e][i] = out[e][i]
              \/ e = d /\ \E j \in DOMAIN ws : i = Len(out[d]) + j /\ out'[e][i] = ws[j]
        /\ \A j \in DOMAIN ws : /\ Len(out[d]) + j \in DOMAIN out'[d]
                                /\ out'[d][Len(out[d]) + j] = ws[j]
    BY QueueCall
  <1>2. Waits(r)
    BY <1>1 DEF CreationFirst, Lost
  <1>3. \A p \in value'["sessions"] : p[2] # r
    BY <1>1, <1>2 DEF Waits
  <1>4. \A e \in Devices : /\ DOMAIN out[e] = 1..Len(out[e]) /\ Len(out[e]) \in Nat
                           /\ sent[e] \in Nat /\ sent[e] <= Len(out[e])
    BY Domains
  <1>5. ASSUME NEW e \in Devices, NEW i \in DOMAIN out[e], out[e][i].room = r
        PROVE  \E j \in sent'[e] + 1 .. i : out'[e][j].op = "create" /\ out'[e][j].room = r
    <2>1. PICK j \in sent[e] + 1 .. i : out[e][j].op = "create" /\ out[e][j].room = r
      BY <1>2, <1>5 DEF Waits
    <2>2. j \in DOMAIN out[e]
      BY <1>4, <1>5, <2>1
    <2> QED BY <1>1, <2>1, <2>2
  <1>6. ASSUME NEW j \in DOMAIN ws, ws[j].room = r
        PROVE  \E k \in sent'[d] + 1 .. Len(out[d]) + j :
                  out'[d][k].op = "create" /\ out'[d][k].room = r
    <2>1. r = s
      BY <1>6
    <2>2. CASE 1 \in DOMAIN ws /\ ws[1].op = "create"
      <3>1. Len(out[d]) + 1 \in sent'[d] + 1 .. Len(out[d]) + j
        BY <1>1, <1>4, <1>6
      <3> QED BY <1>1, <2>1, <2>2, <3>1
    <2>3. CASE HasWrite(d, "create", s)
      <3>1. PICK i \in DOMAIN out[d] : out[d][i].op = "create" /\ out[d][i].room = s
        BY <2>3 DEF HasWrite
      <3>2. PICK k \in sent'[d] + 1 .. i : out'[d][k].op = "create" /\ out'[d][k].room = r
        BY <1>5, <2>1, <3>1
      <3>3. k \in sent'[d] + 1 .. Len(out[d]) + j
        BY <1>1, <1>4, <1>6, <3>1, <3>2
      <3> QED BY <3>2, <3>3
    <2> QED BY <1>1, <2>1, <2>2, <2>3, ScreenExists DEF Lost
  <1>7. ASSUME NEW e \in Devices, NEW i \in DOMAIN out'[e], out'[e][i].room = r
        PROVE  \E j \in sent'[e] + 1 .. i : out'[e][j].op = "create" /\ out'[e][j].room = r
    <2>1. CASE i \in DOMAIN out[e] /\ out'[e][i] = out[e][i]
      BY <1>5, <1>7, <2>1
    <2>2. ASSUME e = d, NEW j \in DOMAIN ws, i = Len(out[d]) + j, out'[e][i] = ws[j]
          PROVE  \E k \in sent'[e] + 1 .. i : out'[e][k].op = "create" /\ out'[e][k].room = r
      BY <1>6, <1>7, <2>2
    <2> QED BY <1>1, <2>1, <2>2
  <1>8. ASSUME NEW e \in Devices, screen'[e].room = r
        PROVE  \E i \in DOMAIN out'[e] : out'[e][i].op = "create" /\ out'[e][i].room = r
    BY <1>1, <1>2, <1>8 DEF Waits, HasWrite
  <1> QED BY <1>3, <1>7, <1>8, WaitsAfter

LEMMA QuietCreation ==
    ASSUME TypeOK, CreationFirst,
           out' = out, value' = value, doc' = doc, lost' = lost,
           \A e \in Devices : sent'[e] \in Nat /\ sent'[e] <= sent[e],
           \A e \in Devices : screen'[e].room = screen[e].room \/ Exists(e, screen'[e].room)
    PROVE  CreationFirst'
  <1> SUFFICES ASSUME NEW s \in Rooms, doc'[s] = "none", ~Lost("create", s)'
               PROVE  Waits(s)'
    BY DEF CreationFirst
  <1>1. Waits(s)
    BY DEF CreationFirst, Lost
  <1>2. ASSUME NEW e \in Devices, NEW i \in DOMAIN out'[e], out'[e][i].room = s
        PROVE  \E j \in sent'[e] + 1 .. i : out'[e][j].op = "create" /\ out'[e][j].room = s
    <2>1. PICK j \in sent[e] + 1 .. i : out[e][j].op = "create" /\ out[e][j].room = s
      BY <1>1, <1>2 DEF Waits
    <2>2. j \in sent'[e] + 1 .. i
      BY <1>2, <2>1, Domains
    <2> QED BY <2>1, <2>2
  <1>3. ASSUME NEW e \in Devices, screen'[e].room = s
        PROVE  \E i \in DOMAIN out'[e] : out'[e][i].op = "create" /\ out'[e][i].room = s
    BY <1>1, <1>3 DEF Waits, HasWrite, Exists
  <1> QED BY <1>1, <1>2, <1>3, WaitsAfter DEF Waits

LEMMA CommitCreation ==
    ASSUME TypeOK, CreationFirst, NEW d \in Devices, Commit(d)
    PROVE  CreationFirst'
  <1> SUFFICES ASSUME NEW s \in Rooms, doc'[s] = "none", ~Lost("create", s)'
               PROVE  Waits(s)'
    BY DEF CreationFirst
  <1> DEFINE k == sent[d] + 1
             w == out[d][k]
  <1>1. /\ out' = out /\ lost' = lost /\ screen' = screen
        /\ sent' = [sent EXCEPT ![d] = k] /\ k \in DOMAIN out[d]
    <2>1. sent[d] < stored[d]
      BY DEF Commit, D!Commit
    <2>2. k \in DOMAIN out[d]
      BY <2>1, Domains
    <2> QED BY <2>2 DEF Commit, D!Commit, app, history
  <1>2. /\ doc' = [doc EXCEPT ![w.room] = CASE w.op = "create" -> "noId"
                                           [] w.op = "setId" -> "full"
                                           [] OTHER -> @]
        /\ value' = [f \in Fields |->
              {p \in Pairs : IF Touches(w, f, p) THEN Leaves(w, f, p) ELSE p \in value[f]}]
    BY DEF Commit, Apply, Upcoming
  <1>3. doc[s] = "none" /\ (w.room = s => w.op # "create")
    BY <1>2 DEF TypeOK
  <1>4. Waits(s)
    BY <1>1, <1>3 DEF CreationFirst, Lost
  <1>5. /\ \A e \in Devices : DOMAIN out[e] = 1..Len(out[e]) /\ Len(out[e]) \in Nat /\ sent[e] \in Nat
        /\ sent'[d] = k /\ \A e \in Devices \ {d} : sent'[e] = sent[e]
    BY <1>1, Domains
  <1>6. w.room # s
    <2>1. ASSUME w.room = s
          PROVE  FALSE
      <3>1. PICK j \in sent[d] + 1 .. k : out[d][j].op = "create" /\ out[d][j].room = s
        BY <1>1, <1>4, <2>1 DEF Waits
      <3>2. j = k
        BY <1>5, <3>1
      <3> QED BY <1>3, <2>1, <3>1, <3>2
    <2> QED BY <2>1
  <1>7. \A p \in value'["sessions"] : p[2] # s
    <2>1. "sessions" \in Fields
      BY DEF Fields
    <2> QED BY <1>2, <1>4, <1>6, <2>1 DEF Waits, Touches
  <1>8. ASSUME NEW e \in Devices, NEW i \in DOMAIN out'[e], out'[e][i].room = s
        PROVE  \E j \in sent'[e] + 1 .. i : out'[e][j].op = "create" /\ out'[e][j].room = s
    <2>1. PICK j \in sent[e] + 1 .. i : out[e][j].op = "create" /\ out[e][j].room = s
      BY <1>1, <1>4, <1>8 DEF Waits
    <2>2. e = d => j # k
      BY <1>6, <2>1
    <2>3. j \in sent'[e] + 1 .. i
      BY <1>1, <1>5, <1>8, <2>1, <2>2
    <2> QED BY <1>1, <2>1, <2>3
  <1>9. ASSUME NEW e \in Devices, screen'[e].room = s
        PROVE  \E i \in DOMAIN out'[e] : out'[e][i].op = "create" /\ out'[e][i].room = s
    BY <1>1, <1>4, <1>9 DEF Waits, HasWrite
  <1> QED BY <1>7, <1>8, <1>9, WaitsAfter

\* The oldest write of d leaves, committed or lost.
LEMMA DropCreation ==
    ASSUME TypeOK, CreationFirst, NEW d \in Devices,
           Len(out[d]) > 0, out' = [out EXCEPT ![d] = Tail(@)],
           sent' = [sent EXCEPT ![d] = IF sent[d] > 0 THEN sent[d] - 1 ELSE 0],
           value' = value, doc' = doc, screen' = screen, lost \subseteq lost',
           sent[d] > 0 \/ out[d][1] \in lost'
    PROVE  CreationFirst'
  <1> SUFFICES ASSUME NEW s \in Rooms, doc'[s] = "none", ~Lost("create", s)'
               PROVE  Waits(s)'
    BY DEF CreationFirst
  <1>1. Waits(s) /\ \A w \in lost' : ~(w.op = "create" /\ w.room = s)
    BY DEF CreationFirst, Lost
  <1>2. /\ \A e \in Devices \ {d} : out'[e] = out[e] /\ sent'[e] = sent[e]
        /\ sent'[d] = IF sent[d] > 0 THEN sent[d] - 1 ELSE 0
        /\ \A e \in Devices : DOMAIN out[e] = 1..Len(out[e]) /\ Len(out[e]) \in Nat /\ sent[e] \in Nat
    BY Domains
  <1>3. /\ \A i \in DOMAIN out'[d] : i + 1 \in DOMAIN out[d] /\ out'[d][i] = out[d][i + 1]
        /\ \A i \in DOMAIN out[d] :
              i = 1 \/ (i - 1 \in DOMAIN out'[d] /\ out'[d][i - 1] = out[d][i])
    BY QueueDrop
  <1>4. ASSUME NEW i \in DOMAIN out[d], out[d][i].room = s
        PROVE  \E j \in sent[d] + 1 .. i : /\ j - 1 \in DOMAIN out'[d]
                                          /\ out'[d][j - 1].op = "create"
                                          /\ out'[d][j - 1].room = s
                                          /\ j - 1 \in sent'[d] + 1 .. i - 1
    <2>1. PICK j \in sent[d] + 1 .. i : out[d][j].op = "create" /\ out[d][j].room = s
      BY <1>1, <1>4 DEF Waits
    <2>2. j # 1
      BY <1>1, <1>2, <2>1
    <2>3. j \in DOMAIN out[d] /\ j - 1 \in sent'[d] + 1 .. i - 1
      BY <1>2, <1>4, <2>1, <2>2
    <2> QED BY <1>3, <2>1, <2>2, <2>3
  <1>5. ASSUME NEW e \in Devices, NEW i \in DOMAIN out'[e], out'[e][i].room = s
        PROVE  \E j \in sent'[e] + 1 .. i : out'[e][j].op = "create" /\ out'[e][j].room = s
    <2>1. CASE e = d
      <3>1. i + 1 \in DOMAIN out[d] /\ out[d][i + 1].room = s
        BY <1>3, <1>5, <2>1
      <3>2. PICK j \in sent[d] + 1 .. i + 1 : /\ out'[d][j - 1].op = "create"
                                              /\ out'[d][j - 1].room = s
                                              /\ j - 1 \in sent'[d] + 1 .. (i + 1) - 1
        BY <1>4, <3>1
      <3>3. i \in Nat
        <4>1. out[d] \in Seq(Writes) /\ out'[d] = Tail(out[d])
          BY Domains
        <4>2. Tail(out[d]) \in Seq(Writes)
          BY <4>1, TailQueue
        <4> QED BY <1>5, <2>1, <4>1, <4>2
      <3>4. (i + 1) - 1 = i
        BY <3>3
      <3> QED BY <2>1, <3>2, <3>4
    <2>2. CASE e # d
      BY <1>1, <1>2, <1>5, <2>2 DEF Waits
    <2> QED BY <2>1, <2>2
  <1>6. ASSUME NEW e \in Devices, screen'[e].room = s
        PROVE  \E i \in DOMAIN out'[e] : out'[e][i].op = "create" /\ out'[e][i].room = s
    <2>1. PICK i \in DOMAIN out[e] : out[e][i].op = "create" /\ out[e][i].room = s
      BY <1>1, <1>6 DEF Waits, HasWrite
    <2>2. CASE e = d
      <3>1. PICK j \in sent[d] + 1 .. i : /\ j - 1 \in DOMAIN out'[d]
                                          /\ out'[d][j - 1].op = "create"
                                          /\ out'[d][j - 1].room = s
        BY <1>4, <2>1, <2>2
      <3> QED BY <2>2, <3>1
    <2>3. CASE e # d
      BY <1>2, <2>1, <2>3
    <2> QED BY <2>2, <2>3
  <1> QED BY <1>1, <1>5, <1>6, WaitsAfter DEF Waits

LEMMA DieCreation ==
    ASSUME TypeOK, TypeOK', CreationFirst, NEW d \in Devices, Die(d)
    PROVE  CreationFirst'
  <1> SUFFICES ASSUME NEW s \in Rooms, doc'[s] = "none", ~Lost("create", s)'
               PROVE  Waits(s)'
    BY DEF CreationFirst
  <1>1. /\ doc' = doc /\ value' = value /\ lost \subseteq lost'
        /\ \A e \in Devices : sent'[e] <= sent[e]
        /\ \A e \in Devices : \A i \in DOMAIN out'[e] : i \in DOMAIN out[e] /\ out'[e][i] = out[e][i]
        /\ screen'[d] = NoScreen
        /\ \A e \in Devices \ {d} : screen'[e] = screen[e] /\ out'[e] = out[e]
    BY QueueDie
  <1>2. Waits(s)
    BY <1>1 DEF CreationFirst, Lost
  <1>3. ASSUME NEW e \in Devices, NEW i \in DOMAIN out'[e], out'[e][i].room = s
        PROVE  \E j \in sent'[e] + 1 .. i : out'[e][j].op = "create" /\ out'[e][j].room = s
    <2>1. PICK j \in sent[e] + 1 .. i : out[e][j].op = "create" /\ out[e][j].room = s
      BY <1>1, <1>2, <1>3 DEF Waits
    <2>2. /\ DOMAIN out'[e] = 1..Len(out'[e]) /\ Len(out'[e]) \in Nat
          /\ sent'[e] \in Nat /\ sent[e] \in Nat
      BY DEF TypeOK, D!TypeOK
    <2>3. j \in DOMAIN out'[e] /\ j \in sent'[e] + 1 .. i
      BY <1>1, <1>3, <2>1, <2>2
    <2> QED BY <1>1, <2>1, <2>3
  <1>4. ASSUME NEW e \in Devices, screen'[e].room = s
        PROVE  \E i \in DOMAIN out'[e] : out'[e][i].op = "create" /\ out'[e][i].room = s
    <2>1. e # d
      BY <1>1, <1>4, RoomsAssumption DEF NoScreen
    <2> QED BY <1>1, <1>2, <1>4, <2>1 DEF Waits, HasWrite
  <1> QED BY <1>1, <1>2, <1>3, <1>4, WaitsAfter DEF Waits

LEMMA NextCreation == TypeOK /\ TypeOK' /\ CreationFirst /\ [Next]_vars => CreationFirst'
  <1> SUFFICES ASSUME TypeOK, TypeOK', CreationFirst, [Next]_vars
               PROVE  CreationFirst'
    OBVIOUS
  <1>1. ASSUME NEW d \in Devices, NEW s \in Rooms, CreateRoom(d, s)
        PROVE  CreationFirst'
    <2>1. Call(d, uploadSession(Me(d), s)) /\ screen' = screen /\ Me(d) \in Users
      BY <1>1, RoomsAssumption DEF CreateRoom, app, Me
    <2>2. /\ uploadSession(Me(d), s) \in Seq(Writes)
          /\ \A i \in DOMAIN uploadSession(Me(d), s) : uploadSession(Me(d), s)[i].room = s
          /\ 1 \in DOMAIN uploadSession(Me(d), s) /\ uploadSession(Me(d), s)[1].op = "create"
      BY <2>1, CallRooms
    <2> QED BY <2>1, <2>2, CallCreation
  <1>2. ASSUME NEW d \in Devices, NEW u \in Users, NEW s \in Rooms, Asks(d, u, s)
        PROVE  CreationFirst'
    BY <1>2, CallRooms, CallCreation DEF Asks
  <1>3. CASE Quiet
    <2>1. \A e \in Devices : sent'[e] \in Nat
      BY DEF TypeOK, D!TypeOK
    <2> QED BY <1>3, <2>1, QuietCreation DEF Quiet, server
  <1>4. ASSUME NEW d \in Devices, Drops(d)
        PROVE  CreationFirst'
    BY <1>4, DropCreation DEF Drops, server
  <1> QED BY <1>1, <1>2, <1>3, <1>4, StepKinds, CommitCreation, DieCreation
      DEF StepKind

(* No list of sessions names a room that does not exist, however devices  *)
(* die, streams break and writes are repeated, unless the server refused  *)
(* the creation: the creation leads every queue that holds the room.      *)
THEOREM NothingDangles == Spec => []NoDanglingSession
  <1>1. Init => CreationFirst
    <2> SUFFICES ASSUME Init
                 PROVE  CreationFirst
      OBVIOUS
    <2>1. /\ \A d \in Devices : out[d] = <<>> /\ screen[d].room = NoRoom
          /\ value["sessions"] = {} /\ NoRoom \notin Rooms
      BY RoomsAssumption DEF Init, D!Init, NoScreen, Fields
    <2> QED BY <2>1 DEF CreationFirst, Waits
  <1>2. TypeOK /\ CreationFirst => NoDanglingSession
    <2> SUFFICES ASSUME TypeOK, CreationFirst, NEW p \in value["sessions"], doc[p[2]] = "none"
                 PROVE  Lost("create", p[2])
      BY DEF NoDanglingSession
    <2>1. p[2] \in Rooms
      BY DEF TypeOK, Pairs, Fields
    <2> QED BY <2>1 DEF CreationFirst, Waits
  <1>3. Spec => []CreationFirst
    BY <1>1, NextCreation, TypeCorrect, PTL DEF Spec
  <1> QED BY <1>2, <1>3, TypeCorrect, PTL

-----------------------------------------------------------------------------
(* MembershipAgrees. *)

\* What a call asks of a pair.
Verdict(ws, f, p) == \E i \in DOMAIN ws : Touches(ws[i], f, p) /\ Leaves(ws[i], f, p)

LEMMA CallsAgree ==
    ASSUME NEW u \in Users, NEW s \in Rooms, NEW p \in Pairs
    PROVE  /\ \A ws \in {joinSession(u, s), unjoinSession(u, s), requestAccess(u, s),
                         grantAccess(u, s), denyAccess(u, s)} :
                 /\ Decided(ws, "sessions", p) <=> Decided(ws, "members", p)
                 /\ Verdict(ws, "sessions", p) <=> Verdict(ws, "members", p)
           /\ LET ws == uploadSession(u, s)
              IN  /\ Decided(ws, "sessions", p) => Decided(ws, "members", p)
                  /\ Verdict(ws, "sessions", p) <=> Verdict(ws, "members", p)
  <1> USE DEF Decided, Verdict, Touches, Leaves, Create, SetId, ArrayUnion, ArrayRemove, Write
  <1>1. ASSUME NEW ws, ws = joinSession(u, s) \/ ws = unjoinSession(u, s)
        PROVE  /\ Decided(ws, "sessions", p) <=> Decided(ws, "members", p)
               /\ Verdict(ws, "sessions", p) <=> Verdict(ws, "members", p)
    BY <1>1 DEF joinSession, unjoinSession
  <1>2. ASSUME NEW ws, ws = requestAccess(u, s) \/ ws = denyAccess(u, s)
        PROVE  /\ Decided(ws, "sessions", p) <=> Decided(ws, "members", p)
               /\ Verdict(ws, "sessions", p) <=> Verdict(ws, "members", p)
    BY <1>2 DEF requestAccess, denyAccess
  <1>3. ASSUME NEW ws, ws = grantAccess(u, s)
        PROVE  /\ Decided(ws, "sessions", p) <=> Decided(ws, "members", p)
               /\ Verdict(ws, "sessions", p) <=> Verdict(ws, "members", p)
    BY <1>3, GrantWrites
  <1>4. ASSUME NEW ws, ws = uploadSession(u, s)
        PROVE  /\ Decided(ws, "sessions", p) => Decided(ws, "members", p)
               /\ Verdict(ws, "sessions", p) <=> Verdict(ws, "members", p)
    BY <1>4 DEF uploadSession
  <1> QED BY <1>1, <1>2, <1>3, <1>4

\* A room on a screen, or one that exists for a device, has been drawn.
LEMMA Heard ==
    ASSUME WantedAgrees, NEW d \in Devices, NEW s \in Rooms,
           screen[d].room = s \/ Exists(d, s)
    PROVE  creator[s] # Nobody
  BY DEF WantedAgrees, Unheard, Exists, HasWrite

LEMMA CallWanted ==
    ASSUME TypeOK, WantedAgrees, NEW d \in Devices, NEW u \in Users, NEW s \in Rooms, NEW ws,
           Call(d, ws),
           \/ /\ ws = uploadSession(u, s) /\ creator[s] = Nobody
              /\ creator' = [creator EXCEPT ![s] = u]
           \/ /\ ws \in {joinSession(u, s), unjoinSession(u, s), requestAccess(u, s),
                         grantAccess(u, s), denyAccess(u, s)}
              /\ screen[d].room = s \/ Exists(d, s)
              /\ creator' = creator,
           \A e \in Devices : screen'[e].room = screen[e].room
    PROVE  WantedAgrees'
  <1>1. ws \in Seq(Writes) /\ \A i \in DOMAIN ws : ws[i].room = s
    BY CallRooms
  <1>2. wanted' = [f \in Fields |->
           {p \in Pairs : IF Decided(ws, f, p) THEN Verdict(ws, f, p) ELSE p \in wanted[f]}]
    BY DEF Call, Verdict
  <1>3. wanted \in [Fields -> SUBSET Pairs] /\ "sessions" \in Fields /\ "members" \in Fields
    BY DEF TypeOK, Fields
  <1>4. wanted'["sessions"] = wanted'["members"]
    <2>1. ASSUME NEW p \in Pairs
          PROVE  p \in wanted'["sessions"] <=> p \in wanted'["members"]
      <3>1. p \in wanted["sessions"] <=> p \in wanted["members"]
        BY DEF WantedAgrees
      <3>2. CASE ws = uploadSession(u, s) /\ creator[s] = Nobody
        <4>1. Decided(ws, "members", p) => p[2] = s
          BY <1>1 DEF Decided, Touches
        <4>2. p[2] = s => p \notin wanted["sessions"]
          BY <1>3, <3>2 DEF WantedAgrees, Unheard
        <4>3. /\ Decided(ws, "sessions", p) => Decided(ws, "members", p)
              /\ Verdict(ws, "sessions", p) <=> Verdict(ws, "members", p)
          BY <3>2, CallsAgree
        <4>4. Verdict(ws, "sessions", p) => Decided(ws, "sessions", p)
          BY DEF Verdict, Decided
        <4> QED BY <1>2, <1>3, <3>1, <4>1, <4>2, <4>3, <4>4
      <3>3. CASE ws \in {joinSession(u, s), unjoinSession(u, s), requestAccess(u, s),
                         grantAccess(u, s), denyAccess(u, s)}
        <4>1. /\ Decided(ws, "sessions", p) <=> Decided(ws, "members", p)
              /\ Verdict(ws, "sessions", p) <=> Verdict(ws, "members", p)
          BY <3>3, CallsAgree
        <4> QED BY <1>2, <1>3, <3>1, <4>1
      <3> QED BY <3>2, <3>3
    <2>2. wanted'["sessions"] \subseteq Pairs /\ wanted'["members"] \subseteq Pairs
      BY <1>2, <1>3
    <2> QED BY <2>1, <2>2
  <1>5. ASSUME NEW r \in Rooms, creator'[r] = Nobody
        PROVE  Unheard(r)'
    <2>1. creator[r] = Nobody /\ r # s
      BY <1>5, Heard, RoomsAssumption DEF TypeOK
    <2>2. Unheard(r)
      BY <2>1 DEF WantedAgrees
    <2>3. /\ doc' = doc
          /\ \A e \in Devices : \A i \in DOMAIN out'[e] :
                 \/ i \in DOMAIN out[e] /\ out'[e][i] = out[e][i]
                 \/ e = d /\ \E j \in DOMAIN ws : i = Len(out[d]) + j /\ out'[e][i] = ws[j]
      BY <1>1, QueueCall
    <2>4. \A e \in Devices : \A i \in DOMAIN out'[e] : out'[e][i].room # r
      BY <1>1, <2>1, <2>2, <2>3 DEF Unheard
    <2>5. \A f \in Fields : \A p \in wanted'[f] : p[2] # r
      <3>1. \A f \in Fields : \A p \in Pairs : Decided(ws, f, p) => p[2] = s
        BY <1>1 DEF Decided, Touches
      <3> QED BY <1>2, <2>1, <2>2, <3>1 DEF Unheard
    <2> QED BY <2>2, <2>3, <2>4, <2>5 DEF Unheard
  <1> QED BY <1>4, <1>5 DEF WantedAgrees

\* No call is made, and the rooms that become known were known.
LEMMA OtherWanted ==
    ASSUME WantedAgrees,
           creator' = creator, wanted' = wanted,
           \A e \in Devices : \A i \in DOMAIN out'[e] : \E j \in DOMAIN out[e] : out'[e][i] = out[e][j],
           \A s \in Rooms : doc'[s] # "none" =>
              \/ doc[s] # "none"
              \/ \E e \in Devices : \E i \in DOMAIN out[e] : out[e][i].room = s,
           \A e \in Devices : \/ screen'[e].room = screen[e].room
                              \/ screen'[e].room = NoRoom
                              \/ Exists(e, screen'[e].room)
    PROVE  WantedAgrees'
  <1> SUFFICES ASSUME NEW s \in Rooms, creator[s] = Nobody
               PROVE  Unheard(s)'
    BY DEF WantedAgrees
  <1>1. Unheard(s) /\ s # NoRoom
    BY RoomsAssumption DEF WantedAgrees
  <1>2. doc'[s] = "none"
    BY <1>1 DEF Unheard
  <1>3. \A e \in Devices : \A i \in DOMAIN out'[e] : out'[e][i].room # s
    BY <1>1 DEF Unheard
  <1>4. \A e \in Devices : screen'[e].room # s
    BY <1>1, Heard DEF Unheard
  <1> QED BY <1>1, <1>2, <1>3, <1>4 DEF Unheard

LEMMA NextWanted == TypeOK /\ WantedAgrees /\ [Next]_vars => WantedAgrees'
  <1> SUFFICES ASSUME TypeOK, WantedAgrees, [Next]_vars
               PROVE  WantedAgrees'
    OBVIOUS
  <1>1. ASSUME NEW d \in Devices, NEW s \in Rooms, CreateRoom(d, s)
        PROVE  WantedAgrees'
    <2>1. /\ Call(d, uploadSession(Me(d), s)) /\ screen' = screen /\ Me(d) \in Users
          /\ creator[s] = Nobody /\ creator' = [creator EXCEPT ![s] = Me(d)]
      BY <1>1, RoomsAssumption DEF CreateRoom, app, Me
    <2> QED BY <2>1, CallWanted
  <1>2. ASSUME NEW d \in Devices, NEW u \in Users, NEW s \in Rooms, Asks(d, u, s)
        PROVE  WantedAgrees'
    BY <1>2, CallWanted DEF Asks
  <1>3. CASE Quiet
    BY <1>3, OtherWanted DEF Quiet, server
  <1>4. ASSUME NEW d \in Devices, Commit(d)
        PROVE  WantedAgrees'
    <2>1. /\ out' = out /\ screen' = screen /\ creator' = creator /\ wanted' = wanted
          /\ sent[d] < stored[d]
          /\ \A s \in Rooms : s # Upcoming(d).room => doc'[s] = doc[s]
      BY <1>4 DEF Commit, D!Commit, Apply, app, history, TypeOK
    <2>2. sent[d] + 1 \in DOMAIN out[d]
      BY <2>1, Domains
    <2> QED BY <2>1, <2>2, OtherWanted DEF Upcoming
  <1>5. ASSUME NEW d \in Devices, Drops(d)
        PROVE  WantedAgrees'
    <2>1. UNCHANGED <<server, screen, wanted>>
      BY <1>5 DEF Drops
    <2>2. \A e \in Devices : \A i \in DOMAIN out'[e] : \E j \in DOMAIN out[e] : out'[e][i] = out[e][j]
      <3>1. /\ \A e \in Devices \ {d} : out'[e] = out[e]
            /\ \A i \in DOMAIN out'[d] : i + 1 \in DOMAIN out[d] /\ out'[d][i] = out[d][i + 1]
        BY <1>5, QueueDrop DEF Drops
      <3>2. \A i \in DOMAIN out'[d] : \E j \in DOMAIN out[d] : out'[d][i] = out[d][j]
        BY <3>1
      <3> QED BY <3>1, <3>2
    <2> QED BY <2>1, <2>2, OtherWanted DEF server
  <1>6. ASSUME NEW d \in Devices, Die(d)
        PROVE  WantedAgrees'
    <2>1. /\ doc' = doc /\ creator' = creator /\ wanted' = wanted
          /\ \A e \in Devices : \A i \in DOMAIN out'[e] : i \in DOMAIN out[e] /\ out'[e][i] = out[e][i]
          /\ screen'[d].room = NoRoom
          /\ \A e \in Devices \ {d} : screen'[e] = screen[e]
      BY <1>6, QueueDie DEF NoScreen
    <2> QED BY <2>1, OtherWanted
  <1> QED BY <1>1, <1>2, <1>3, <1>4, <1>5, <1>6, StepKinds DEF StepKind

(* The two copies of a membership agree once no device holds a write      *)
(* about it, unless it is excused: each ends up as wanted (Converged), and *)
(* every call wants the same of both.                                     *)
THEOREM MembershipsAgree == Spec => []MembershipAgrees
  <1>1. Init => WantedAgrees
    <2> SUFFICES ASSUME Init
                 PROVE  WantedAgrees
      OBVIOUS
    <2>1. /\ \A d \in Devices : out[d] = <<>> /\ screen[d].room = NoRoom
          /\ NoRoom \notin Rooms
          /\ \A s \in Rooms : doc[s] = "none"
          /\ \A f \in Fields : wanted[f] = {}
          /\ "sessions" \in Fields /\ "members" \in Fields
      BY RoomsAssumption DEF Init, D!Init, NoScreen, Fields
    <2>2. wanted["sessions"] = wanted["members"]
      BY <2>1
    <2>3. ASSUME NEW s \in Rooms
          PROVE  Unheard(s)
      BY <2>1 DEF Unheard
    <2> QED BY <2>2, <2>3 DEF WantedAgrees
  <1>2. Converged /\ WantedAgrees => MembershipAgrees
    <2>1. "sessions" \in Fields /\ "members" \in Fields
      BY DEF Fields
    <2> QED BY <2>1 DEF Converged, WantedAgrees, MembershipAgrees
  <1>3. Spec => []WantedAgrees
    BY <1>1, NextWanted, TypeCorrect, PTL DEF Spec
  <1> QED BY <1>2, <1>3, ServerConverges, PTL

-----------------------------------------------------------------------------
(* IdFollows. *)

\* Only uploadSession creates, first of all, and sets the id next.
LEMMA CallIds ==
    ASSUME NEW u \in Users, NEW s \in Rooms
    PROVE  /\ \A ws \in {joinSession(u, s), unjoinSession(u, s), requestAccess(u, s),
                         grantAccess(u, s), denyAccess(u, s)} :
                 \A j \in DOMAIN ws : ws[j].op # "create"
           /\ LET ws == uploadSession(u, s)
              IN  /\ \A j \in DOMAIN ws : ws[j].op = "create" => j = 1
                  /\ 2 \in DOMAIN ws /\ ws[2].op = "setId" /\ ws[2].room = s /\ ws[1].room = s
  <1> USE DEF Create, SetId, ArrayUnion, ArrayRemove, Write
  <1>1. ASSUME NEW ws, ws = joinSession(u, s) \/ ws = unjoinSession(u, s)
        PROVE  \A j \in DOMAIN ws : ws[j].op # "create"
    BY <1>1 DEF joinSession, unjoinSession
  <1>2. ASSUME NEW ws, ws = requestAccess(u, s) \/ ws = denyAccess(u, s)
        PROVE  \A j \in DOMAIN ws : ws[j].op # "create"
    BY <1>2 DEF requestAccess, denyAccess
  <1>3. ASSUME NEW ws, ws = grantAccess(u, s)
        PROVE  \A j \in DOMAIN ws : ws[j].op # "create"
    BY <1>3, GrantWrites
  <1>4. ASSUME NEW ws, ws = uploadSession(u, s)
        PROVE  /\ \A j \in DOMAIN ws : ws[j].op = "create" => j = 1
               /\ 2 \in DOMAIN ws /\ ws[2].op = "setId" /\ ws[2].room = s /\ ws[1].room = s
    BY <1>4 DEF uploadSession
  <1> QED BY <1>1, <1>2, <1>3, <1>4

LEMMA IdComingAfter ==
    ASSUME \A s \in Rooms : doc'[s] = "noId" =>
              \/ \E e \in Devices : \E i \in DOMAIN out'[e] :
                    i > sent'[e] /\ out'[e][i].op = "setId" /\ out'[e][i].room = s
              \/ \E w \in lost' : w.op = "setId" /\ w.room = s,
           \A e \in Devices : \A i \in DOMAIN out'[e] : out'[e][i].op = "create" =>
              \/ \E w \in lost' : w.op = "setId" /\ w.room = out'[e][i].room
              \/ /\ i + 1 \in DOMAIN out'[e]
                 /\ out'[e][i + 1].op = "setId"
                 /\ out'[e][i + 1].room = out'[e][i].room
    PROVE  IdComing'
  BY DEF IdComing, IdFollows, Lost

LEMMA CallId ==
    ASSUME TypeOK, IdComing, NEW d \in Devices, NEW ws \in Seq(Writes), Call(d, ws),
           \A j \in DOMAIN ws : ws[j].op = "create" =>
              /\ j + 1 \in DOMAIN ws /\ ws[j + 1].op = "setId" /\ ws[j + 1].room = ws[j].room
    PROVE  IdComing'
  <1>1. /\ sent' = sent /\ doc' = doc /\ lost' = lost
        /\ \A e \in Devices : \A i \in DOMAIN out[e] :
              i \in DOMAIN out'[e] /\ out'[e][i] = out[e][i]
        /\ \A e \in Devices : \A i \in DOMAIN out'[e] :
              \/ i \in DOMAIN out[e] /\ out'[e][i] = out[e][i]
              \/ e = d /\ \E j \in DOMAIN ws : i = Len(out[d]) + j /\ out'[e][i] = ws[j]
        /\ \A j \in DOMAIN ws : /\ Len(out[d]) + j \in DOMAIN out'[d]
                                /\ out'[d][Len(out[d]) + j] = ws[j]
    BY QueueCall
  <1>2. ASSUME NEW s \in Rooms, doc'[s] = "noId"
        PROVE  \/ \E e \in Devices : \E i \in DOMAIN out'[e] :
                     i > sent'[e] /\ out'[e][i].op = "setId" /\ out'[e][i].room = s
               \/ \E w \in lost' : w.op = "setId" /\ w.room = s
    BY <1>1, <1>2 DEF IdComing, IdFollows, Lost
  <1>3. ASSUME NEW e \in Devices, NEW i \in DOMAIN out'[e], out'[e][i].op = "create"
        PROVE  \/ \E w \in lost' : w.op = "setId" /\ w.room = out'[e][i].room
               \/ /\ i + 1 \in DOMAIN out'[e]
                  /\ out'[e][i + 1].op = "setId"
                  /\ out'[e][i + 1].room = out'[e][i].room
    <2>1. CASE i \in DOMAIN out[e] /\ out'[e][i] = out[e][i]
      BY <1>1, <1>3, <2>1 DEF IdComing, Lost
    <2>2. ASSUME e = d, NEW j \in DOMAIN ws, i = Len(out[d]) + j, out'[e][i] = ws[j]
          PROVE  /\ i + 1 \in DOMAIN out'[e]
                 /\ out'[e][i + 1].op = "setId"
                 /\ out'[e][i + 1].room = out'[e][i].room
      <3>1. j + 1 \in DOMAIN ws /\ ws[j + 1].op = "setId" /\ ws[j + 1].room = ws[j].room
        BY <1>3, <2>2
      <3>2. Len(out[d]) \in Nat /\ j \in Nat
        BY <2>2, Domains
      <3>3. i + 1 = Len(out[d]) + (j + 1)
        BY <2>2, <3>2
      <3> QED BY <1>1, <2>2, <3>1, <3>3
    <2> QED BY <1>1, <2>1, <2>2
  <1> QED BY <1>2, <1>3, IdComingAfter

LEMMA CommitId ==
    ASSUME TypeOK, IdComing, NEW d \in Devices, Commit(d)
    PROVE  IdComing'
  <1> DEFINE k == sent[d] + 1
             w == out[d][k]
  <1>1. /\ out' = out /\ lost' = lost
        /\ sent' = [sent EXCEPT ![d] = k] /\ k \in DOMAIN out[d]
    <2>1. sent[d] < stored[d]
      BY DEF Commit, D!Commit
    <2>2. k \in DOMAIN out[d]
      BY <2>1, Domains
    <2> QED BY <2>2 DEF Commit, D!Commit, app, history
  <1>2. doc' = [doc EXCEPT ![w.room] = CASE w.op = "create" -> "noId"
                                        [] w.op = "setId" -> "full"
                                        [] OTHER -> @]
    BY DEF Commit, Apply, Upcoming
  <1>3. /\ \A e \in Devices : DOMAIN out[e] = 1..Len(out[e]) /\ Len(out[e]) \in Nat /\ sent[e] \in Nat
        /\ sent'[d] = k /\ \A e \in Devices \ {d} : sent'[e] = sent[e]
    BY <1>1, Domains
  <1>4. ASSUME NEW s \in Rooms, doc'[s] = "noId"
        PROVE  \/ \E e \in Devices : \E i \in DOMAIN out'[e] :
                     i > sent'[e] /\ out'[e][i].op = "setId" /\ out'[e][i].room = s
               \/ \E v \in lost' : v.op = "setId" /\ v.room = s
    <2>1. CASE w.room = s /\ w.op = "create"
      <3>1. k + 1 > k
        BY <1>3
      <3> QED BY <1>1, <1>3, <2>1, <3>1 DEF IdComing, Lost
    <2>2. CASE ~(w.room = s /\ w.op = "create")
      <3>1. doc[s] = "noId" /\ ~(w.room = s /\ w.op = "setId")
        BY <1>2, <1>4, <2>2 DEF TypeOK
      <3>2. ASSUME NEW e \in Devices, NEW i \in DOMAIN out[e],
                   i > sent[e], out[e][i].op = "setId", out[e][i].room = s
            PROVE  i > sent'[e]
        <4>1. e = d => i # k
          BY <3>1, <3>2
        <4> QED BY <1>3, <3>2, <4>1
      <3> QED BY <1>1, <3>1, <3>2 DEF IdComing, IdFollows, Lost
    <2> QED BY <2>1, <2>2
  <1>5. \A e \in Devices : \A i \in DOMAIN out'[e] : out'[e][i].op = "create" =>
              \/ \E v \in lost' : v.op = "setId" /\ v.room = out'[e][i].room
              \/ /\ i + 1 \in DOMAIN out'[e]
                 /\ out'[e][i + 1].op = "setId"
                 /\ out'[e][i + 1].room = out'[e][i].room
    BY <1>1 DEF IdComing, Lost
  <1> QED BY <1>4, <1>5, IdComingAfter

LEMMA DropId ==
    ASSUME TypeOK, IdComing, NEW d \in Devices, Drops(d)
    PROVE  IdComing'
  <1>1. /\ Len(out[d]) > 0 /\ out' = [out EXCEPT ![d] = Tail(@)]
        /\ sent' = [sent EXCEPT ![d] = IF sent[d] > 0 THEN sent[d] - 1 ELSE 0]
        /\ doc' = doc /\ lost \subseteq lost'
        /\ sent[d] > 0 \/ out[d][1] \in lost'
    BY DEF Drops, server
  <1>2. /\ \A e \in Devices \ {d} : out'[e] = out[e] /\ sent'[e] = sent[e]
        /\ sent'[d] = IF sent[d] > 0 THEN sent[d] - 1 ELSE 0
        /\ \A e \in Devices : DOMAIN out[e] = 1..Len(out[e]) /\ Len(out[e]) \in Nat /\ sent[e] \in Nat
    BY <1>1, Domains
  <1>3. /\ \A i \in DOMAIN out'[d] : i + 1 \in DOMAIN out[d] /\ out'[d][i] = out[d][i + 1]
        /\ \A i \in DOMAIN out[d] :
              i = 1 \/ (i - 1 \in DOMAIN out'[d] /\ out'[d][i - 1] = out[d][i])
    BY <1>1, QueueDrop
  <1>4. DOMAIN out'[d] \subseteq Nat
    <2>1. out[d] \in Seq(Writes) /\ out'[d] = Tail(out[d])
      BY <1>1, Domains
    <2>2. Tail(out[d]) \in Seq(Writes)
      BY <1>1, <2>1, TailQueue
    <2> QED BY <2>1, <2>2
  <1>5. ASSUME NEW s \in Rooms, doc'[s] = "noId"
        PROVE  \/ \E e \in Devices : \E i \in DOMAIN out'[e] :
                     i > sent'[e] /\ out'[e][i].op = "setId" /\ out'[e][i].room = s
               \/ \E v \in lost' : v.op = "setId" /\ v.room = s
    <2>1. ASSUME NEW i \in DOMAIN out[d],
                 i > sent[d], out[d][i].op = "setId", out[d][i].room = s
          PROVE  \/ \E j \in DOMAIN out'[d] :
                       j > sent'[d] /\ out'[d][j].op = "setId" /\ out'[d][j].room = s
                 \/ \E v \in lost' : v.op = "setId" /\ v.room = s
      <3>1. CASE i = 1
        <4>1. out[d][1] \in lost'
          BY <1>1, <1>2, <2>1, <3>1
        <4> QED BY <2>1, <3>1, <4>1
      <3>2. CASE i # 1
        <4>1. i - 1 > sent'[d]
          BY <1>2, <2>1, <3>2
        <4> QED BY <1>3, <2>1, <3>2, <4>1
      <3> QED BY <3>1, <3>2
    <2>2. \/ \E e \in Devices : \E i \in DOMAIN out[e] :
                i > sent[e] /\ out[e][i].op = "setId" /\ out[e][i].room = s
          \/ \E v \in lost' : v.op = "setId" /\ v.room = s
      BY <1>1, <1>5 DEF IdComing, IdFollows, Lost
    <2> QED BY <1>2, <2>1, <2>2
  <1>6. ASSUME NEW e \in Devices, NEW i \in DOMAIN out'[e], out'[e][i].op = "create"
        PROVE  \/ \E v \in lost' : v.op = "setId" /\ v.room = out'[e][i].room
               \/ /\ i + 1 \in DOMAIN out'[e]
                  /\ out'[e][i + 1].op = "setId"
                  /\ out'[e][i + 1].room = out'[e][i].room
    <2>1. CASE e # d
      BY <1>1, <1>2, <1>6, <2>1 DEF IdComing, Lost
    <2>2. CASE e = d
      <3>1. i \in Nat /\ i + 1 \in DOMAIN out[d] /\ out[d][i + 1] = out'[d][i]
        BY <1>3, <1>4, <1>6, <2>2
      <3>2. \/ \E v \in lost : v.op = "setId" /\ v.room = out'[d][i].room
            \/ /\ (i + 1) + 1 \in DOMAIN out[d]
               /\ out[d][(i + 1) + 1].op = "setId"
               /\ out[d][(i + 1) + 1].room = out'[d][i].room
        BY <1>6, <2>2, <3>1 DEF IdComing, Lost
      <3>3. (i + 1) + 1 # 1 /\ ((i + 1) + 1) - 1 = i + 1
        BY <3>1
      <3>4. (i + 1) + 1 \in DOMAIN out[d] =>
               i + 1 \in DOMAIN out'[d] /\ out'[d][i + 1] = out[d][(i + 1) + 1]
        BY <1>3, <3>3
      <3> QED BY <1>1, <2>2, <3>2, <3>4
    <2> QED BY <2>1, <2>2
  <1> QED BY <1>5, <1>6, IdComingAfter

LEMMA DieId ==
    ASSUME TypeOK, TypeOK', IdComing, NEW d \in Devices, Die(d)
    PROVE  IdComing'
  <1>1. /\ doc' = doc /\ lost \subseteq lost'
        /\ \A e \in Devices : sent'[e] <= sent[e]
        /\ \A e \in Devices : \A i \in DOMAIN out'[e] : i \in DOMAIN out[e] /\ out'[e][i] = out[e][i]
        /\ \A e \in Devices : \A i \in DOMAIN out[e] :
              \/ out[e][i] \in lost'
              \/ \A j \in 1..i : j \in DOMAIN out'[e] /\ out'[e][j] = out[e][j]
    BY QueueDie
  <1>2. /\ \A e \in Devices : DOMAIN out[e] = 1..Len(out[e]) /\ Len(out[e]) \in Nat
        /\ \A e \in Devices : sent[e] \in Nat /\ sent'[e] \in Nat
    BY Domains DEF TypeOK, D!TypeOK
  <1>3. ASSUME NEW e \in Devices, NEW i \in DOMAIN out[e]
        PROVE  out[e][i] \in lost' \/ (i \in DOMAIN out'[e] /\ out'[e][i] = out[e][i])
    <2>1. i \in 1..i
      BY <1>2
    <2> QED BY <1>1, <2>1
  <1>4. ASSUME NEW s \in Rooms, doc'[s] = "noId"
        PROVE  \/ \E e \in Devices : \E i \in DOMAIN out'[e] :
                     i > sent'[e] /\ out'[e][i].op = "setId" /\ out'[e][i].room = s
               \/ \E v \in lost' : v.op = "setId" /\ v.room = s
    <2>1. ASSUME NEW e \in Devices, NEW i \in DOMAIN out[e], i > sent[e]
          PROVE  i > sent'[e]
      BY <1>1, <1>2, <2>1
    <2> QED BY <1>1, <1>3, <1>4, <2>1 DEF IdComing, IdFollows, Lost
  <1>5. ASSUME NEW e \in Devices, NEW i \in DOMAIN out'[e], out'[e][i].op = "create"
        PROVE  \/ \E v \in lost' : v.op = "setId" /\ v.room = out'[e][i].room
               \/ /\ i + 1 \in DOMAIN out'[e]
                  /\ out'[e][i + 1].op = "setId"
                  /\ out'[e][i + 1].room = out'[e][i].room
    <2>1. i \in DOMAIN out[e] /\ out'[e][i] = out[e][i]
      BY <1>1, <1>5
    <2>2. \/ \E v \in lost : v.op = "setId" /\ v.room = out[e][i].room
          \/ /\ i + 1 \in DOMAIN out[e]
             /\ out[e][i + 1].op = "setId"
             /\ out[e][i + 1].room = out[e][i].room
      BY <1>5, <2>1 DEF IdComing, Lost
    <2> QED BY <1>1, <1>3, <2>1, <2>2
  <1> QED BY <1>4, <1>5, IdComingAfter

LEMMA NextId == TypeOK /\ TypeOK' /\ IdComing /\ [Next]_vars => IdComing'
  <1> SUFFICES ASSUME TypeOK, TypeOK', IdComing, [Next]_vars
               PROVE  IdComing'
    OBVIOUS
  <1>1. ASSUME NEW d \in Devices, NEW s \in Rooms, CreateRoom(d, s)
        PROVE  IdComing'
    <2>1. Call(d, uploadSession(Me(d), s)) /\ Me(d) \in Users
      BY <1>1, RoomsAssumption DEF CreateRoom, Me
    <2>2. uploadSession(Me(d), s) \in Seq(Writes)
      BY <2>1, CallWrites
    <2>3. /\ \A j \in DOMAIN uploadSession(Me(d), s) : uploadSession(Me(d), s)[j].op = "create" => j = 1
          /\ 1 + 1 \in DOMAIN uploadSession(Me(d), s)
          /\ uploadSession(Me(d), s)[1 + 1].op = "setId"
          /\ uploadSession(Me(d), s)[1 + 1].room = uploadSession(Me(d), s)[1].room
      BY <2>1, CallIds
    <2> QED BY <2>1, <2>2, <2>3, CallId
  <1>2. ASSUME NEW d \in Devices, NEW u \in Users, NEW s \in Rooms, Asks(d, u, s)
        PROVE  IdComing'
    BY <1>2, CallWrites, CallIds, CallId DEF Asks
  <1>3. CASE Quiet
    <2>1. \A e \in Devices : \A i \in DOMAIN out[e] : i > sent[e] => i > sent'[e]
      BY <1>3, Domains DEF Quiet, TypeOK, D!TypeOK
    <2> QED BY <1>3, <2>1, IdComingAfter DEF Quiet, server, IdComing, IdFollows, Lost
  <1> QED BY <1>1, <1>2, <1>3, StepKinds, CommitId, DropId, DieId DEF StepKind

(* A room without an id gets one from its creator, or the write of the id *)
(* was lost: replays of the creation and deaths in between included.      *)
THEOREM IdsFollow == Spec => []IdFollows
  <1>1. Init => IdComing
    BY DEF Init, D!Init, IdComing, IdFollows
  <1>2. IdComing => IdFollows
    BY DEF IdComing
  <1>3. Spec => []IdComing
    BY <1>1, NextId, TypeCorrect, PTL DEF Spec
  <1> QED BY <1>2, <1>3, PTL

-----------------------------------------------------------------------------
(* PrivateByConsent. *)

\* Consent once given stays.
LEMMA ConsentStays ==
    ASSUME asked \subseteq asked', granted \subseteq granted',
           \A s \in Rooms : creator[s] # Nobody => creator'[s] = creator[s],
           NEW p \in Pairs, Consent(p)
    PROVE  Consent(p)'
  <1>1. p[1] \in Users /\ p[2] \in Rooms
    BY DEF Pairs
  <1> QED BY <1>1, RoomsAssumption DEF Consent

LEMMA ConsentAfter ==
    ASSUME TypeOK, TypeOK', ConsentFirst,
           asked \subseteq asked', granted \subseteq granted',
           \A s \in Rooms : creator[s] # Nobody => creator'[s] = creator[s],
           \A p \in value'["members"] : p \in value["members"] \/ Consent(p)',
           value'["pendingMembers"] \subseteq value["pendingMembers"] \cup asked',
           \A e \in Devices : \A i \in DOMAIN out'[e] : \A w \in Writes :
              w = out'[e][i] => (\E j \in DOMAIN out[e] : w = out[e][j]) \/ WriteConsents(w)',
           \A e \in Devices : \A u \in screen'[e].pendingMembers \cup screen'[e].pendingUsers :
              <<u, screen'[e].room>> \in asked'
    PROVE  ConsentFirst'
  <1>1. \A p \in Pairs : Consent(p) => Consent(p)'
    BY ConsentStays
  <1>2. ASSUME NEW p \in value'["members"]
        PROVE  Consent(p)'
    <2>1. p \in Pairs
      BY DEF TypeOK, Fields
    <2> QED BY <1>1, <1>2, <2>1 DEF ConsentFirst, PrivateByConsent
  <1>3. ASSUME NEW e \in Devices, NEW i \in DOMAIN out'[e]
        PROVE  WriteConsents(out[e][i])'
    <2>1. PICK w \in Writes : w = out'[e][i]
      BY <1>3 DEF TypeOK, D!TypeOK
    <2>2. ASSUME NEW j \in DOMAIN out[e], w = out[e][j]
          PROVE  WriteConsents(w)'
      <3>1. <<w.user, w.room>> \in Pairs
        BY <2>1 DEF Writes, Pairs
      <3>2. WriteConsents(w)
        BY <2>2 DEF ConsentFirst
      <3>3. Consent(<<w.user, w.room>>) => Consent(<<w.user, w.room>>)'
        BY <1>1, <3>1
      <3> QED BY <3>2, <3>3 DEF WriteConsents
    <2>3. WriteConsents(w)'
      BY <1>3, <2>1, <2>2
    <2> QED BY <2>1, <2>3 DEF WriteConsents, Consent
  <1>4. PrivateByConsent'
    BY <1>2 DEF PrivateByConsent
  <1>5. value'["pendingMembers"] \subseteq asked'
    BY DEF ConsentFirst
  <1>6. \A e \in Devices : \A i \in DOMAIN out'[e] : WriteConsents(out[e][i])'
    BY <1>3
  <1>7. \A e \in Devices : ScreenConsents(e)'
    BY DEF ScreenConsents
  <1> QED BY <1>4, <1>5, <1>6, <1>7 DEF ConsentFirst

\* Whom a call lets in, and whom it makes pending.
LEMMA CallAims ==
    ASSUME NEW u \in Users, NEW s \in Rooms,
           NEW ws \in {uploadSession(u, s), joinSession(u, s), unjoinSession(u, s),
                       requestAccess(u, s), grantAccess(u, s), denyAccess(u, s)},
           NEW j \in DOMAIN ws
    PROVE  /\ ws[j].user = u /\ ws[j].room = s
           /\ ws[j].op = "create" \/ (ws[j].op = "union" /\ ws[j].field = "members")
                 => ws \in {uploadSession(u, s), joinSession(u, s), grantAccess(u, s)}
           /\ ws[j].op = "union" /\ ws[j].field = "pendingMembers" => ws = requestAccess(u, s)
  <1> USE DEF Create, SetId, ArrayUnion, ArrayRemove, Write
  <1>1. CASE ws = uploadSession(u, s)
    BY <1>1 DEF uploadSession
  <1>2. CASE ws = joinSession(u, s)
    BY <1>2 DEF joinSession
  <1>3. CASE ws = unjoinSession(u, s)
    BY <1>3 DEF unjoinSession
  <1>4. CASE ws = requestAccess(u, s)
    BY <1>4 DEF requestAccess
  <1>5. CASE ws = grantAccess(u, s)
    BY <1>5, GrantWrites
  <1>6. CASE ws = denyAccess(u, s)
    BY <1>6 DEF denyAccess
  <1> QED BY <1>1, <1>2, <1>3, <1>4, <1>5, <1>6

\* The calls that let nobody in, and the one that makes pending, are no others.
LEMMA Distinct ==
    ASSUME NEW u \in Users, NEW s \in Rooms
    PROVE  /\ \A ws \in {uploadSession(u, s), joinSession(u, s), unjoinSession(u, s),
                         grantAccess(u, s), denyAccess(u, s)} :
                 ws # requestAccess(u, s)
           /\ \A ws \in {unjoinSession(u, s), requestAccess(u, s), denyAccess(u, s)} :
                 ws \notin {uploadSession(u, s), joinSession(u, s), grantAccess(u, s)}
  <1>1. /\ Len(uploadSession(u, s)) = 3 /\ Len(joinSession(u, s)) = 2
        /\ Len(unjoinSession(u, s)) = 2 /\ Len(requestAccess(u, s)) = 1
        /\ Len(denyAccess(u, s)) = 1 /\ Len(grantAccess(u, s)) = 3
    BY GrantWrites DEF uploadSession, joinSession, unjoinSession, requestAccess, denyAccess
  <1>2. joinSession(u, s)[1].op = "union" /\ unjoinSession(u, s)[1].op = "remove"
    BY DEF joinSession, unjoinSession, ArrayUnion, ArrayRemove, Write
  <1>3. requestAccess(u, s)[1].op = "union" /\ denyAccess(u, s)[1].op = "remove"
    BY DEF requestAccess, denyAccess, ArrayUnion, ArrayRemove, Write
  <1> QED BY <1>1, <1>2, <1>3

LEMMA CallConsent ==
    ASSUME TypeOK, TypeOK', ConsentFirst,
           NEW d \in Devices, NEW u \in Users, NEW s \in Rooms,
           NEW ws \in {uploadSession(u, s), joinSession(u, s), unjoinSession(u, s),
                       requestAccess(u, s), grantAccess(u, s), denyAccess(u, s)},
           Call(d, ws),
           asked \subseteq asked', granted \subseteq granted',
           \A r \in Rooms : creator[r] # Nobody => creator'[r] = creator[r],
           ws \in {uploadSession(u, s), joinSession(u, s), grantAccess(u, s)} => Consent(<<u, s>>)',
           ws = requestAccess(u, s) => <<u, s>> \in asked',
           \A e \in Devices : \A v \in screen'[e].pendingMembers \cup screen'[e].pendingUsers :
              <<v, screen'[e].room>> \in asked'
    PROVE  ConsentFirst'
  <1>1. ws \in Seq(Writes)
    BY CallRooms
  <1>2. /\ value' = value
        /\ \A e \in Devices : \A i \in DOMAIN out'[e] :
              \/ i \in DOMAIN out[e] /\ out'[e][i] = out[e][i]
              \/ e = d /\ \E j \in DOMAIN ws : i = Len(out[d]) + j /\ out'[e][i] = ws[j]
    BY <1>1, QueueCall
  <1>3. ASSUME NEW j \in DOMAIN ws, NEW w \in Writes, w = ws[j]
        PROVE  WriteConsents(w)'
    <2>1. /\ w.user = u /\ w.room = s
          /\ w.op = "create" \/ (w.op = "union" /\ w.field = "members")
                 => ws \in {uploadSession(u, s), joinSession(u, s), grantAccess(u, s)}
          /\ w.op = "union" /\ w.field = "pendingMembers" => ws = requestAccess(u, s)
      BY <1>3, CallAims
    <2> QED BY <2>1 DEF WriteConsents
  <1>4. ASSUME NEW e \in Devices, NEW i \in DOMAIN out'[e], NEW w \in Writes, w = out'[e][i]
        PROVE  (\E j \in DOMAIN out[e] : w = out[e][j]) \/ WriteConsents(w)'
    BY <1>2, <1>3, <1>4
  <1> QED BY <1>2, <1>4, ConsentAfter

\* The lists on a screen change, but nobody becomes pending unasked.
LEMMA ShowConsents ==
    ASSUME TypeOK, ConsentFirst, NEW d \in Devices, NEW us, NEW ps, Show(d, us, ps),
           asked \subseteq asked',
           \A x \in ps : \/ x \in screen[d].pendingMembers \cup screen[d].pendingUsers
                        \/ <<x, screen[d].room>> \in asked'
    PROVE  \A e \in Devices : \A v \in screen'[e].pendingMembers \cup screen'[e].pendingUsers :
              <<v, screen'[e].room>> \in asked'
  <1>1. \A e \in Devices : ScreenConsents(e)
    BY DEF ConsentFirst
  <1>2. /\ \A e \in Devices : /\ screen'[e].room = screen[e].room
                              /\ screen'[e].pendingMembers = screen[e].pendingMembers
        /\ \A e \in Devices \ {d} : screen'[e] = screen[e]
        /\ screen'[d].pendingUsers = ps
    BY ShowKeeps
  <1>3. \A v \in screen'[d].pendingMembers \cup screen'[d].pendingUsers :
           <<v, screen'[d].room>> \in asked'
    BY <1>1, <1>2 DEF ScreenConsents
  <1>4. \A e \in Devices \ {d} : \A v \in screen'[e].pendingMembers \cup screen'[e].pendingUsers :
           <<v, screen'[e].room>> \in asked'
    BY <1>1, <1>2 DEF ScreenConsents
  <1> QED BY <1>3, <1>4

\* A step that lets nobody in.
LEMMA QuietConsent ==
    ASSUME TypeOK, TypeOK', ConsentFirst,
           UNCHANGED <<value, creator, asked, granted>>,
           \A e \in Devices : \A i \in DOMAIN out'[e] : \E j \in DOMAIN out[e] : out'[e][i] = out[e][j],
           \A e \in Devices :
              \/ screen'[e] = screen[e]
              \/ \A v \in screen'[e].pendingMembers \cup screen'[e].pendingUsers :
                    <<v, screen'[e].room>> \in asked
    PROVE  ConsentFirst'
  <1>1. \A e \in Devices : \A v \in screen'[e].pendingMembers \cup screen'[e].pendingUsers :
           <<v, screen'[e].room>> \in asked'
    BY DEF ConsentFirst, ScreenConsents
  <1>2. ASSUME NEW e \in Devices, NEW i \in DOMAIN out'[e], NEW w \in Writes, w = out'[e][i]
        PROVE  \E j \in DOMAIN out[e] : w = out[e][j]
    BY <1>2
  <1> QED BY <1>1, <1>2, ConsentAfter

LEMMA NextConsent == TypeOK /\ TypeOK' /\ ConsentFirst /\ [Next]_vars => ConsentFirst'
  <1> SUFFICES ASSUME TypeOK, TypeOK', ConsentFirst, [Next]_vars
               PROVE  ConsentFirst'
    OBVIOUS
  <1>1. \A d \in Devices : Me(d) \in Users /\ ScreenConsents(d)
    BY RoomsAssumption DEF Me, ConsentFirst
  <1>2. ASSUME NEW d \in Devices, NEW s \in Rooms, CreateRoom(d, s)
        PROVE  ConsentFirst'
    <2>1. /\ Call(d, uploadSession(Me(d), s))
          /\ creator[s] = Nobody /\ creator' = [creator EXCEPT ![s] = Me(d)]
          /\ screen' = screen /\ asked' = asked /\ granted' = granted
      BY <1>2 DEF CreateRoom, app
    <2>2. /\ Consent(<<Me(d), s>>)'
          /\ \A r \in Rooms : creator[r] # Nobody => creator'[r] = creator[r]
      BY <2>1 DEF Consent, TypeOK
    <2>3. uploadSession(Me(d), s) # requestAccess(Me(d), s)
      BY <1>1, Distinct
    <2>4. \A e \in Devices : \A v \in screen'[e].pendingMembers \cup screen'[e].pendingUsers :
             <<v, screen'[e].room>> \in asked'
      BY <1>1, <2>1 DEF ScreenConsents
    <2> QED BY <1>1, <2>1, <2>2, <2>3, <2>4, CallConsent
  <1>3. ASSUME NEW d \in Devices, PublicButton(d)
        PROVE  ConsentFirst'
    <2>1. PICK s \in Rooms : s = screen[d].room
      BY <1>3, RoomsAssumption DEF PublicButton
    <2>2. /\ s \in Public /\ s \in Rooms
          /\ Call(d, joinSession(Me(d), s)) \/ Call(d, unjoinSession(Me(d), s))
          /\ \E us \in SUBSET Users : Show(d, us, screen[d].pendingUsers)
          /\ creator' = creator /\ asked' = asked /\ granted' = granted
      BY <2>1, <1>1, <1>3, RoomsAssumption DEF PublicButton, TypeOK, Screens
    <2>3. Consent(<<Me(d), s>>)'
      BY <2>2 DEF Consent
    <2>4. \A e \in Devices : \A v \in screen'[e].pendingMembers \cup screen'[e].pendingUsers :
             <<v, screen'[e].room>> \in asked'
      BY <2>1, <2>2, ShowConsents
    <2>5. /\ joinSession(Me(d), s) # requestAccess(Me(d), s)
          /\ unjoinSession(Me(d), s) # requestAccess(Me(d), s)
      BY <1>1, <2>2, Distinct
    <2> QED BY <1>1, <2>2, <2>3, <2>4, <2>5, CallConsent
  <1>4. ASSUME NEW d \in Devices, LeavePrivate(d)
        PROVE  ConsentFirst'
    <2>1. PICK s \in Rooms : s = screen[d].room
      BY <1>4 DEF LeavePrivate
    <2>2. /\ s \in Rooms
          /\ Call(d, unjoinSession(Me(d), s))
          /\ Show(d, screen[d].users \ {Me(d)}, screen[d].pendingUsers)
          /\ creator' = creator /\ asked' = asked /\ granted' = granted
      BY <2>1, <1>4 DEF LeavePrivate
    <2>3. /\ unjoinSession(Me(d), s) # requestAccess(Me(d), s)
          /\ unjoinSession(Me(d), s) \notin {uploadSession(Me(d), s), joinSession(Me(d), s),
                                            grantAccess(Me(d), s)}
      BY <1>1, <2>2, Distinct
    <2>4. \A e \in Devices : \A v \in screen'[e].pendingMembers \cup screen'[e].pendingUsers :
             <<v, screen'[e].room>> \in asked'
      BY <2>1, <2>2, ShowConsents
    <2> QED BY <1>1, <2>2, <2>3, <2>4, CallConsent
  <1>5. ASSUME NEW d \in Devices, AskAccess(d)
        PROVE  ConsentFirst'
    <2>1. PICK s \in Rooms : s = screen[d].room
      BY <1>5 DEF AskAccess
    <2>2. /\ s \in Rooms
          /\ Call(d, requestAccess(Me(d), s))
          /\ Show(d, screen[d].users, screen[d].pendingUsers \cup {Me(d)})
          /\ creator' = creator /\ asked' = asked \cup {<<Me(d), s>>} /\ granted' = granted
      BY <2>1, <1>5 DEF AskAccess
    <2>3. requestAccess(Me(d), s) \notin {uploadSession(Me(d), s), joinSession(Me(d), s),
                                         grantAccess(Me(d), s)}
      BY <1>1, <2>2, Distinct
    <2>4. \A e \in Devices : \A v \in screen'[e].pendingMembers \cup screen'[e].pendingUsers :
             <<v, screen'[e].room>> \in asked'
      BY <2>1, <2>2, ShowConsents
    <2> QED BY <1>1, <2>2, <2>3, <2>4, CallConsent
  <1>6. ASSUME NEW d \in Devices, NEW s \in Rooms, JoinWithPassword(d, s)
        PROVE  ConsentFirst'
    <2>1. /\ <<Me(d), s>> \in Invited
          /\ Call(d, joinSession(Me(d), s))
          /\ screen' = screen \/ Show(d, screen[d].users \cup {Me(d)}, screen[d].pendingUsers)
          /\ creator' = creator /\ asked' = asked /\ granted' = granted
      BY <1>6 DEF JoinWithPassword
    <2>2. Consent(<<Me(d), s>>)'
      BY <2>1 DEF Consent
    <2>3. \A e \in Devices : \A v \in screen'[e].pendingMembers \cup screen'[e].pendingUsers :
             <<v, screen'[e].room>> \in asked'
      <3>1. screen' = screen => \A e \in Devices :
               \A v \in screen'[e].pendingMembers \cup screen'[e].pendingUsers :
                  <<v, screen'[e].room>> \in asked'
        BY <1>1, <2>1 DEF ScreenConsents
      <3> QED BY <2>1, <3>1, ShowConsents
    <2>4. joinSession(Me(d), s) # requestAccess(Me(d), s)
      BY <1>1, Distinct
    <2> QED BY <1>1, <2>1, <2>2, <2>3, <2>4, CallConsent
  <1>7. ASSUME NEW d \in Devices, NEW u \in Users, GrantRequest(d, u)
        PROVE  ConsentFirst'
    <2>1. PICK s \in Rooms : s = screen[d].room
      BY <1>7 DEF GrantRequest, isCreator
    <2>2. /\ s \in Rooms /\ u \in screen[d].pendingUsers
          /\ Call(d, grantAccess(u, s))
          /\ Show(d, screen[d].users \cup {u}, screen[d].pendingUsers \ {u})
          /\ creator' = creator /\ asked' = asked /\ granted' = granted \cup {<<u, s>>}
      BY <2>1, <1>7 DEF GrantRequest, isCreator
    <2>3. Consent(<<u, s>>)'
      BY <1>1, <2>1, <2>2 DEF Consent, ScreenConsents
    <2>4. \A e \in Devices : \A v \in screen'[e].pendingMembers \cup screen'[e].pendingUsers :
             <<v, screen'[e].room>> \in asked'
      BY <2>1, <2>2, ShowConsents
    <2>5. grantAccess(u, s) # requestAccess(u, s)
      BY <2>2, Distinct
    <2> QED BY <2>2, <2>3, <2>4, <2>5, CallConsent
  <1>8. ASSUME NEW d \in Devices, NEW u \in Users, DenyRequest(d, u)
        PROVE  ConsentFirst'
    <2>1. PICK s \in Rooms : s = screen[d].room
      BY <1>8 DEF DenyRequest, isCreator
    <2>2. /\ s \in Rooms
          /\ Call(d, denyAccess(u, s))
          /\ Show(d, screen[d].users, screen[d].pendingUsers \ {u})
          /\ creator' = creator /\ asked' = asked /\ granted' = granted
      BY <2>1, <1>8 DEF DenyRequest, isCreator
    <2>3. /\ denyAccess(u, s) # requestAccess(u, s)
          /\ denyAccess(u, s) \notin {uploadSession(u, s), joinSession(u, s), grantAccess(u, s)}
      BY <2>2, Distinct
    <2>4. \A e \in Devices : \A v \in screen'[e].pendingMembers \cup screen'[e].pendingUsers :
             <<v, screen'[e].room>> \in asked'
      BY <2>1, <2>2, ShowConsents
    <2> QED BY <2>2, <2>3, <2>4, CallConsent
  <1>9. ASSUME NEW d \in Devices, NEW s \in Rooms, OpenRoom(d, s)
        PROVE  ConsentFirst'
    <2>1. /\ UNCHANGED <<out, value, creator, asked, granted>>
          /\ \A e \in Devices \ {d} : screen'[e] = screen[e]
          /\ screen'[d].room = s /\ screen'[d].pendingUsers = {}
          /\ screen'[d].pendingMembers = Array(d, "pendingMembers", s)
      BY <1>9 DEF OpenRoom, delivery, server, history, TypeOK
    <2>2. ASSUME NEW v \in Array(d, "pendingMembers", s)
          PROVE  <<v, s>> \in asked
      <3>1. v \in Users /\ Reads(d, "pendingMembers", <<v, s>>)
        BY <2>2 DEF Array
      <3>2. CASE Queued(d, "pendingMembers", <<v, s>>)
        <4>1. PICK i \in DOMAIN out[d] : /\ Touches(out[d][i], "pendingMembers", <<v, s>>)
                                        /\ Leaves(out[d][i], "pendingMembers", <<v, s>>)
          BY <3>1, <3>2 DEF Reads, IsLast
        <4>2. /\ out[d][i].op = "union" /\ out[d][i].field = "pendingMembers"
              /\ out[d][i].user = v /\ out[d][i].room = s
          BY <4>1 DEF Touches, Leaves
        <4>3. WriteConsents(out[d][i])
          BY <4>1 DEF ConsentFirst
        <4> QED BY <4>2, <4>3 DEF WriteConsents
      <3>3. CASE ~Queued(d, "pendingMembers", <<v, s>>)
        BY <3>1, <3>3 DEF Reads, ConsentFirst
      <3> QED BY <3>2, <3>3
    <2> QED BY <2>1, <2>2, QuietConsent
  <1>10. ASSUME NEW d \in Devices, Reappear(d) \/ \E u \in Users : Answer(d, u)
         PROVE  ConsentFirst'
    <2>1. UNCHANGED <<out, value, creator, asked, granted>>
      BY <1>10 DEF Reappear, Answer, delivery, server, history
    <2>2. \E us, ps \in SUBSET Users :
             /\ Show(d, us, ps)
             /\ ps \subseteq screen[d].pendingMembers \cup screen[d].pendingUsers
      <3>1. screen[d].users \in SUBSET Users /\ screen[d].pendingUsers \in SUBSET Users
        BY DEF TypeOK, Screens
      <3>2. CASE Reappear(d)
        <4>1. Show(d, {}, {})
          BY <3>2 DEF Reappear
        <4> QED BY <4>1
      <3>3. ASSUME NEW u \in Users, Answer(d, u)
            PROVE  \E us, ps \in SUBSET Users :
                      /\ Show(d, us, ps)
                      /\ ps \subseteq screen[d].pendingMembers \cup screen[d].pendingUsers
        <4>1. \/ Show(d, screen[d].users \cup {u}, screen[d].pendingUsers)
              \/ /\ Show(d, screen[d].users, screen[d].pendingUsers \cup {u})
                 /\ u \in screen[d].pendingMembers
          BY <3>3 DEF Answer
        <4>2. screen[d].users \cup {u} \in SUBSET Users /\ screen[d].pendingUsers \cup {u} \in SUBSET Users
          BY <3>1
        <4>3. /\ screen[d].pendingUsers \subseteq screen[d].pendingMembers \cup screen[d].pendingUsers
              /\ u \in screen[d].pendingMembers => screen[d].pendingUsers \cup {u}
                    \subseteq screen[d].pendingMembers \cup screen[d].pendingUsers
          OBVIOUS
        <4> QED BY <3>1, <4>1, <4>2, <4>3
      <3> QED BY <1>10, <3>2, <3>3
    <2>3. PICK us, ps \in SUBSET Users :
             /\ Show(d, us, ps)
             /\ ps \subseteq screen[d].pendingMembers \cup screen[d].pendingUsers
      BY <2>2
    <2>4. \A e \in Devices : \A v \in screen'[e].pendingMembers \cup screen'[e].pendingUsers :
             <<v, screen'[e].room>> \in asked'
      BY <2>1, <2>3, ShowConsents
    <2> QED BY <2>1, <2>4, QuietConsent
  <1>11. ASSUME NEW d \in Devices,
                \/ CheckPassword(d) \/ \E s \in Rooms : WrongPassword(d, s)
                \/ Store(d) \/ Break(d)
         PROVE  ConsentFirst'
    <2>1. UNCHANGED <<out, value, creator, screen, asked, granted>>
      BY <1>11 DEF CheckPassword, WrongPassword, Store, Break, D!Store, D!Break, delivery,
                   server, history, app
    <2> QED BY <2>1, QuietConsent
  <1>12. ASSUME NEW d \in Devices, Ack(d) \/ Refuse(d)
         PROVE  ConsentFirst'
    <2>1. /\ UNCHANGED <<value, creator, screen, asked, granted>>
          /\ out' = [out EXCEPT ![d] = Tail(@)]
          /\ sent[d] > 0 \/ stored[d] > 0
      BY <1>12 DEF Ack, Refuse, D!Ack, D!Refuse, D!DropHead, server, history, app
    <2>2. Len(out[d]) > 0
      BY <2>1, Domains
    <2>3. /\ \A e \in Devices \ {d} : out'[e] = out[e]
          /\ \A i \in DOMAIN out'[d] : i + 1 \in DOMAIN out[d] /\ out'[d][i] = out[d][i + 1]
      BY <2>1, <2>2, QueueDrop
    <2>4. \A i \in DOMAIN out'[d] : \E j \in DOMAIN out[d] : out'[d][i] = out[d][j]
      BY <2>3
    <2>5. \A e \in Devices : \A i \in DOMAIN out'[e] : \E j \in DOMAIN out[e] : out'[e][i] = out[e][j]
      BY <2>3, <2>4
    <2> QED BY <2>1, <2>5, QuietConsent
  <1>13. ASSUME NEW d \in Devices, Die(d)
         PROVE  ConsentFirst'
    <2>1. /\ UNCHANGED <<value, creator, asked, granted>>
          /\ \A e \in Devices : \A i \in DOMAIN out'[e] : i \in DOMAIN out[e] /\ out'[e][i] = out[e][i]
          /\ screen'[d].pendingMembers = {} /\ screen'[d].pendingUsers = {}
          /\ \A e \in Devices \ {d} : screen'[e] = screen[e]
      BY <1>13, QueueDie DEF NoScreen
    <2>2. \A e \in Devices : \/ screen'[e] = screen[e]
                             \/ \A v \in screen'[e].pendingMembers \cup screen'[e].pendingUsers :
                                   <<v, screen'[e].room>> \in asked
      BY <2>1
    <2> QED BY <2>1, <2>2, QuietConsent
  <1>14. ASSUME NEW d \in Devices, Commit(d)
         PROVE  ConsentFirst'
    <2> DEFINE w == out[d][sent[d] + 1]
    <2>1. /\ UNCHANGED <<out, creator, screen, asked, granted>>
          /\ sent[d] + 1 \in DOMAIN out[d]
      <3>1. sent[d] < stored[d]
        BY <1>14 DEF Commit, D!Commit
      <3>2. sent[d] + 1 \in DOMAIN out[d]
        BY <3>1, Domains
      <3> QED BY <1>14, <3>2 DEF Commit, D!Commit, app, history
    <2>2. value' = [f \in Fields |->
             {p \in Pairs : IF Touches(w, f, p) THEN Leaves(w, f, p) ELSE p \in value[f]}]
      BY <1>14 DEF Commit, Apply, Upcoming
    <2>3. WriteConsents(w)
      BY <2>1 DEF ConsentFirst
    <2>4. \A p \in Pairs : p = <<p[1], p[2]>>
      BY DEF Pairs
    <2>5. ASSUME NEW p \in value'["members"], p \notin value["members"]
          PROVE  Consent(p)'
      <3>1. p \in Pairs /\ Touches(w, "members", p) /\ Leaves(w, "members", p)
        BY <2>2, <2>5 DEF Fields
      <3>2. /\ w.user = p[1] /\ w.room = p[2]
            /\ w.op = "create" \/ (w.op = "union" /\ w.field = "members")
        BY <3>1 DEF Touches, Leaves
      <3>3. Consent(p)
        BY <2>3, <2>4, <3>1, <3>2 DEF WriteConsents
      <3> QED BY <2>1, <3>3 DEF Consent
    <2>6. ASSUME NEW p \in value'["pendingMembers"], p \notin value["pendingMembers"]
          PROVE  p \in asked'
      <3>1. p \in Pairs /\ Touches(w, "pendingMembers", p) /\ Leaves(w, "pendingMembers", p)
        BY <2>2, <2>6 DEF Fields
      <3>2. /\ w.user = p[1] /\ w.room = p[2]
            /\ w.op = "union" /\ w.field = "pendingMembers"
        BY <3>1 DEF Touches, Leaves
      <3> QED BY <2>1, <2>3, <2>4, <3>1, <3>2 DEF WriteConsents
    <2>7. \A e \in Devices : \A v \in screen'[e].pendingMembers \cup screen'[e].pendingUsers :
             <<v, screen'[e].room>> \in asked'
      BY <1>1, <2>1 DEF ScreenConsents
    <2>8. \A e \in Devices : \A i \in DOMAIN out'[e] : \A v \in Writes :
             v = out'[e][i] => (\E j \in DOMAIN out[e] : v = out[e][j]) \/ WriteConsents(v)'
      BY <2>1
    <2> QED BY <2>1, <2>5, <2>6, <2>7, <2>8, ConsentAfter
  <1>15. CASE UNCHANGED vars
    <2>1. UNCHANGED <<out, value, creator, screen, asked, granted>>
      BY <1>15 DEF vars, delivery, server, history, app
    <2> QED BY <2>1, QuietConsent
  <1> QED
    BY <1>2, <1>3, <1>4, <1>5, <1>6, <1>7, <1>8, <1>9, <1>10, <1>11, <1>12, <1>13, <1>14, <1>15
    DEF Next, Crash, LoadHalfCreated

(* A private room is entered by its creator, by whoever knows its         *)
(* password, and by whoever asked and was let in by the creator: a refused *)
(* or withdrawn request never lets anyone in, however late its writes.    *)
THEOREM EntryByConsent == Spec => []PrivateByConsent
  <1>1. Init => ConsentFirst
    <2> SUFFICES ASSUME Init
                 PROVE  ConsentFirst
      OBVIOUS
    <2>1. /\ \A d \in Devices : /\ out[d] = <<>>
                               /\ screen[d].pendingMembers = {} /\ screen[d].pendingUsers = {}
          /\ value["members"] = {} /\ value["pendingMembers"] = {}
      BY DEF Init, D!Init, NoScreen, Fields
    <2> QED BY <2>1 DEF ConsentFirst, PrivateByConsent, ScreenConsents
  <1>2. ConsentFirst => PrivateByConsent
    BY DEF ConsentFirst
  <1>3. Spec => []ConsentFirst
    BY <1>1, NextConsent, TypeCorrect, PTL DEF Spec
  <1> QED BY <1>2, <1>3, PTL

-----------------------------------------------------------------------------
(* Delivery. *)

Mapped == D!Next \/ UNCHANGED D!vars

LEMMA CallSizes ==
    ASSUME NEW u \in Users, NEW s \in Rooms,
           NEW ws \in {uploadSession(u, s), joinSession(u, s), unjoinSession(u, s),
                       requestAccess(u, s), grantAccess(u, s), denyAccess(u, s)}
    PROVE  \E n \in 1..3 : ws \in [1..n -> Writes]
<1>1. ws \in Seq(Writes)
  BY CallWrites
<1>2. Len(ws) \in 1..3
  BY DEF uploadSession, joinSession, unjoinSession, requestAccess, grantAccess, denyAccess
<1> QED
  BY <1>1, <1>2, LenProperties

LEMMA CallDispatches ==
    ASSUME NEW d \in Devices, NEW u \in Users, NEW s \in Rooms,
           NEW ws \in {uploadSession(u, s), joinSession(u, s), unjoinSession(u, s),
                       requestAccess(u, s), grantAccess(u, s), denyAccess(u, s)},
           Call(d, ws)
    PROVE  Mapped
  BY CallSizes DEF Call, Mapped, D!Next, D!DispatchAny

LEMMA StepDelivers == TypeOK /\ [Next]_vars => [D!Next]_(D!vars)
<1> SUFFICES ASSUME TypeOK, [Next]_vars
             PROVE  Mapped
  BY DEF Mapped
<1>1. \A d \in Devices : Me(d) \in Users /\ (screen[d].room \in Rooms \cup {NoRoom})
  BY RoomsAssumption DEF Me, TypeOK, Screens
<1>2. ASSUME NEW d \in Devices, PublicButton(d) \/ LeavePrivate(d) \/ AskAccess(d)
      PROVE  Mapped
  <2>1. screen[d].room \in Rooms
    BY <1>1, <1>2, RoomsAssumption DEF PublicButton, LeavePrivate, AskAccess
  <2>2. \E ws \in {joinSession(Me(d), screen[d].room), unjoinSession(Me(d), screen[d].room),
                    requestAccess(Me(d), screen[d].room)} : Call(d, ws)
    BY <1>2 DEF PublicButton, LeavePrivate, AskAccess
  <2> QED
    BY <1>1, <2>1, <2>2, CallDispatches
<1>3. ASSUME NEW d \in Devices, NEW s \in Rooms, CreateRoom(d, s) \/ JoinWithPassword(d, s)
      PROVE  Mapped
  BY <1>1, <1>3, CallDispatches DEF CreateRoom, JoinWithPassword
<1>4. ASSUME NEW d \in Devices, NEW u \in Users, GrantRequest(d, u) \/ DenyRequest(d, u)
      PROVE  Mapped
  BY <1>1, <1>4, CallDispatches DEF GrantRequest, DenyRequest, isCreator
<1>5. ASSUME NEW d \in Devices,
             \/ Reappear(d) \/ CheckPassword(d)
             \/ (\E u \in Users : Answer(d, u))
             \/ (\E s \in Rooms : OpenRoom(d, s) \/ WrongPassword(d, s))
      PROVE  Mapped
  BY <1>5 DEF Mapped, delivery, D!vars, Reappear, CheckPassword, Answer, OpenRoom, WrongPassword
<1>6. ASSUME NEW d \in Devices, Store(d) \/ Commit(d) \/ Ack(d) \/ Refuse(d) \/ Break(d)
      PROVE  Mapped
  BY <1>6 DEF Mapped, D!Next, Store, Commit, Ack, Refuse, Break
<1>7. ASSUME NEW d \in Devices, Die(d)
      PROVE  Mapped
  BY <1>7 DEF Mapped, D!Next, Die
<1>8. CASE UNCHANGED vars
  BY <1>8 DEF Mapped, vars, delivery, D!vars
<1> QED
  BY <1>2, <1>3, <1>4, <1>5, <1>6, <1>7, <1>8 DEF Next, Crash, LoadHalfCreated

(* Rooms asks of the SDK what Delivery offers and no more: each call of    *)
(* FirebaseSession hands over one to three writes at the end of its         *)
(* device's queue, and nothing else adds to one.                            *)
THEOREM Delivers == Spec => D!Spec
<1>1. Init => D!Init
  BY DEF Init
<1> QED
  BY <1>1, StepDelivers, TypeCorrect, PTL DEF Spec, D!Spec

=============================================================================
