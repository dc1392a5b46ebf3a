-------------------------- MODULE RoomListProofs --------------------------
(***************************************************************************)
(* RoomList, for any rooms and bounds.                                     *)
(***************************************************************************)
EXTENDS RoomList, FiniteSetTheorems, SequenceTheorems, TLAPS

USE RoomListAssumption

(* While a room that is not spoiled is not whole, nothing of the user's    *)
(* names it, the write of its id has not been committed, and waits before  *)
(* each write that lists the room; whoever opened it is about to make it   *)
(* whole.                                                                  *)
Ahead(q, n, s) ==
    /\ \A i \in DOMAIN q : q[i] = Write("setId", s) => i > n
    /\ \A i \in DOMAIN q : q[i] = Write("list", s) =>
          \E j \in 1..i : q[j] = Write("setId", s)

Coming(s) == /\ s \notin sessions
             /\ second[s] = 0
             /\ \A d \in Devices : Ahead(out[d], sent[d], s)
             /\ \A d \in Devices : <<d, s>> \in opened => HasWrite(d, "setId", s)

Ready == /\ unready \subseteq spoiled
         /\ \A s \in Rooms \ spoiled : doc[s] = "full" \/ Coming(s)

(* Two reads of the ids are under way only after an appearance that        *)
(* excused every room, and nothing is promised before the first, or of an  *)
(* app that died of a row it could not build.                              *)
Excusing == first > 1 => excused = Rooms

Agrees == ended # "unready" => \A s \in Rooms \ excused :
             Due(s) = (IF first = 0 /\ s \in sessions THEN 1 ELSE 0)

Inv == TypeOK /\ Ready /\ Excusing /\ Agrees

-----------------------------------------------------------------------------
(* Queues *)

LEMMA ConcatQueue ==
    ASSUME NEW S, NEW s \in Seq(S), NEW t \in Seq(S)
    PROVE  /\ s \o t \in Seq(S)
           /\ Len(s \o t) = Len(s) + Len(t)
           /\ \A i \in 1..Len(s) : (s \o t)[i] = s[i]
           /\ \A i \in 1..Len(t) : (s \o t)[Len(s) + i] = t[i]
BY SMT

LEMMA TailQueue ==
    ASSUME NEW S, NEW s \in Seq(S), Len(s) > 0
    PROVE  /\ Tail(s) \in Seq(S)
           /\ Len(Tail(s)) = Len(s) - 1
           /\ \A i \in 1..(Len(s) - 1) : Tail(s)[i] = s[i + 1]
           /\ Head(s) = s[1] /\ s[1] \in S
BY SMT

LEMMA PrefixQueue ==
    ASSUME NEW S, NEW s \in Seq(S), NEW n \in 0..Len(s)
    PROVE  /\ SubSeq(s, 1, n) \in Seq(S)
           /\ Len(SubSeq(s, 1, n)) = n
           /\ \A i \in 1..n : SubSeq(s, 1, n)[i] = s[i]
BY SMT

LEMMA CallWrites ==
    ASSUME NEW s \in Rooms
    PROVE  /\ uploadSession(s) \in Seq(Writes) /\ Len(uploadSession(s)) = 3
           /\ joinSession(s) \in Seq(Writes) /\ Len(joinSession(s)) = 1
           /\ unjoinSession(s) \in Seq(Writes) /\ Len(unjoinSession(s)) = 1
<1>1. \A op \in {"create", "setId", "list", "unlist"} : Write(op, s) \in Writes
  BY DEF Write, Writes
<1> QED
  BY <1>1 DEF uploadSession, joinSession, unjoinSession

LEMMA DeliveryType ==
    ASSUME TypeOK, NEW d \in Devices
    PROVE  /\ \A ws \in Seq(Writes) : D!Dispatch(d, ws) => D!TypeOK'
           /\ D!Store(d) => D!TypeOK'
           /\ D!Commit(d) => D!TypeOK'
           /\ D!Ack(d) => D!TypeOK'
           /\ D!Refuse(d) => D!TypeOK'
           /\ D!Break(d) => D!TypeOK'
           /\ D!Crash({d}) => D!TypeOK'
<1> USE DEF TypeOK, D!TypeOK
<1>1. ASSUME NEW ws \in Seq(Writes), D!Dispatch(d, ws)
      PROVE  D!TypeOK'
  <2>1. out[d] \o ws \in Seq(Writes) /\ Len(out[d] \o ws) = Len(out[d]) + Len(ws)
    BY ConcatQueue
  <2> QED BY <1>1, <2>1 DEF D!Dispatch
<1>2. D!Store(d) => D!TypeOK'
  BY DEF D!Store
<1>3. D!Commit(d) => D!TypeOK'
  BY DEF D!Commit
<1>4. Len(out[d]) > 0 => Tail(out[d]) \in Seq(Writes) /\ Len(Tail(out[d])) = Len(out[d]) - 1
  BY TailQueue
<1>5. ASSUME D!Ack(d)
      PROVE  D!TypeOK'
  <2>1. sent[d] > 0 /\ sent[d] <= stored[d] /\ stored[d] <= Len(out[d]) /\ Len(out[d]) \in Nat
    BY <1>5 DEF D!Ack
  <2>2. Tail(out[d]) \in Seq(Writes) /\ Len(Tail(out[d])) = Len(out[d]) - 1
    BY <1>4, <2>1
  <2> QED
    BY <1>5, <2>1, <2>2 DEF D!Ack, D!DropHead
<1>6. D!Refuse(d) => D!TypeOK'
  BY <1>4 DEF D!Refuse, D!DropHead
<1>7. D!Break(d) => D!TypeOK'
  BY DEF D!Break
<1>8. /\ SubSeq(out[d], 1, stored[d]) \in Seq(Writes)
      /\ Len(SubSeq(out[d], 1, stored[d])) = stored[d]
  BY PrefixQueue
<1>9. D!Crash({d}) => D!TypeOK'
  BY <1>8 DEF D!Crash
<1> QED
  BY <1>1, <1>2, <1>3, <1>5, <1>6, <1>7, <1>9

(* The write of the id stays ahead whatever becomes of a queue.            *)

\* Writes handed over list a room only behind one of its id.
LEMMA AheadAppended ==
    ASSUME NEW q \in Seq(Writes), NEW n \in 0..Len(q), NEW t \in Seq(Writes), NEW s,
           Ahead(q, n, s),
           \A i \in 1..Len(t) : t[i] = Write("list", s) =>
              \/ \E j \in 1..i : t[j] = Write("setId", s)
              \/ \E j \in 1..Len(q) : q[j] = Write("setId", s)
    PROVE  Ahead(q \o t, n, s)
<1> DEFINE r == q \o t
<1>1. /\ r \in Seq(Writes) /\ Len(r) = Len(q) + Len(t)
      /\ \A i \in 1..Len(q) : r[i] = q[i]
      /\ \A i \in 1..Len(t) : r[Len(q) + i] = t[i]
  BY ConcatQueue
<1>2. DOMAIN r = 1..(Len(q) + Len(t)) /\ DOMAIN q = 1..Len(q) /\ Len(q) \in Nat /\ Len(t) \in Nat
  BY <1>1
<1> HIDE DEF r
<1>3. ASSUME NEW i \in 1..(Len(q) + Len(t)), i > Len(q)
      PROVE  i - Len(q) \in 1..Len(t) /\ r[i] = t[i - Len(q)]
  <2>1. i - Len(q) \in 1..Len(t) /\ i = Len(q) + (i - Len(q))
    BY <1>2, <1>3
  <2> QED BY <1>1, <2>1
<1>4. ASSUME NEW i \in DOMAIN r, r[i] = Write("setId", s)
      PROVE  i > n
  BY <1>1, <1>2, <1>4 DEF Ahead
<1>5. ASSUME NEW i \in DOMAIN r, r[i] = Write("list", s)
      PROVE  \E j \in 1..i : r[j] = Write("setId", s)
  <2>1. CASE i <= Len(q)
    <3>1. i \in DOMAIN q /\ q[i] = Write("list", s)
      BY <1>1, <1>2, <1>5, <2>1
    <3>2. PICK j \in 1..i : q[j] = Write("setId", s)
      BY <3>1 DEF Ahead
    <3> QED BY <1>1, <1>2, <2>1, <3>2
  <2>2. CASE i > Len(q)
    <3>1. i - Len(q) \in 1..Len(t) /\ t[i - Len(q)] = Write("list", s)
      BY <1>2, <1>3, <1>5, <2>2
    <3>2. ASSUME NEW j \in 1..(i - Len(q)), t[j] = Write("setId", s)
          PROVE  Len(q) + j \in 1..i /\ r[Len(q) + j] = Write("setId", s)
      BY <1>1, <1>2, <3>1, <3>2
    <3>3. ASSUME NEW j \in 1..Len(q), q[j] = Write("setId", s)
          PROVE  j \in 1..i /\ r[j] = Write("setId", s)
      BY <1>1, <1>2, <2>2, <3>3
    <3> QED BY <3>1, <3>2, <3>3
  <2> QED BY <1>2, <2>1, <2>2
<1> QED
  BY <1>4, <1>5 DEF Ahead, r

\* The oldest write, if it is not that of the id, may leave.
LEMMA AheadDropped ==
    ASSUME NEW q \in Seq(Writes), NEW n \in Nat, NEW m \in Nat, NEW s, Len(q) > 0,
           Ahead(q, n, s), q[1] # Write("setId", s), m = n - 1 \/ m = 0
    PROVE  Ahead(Tail(q), m, s)
<1>1. /\ Len(Tail(q)) = Len(q) - 1 /\ Len(q) \in Nat
      /\ DOMAIN q = 1..Len(q) /\ DOMAIN Tail(q) = 1..(Len(q) - 1)
      /\ \A i \in 1..(Len(q) - 1) : Tail(q)[i] = q[i + 1]
  BY TailQueue
<1>2. ASSUME NEW i \in DOMAIN Tail(q), Tail(q)[i] = Write("setId", s)
      PROVE  i > m
  <2>1. i + 1 \in DOMAIN q /\ q[i + 1] = Write("setId", s)
    BY <1>1, <1>2
  <2> QED BY <1>1, <2>1 DEF Ahead
<1>3. ASSUME NEW i \in DOMAIN Tail(q), Tail(q)[i] = Write("list", s)
      PROVE  \E j \in 1..i : Tail(q)[j] = Write("setId", s)
  <2>1. i + 1 \in DOMAIN q /\ q[i + 1] = Write("list", s)
    BY <1>1, <1>3
  <2>2. PICK j \in 1..(i + 1) : q[j] = Write("setId", s)
    BY <2>1 DEF Ahead
  <2>3. j - 1 \in 1..i /\ (j - 1) + 1 = j /\ j - 1 \in 1..(Len(q) - 1)
    BY <1>1, <2>2
  <2> QED BY <1>1, <2>2, <2>3
<1> QED
  BY <1>2, <1>3 DEF Ahead

\* A crash keeps the writes before a write it keeps, all to be sent again.
LEMMA AheadCut ==
    ASSUME NEW q \in Seq(Writes), NEW n \in Nat, NEW k \in 0..Len(q), NEW s, Ahead(q, n, s)
    PROVE  Ahead(SubSeq(q, 1, k), 0, s)
<1>1. /\ Len(SubSeq(q, 1, k)) = k /\ SubSeq(q, 1, k) \in Seq(Writes)
      /\ \A i \in 1..k : SubSeq(q, 1, k)[i] = q[i]
  BY PrefixQueue
<1>2. DOMAIN SubSeq(q, 1, k) = 1..k /\ DOMAIN q = 1..Len(q) /\ Len(q) \in Nat
  BY <1>1
<1> QED
  BY <1>1, <1>2 DEF Ahead

-----------------------------------------------------------------------------
(* Counting rows *)

Rows(l, s) == {i \in DOMAIN l : l[i] = s}

LEMMA RowsAreFinite ==
    ASSUME NEW l \in Seq(Rooms), NEW s
    PROVE  IsFiniteSet(Rows(l, s)) /\ Cardinality(Rows(l, s)) \in Nat
<1>1. Rows(l, s) \in SUBSET (1..Len(l)) /\ Len(l) \in Nat
  BY DEF Rows
<1>2. IsFiniteSet(1..Len(l))
  BY <1>1, FS_Interval
<1>3. IsFiniteSet(Rows(l, s))
  BY <1>1, <1>2, FS_Subset
<1> QED
  BY <1>3, FS_CardinalityType

LEMMA NoRowsOfNothing == ASSUME NEW s PROVE Cardinality(Rows(<<>>, s)) = 0
<1>1. Rows(<<>>, s) = {}
  BY DEF Rows
<1> QED
  BY <1>1, FS_EmptySet

\* A row appended counts for its room and for no other.
LEMMA RowAppended ==
    ASSUME NEW l \in Seq(Rooms), NEW r \in Rooms, NEW s \in Rooms
    PROVE  Cardinality(Rows(Append(l, r), s))
             = Cardinality(Rows(l, s)) + (IF s = r THEN 1 ELSE 0)
<1> DEFINE n == Len(l) + 1
<1>1. /\ Len(l) \in Nat /\ DOMAIN l = 1..Len(l) /\ DOMAIN Append(l, r) = 1..n
      /\ \A i \in 1..Len(l) : Append(l, r)[i] = l[i]
      /\ Append(l, r)[n] = r
  BY AppendProperties
<1>2. CASE s = r
  <2>1. Rows(Append(l, r), s) = Rows(l, s) \cup {n}
    BY <1>1, <1>2 DEF Rows
  <2>2. n \notin Rows(l, s)
    BY <1>1 DEF Rows
  <2>3. IsFiniteSet(Rows(l, s))
    BY RowsAreFinite
  <2> HIDE DEF n
  <2> QED
    BY <1>2, <2>1, <2>2, <2>3, FS_AddElement
<1>3. CASE s # r
  <2>1. Rows(Append(l, r), s) = Rows(l, s)
    BY <1>1, <1>3 DEF Rows
  <2> QED
    BY <1>3, <2>1, RowsAreFinite
<1> QED
  BY <1>2, <1>3

-----------------------------------------------------------------------------
(* One lemma per action *)

LEMMA Domains ==
    ASSUME TypeOK
    PROVE  /\ out \in [Devices -> Seq(Writes)]
           /\ sent \in [Devices -> Nat] /\ stored \in [Devices -> Nat]
           /\ \A d \in Devices : /\ DOMAIN out[d] = 1..Len(out[d])
                                 /\ Len(out[d]) \in Nat
                                 /\ sent[d] <= stored[d] /\ stored[d] <= Len(out[d])
BY DEF TypeOK, D!TypeOK

LEMMA Initially == Init => Inv
<1> SUFFICES ASSUME Init PROVE Inv
  OBVIOUS
<1>1. TypeOK
  <2>1. list \in Seq(Rooms)
    BY EmptySeq DEF Init
  <2>2. doc \in [Rooms -> {"none", "noId", "full"}] /\ sessions \subseteq Rooms
    BY DEF Init
  <2>3. second \in [Rooms -> Nat]
    BY DEF Init
  <2>4. 0 \in 0..MaxAppears /\ 0 \in 0..MaxCalls /\ 0 \in 0..MaxFaults
    OBVIOUS
  <2>5. D!TypeOK
    BY DEF Init, D!Init, D!TypeOK
  <2> QED
    BY <2>1, <2>2, <2>3, <2>4, <2>5 DEF Init, TypeOK
<1>2. Ready
  <2>1. \A s \in Rooms, d \in Devices : Ahead(out[d], sent[d], s)
    BY DEF Ahead, Init, D!Init
  <2>2. \A s \in Rooms : s \in sessions => doc[s] = "full"
    BY DEF Init
  <2> QED
    BY <2>1, <2>2 DEF Ready, Coming, Init
<1> QED
  BY <1>1, <1>2 DEF Init, Inv, Excusing, Agrees

\* What the list owes is not touched by what leaves screen and list alone.
LEMMA Elsewhere ==
    ASSUME Inv, UNCHANGED <<sessions, first, second, list, excused>>,
           ended = "no" \/ ended' = ended
    PROVE  Excusing' /\ Agrees'
<1>1. \A t \in Rooms : Due(t)' = Due(t)
  BY DEF Due, Count
<1> QED
  BY <1>1 DEF Inv, Excusing, Agrees

\* A step of one queue.
LEMMA ComingKept ==
    ASSUME NEW s \in Rooms, Coming(s), NEW d \in Devices,
           UNCHANGED <<sessions, second>>,
           \A e \in Devices \ {d} : out'[e] = out[e] /\ sent'[e] = sent[e],
           \A e \in Devices \ {d} : <<e, s>> \in opened' => <<e, s>> \in opened,
           Ahead(out'[d], sent'[d], s),
           <<d, s>> \in opened' => \E i \in DOMAIN out'[d] : out'[d][i] = Write("setId", s)
    PROVE  Coming(s)'
<1>1. ASSUME NEW e \in Devices
      PROVE  Ahead(out'[e], sent'[e], s)
  BY <1>1 DEF Coming
<1>2. ASSUME NEW e \in Devices, <<e, s>> \in opened'
      PROVE  \E i \in DOMAIN out'[e] : out'[e][i] = Write("setId", s)
  BY <1>2 DEF Coming, HasWrite
<1> QED
  BY <1>1, <1>2 DEF Coming, Ahead, HasWrite

LEMMA Calling ==
    ASSUME Inv, NEW d \in Devices, NEW ws \in Seq(Writes), Call(d, ws), opened' = opened,
           drawn' \subseteq Rooms,
           \A s \in Rooms : Coming(s) =>
              \A i \in 1..Len(ws) : ws[i] = Write("list", s) =>
                 \/ \E j \in 1..i : ws[j] = Write("setId", s)
                 \/ HasWrite(d, "setId", s)
    PROVE  Inv'
<1>0. TypeOK /\ D!Dispatch(d, ws)
  BY DEF Inv, Call
<1>1. TypeOK'
  <2>1. D!TypeOK'
    BY <1>0, DeliveryType
  <2>2. calls' \in 0..MaxCalls
    BY <1>0 DEF Call, TypeOK
  <2> QED
    BY <1>0, <2>1, <2>2 DEF Call, TypeOK, server, screen
<1>2. /\ out'[d] = out[d] \o ws /\ sent' = sent
      /\ \A e \in Devices \ {d} : out'[e] = out[e]
  BY <1>0, Domains DEF D!Dispatch
<1>3. /\ out[d] \in Seq(Writes) /\ Len(out[d]) \in Nat /\ sent[d] \in 0..Len(out[d])
      /\ DOMAIN out[d] = 1..Len(out[d])
  BY <1>0, Domains
<1>4. UNCHANGED <<doc, sessions, second, spoiled, unready, first, list, ended, excused>>
  BY DEF Call, server, screen
<1>5. ASSUME NEW s \in Rooms, Coming(s)
      PROVE  Coming(s)'
  <2>1. Ahead(out[d] \o ws, sent[d], s)
    <3>1. Ahead(out[d], sent[d], s)
      BY <1>5 DEF Coming
    <3>2. \A i \in 1..Len(ws) : ws[i] = Write("list", s) =>
             \/ \E j \in 1..i : ws[j] = Write("setId", s)
             \/ \E j \in 1..Len(out[d]) : out[d][j] = Write("setId", s)
      BY <1>3, <1>5 DEF HasWrite
    <3> QED BY <1>3, <3>1, <3>2, AheadAppended
  <2>2. ASSUME <<d, s>> \in opened'
        PROVE  \E i \in DOMAIN out'[d] : out'[d][i] = Write("setId", s)
    <3>1. PICK i \in DOMAIN out[d] : out[d][i] = Write("setId", s)
      BY <1>5, <2>2 DEF Coming, HasWrite
    <3>2. i \in DOMAIN (out[d] \o ws) /\ (out[d] \o ws)[i] = out[d][i]
      BY <1>3, <3>1, ConcatQueue
    <3> QED BY <1>2, <3>1, <3>2
  <2> QED
    BY <1>2, <1>4, <1>5, <2>1, <2>2, ComingKept
<1>6. Ready'
  BY <1>4, <1>5 DEF Inv, Ready
<1> QED
  BY <1>1, <1>4, <1>6, Elsewhere DEF Inv

LEMMA Creating == ASSUME Inv, NEW d \in Devices, NEW s \in Rooms, Create(d, s) PROVE Inv'
<1>1. /\ uploadSession(s) \in Seq(Writes) /\ Len(uploadSession(s)) = 3
      /\ Call(d, uploadSession(s)) /\ opened' = opened /\ drawn' \subseteq Rooms
  BY CallWrites DEF Create, Inv, TypeOK
<1>2. ASSUME NEW t \in Rooms, NEW i \in 1..Len(uploadSession(s)),
             uploadSession(s)[i] = Write("list", t)
      PROVE  \E j \in 1..i : uploadSession(s)[j] = Write("setId", t)
  <2>1. i \in 1..3
    BY <1>1, <1>2
  <2>2. i = 3 /\ t = s
    BY <1>2, <2>1 DEF uploadSession, Write
  <2>3. 2 \in 1..i /\ uploadSession(s)[2] = Write("setId", t)
    BY <2>2 DEF uploadSession
  <2> QED
    BY <2>3
<1> QED
  BY <1>1, <1>2, Calling

LEMMA Joining == ASSUME Inv, NEW d \in Devices, NEW s \in Rooms, Join(d, s) PROVE Inv'
<1>1. /\ joinSession(s) \in Seq(Writes) /\ Len(joinSession(s)) = 1
      /\ Call(d, joinSession(s)) /\ opened' = opened /\ drawn' \subseteq Rooms
  BY CallWrites DEF Join, Inv, TypeOK, app
<1>2. ASSUME NEW t \in Rooms, Coming(t), NEW i \in 1..Len(joinSession(s)),
             joinSession(s)[i] = Write("list", t)
      PROVE  HasWrite(d, "setId", t)
  <2>1. t = s
    BY <1>1, <1>2 DEF joinSession, Write
  <2> QED
    BY <1>2, <2>1 DEF Coming, Join
<1> QED
  BY <1>1, <1>2, Calling

LEMMA Leaving == ASSUME Inv, NEW d \in Devices, NEW s \in Rooms, Leave(d, s) PROVE Inv'
<1>1. /\ unjoinSession(s) \in Seq(Writes) /\ Len(unjoinSession(s)) = 1
      /\ Call(d, unjoinSession(s)) /\ opened' = opened /\ drawn' \subseteq Rooms
  BY CallWrites DEF Leave, Inv, TypeOK, app
<1>2. \A t \in Rooms : \A i \in 1..Len(unjoinSession(s)) : unjoinSession(s)[i] # Write("list", t)
  BY <1>1 DEF unjoinSession, Write
<1> QED
  BY <1>1, <1>2, Calling

LEMMA Opening == ASSUME Inv, NEW d \in Devices, NEW r \in Rooms, Open(d, r) PROVE Inv'
<1>1. UNCHANGED <<delivery, server, drawn, screen, spoiled, excused, appears, calls, faults>>
  BY DEF Open
<1>2. TypeOK'
  <2>1. D!TypeOK'
    BY <1>1 DEF Inv, TypeOK, D!TypeOK, delivery
  <2>2. opened' \subseteq Devices \X Rooms
    BY DEF Inv, TypeOK, Open
  <2> QED
    BY <1>1, <2>1, <2>2 DEF Inv, TypeOK, server, screen
<1>3. ASSUME NEW s \in Rooms \ spoiled, doc[s] # "full"
      PROVE  Coming(s)'
  <2>1. Coming(s)
    BY <1>3 DEF Inv, Ready
  <2>2. <<d, s>> \in opened' => HasWrite(d, "setId", s)
    BY <1>3, <2>1 DEF Open, Whole, Coming
  <2>3. \A e \in Devices \ {d} : <<e, s>> \in opened' => <<e, s>> \in opened
    BY DEF Open
  <2> QED
    BY <1>1, <2>1, <2>2, <2>3 DEF Coming, HasWrite, Ahead, delivery, server, screen
<1>4. Ready'
  BY <1>1, <1>3 DEF Inv, Ready, server, screen
<1> QED
  BY <1>1, <1>2, <1>4, Elsewhere DEF Inv, server, screen

\* A step of a queue that commits nothing and lets no write of an id go that
\* is still needed.
LEMMA Delivering ==
    ASSUME Inv, TypeOK', NEW d \in Devices,
           UNCHANGED <<doc, sessions, first, second, list, ended, unready, excused>>,
           spoiled \subseteq spoiled',
           opened' \subseteq opened,
           \A e \in Devices \ {d} : out'[e] = out[e] /\ sent'[e] = sent[e],
           \A s \in Rooms \ spoiled' : doc[s] # "full" /\ Coming(s) =>
              /\ Ahead(out'[d], sent'[d], s)
              /\ <<d, s>> \in opened' => \E i \in DOMAIN out'[d] : out'[d][i] = Write("setId", s)
    PROVE  Inv'
<1>1. ASSUME NEW s \in Rooms \ spoiled', doc[s] # "full"
      PROVE  Coming(s)'
  <2>1. Coming(s)
    BY <1>1 DEF Inv, Ready
  <2> QED
    BY <1>1, <2>1, ComingKept
<1>2. Ready'
  BY <1>1 DEF Inv, Ready
<1> QED
  BY <1>2, Elsewhere DEF Inv

LEMMA Storing == ASSUME Inv, NEW d \in Devices, Store(d) PROVE Inv'
<1>1. TypeOK'
  BY DeliveryType DEF Inv, Store, TypeOK, server, app, screen
<1>2. UNCHANGED <<out, sent, opened, spoiled, doc, sessions, first, second, list, ended, unready,
               excused>>
  BY DEF Store, D!Store, server, app, screen
<1> QED
  BY <1>1, <1>2, Delivering DEF Coming, HasWrite

LEMMA Breaking == ASSUME Inv, NEW d \in Devices, Break(d) PROVE Inv'
<1>1. TypeOK'
  <2>1. faults' \in 0..MaxFaults
    BY DEF Inv, TypeOK, Break, Fault
  <2> QED
    BY <2>1, DeliveryType DEF Inv, Break, TypeOK, server, app, screen
<1>2. UNCHANGED <<out, opened, spoiled, doc, sessions, first, second, list, ended, unready,
               excused>>
  BY DEF Break, D!Break, server, app, screen
<1>3. sent'[d] = 0 /\ \A e \in Devices \ {d} : sent'[e] = sent[e]
  BY Domains DEF Inv, Break, D!Break
<1>4. \A s \in Rooms : Coming(s) => Ahead(out[d], 0, s)
  BY Domains DEF Inv, Coming, Ahead
<1> QED
  BY <1>1, <1>2, <1>3, <1>4, Delivering DEF Coming, HasWrite

\* The oldest write leaves, and is not the one of an id that is needed.
LEMMA Dropping ==
    ASSUME Inv, NEW d \in Devices, D!DropHead(d), Len(out[d]) > 0,
           NEW s \in Rooms, Coming(s), out[d][1] # Write("setId", s),
           sent'[d] = sent[d] - 1 \/ sent'[d] = 0, sent'[d] \in Nat
    PROVE  /\ Ahead(out'[d], sent'[d], s)
           /\ <<d, s>> \in opened => \E i \in DOMAIN out'[d] : out'[d][i] = Write("setId", s)
<1>1. /\ out[d] \in Seq(Writes) /\ Len(out[d]) \in Nat /\ DOMAIN out[d] = 1..Len(out[d])
      /\ out'[d] = Tail(out[d]) /\ sent[d] \in Nat
  BY Domains DEF Inv, D!DropHead
<1>2. Ahead(out'[d], sent'[d], s)
  <2>1. Ahead(out[d], sent[d], s)
    BY DEF Coming
  <2> QED
    BY <1>1, <2>1, AheadDropped
<1>3. ASSUME <<d, s>> \in opened
      PROVE  \E i \in DOMAIN out'[d] : out'[d][i] = Write("setId", s)
  <2>1. PICK i \in 1..Len(out[d]) : out[d][i] = Write("setId", s)
    BY <1>1, <1>3 DEF Coming, HasWrite
  <2>2. i - 1 \in 1..(Len(out[d]) - 1) /\ (i - 1) + 1 = i
    BY <1>1, <2>1
  <2>3. DOMAIN Tail(out[d]) = 1..(Len(out[d]) - 1) /\ Tail(out[d])[i - 1] = out[d][i]
    <3>1. /\ Len(Tail(out[d])) = Len(out[d]) - 1 /\ Tail(out[d]) \in Seq(Writes)
          /\ \A k \in 1..(Len(out[d]) - 1) : Tail(out[d])[k] = out[d][k + 1]
      BY <1>1, TailQueue
    <3> QED BY <2>2, <3>1
  <2> QED
    BY <1>1, <2>1, <2>2, <2>3
<1> QED
  BY <1>2, <1>3

LEMMA Acknowledging == ASSUME Inv, NEW d \in Devices, Ack(d) PROVE Inv'
<1>1. TypeOK'
  BY DeliveryType DEF Inv, Ack, TypeOK, server, app, screen
<1>2. UNCHANGED <<opened, spoiled, doc, sessions, first, second, list, ended, unready,
               excused>>
  BY DEF Ack, server, app, screen
<1>3. /\ D!DropHead(d) /\ sent[d] > 0 /\ sent[d] <= Len(out[d]) /\ Len(out[d]) > 0
      /\ sent'[d] = sent[d] - 1 /\ sent'[d] \in Nat
      /\ DOMAIN out[d] = 1..Len(out[d]) /\ Len(out[d]) \in Nat /\ sent[d] \in Nat
      /\ \A e \in Devices \ {d} : out'[e] = out[e] /\ sent'[e] = sent[e]
  BY Domains DEF Inv, Ack, D!Ack, D!DropHead
<1>4. ASSUME NEW s \in Rooms, Coming(s)
      PROVE  out[d][1] # Write("setId", s)
  BY <1>3, <1>4 DEF Coming, Ahead
<1>5. ASSUME NEW s \in Rooms, Coming(s)
      PROVE  /\ Ahead(out'[d], sent'[d], s)
             /\ <<d, s>> \in opened => \E i \in DOMAIN out'[d] : out'[d][i] = Write("setId", s)
  BY <1>3, <1>4, <1>5, Dropping
<1> QED
  BY <1>1, <1>2, <1>3, <1>5, Delivering

LEMMA Refusing == ASSUME Inv, NEW d \in Devices, Refuse(d) PROVE Inv'
<1> DEFINE w == Head(out[d])
<1>1. /\ D!Refuse(d) /\ D!DropHead(d) /\ sent[d] = 0 /\ sent'[d] = 0
      /\ out[d] \in Seq(Writes) /\ Len(out[d]) > 0 /\ Len(out[d]) \in Nat
      /\ \A e \in Devices \ {d} : out'[e] = out[e] /\ sent'[e] = sent[e]
  BY Domains DEF Inv, Refuse, D!Refuse, D!DropHead
<1>2. w = out[d][1] /\ w \in Writes
  BY <1>1, TailQueue
<1>3. UNCHANGED <<opened, drawn, doc, sessions, first, second, list, visible, ended, unready,
                  excused, appears, calls>>
  BY DEF Refuse, server, app, screen
<1>4. spoiled' = IF w.op = "setId" /\ doc[w.room] # "full" THEN spoiled \cup {w.room} ELSE spoiled
  BY DEF Refuse
<1> HIDE DEF w
<1>5. TypeOK'
  <2>1. faults' \in 0..MaxFaults
    BY DEF Inv, TypeOK, Refuse, Fault
  <2>2. spoiled' \subseteq Rooms
    BY <1>2, <1>4 DEF Inv, TypeOK, Writes
  <2>3. D!TypeOK'
    BY <1>1, DeliveryType DEF Inv
  <2> QED
    BY <1>3, <2>1, <2>2, <2>3 DEF Inv, TypeOK
<1>6. ASSUME NEW s \in Rooms \ spoiled', doc[s] # "full", Coming(s)
      PROVE  /\ Ahead(out'[d], sent'[d], s)
             /\ <<d, s>> \in opened' => \E i \in DOMAIN out'[d] : out'[d][i] = Write("setId", s)
  <2>1. out[d][1] # Write("setId", s)
    BY <1>2, <1>4, <1>6 DEF Write
  <2> QED
    BY <1>1, <1>3, <1>6, <2>1, Dropping
<1>7. spoiled \subseteq spoiled'
  BY <1>4
<1> QED
  BY <1>1, <1>3, <1>5, <1>6, <1>7, Delivering

LEMMA Crashing == ASSUME Inv, NEW d \in Devices, Crash(d) PROVE Inv'
<1>1. UNCHANGED <<drawn, spoiled, doc, sessions, first, second, list, visible, ended, unready,
                  excused, appears, calls>>
  BY DEF Crash, server, screen
<1>2. /\ out'[d] = SubSeq(out[d], 1, stored[d]) /\ sent'[d] = 0
      /\ \A e \in Devices \ {d} : out'[e] = out[e] /\ sent'[e] = sent[e]
      /\ opened' = opened \ ({d} \X Rooms)
      /\ out[d] \in Seq(Writes) /\ sent[d] \in Nat /\ stored[d] \in 0..Len(out[d])
  BY Domains DEF Inv, Crash, D!Crash
<1>3. TypeOK'
  <2>1. faults' \in 0..MaxFaults
    BY DEF Inv, TypeOK, Crash, Fault
  <2>2. D!TypeOK'
    BY DeliveryType DEF Inv, Crash
  <2> QED
    BY <1>1, <1>2, <2>1, <2>2 DEF Inv, TypeOK
<1>4. ASSUME NEW s \in Rooms, Coming(s)
      PROVE  Ahead(out'[d], sent'[d], s) /\ <<d, s>> \notin opened'
  <2>1. Ahead(out[d], sent[d], s)
    BY <1>4 DEF Coming
  <2> QED
    BY <1>2, <2>1, AheadCut
<1> QED
  BY <1>1, <1>2, <1>3, <1>4, Delivering

LEMMA Committing == ASSUME Inv, NEW d \in Devices, Commit(d) PROVE Inv'
<1> DEFINE w == Upcoming(d)
           n == sent[d] + 1
<1>1. /\ out' = out /\ stored' = stored
      /\ sent'[d] = n /\ \A e \in Devices \ {d} : sent'[e] = sent[e]
      /\ n \in DOMAIN out[d] /\ sent[d] \in Nat /\ n \in Nat
      /\ DOMAIN out[d] = 1..Len(out[d])
      /\ w = out[d][n] /\ w \in Writes
  BY Domains DEF Inv, Commit, D!Commit, Upcoming
<1>2. UNCHANGED <<opened, drawn, first, second, list, visible, ended, unready, appears, calls, faults>>
  BY DEF Commit, app, screen
<1>3. Apply(w) /\ D!Commit(d)
  BY DEF Commit
<1> HIDE DEF w
<1>4. w.room \in Rooms /\ w = Write(w.op, w.room)
  BY <1>1 DEF Writes, Write
<1>5. TypeOK'
  <2>1. /\ doc' \in [Rooms -> {"none", "noId", "full"}] /\ sessions' \subseteq Rooms
        /\ excused' \subseteq Rooms /\ spoiled' \subseteq Rooms
    BY <1>3, <1>4 DEF Inv, TypeOK, Apply
  <2>2. D!TypeOK'
    BY <1>3, DeliveryType DEF Inv
  <2> QED
    BY <1>2, <2>1, <2>2 DEF Inv, TypeOK
<1>6. ASSUME NEW s \in Rooms \ spoiled', doc'[s] # "full"
      PROVE  Coming(s)'
  <2>1. s \notin spoiled /\ doc[s] # "full" /\ w # Write("setId", s)
    <3>1. doc \in [Rooms -> {"none", "noId", "full"}]
      BY DEF Inv, TypeOK
    <3>2. CASE w.room = s
      BY <1>3, <1>4, <1>6, <3>1, <3>2 DEF Apply, Write
    <3>3. CASE w.room # s
      BY <1>3, <1>4, <1>6, <3>1, <3>3 DEF Apply, Write
    <3> QED BY <3>2, <3>3
  <2>2. Coming(s)
    BY <1>6, <2>1 DEF Inv, Ready
  <2>3. \A i \in DOMAIN out[d] : out[d][i] = Write("setId", s) => i > n
    BY <1>1, <2>1, <2>2 DEF Coming, Ahead
  <2>4. w # Write("list", s)
    <3>1. SUFFICES ASSUME w = Write("list", s) PROVE FALSE
      OBVIOUS
    <3>2. PICK j \in 1..n : out[d][j] = Write("setId", s)
      BY <1>1, <2>2, <3>1 DEF Coming, Ahead
    <3>3. j \in DOMAIN out[d]
      BY <1>1, <3>2
    <3> QED
      BY <1>1, <2>3, <3>2, <3>3
  <2>5. s \notin sessions'
    BY <1>3, <1>4, <2>2, <2>4 DEF Apply, Coming
  <2>6. ASSUME NEW e \in Devices PROVE Ahead(out'[e], sent'[e], s)
    BY <1>1, <2>2, <2>3 DEF Coming, Ahead
  <2>7. \A e \in Devices : <<e, s>> \in opened' => HasWrite(e, "setId", s)'
    BY <1>1, <1>2, <2>2 DEF Coming, HasWrite
  <2> QED
    BY <1>2, <2>2, <2>5, <2>6, <2>7 DEF Coming, Ahead
<1>7. Ready'
  <2>1. spoiled \subseteq spoiled'
    BY <1>3 DEF Apply
  <2> QED
    BY <1>2, <1>6, <2>1 DEF Inv, Ready
<1>8. \A t \in Rooms : Due(t)' = Due(t)
  BY <1>2 DEF Due, Count
<1>9. Excusing'
  BY <1>2, <1>3 DEF Inv, Excusing, Apply
<1>10. Agrees'
  <2>1. ASSUME NEW t \in Rooms \ excused'
        PROVE  t \notin excused /\ (first = 0 => (t \in sessions' <=> t \in sessions))
    BY <1>3, <2>1 DEF Apply
  <2> QED
    BY <1>2, <1>8, <2>1 DEF Inv, Agrees
<1> QED
  BY <1>5, <1>7, <1>9, <1>10 DEF Inv

-----------------------------------------------------------------------------
(* The screen *)

\* The documents, the writes and the user's document stay as they are.
LEMMA Watching ==
    ASSUME Inv, UNCHANGED <<delivery, server, app, spoiled>>, unready' \subseteq spoiled,
           \A s \in Rooms : second[s] = 0 /\ s \notin sessions => second'[s] = 0
    PROVE  Ready'
<1>1. \A s \in Rooms : Coming(s) => Coming(s)'
  BY DEF Coming, Ahead, HasWrite, delivery, server, app
<1> QED
  BY <1>1 DEF Inv, Ready, server

LEMMA Appearing == ASSUME Inv, Appear PROVE Inv'
<1>1. TypeOK'
  <2>1. list' \in Seq(Rooms)
    BY EmptySeq DEF Appear, NoRows
  <2> QED
    BY <2>1 DEF Inv, TypeOK, D!TypeOK, Appear, delivery, server, app
<1>2. Ready' /\ Excusing'
  BY Watching DEF Inv, TypeOK, Ready, Excusing, Appear
<1>3. \A s \in Rooms : Due(s)' = second[s]
  <2> TAKE s \in Rooms
  <2>1. Due(s)' = Cardinality(Rows(<<>>, s)) + second[s]
    BY DEF Due, Count, Rows, Appear, NoRows
  <2> QED
    BY <2>1, NoRowsOfNothing DEF Inv, TypeOK
<1>4. Agrees'
  BY <1>3 DEF Inv, TypeOK, Agrees, Appear
<1> QED
  BY <1>1, <1>2, <1>4 DEF Inv

LEMMA Covering == ASSUME Inv, Cover PROVE Inv'
<1>1. TypeOK'
  BY DEF Inv, TypeOK, D!TypeOK, Cover, delivery, server, app
<1>2. Ready'
  BY Watching DEF Inv, Ready, Cover
<1> QED
  BY <1>1, <1>2, Elsewhere DEF Inv, Cover, server

LEMMA Reading == ASSUME Inv, IdsAnswered PROVE Inv'
<1>1. TypeOK' /\ Excusing'
  BY DEF Inv, TypeOK, D!TypeOK, Excusing, IdsAnswered, delivery, server, app
<1>2. ASSUME NEW s \in Rooms
      PROVE  /\ Count(s) \in Nat /\ Count(s)' = Count(s)
             /\ Due(s) = Count(s) + second[s] /\ Due(s)' = Count(s) + second'[s]
  <2>1. Count(s) = Cardinality(Rows(list, s)) /\ list \in Seq(Rooms)
    BY DEF Count, Rows, Inv, TypeOK
  <2>2. Count(s) \in Nat
    BY <2>1, RowsAreFinite
  <2> QED
    BY <2>2 DEF Due, Count, IdsAnswered
<1>3. Agrees'
  <2> SUFFICES ASSUME NEW s \in Rooms \ excused
               PROVE  Due(s)' = (IF first' = 0 /\ s \in sessions' THEN 1 ELSE 0)
    BY DEF Agrees, IdsAnswered
  <2>1. first = 1 /\ ended = "no"
    BY DEF Inv, TypeOK, Excusing, IdsAnswered
  <2>2. Count(s) + second[s] = 0
    BY <1>2, <2>1 DEF Inv, Agrees
  <2> QED
    BY <1>2, <2>1, <2>2 DEF Inv, TypeOK, IdsAnswered, server
<1>4. Ready'
  BY Watching DEF Inv, TypeOK, Ready, IdsAnswered
<1> QED
  BY <1>1, <1>3, <1>4 DEF Inv

LEMMA Loading == ASSUME Inv, NEW r \in Rooms, RoomAnswered(r) PROVE Inv'
<1>1. second' = [second EXCEPT ![r] = second[r] - 1] /\ second \in [Rooms -> Nat] /\ second[r] > 0
  BY DEF Inv, TypeOK, RoomAnswered
<1>2. Ready'
  <2>1. doc[r] # "full" => r \in spoiled
    BY <1>1 DEF Inv, Ready, Coming
  <2>2. unready' \subseteq spoiled
    BY <2>1 DEF Inv, Ready, RoomAnswered
  <2> QED
    BY <1>1, <2>2, Watching DEF RoomAnswered
<1>3. CASE doc[r] = "full"
  <2>1. list' = Append(list, r) /\ ended' = ended /\ unready' = unready /\ list \in Seq(Rooms)
    BY <1>3 DEF Inv, TypeOK, RoomAnswered
  <2>2. TypeOK'
    <3>1. list' \in Seq(Rooms)
      BY <2>1, AppendProperties
    <3> QED
      BY <1>1, <2>1, <3>1 DEF Inv, TypeOK, D!TypeOK, RoomAnswered, delivery, server, app
  <2>3. \A s \in Rooms : Due(s)' = Due(s)
    <3> TAKE s \in Rooms
    <3>1. /\ Count(s) = Cardinality(Rows(list, s))
          /\ Count(s)' = Cardinality(Rows(Append(list, r), s))
      BY <2>1 DEF Count, Rows
    <3>2. Count(s) \in Nat /\ Count(s)' = Count(s) + (IF s = r THEN 1 ELSE 0)
      BY <2>1, <3>1, RowsAreFinite, RowAppended
    <3> QED
      BY <1>1, <3>2 DEF Due
  <2>4. Excusing' /\ Agrees'
    BY <2>3 DEF Inv, Excusing, Agrees, RoomAnswered, server
  <2> QED
    BY <1>2, <2>2, <2>4 DEF Inv
<1>4. CASE doc[r] # "full"
  <2>1. ended' = "unready" /\ unready' = {r} /\ list' = list
    BY <1>4 DEF RoomAnswered
  <2>2. TypeOK'
    BY <1>1, <2>1 DEF Inv, TypeOK, D!TypeOK, RoomAnswered, delivery, server, app
  <2> QED
    BY <1>2, <2>1, <2>2 DEF Inv, Excusing, Agrees, RoomAnswered
<1> QED
  BY <1>3, <1>4

LEMMA Failing == ASSUME Inv, ReadFails PROVE Inv'
<1>1. TypeOK'
  <2>1. D!TypeOK'
    BY DEF Inv, TypeOK, D!TypeOK, ReadFails, delivery
  <2> QED
    BY <2>1 DEF Inv, TypeOK, ReadFails, Fault, server, app
<1>2. Ready'
  BY Watching DEF Inv, Ready, ReadFails
<1> QED
  BY <1>1, <1>2, Elsewhere DEF Inv, ReadFails, server

LEMMA Stepping == Inv /\ [Next]_vars => Inv'
<1> SUFFICES ASSUME Inv, [Next]_vars PROVE Inv'
  OBVIOUS
<1>1. ASSUME NEW d \in Devices, NEW s \in Rooms,
             Create(d, s) \/ Open(d, s) \/ Join(d, s) \/ Leave(d, s)
      PROVE  Inv'
  BY <1>1, Creating, Opening, Joining, Leaving
<1>2. ASSUME NEW d \in Devices,
             Store(d) \/ Commit(d) \/ Ack(d) \/ Refuse(d) \/ Break(d) \/ Crash(d)
      PROVE  Inv'
  BY <1>2, Storing, Committing, Acknowledging, Refusing, Breaking, Crashing
<1>3. CASE Appear
  BY <1>3, Appearing
<1>4. CASE Cover
  BY <1>4, Covering
<1>5. CASE IdsAnswered
  BY <1>5, Reading
<1>6. ASSUME NEW s \in Rooms, RoomAnswered(s) PROVE Inv'
  BY <1>6, Loading
<1>7. CASE ReadFails
  BY <1>7, Failing
<1>8. CASE UNCHANGED vars
  <2>1. TypeOK'
    BY <1>8 DEF Inv, TypeOK, D!TypeOK, vars, delivery, server, app, screen
  <2>2. Ready'
    BY <1>8, Watching DEF Inv, Ready, vars, screen
  <2> QED
    BY <1>8, <2>1, <2>2, Elsewhere DEF Inv, vars, server, screen
<1> QED
  BY <1>1, <1>2, <1>3, <1>4, <1>5, <1>6, <1>7, <1>8 DEF Next

LEMMA Invariance == Spec => []Inv
<1> QED
  BY Initially, Stepping, PTL DEF Spec

-----------------------------------------------------------------------------
(* Every variable of the screen, its reads, the writes under way and the   *)
(* documents keeps its type.                                               *)
THEOREM TypeCorrect == Spec => []TypeOK
<1>1. Inv => TypeOK
  BY DEF Inv
<1> QED
  BY <1>1, Invariance, PTL

(* SessionsView dies of no room but one whose id was refused or was taken  *)
(* away by a replayed creation.                                            *)
THEOREM ReadyUnlessSpoiled == Spec => []RoomsAreReady
<1>1. Inv => RoomsAreReady
  BY DEF Inv, Ready, RoomsAreReady
<1> QED
  BY <1>1, Invariance, PTL

(* The rows and the reads under way are the user's rooms, once each.       *)
THEOREM RowsAgree == Spec => []ListAgrees
<1>1. Inv => ListAgrees
  BY DEF Inv, Agrees, ListAgrees
<1> QED
  BY <1>1, Invariance, PTL
=============================================================================
