------------------------- MODULE RoomScreenProofs -------------------------
(***************************************************************************)
(* RoomScreen, for any users, names and bounds.                            *)
(***************************************************************************)
EXTENDS RoomScreen, FiniteSetTheorems, SequenceTheorems, WellFoundedInduction, TLAPS

USE RoomScreenAssumption

-----------------------------------------------------------------------------
(* Counting the places of a user in a list *)

Places(s, u) == {i \in DOMAIN s : s[i] = u}
Times(s, u) == Cardinality(Places(s, u))

LEMMA PlacesAreFinite ==
    ASSUME NEW s \in Seq(Users), NEW u
    PROVE  IsFiniteSet(Places(s, u)) /\ Times(s, u) \in Nat
<1>1. Places(s, u) \in SUBSET (1..Len(s)) /\ Len(s) \in Nat
  BY DEF Places
<1>2. IsFiniteSet(1..Len(s))
  BY <1>1, FS_Interval
<1>3. IsFiniteSet(Places(s, u))
  BY <1>1, <1>2, FS_Subset
<1> QED
  BY <1>3, FS_CardinalityType DEF Times

LEMMA NeverInNothing == ASSUME NEW u PROVE Times(<<>>, u) = 0
<1>1. Places(<<>>, u) = {}
  BY DEF Places
<1> QED
  BY <1>1, FS_EmptySet DEF Times

\* Who is counted is somewhere in the list.
LEMMA Occurs ==
    ASSUME NEW s \in Seq(Users), NEW u
    PROVE  Times(s, u) = 0 <=> \A i \in 1..Len(s) : s[i] # u
<1>1. Places(s, u) = {} <=> \A i \in 1..Len(s) : s[i] # u
  BY DEF Places
<1>2. IsFiniteSet(Places(s, u))
  BY PlacesAreFinite
<1> QED
  BY <1>1, <1>2, FS_EmptySet DEF Times

LEMMA OneMore ==
    ASSUME NEW s \in Seq(Users), NEW v \in Users, NEW u \in Users
    PROVE  Times(Append(s, v), u) = Times(s, u) + (IF u = v THEN 1 ELSE 0)
<1> DEFINE n == Len(s) + 1
<1>1. /\ Len(s) \in Nat /\ DOMAIN s = 1..Len(s) /\ DOMAIN Append(s, v) = 1..n
      /\ \A i \in 1..Len(s) : Append(s, v)[i] = s[i]
      /\ Append(s, v)[n] = v
  BY AppendProperties
<1>2. CASE u = v
  <2>1. Places(Append(s, v), u) = Places(s, u) \cup {n}
    BY <1>1, <1>2 DEF Places
  <2>2. n \notin Places(s, u)
    BY <1>1 DEF Places
  <2>3. IsFiniteSet(Places(s, u))
    BY PlacesAreFinite
  <2> HIDE DEF n
  <2> QED
    BY <1>2, <2>1, <2>2, <2>3, FS_AddElement DEF Times
<1>3. CASE u # v
  <2>1. Places(Append(s, v), u) = Places(s, u)
    BY <1>1, <1>3 DEF Places
  <2> QED
    BY <1>3, <2>1, PlacesAreFinite DEF Times
<1> QED
  BY <1>2, <1>3

\* The list without its k-th place.
LEMMA WithoutPlace ==
    ASSUME NEW s \in Seq(Users), NEW k \in 1..Len(s)
    PROVE  /\ RemoveAt(s, k) \in Seq(Users)
           /\ Len(RemoveAt(s, k)) = Len(s) - 1
           /\ \A i \in 1..(Len(s) - 1) : RemoveAt(s, k)[i] = s[IF i < k THEN i ELSE i + 1]
<1> DEFINE a == SubSeq(s, 1, k - 1)
           b == SubSeq(s, k + 1, Len(s))
<1>1. Len(s) \in Nat /\ k \in Nat /\ 1 <= k /\ k <= Len(s)
  OBVIOUS
<1>2. a \in Seq(Users) /\ Len(a) = k - 1 /\ \A i \in 1..(k - 1) : a[i] = s[i]
  BY <1>1, SubSeqProperties
<1>3. /\ b \in Seq(Users) /\ Len(b) = Len(s) - k
      /\ \A i \in 1..(Len(s) - k) : b[i] = s[k + i]
  BY <1>1, SubSeqProperties
<1> HIDE DEF a, b
<1>4. /\ a \o b \in Seq(Users) /\ Len(a \o b) = Len(s) - 1
      /\ \A i \in 1..Len(a \o b) : (a \o b)[i] = IF i <= Len(a) THEN a[i] ELSE b[i - Len(a)]
  <2>1. /\ a \o b \in Seq(Users) /\ Len(a \o b) = Len(a) + Len(b)
        /\ \A i \in 1..(Len(a) + Len(b)) :
              (a \o b)[i] = IF i <= Len(a) THEN a[i] ELSE b[i - Len(a)]
    BY <1>2, <1>3, ConcatProperties
  <2> QED
    BY <1>1, <1>2, <1>3, <2>1
<1>5. ASSUME NEW i \in 1..(Len(s) - 1)
      PROVE  (a \o b)[i] = s[IF i < k THEN i ELSE i + 1]
  <2>1. CASE i < k
    BY <1>1, <1>2, <1>4, <2>1
  <2>2. CASE i >= k
    <3>1. (a \o b)[i] = b[i - (k - 1)] /\ i - (k - 1) \in 1..(Len(s) - k)
      BY <1>1, <1>2, <1>4, <2>2
    <3>2. b[i - (k - 1)] = s[k + (i - (k - 1))]
      BY <1>3, <3>1
    <3> QED
      BY <1>1, <2>2, <3>1, <3>2
  <2>3. i < k \/ i >= k
    BY <1>1
  <2> QED
    BY <2>1, <2>2, <2>3
<1> QED
  BY <1>4, <1>5 DEF RemoveAt, a, b

\* ... lacks one place of whoever was there.
LEMMA OneLess ==
    ASSUME NEW s \in Seq(Users), NEW k \in 1..Len(s), NEW u \in Users
    PROVE  Times(RemoveAt(s, k), u) = Times(s, u) - (IF u = s[k] THEN 1 ELSE 0)
<1> DEFINE t == RemoveAt(s, k)
           P == Places(s, u) \ {k}
           Q == Places(t, u)
           f == [i \in P |-> IF i < k THEN i ELSE i - 1]
<1>1. /\ Len(s) \in Nat /\ k \in 1..Len(s) /\ DOMAIN s = 1..Len(s)
      /\ t \in Seq(Users) /\ Len(t) = Len(s) - 1 /\ DOMAIN t = 1..(Len(s) - 1)
      /\ \A i \in 1..(Len(s) - 1) : t[i] = s[IF i < k THEN i ELSE i + 1]
  <2>1. /\ t \in Seq(Users) /\ Len(t) = Len(s) - 1
        /\ \A i \in 1..(Len(s) - 1) : t[i] = s[IF i < k THEN i ELSE i + 1]
    BY WithoutPlace
  <2> HIDE DEF t
  <2> QED
    BY <2>1
<1> HIDE DEF t
<1>2. \A i \in P : i \in 1..Len(s) /\ s[i] = u /\ i # k
  BY <1>1 DEF Places
<1>3. \A j \in Q : j \in 1..(Len(s) - 1) /\ t[j] = u
  BY <1>1 DEF Places
<1>4. f \in [P -> Q]
  <2> SUFFICES ASSUME NEW i \in P
               PROVE  (IF i < k THEN i ELSE i - 1) \in Q
    BY Zenon
  <2>1. (IF i < k THEN i ELSE i - 1) \in 1..(Len(s) - 1)
    BY <1>1, <1>2
  <2>2. t[IF i < k THEN i ELSE i - 1] = s[i]
    BY <1>1, <1>2
  <2> QED
    BY <1>1, <1>2, <2>1, <2>2 DEF Places
<1>5. IsInjective(f)
  <2> SUFFICES ASSUME NEW i \in P, NEW j \in P, f[i] = f[j]
               PROVE  i = j
    BY DEF IsInjective
  <2> QED
    BY <1>1, <1>2
<1>6. \A j \in Q : \E i \in P : f[i] = j
  <2> TAKE j \in Q
  <2> DEFINE i == IF j < k THEN j ELSE j + 1
  <2>1. i \in 1..Len(s) /\ i # k /\ s[i] = u
    BY <1>1, <1>3
  <2>2. i \in P
    BY <1>1, <2>1 DEF Places
  <2>3. f[i] = j
    BY <1>1, <1>3, <2>2
  <2> QED
    BY <2>2, <2>3
<1> HIDE DEF f
<1>7. ExistsBijection(P, Q)
  BY <1>4, <1>5, <1>6 DEF ExistsBijection, Bijection, Injection, Surjection
<1>8. IsFiniteSet(Places(s, u))
  BY PlacesAreFinite
<1>9. /\ IsFiniteSet(P)
      /\ Cardinality(P) = IF k \in Places(s, u) THEN Cardinality(Places(s, u)) - 1
                          ELSE Cardinality(Places(s, u))
  BY <1>8, FS_RemoveElement
<1>10. Cardinality(Q) = Cardinality(P)
  BY <1>7, <1>9, FS_Bijection
<1>11. k \in Places(s, u) <=> u = s[k]
  BY <1>1 DEF Places
<1>12. Times(s, u) \in Nat
  BY PlacesAreFinite
<1> QED
  BY <1>9, <1>10, <1>11, <1>12 DEF Times, t

LEMMA LeastIn == ASSUME NEW S, S \subseteq Nat, S # {} PROVE \E x \in S : \A y \in S : x <= y
<1> DEFINE R == {ss \in Nat \X Nat : ss[1] < ss[2]}
<1>1. IsWellFoundedOn(R, Nat)
  BY NatLessThanWellFounded DEF OpToRel
<1>2. \E x \in S : \A y \in S : <<y, x>> \notin R
  <2> HIDE DEF R
  <2> QED BY <1>1, WFMin
<1>3. \A x, y \in Nat : <<y, x>> \notin R => x <= y
  OBVIOUS
<1> HIDE DEF R
<1> QED
  BY <1>2, <1>3

\* The first place of a user is one of the list's.
LEMMA RemovesOne ==
    ASSUME NEW s \in Seq(Users), NEW v \in Users, Times(s, v) # 0
    PROVE  \E k \in 1..Len(s) : s[k] = v /\ RemoveFirst(s, v) = RemoveAt(s, k)
<1> DEFINE I == {i \in 1..Len(s) : s[i] = v}
           P(x) == \A y \in I : x =< y
<1>1. \E i \in 1..Len(s) : s[i] = v
  BY Occurs
<1>2. I # {} /\ I \subseteq Nat
  BY <1>1
<1>3. PICK m \in I : \A y \in I : m =< y
  BY <1>2, LeastIn
<1>4. P(m)
  BY <1>3
<1>5. (CHOOSE x \in I : P(x)) \in I
  <2> HIDE DEF P
  <2> QED BY <1>3, <1>4
<1>6. Min(I) \in I
  BY <1>5 DEF Min
<1>7. SelectInSeq(s, LAMBDA x : x = v) = Min(I)
  BY <1>2 DEF SelectInSeq
<1>8. RemoveFirst(s, v) = RemoveAt(s, SelectInSeq(s, LAMBDA x : x = v))
  BY <1>1 DEF RemoveFirst
<1>9. RemoveFirst(s, v) = RemoveAt(s, Min(I))
  BY <1>7, <1>8
<1> QED
  BY <1>6, <1>9

LEMMA OneRemoved ==
    ASSUME NEW s \in Seq(Users), NEW v \in Users, Times(s, v) # 0
    PROVE  /\ RemoveFirst(s, v) \in Seq(Users)
           /\ \A u \in Users : Times(RemoveFirst(s, v), u)
                                 = Times(s, u) - (IF u = v THEN 1 ELSE 0)
<1>1. PICK k \in 1..Len(s) : s[k] = v /\ RemoveFirst(s, v) = RemoveAt(s, k)
  BY RemovesOne
<1>2. RemoveAt(s, k) \in Seq(Users)
  BY WithoutPlace
<1>3. \A u \in Users : Times(RemoveAt(s, k), u) = Times(s, u) - (IF u = s[k] THEN 1 ELSE 0)
  BY OneLess
<1> QED
  BY <1>1, <1>2, <1>3

LEMMA NoneRemoved ==
    ASSUME NEW s \in Seq(Users), NEW v, Times(s, v) = 0
    PROVE  RemoveFirst(s, v) = s
BY Occurs DEF RemoveFirst

-----------------------------------------------------------------------------
(* One lemma per action: the two properties carry themselves, since the    *)
(* users of whom nothing is known are excused.                             *)

Inv == TypeOK /\ ListsAgree

Expected(l, u) == IF u \in view[l] THEN 1 ELSE 0

LEMMA Counted ==
    ASSUME TypeOK, NEW l \in Lists, NEW u \in Users
    PROVE  /\ list[l] \in Seq(Users)
           /\ Count(l, u) = Times(list[l], u) /\ Count(l, u) \in Nat
           /\ Due(l, u) = Count(l, u) + reads[l][u] /\ reads[l][u] \in Nat
           /\ Due(l, u) \in Nat
<1>1. list[l] \in Seq(Users) /\ reads[l][u] \in Nat
  BY DEF TypeOK
<1>2. Count(l, u) = Times(list[l], u)
  BY DEF Count, Times, Places
<1>3. Times(list[l], u) \in Nat
  BY <1>1, PlacesAreFinite
<1> QED
  BY <1>1, <1>2, <1>3 DEF Due

\* What the lists hold after a step.
LEMMA CountedNext ==
    ASSUME NEW l \in Lists, NEW u \in Users
    PROVE  Due(l, u)' = Times(list'[l], u) + reads'[l][u]
BY DEF Due, Count, Times, Places

LEMMA Initially == Init => Inv
<1> SUFFICES ASSUME Init PROVE Inv
  OBVIOUS
<1>1. TypeOK
  <2>1. list \in [Lists -> Seq(Users)]
    <3>1. <<>> \in Seq(Users)
      BY EmptySeq
    <3> QED
      BY <3>1 DEF Init
  <2>2. reads \in [Lists -> [Users -> Nat]]
    BY DEF Init
  <2>3. view \in Rows /\ sesh \in Rows /\ excused \subseteq Lists \X Users
    BY DEF Init
  <2>4. 0 \in 0..MaxChecks /\ 0 \in 0..MaxAppears /\ 0 \in 0..MaxPresses /\ 0 \in 0..MaxChanges
    OBVIOUS
  <2> QED
    BY <2>1, <2>2, <2>3, <2>4 DEF Init, TypeOK
<1> QED
  BY <1>1 DEF Init, Inv, ListsAgree

LEMMA Appearing == ASSUME Inv, Appear PROVE Inv'
<1>1. TypeOK
  BY DEF Inv
<1>2. list' = [l \in Lists |-> <<>>] /\ <<>> \in Seq(Users)
  BY EmptySeq DEF Appear, Emptied
<1>3. \A l \in Lists, u \in Users : Issued(l, u) \in Nat /\ reads[l][u] \in Nat
  BY <1>1 DEF Issued, TypeOK
<1>4. reads' = [l \in Lists |-> [u \in Users |-> reads[l][u] + Issued(l, u)]]
  BY DEF Appear
<1>5. reads' \in [Lists -> [Users -> Nat]]
  BY <1>3, <1>4
<1>6. TypeOK'
  <2>1. list' \in [Lists -> Seq(Users)]
    BY <1>2
  <2>2. excused' \subseteq Lists \X Users
    BY DEF Appear
  <2> QED
    BY <1>1, <1>5, <2>1, <2>2 DEF TypeOK, Appear, room, Rows
<1>7. ASSUME NEW l \in Lists, NEW u \in Users, <<l, u>> \notin excused'
      PROVE  Due(l, u)' = Expected(l, u)'
  <2>1. reads[l][u] = 0 /\ (u \in sesh[l] <=> u \in view[l])
    <3>1. ~(reads[l][u] > 0 \/ (u \in sesh[l]) # (u \in view[l]))
      BY <1>7 DEF Appear
    <3> QED
      BY <1>3, <3>1
  <2>2. reads'[l][u] = Issued(l, u)
    BY <1>3, <1>4, <2>1
  <2>3. Due(l, u)' = Times(<<>>, u) + reads'[l][u]
    BY <1>2, CountedNext
  <2>4. Due(l, u)' = Issued(l, u)
    BY <1>3, <2>2, <2>3, NeverInNothing
  <2> QED
    BY <2>1, <2>4 DEF Issued, Expected, Appear
<1> QED
  BY <1>6, <1>7 DEF Inv, ListsAgree, Expected

\* Steps that leave the lists, the reads and the room as they are.
LEMMA Keeping ==
    ASSUME Inv, TypeOK', UNCHANGED <<view, list, reads, excused>>, ended' = "no" => ended = "no"
    PROVE  Inv'
<1>1. \A l \in Lists, u \in Users : Due(l, u)' = Due(l, u)
  BY DEF Due, Count
<1> QED
  BY <1>1 DEF Inv, ListsAgree

LEMMA Covering == ASSUME Inv, Cover \/ ReadFails PROVE Inv'
<1>1. Rows' = Rows /\ UNCHANGED room
  BY DEF Cover, ReadFails, room, Rows
<1>2. TypeOK'
  <2>1. CASE Cover
    BY <1>1, <2>1 DEF Inv, TypeOK, Cover, room
  <2>2. CASE ReadFails
    BY <1>1, <2>2 DEF Inv, TypeOK, ReadFails, room
  <2> QED
    BY <2>1, <2>2
<1> QED
  BY <1>2, Keeping DEF Cover, ReadFails

LEMMA Asking == ASSUME Inv, TogglePrompt \/ CheckPassword \/ PasswordWrong PROVE Inv'
<1>1. Rows' = Rows /\ UNCHANGED <<room, view, list, reads, visible, ended, excused>>
  BY DEF TogglePrompt, CheckPassword, PasswordWrong, Press, room, Rows
<1>2. /\ presses' \in 0..MaxPresses /\ checks' \in 0..MaxChecks /\ prompt' \in BOOLEAN
      /\ UNCHANGED <<appears, changes>>
  <2>1. CASE TogglePrompt \/ CheckPassword
    BY <2>1 DEF Inv, TypeOK, TogglePrompt, CheckPassword, Press
  <2>2. CASE PasswordWrong
    BY <2>2 DEF Inv, TypeOK, PasswordWrong
  <2> QED
    BY <2>1, <2>2
<1>3. TypeOK'
  BY <1>1, <1>2 DEF Inv, TypeOK, room
<1> QED
  BY <1>3, Keeping DEF TogglePrompt, CheckPassword, PasswordWrong, Press

LEMMA Answering == ASSUME Inv, NEW l \in Lists, NEW v \in Users, Answer(l, v) PROVE Inv'
<1>1. TypeOK
  BY DEF Inv
<1>2. /\ list' = [list EXCEPT ![l] = Append(list[l], v)] /\ list \in [Lists -> Seq(Users)]
      /\ reads' = [reads EXCEPT ![l][v] = reads[l][v] - 1] /\ reads \in [Lists -> [Users -> Nat]]
      /\ reads[l][v] > 0
  BY <1>1 DEF Answer, Awaited, TypeOK
<1>3. TypeOK'
  <2>1. Append(list[l], v) \in Seq(Users)
    BY <1>2, AppendProperties
  <2>2. list' \in [Lists -> Seq(Users)]
    BY <1>2, <2>1
  <2>3. reads' \in [Lists -> [Users -> Nat]]
    BY <1>2
  <2> QED
    BY <1>1, <2>2, <2>3 DEF TypeOK, Answer, room, Rows
<1>4. ASSUME NEW k \in Lists, NEW u \in Users PROVE Due(k, u)' = Due(k, u)
  <2>1. /\ list[k] \in Seq(Users) /\ Times(list[k], u) \in Nat /\ reads[k][u] \in Nat
        /\ Due(k, u) = Times(list[k], u) + reads[k][u]
    BY <1>1, Counted
  <2>2. Due(k, u)' = Times(list'[k], u) + reads'[k][u]
    BY CountedNext
  <2>3. CASE k = l
    <3>1. list'[k] = Append(list[k], v) /\ reads'[k][u] = reads[k][u] - (IF u = v THEN 1 ELSE 0)
      BY <1>2, <2>1, <2>3
    <3>2. Times(list'[k], u) = Times(list[k], u) + (IF u = v THEN 1 ELSE 0)
      BY <2>1, <3>1, OneMore
    <3> QED
      BY <2>1, <2>2, <3>1, <3>2
  <2>4. CASE k # l
    BY <1>2, <2>1, <2>2, <2>4
  <2> QED
    BY <2>3, <2>4
<1> QED
  BY <1>3, <1>4 DEF Inv, ListsAgree, Answer

LEMMA Changing == ASSUME Inv, NEW l \in Lists, NEW v \in Users, RemoteChange(l, v) PROVE Inv'
<1>1. TypeOK
  BY DEF Inv
<1>2. view' = [view EXCEPT ![l] = IF v \in view[l] THEN view[l] \ {v} ELSE view[l] \cup {v}]
  BY DEF RemoteChange
<1>3. view' \in Rows'
  <2>1. view' \in [Lists -> SUBSET Users]
    BY <1>1, <1>2 DEF TypeOK, Rows
  <2>2. isPublic => view'["pendingUsers"] = {}
    BY <1>1, <1>2 DEF TypeOK, Rows, RemoteChange, Lists
  <2> QED
    BY <2>1, <2>2 DEF Rows, RemoteChange, room
<1>4. TypeOK'
  <2>1. Rows' = Rows /\ UNCHANGED room
    BY DEF RemoteChange, room, Rows
  <2>2. excused' \subseteq Lists \X Users
    BY <1>1 DEF TypeOK, RemoteChange
  <2>3. /\ UNCHANGED <<list, reads, checks, prompt, visible, ended, appears, presses>>
        /\ UNCHANGED <<isPublic, sesh>> /\ changes' \in 0..MaxChanges
    BY <1>1 DEF TypeOK, RemoteChange, room
  <2> QED
    BY <1>1, <1>3, <2>1, <2>2, <2>3 DEF TypeOK
<1>5. \A k \in Lists, u \in Users :
         /\ Due(k, u)' = Due(k, u)
         /\ <<k, u>> # <<l, v>> => (u \in view'[k] <=> u \in view[k])
  <2>1. \A k \in Lists, u \in Users : Due(k, u)' = Due(k, u)
    BY DEF Due, Count, RemoteChange
  <2>2. view \in [Lists -> SUBSET Users]
    BY <1>1 DEF TypeOK, Rows
  <2>3. \A k \in Lists, u \in Users :
           <<k, u>> # <<l, v>> => (u \in view'[k] <=> u \in view[k])
    BY <1>2, <2>2
  <2> QED
    BY <2>1, <2>3
<1> QED
  BY <1>4, <1>5 DEF Inv, ListsAgree, RemoteChange

\* A press of a button, and an answer to a password.
LEMMA Pressing ==
    ASSUME Inv,
           PublicButton \/ LeavePrivate \/ AskAccess \/ PasswordRight
             \/ \E u \in Users : GrantRequest(u) \/ DenyRequest(u)
    PROVE  /\ Rows' = Rows /\ UNCHANGED <<isPublic, sesh, reads, visible, appears, changes>>
           /\ presses' \in 0..MaxPresses /\ checks' \in 0..MaxChecks /\ prompt' \in BOOLEAN
           /\ ended = "no"
<1>1. TypeOK
  BY DEF Inv
<1>2. Rows' = Rows /\ UNCHANGED <<isPublic, sesh, reads, visible, appears, changes>>
  BY DEF Rows, room, Press, PublicButton, LeavePrivate, AskAccess, PasswordRight, GrantRequest,
         DenyRequest
<1>3. CASE PasswordRight
  BY <1>1, <1>2, <1>3 DEF TypeOK, PasswordRight
<1>4. CASE ~PasswordRight
  <2>1. Press /\ UNCHANGED <<checks, prompt>>
    BY <1>4 DEF PublicButton, LeavePrivate, AskAccess, GrantRequest, DenyRequest
  <2> QED
    BY <1>1, <1>2, <2>1 DEF TypeOK, Press
<1> QED
  BY <1>3, <1>4

\* A user is appended to a list and written to the room.
LEMMA Adding ==
    ASSUME TypeOK, NEW l \in Lists, NEW v \in Users, reads' = reads,
           list'[l] = Append(list[l], v), view'[l] = view[l] \cup {v}, Twice(l, v)
    PROVE  /\ list'[l] \in Seq(Users)
           /\ excused \subseteq excused' /\ excused' \subseteq Lists \X Users
           /\ \A u \in Users :
                \/ <<l, u>> \in excused'
                \/ Due(l, u) = Expected(l, u) => Due(l, u)' = Expected(l, u)'
<1>1. list'[l] \in Seq(Users)
  BY Counted, AppendProperties
<1>2. excused' = excused \cup (IF Due(l, v) > 0 THEN {<<l, v>>} ELSE {})
  BY DEF Twice
<1>3. excused \subseteq excused' /\ excused' \subseteq Lists \X Users
  BY <1>2 DEF TypeOK
<1>4. ASSUME NEW u \in Users, <<l, u>> \notin excused', Due(l, u) = Expected(l, u)
      PROVE  Due(l, u)' = Expected(l, u)'
  <2>1. /\ list[l] \in Seq(Users) /\ Times(list[l], u) \in Nat /\ reads[l][u] \in Nat
        /\ Due(l, u) = Times(list[l], u) + reads[l][u]
    BY Counted
  <2>2. Due(l, u)' = Times(Append(list[l], v), u) + reads[l][u]
    BY CountedNext
  <2>3. Times(Append(list[l], v), u) = Times(list[l], u) + (IF u = v THEN 1 ELSE 0)
    BY <2>1, OneMore
  <2>4. CASE u = v
    <3>1. ~(Due(l, u) > 0)
      BY <1>2, <1>4, <2>4
    <3>2. Times(list[l], u) = 0 /\ reads[l][u] = 0
      BY <2>1, <3>1
    <3>3. Due(l, u)' = 1
      BY <2>2, <2>3, <2>4, <3>2
    <3> QED
      BY <2>4, <3>3 DEF Expected
  <2>5. CASE u # v
    <3>1. Due(l, u)' = Due(l, u)
      BY <2>1, <2>2, <2>3, <2>5
    <3> QED
      BY <1>4, <2>5, <3>1 DEF Expected
  <2> QED
    BY <2>4, <2>5
<1> QED
  BY <1>1, <1>3, <1>4

\* A listed user is removed from a list and from the room.
LEMMA Dropping ==
    ASSUME TypeOK, NEW l \in Lists, NEW v \in Users, reads' = reads, Count(l, v) # 0,
           list'[l] = RemoveFirst(list[l], v), view'[l] = view[l] \ {v}
    PROVE  /\ list'[l] \in Seq(Users)
           /\ \A u \in Users : Due(l, u) = Expected(l, u) => Due(l, u)' = Expected(l, u)'
<1>1. list[l] \in Seq(Users) /\ Times(list[l], v) # 0
  BY Counted
<1>2. /\ RemoveFirst(list[l], v) \in Seq(Users)
      /\ \A u \in Users : Times(RemoveFirst(list[l], v), u)
                            = Times(list[l], u) - (IF u = v THEN 1 ELSE 0)
  BY <1>1, OneRemoved
<1>3. ASSUME NEW u \in Users, Due(l, u) = Expected(l, u)
      PROVE  Due(l, u)' = Expected(l, u)'
  <2>1. /\ Times(list[l], u) \in Nat /\ reads[l][u] \in Nat
        /\ Due(l, u) = Times(list[l], u) + reads[l][u]
    BY Counted
  <2>2. Due(l, u)' = Times(RemoveFirst(list[l], v), u) + reads[l][u]
    BY CountedNext
  <2>3. CASE u = v
    <3>1. Due(l, u) \in {0, 1} /\ Times(list[l], u) # 0
      BY <1>1, <1>3, <2>3 DEF Expected
    <3>2. Due(l, u)' = 0
      BY <1>2, <2>1, <2>2, <2>3, <3>1
    <3> QED
      BY <2>3, <3>2 DEF Expected
  <2>4. CASE u # v
    <3>1. Due(l, u)' = Due(l, u)
      BY <1>2, <2>1, <2>2, <2>4
    <3> QED
      BY <1>3, <2>4, <3>1 DEF Expected
  <2> QED
    BY <2>3, <2>4
<1> QED
  BY <1>2, <1>3

\* What a step of the buttons has to show of each list.
LEMMA Balancing ==
    ASSUME Inv, ended = "no", TypeOK', excused \subseteq excused',
           \A l \in Lists, u \in Users :
              \/ <<l, u>> \in excused'
              \/ Due(l, u) = Expected(l, u) => Due(l, u)' = Expected(l, u)'
    PROVE  Inv'
BY DEF Inv, ListsAgree, Expected

LEMMA Untouched ==
    ASSUME NEW l \in Lists, list'[l] = list[l], view'[l] = view[l], reads' = reads
    PROVE  \A u \in Users : Due(l, u) = Expected(l, u) => Due(l, u)' = Expected(l, u)'
BY DEF Due, Count, Expected

LEMMA TwoLists == Lists = {"users", "pendingUsers"} /\ "users" # "pendingUsers"
BY DEF Lists

LEMMA Joining ==
    ASSUME Inv, PublicButton \/ PasswordRight, Join, ended' = ended
    PROVE  Inv'
<1>1. TypeOK /\ "users" \in Lists /\ "pendingUsers" \in Lists
  BY TwoLists DEF Inv
<1>2. /\ Rows' = Rows /\ UNCHANGED <<isPublic, sesh, reads, visible, appears, changes>>
      /\ presses' \in 0..MaxPresses /\ checks' \in 0..MaxChecks /\ prompt' \in BOOLEAN
      /\ ended = "no"
  BY Pressing
<1>3. /\ list \in [Lists -> Seq(Users)]
      /\ list' = [list EXCEPT !["users"] = Append(list["users"], me)]
      /\ view \in [Lists -> SUBSET Users]
      /\ view' = [view EXCEPT !["users"] = view["users"] \cup {me}]
  BY <1>1 DEF Join, TypeOK, Rows
<1>4. /\ list'["users"] = Append(list["users"], me) /\ list'["pendingUsers"] = list["pendingUsers"]
      /\ view'["users"] = view["users"] \cup {me} /\ view'["pendingUsers"] = view["pendingUsers"]
  BY <1>1, <1>3
<1>5. Twice("users", me)
  BY DEF Join
<1>6. /\ list'["users"] \in Seq(Users)
      /\ excused \subseteq excused' /\ excused' \subseteq Lists \X Users
      /\ \A u \in Users :
           \/ <<"users", u>> \in excused'
           \/ Due("users", u) = Expected("users", u) => Due("users", u)' = Expected("users", u)'
  BY <1>1, <1>2, <1>4, <1>5, Adding
<1>7. \A u \in Users :
         Due("pendingUsers", u) = Expected("pendingUsers", u)
           => Due("pendingUsers", u)' = Expected("pendingUsers", u)'
  BY <1>1, <1>2, <1>4, Untouched
<1>8. TypeOK'
  <2>1. list' \in [Lists -> Seq(Users)]
    BY <1>3, <1>4, <1>6
  <2>2. view' \in Rows
    BY <1>1, <1>3, <1>4 DEF TypeOK, Rows
  <2> QED
    BY <1>1, <1>2, <1>6, <2>1, <2>2 DEF TypeOK
<1> QED
  BY <1>2, <1>6, <1>7, <1>8, TwoLists, Balancing

LEMMA Leaving ==
    ASSUME Inv, PublicButton \/ LeavePrivate, Leave, excused' = excused
    PROVE  Inv'
<1>1. TypeOK /\ "users" \in Lists /\ "pendingUsers" \in Lists
  BY TwoLists DEF Inv
<1>2. /\ Rows' = Rows /\ UNCHANGED <<isPublic, sesh, reads, visible, appears, changes>>
      /\ presses' \in 0..MaxPresses /\ checks' \in 0..MaxChecks /\ prompt' \in BOOLEAN
      /\ ended = "no"
  BY Pressing
<1>3. /\ list \in [Lists -> Seq(Users)]
      /\ list' = [list EXCEPT !["users"] = RemoveFirst(list["users"], me)]
      /\ view \in [Lists -> SUBSET Users]
      /\ view' = [view EXCEPT !["users"] = view["users"] \ {me}]
      /\ ended' = IF Count("users", me) = 0 THEN "index" ELSE ended
  BY <1>1 DEF Leave, TypeOK, Rows
<1>4. /\ list'["users"] = RemoveFirst(list["users"], me)
      /\ list'["pendingUsers"] = list["pendingUsers"]
      /\ view'["users"] = view["users"] \ {me} /\ view'["pendingUsers"] = view["pendingUsers"]
  BY <1>1, <1>3
<1>5. view' \in Rows
  BY <1>1, <1>3, <1>4 DEF TypeOK, Rows
<1>6. ASSUME list'["users"] \in Seq(Users) PROVE TypeOK'
  <2>1. list' \in [Lists -> Seq(Users)] /\ ended' \in {"no", "index", "read"}
    BY <1>2, <1>3, <1>4, <1>6
  <2> QED
    BY <1>1, <1>2, <1>5, <2>1 DEF TypeOK
<1>7. CASE Count("users", me) = 0
  <2>1. list["users"] \in Seq(Users) /\ Times(list["users"], me) = 0
    BY <1>1, <1>7, Counted
  <2>2. list'["users"] \in Seq(Users) /\ ended' = "index"
    BY <1>3, <1>4, <1>7, <2>1, NoneRemoved
  <2> QED
    BY <1>6, <2>2 DEF Inv, ListsAgree
<1>8. CASE Count("users", me) # 0
  <2>1. /\ list'["users"] \in Seq(Users)
        /\ \A u \in Users :
             Due("users", u) = Expected("users", u) => Due("users", u)' = Expected("users", u)'
    BY <1>1, <1>2, <1>4, <1>8, Dropping
  <2>2. \A u \in Users :
           Due("pendingUsers", u) = Expected("pendingUsers", u)
             => Due("pendingUsers", u)' = Expected("pendingUsers", u)'
    BY <1>1, <1>2, <1>4, Untouched
  <2> QED
    BY <1>2, <1>6, <2>1, <2>2, TwoLists, Balancing
<1> QED
  BY <1>7, <1>8

LEMMA RequestingAccess == ASSUME Inv, AskAccess PROVE Inv'
<1>1. TypeOK /\ "users" \in Lists /\ "pendingUsers" \in Lists
  BY TwoLists DEF Inv
<1>2. /\ Rows' = Rows /\ UNCHANGED <<isPublic, sesh, reads, visible, appears, changes>>
      /\ presses' \in 0..MaxPresses /\ checks' \in 0..MaxChecks /\ prompt' \in BOOLEAN
      /\ ended = "no"
  BY Pressing
<1>3. /\ list \in [Lists -> Seq(Users)]
      /\ list' = [list EXCEPT !["pendingUsers"] = Append(list["pendingUsers"], me)]
      /\ view \in [Lists -> SUBSET Users]
      /\ view' = [view EXCEPT !["pendingUsers"] = view["pendingUsers"] \cup {me}]
  BY <1>1 DEF AskAccess, TypeOK, Rows
<1>4. /\ list'["pendingUsers"] = Append(list["pendingUsers"], me)
      /\ list'["users"] = list["users"]
      /\ view'["pendingUsers"] = view["pendingUsers"] \cup {me} /\ view'["users"] = view["users"]
  BY <1>1, <1>3, TwoLists
<1>5. Twice("pendingUsers", me) /\ ~isPublic /\ ended' = ended
  BY DEF AskAccess
<1>6. /\ list'["pendingUsers"] \in Seq(Users)
      /\ excused \subseteq excused' /\ excused' \subseteq Lists \X Users
      /\ \A u \in Users :
           \/ <<"pendingUsers", u>> \in excused'
           \/ Due("pendingUsers", u) = Expected("pendingUsers", u)
                => Due("pendingUsers", u)' = Expected("pendingUsers", u)'
  BY <1>1, <1>2, <1>4, <1>5, Adding
<1>7. \A u \in Users :
         Due("users", u) = Expected("users", u) => Due("users", u)' = Expected("users", u)'
  BY <1>1, <1>2, <1>4, Untouched
<1>8. TypeOK'
  <2>1. list' \in [Lists -> Seq(Users)]
    BY <1>3, <1>4, <1>6
  <2>2. view' \in Rows
    BY <1>3, <1>5 DEF Rows
  <2> QED
    BY <1>1, <1>2, <1>5, <1>6, <2>1, <2>2 DEF TypeOK
<1> QED
  BY <1>2, <1>6, <1>7, <1>8, TwoLists, Balancing

LEMMA Granting == ASSUME Inv, NEW v \in Users, GrantRequest(v) PROVE Inv'
<1>1. TypeOK /\ "users" \in Lists /\ "pendingUsers" \in Lists
  BY TwoLists DEF Inv
<1>2. /\ Rows' = Rows /\ UNCHANGED <<isPublic, sesh, reads, visible, appears, changes>>
      /\ presses' \in 0..MaxPresses /\ checks' \in 0..MaxChecks /\ prompt' \in BOOLEAN
      /\ ended = "no"
  BY Pressing
<1>3. /\ list'["users"] = Append(list["users"], v)
      /\ list'["pendingUsers"] = RemoveFirst(list["pendingUsers"], v)
      /\ view'["users"] = view["users"] \cup {v}
      /\ view'["pendingUsers"] = view["pendingUsers"] \ {v}
  BY DEF GrantRequest
<1>4. /\ Twice("users", v) /\ ~isPublic /\ ended' = ended /\ Count("pendingUsers", v) # 0
      /\ DOMAIN list' = Lists /\ DOMAIN view' = Lists
  <2>1. DOMAIN list' = Lists /\ DOMAIN view' = Lists
    BY DEF GrantRequest, Lists
  <2>2. Count("pendingUsers", v) # 0
    BY <1>1, Counted DEF GrantRequest
  <2> QED
    BY <2>1, <2>2 DEF GrantRequest, isCreator
<1>5. /\ list'["users"] \in Seq(Users)
      /\ excused \subseteq excused' /\ excused' \subseteq Lists \X Users
      /\ \A u \in Users :
           \/ <<"users", u>> \in excused'
           \/ Due("users", u) = Expected("users", u) => Due("users", u)' = Expected("users", u)'
  BY <1>1, <1>2, <1>3, <1>4, Adding
<1>6. /\ list'["pendingUsers"] \in Seq(Users)
      /\ \A u \in Users :
           Due("pendingUsers", u) = Expected("pendingUsers", u)
             => Due("pendingUsers", u)' = Expected("pendingUsers", u)'
  BY <1>1, <1>2, <1>3, <1>4, Dropping
<1>7. TypeOK'
  <2>1. list' = [users |-> Append(list["users"], v),
                 pendingUsers |-> RemoveFirst(list["pendingUsers"], v)]
    BY DEF GrantRequest
  <2>2. list' \in [Lists -> Seq(Users)]
    BY <1>3, <1>5, <1>6, <2>1 DEF Lists
  <2>3. view' \in Rows
    <3>1. view["users"] \subseteq Users /\ view["pendingUsers"] \subseteq Users
      BY <1>1 DEF TypeOK, Rows
    <3>2. /\ view["users"] \cup {v} \in SUBSET Users
          /\ view["pendingUsers"] \ {v} \in SUBSET Users
      BY <3>1
    <3>3. view' = [users |-> view["users"] \cup {v},
                   pendingUsers |-> view["pendingUsers"] \ {v}]
      BY DEF GrantRequest
    <3>4. view' \in [Lists -> SUBSET Users]
      BY <3>2, <3>3 DEF Lists
    <3> QED
      BY <1>4, <3>4 DEF Rows
  <2> QED
    BY <1>1, <1>2, <1>4, <1>5, <2>2, <2>3 DEF TypeOK
<1> QED
  BY <1>2, <1>5, <1>6, <1>7, TwoLists, Balancing

LEMMA Denying == ASSUME Inv, NEW v \in Users, DenyRequest(v) PROVE Inv'
<1>1. TypeOK /\ "users" \in Lists /\ "pendingUsers" \in Lists
  BY TwoLists DEF Inv
<1>2. /\ Rows' = Rows /\ UNCHANGED <<isPublic, sesh, reads, visible, appears, changes>>
      /\ presses' \in 0..MaxPresses /\ checks' \in 0..MaxChecks /\ prompt' \in BOOLEAN
      /\ ended = "no"
  BY Pressing
<1>3. /\ list \in [Lists -> Seq(Users)]
      /\ list' = [list EXCEPT !["pendingUsers"] = RemoveFirst(list["pendingUsers"], v)]
      /\ view \in [Lists -> SUBSET Users]
      /\ view' = [view EXCEPT !["pendingUsers"] = view["pendingUsers"] \ {v}]
  BY <1>1 DEF DenyRequest, TypeOK, Rows
<1>4. /\ list'["pendingUsers"] = RemoveFirst(list["pendingUsers"], v)
      /\ list'["users"] = list["users"]
      /\ view'["pendingUsers"] = view["pendingUsers"] \ {v} /\ view'["users"] = view["users"]
  BY <1>1, <1>3, TwoLists
<1>5. Count("pendingUsers", v) # 0 /\ ~isPublic /\ ended' = ended /\ excused' = excused
  <2>1. Count("pendingUsers", v) # 0
    BY <1>1, Counted DEF DenyRequest
  <2> QED
    BY <2>1 DEF DenyRequest, isCreator
<1>6. /\ list'["pendingUsers"] \in Seq(Users)
      /\ \A u \in Users :
           Due("pendingUsers", u) = Expected("pendingUsers", u)
             => Due("pendingUsers", u)' = Expected("pendingUsers", u)'
  BY <1>1, <1>2, <1>4, <1>5, Dropping
<1>7. \A u \in Users :
         Due("users", u) = Expected("users", u) => Due("users", u)' = Expected("users", u)'
  BY <1>1, <1>2, <1>4, Untouched
<1>8. TypeOK'
  <2>1. list' \in [Lists -> Seq(Users)]
    BY <1>3, <1>4, <1>6
  <2>2. view' \in Rows
    BY <1>3, <1>5 DEF Rows
  <2> QED
    BY <1>1, <1>2, <1>5, <2>1, <2>2 DEF TypeOK
<1> QED
  BY <1>2, <1>5, <1>6, <1>7, <1>8, TwoLists, Balancing

LEMMA Stepping == Inv /\ [Next]_vars => Inv'
<1> SUFFICES ASSUME Inv, [Next]_vars PROVE Inv'
  OBVIOUS
<1>1. CASE Appear
  BY <1>1, Appearing
<1>2. CASE Cover \/ ReadFails
  BY <1>2, Covering
<1>3. ASSUME NEW l \in Lists, NEW u \in Users, Answer(l, u) PROVE Inv'
  BY <1>3, Answering
<1>4. ASSUME NEW l \in Lists, NEW u \in Users, RemoteChange(l, u) PROVE Inv'
  BY <1>4, Changing
<1>5. CASE PublicButton
  <2>1. CASE Leave /\ UNCHANGED excused
    BY <1>5, <2>1, Leaving
  <2>2. CASE Join /\ UNCHANGED ended
    BY <1>5, <2>2, Joining
  <2> QED
    BY <1>5, <2>1, <2>2 DEF PublicButton
<1>6. CASE LeavePrivate
  BY <1>6, Leaving DEF LeavePrivate
<1>7. CASE AskAccess
  BY <1>7, RequestingAccess
<1>8. CASE TogglePrompt \/ CheckPassword \/ PasswordWrong
  BY <1>8, Asking
<1>9. CASE PasswordRight
  BY <1>9, Joining DEF PasswordRight
<1>10. ASSUME NEW u \in Users, GrantRequest(u) PROVE Inv'
  BY <1>10, Granting
<1>11. ASSUME NEW u \in Users, DenyRequest(u) PROVE Inv'
  BY <1>11, Denying
<1>12. CASE UNCHANGED vars
  <2>1. TypeOK'
    BY <1>12 DEF Inv, TypeOK, vars, room, Rows
  <2> QED
    BY <1>12, <2>1, Keeping DEF vars
<1> QED
  BY <1>1, <1>2, <1>3, <1>4, <1>5, <1>6, <1>7, <1>8, <1>9, <1>10, <1>11, <1>12 DEF Next

LEMMA Invariance == Spec => []Inv
<1> QED
  BY Initially, Stepping, PTL DEF Spec

-----------------------------------------------------------------------------
(* Lists, reads under way, the device's room and the counters keep their   *)
(* types: no answer is delivered that no appearance asked for, and a       *)
(* public room never has a request.                                        *)
THEOREM TypeCorrect == Spec => []TypeOK
<1>1. Inv => TypeOK
  BY DEF Inv
<1> QED
  BY <1>1, Invariance, PTL

(* The lists and the reads under way account for the room, user by user    *)
(* and once each, through PublicSessionView's buttons, appearances and     *)
(* answers, whatever the users are called.                                 *)
THEOREM ListsAccount == Spec => []ListsAgree
<1>1. Inv => ListsAgree
  BY DEF Inv
<1> QED
  BY <1>1, Invariance, PTL
=============================================================================
