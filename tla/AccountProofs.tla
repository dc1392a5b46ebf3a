--------------------------- MODULE AccountProofs ---------------------------
(***************************************************************************)
(* Account, for any devices, accounts, names and bounds.                   *)
(***************************************************************************)
EXTENDS Account, FiniteSetTheorems, SequenceTheorems, TLAPS

USE AccountAssumption

-----------------------------------------------------------------------------
(* The inductive invariant *)

\* What FIRAuth leaves on the main queue.
IsTask(t, n) ==
    \/ \E u \in Users : t = Notify(u)
    \/ \E l \in 1..n : t = Hear(l)
    \/ \E m \in Names : t = SignedUp(m)
Tasks(d) == \A i \in DOMAIN main[d] : IsTask(main[d][i], Len(listeners[d]))

\* The last change of user that is not yet posted is to the current one.
LastNotify(q, i) == q[i].kind = "notify" /\ \A j \in DOMAIN q : j > i => q[j].kind # "notify"
Posted(d) == \A i \in DOMAIN main[d] : LastNotify(main[d], i) => main[d][i].user = currentUser(d)

\* Who was told nothing at all is about to hear.
Told(d) ==
    ~Notifying(d) =>
       /\ heeds[d] = currentUser(d)
       /\ \A l \in DOMAIN listeners[d] :
             \/ listeners[d][l].told = currentUser(d)
             \/ listeners[d][l].told = Unheard /\ Hearing(d, l)

\* Some listener of the object on the screen was the last to be called.
ToldOf(d, i, u) == \E l \in DOMAIN listeners[d] :
                      listeners[d][l].instance = i /\ listeners[d][l].told = u
Shows(d) ==
    (\E u \in Users : ToldOf(d, shown[d], u)) =>
       \E u \in Users : ToldOf(d, shown[d], u) /\ Visible(d).isLoggedIn = (u # Nobody)

\* An object has the user all its listeners were told, or awaits an answer.
Settled(d) ==
    \A i \in Instances :
       \/ app[d][i].session = Nobody
       \/ i \in late[d]
       \/ \E a \in Accounts : reads[d][i][a] > 0
       \/ \A l \in DOMAIN listeners[d] :
             listeners[d][l].instance = i => listeners[d][l].told \in {app[d][i].session, Unheard}

\* Objects that were not shown yet have no listener.
Shown(d) == \A l \in DOMAIN listeners[d] : listeners[d][l].instance <= shown[d]

Queued(d) == Tasks(d) /\ Posted(d) /\ Told(d)
Screens(d) == Shows(d) /\ Settled(d) /\ Shown(d)
Following(d) == Queued(d) /\ Screens(d)

\* Only accounts that exist are signed in, written for or have a profile.
Known ==
    /\ \A d \in Devices : saved[d] \in created \cup {Nobody}
    /\ \A d \in Devices : \A i \in DOMAIN writes[d] : writes[d][i].account \in created
    /\ \A a \in Accounts : profile[a] # NoName => a \in created

\* One attempt at a time: what is being checked, created, signed in or told.
Telling(d) == {i \in DOMAIN main[d] : main[d][i].kind = "signedUp"}
AtMostOne(S) == \A x, y \in S : x = y
OneAttempt(d) ==
    /\ AtMostOne(checks[d]) /\ AtMostOne(creating[d]) /\ AtMostOne(Telling(d))
    /\ checks[d] = {} \/ (creating[d] = {} /\ signing[d] = {} /\ Telling(d) = {})
    /\ creating[d] = {} \/ (signing[d] = {} /\ Telling(d) = {})
    /\ signing[d] = {} \/ Telling(d) = {}

\* Whose sign-up is still to be completed is current, or nobody is.
OwnName(d) ==
    /\ \A i \in Telling(d) : saved[d] = Nobody \/ main[d][i].name = chosen[saved[d]]
    /\ \A i \in DOMAIN writes[d] : writes[d][i].name = chosen[writes[d][i].account]
Naming == ProfileIsOwn /\ (crossed = {} => \A d \in Devices : OneAttempt(d) /\ OwnName(d))

\* Where a name is: in registrations, tasks, writes and profiles.
Registering(n) == {x \in Devices \X Registration : x[2] \in creating[x[1]] /\ x[2].name = n}
Completing(n) == {x \in Devices \X Nat : x[2] \in DOMAIN main[x[1]] /\ main[x[1]][x[2]] = SignedUp(n)}
Writing(n) == {x \in Devices \X Nat : x[2] \in DOMAIN writes[x[1]] /\ writes[x[1]][x[2]].name = n}
Owning(n) == {a \in Accounts : profile[a] = n}

\* A name that was not raced for is in one of them, once.
Unique(n) ==
    /\ AtMostOne(Registering(n)) /\ AtMostOne(Completing(n))
    /\ AtMostOne(Writing(n)) /\ AtMostOne(Owning(n))
    /\ Registering(n) = {} \/ (Completing(n) = {} /\ Writing(n) = {} /\ Owning(n) = {})
    /\ Completing(n) = {} \/ (Writing(n) = {} /\ Owning(n) = {})
    /\ Writing(n) = {} \/ Owning(n) = {}
Unraced == \A n \in Names \ raced : Unique(n)

Inv == TypeOK /\ (\A d \in Devices : Following(d)) /\ Known /\ Naming /\ Unraced

-----------------------------------------------------------------------------
(* Queues *)

LEMMA Appended ==
    ASSUME NEW T, NEW s \in Seq(T), NEW t \in T
    PROVE  /\ Append(s, t) \in Seq(T) /\ DOMAIN s = 1..Len(s) /\ Len(s) \in Nat
           /\ Len(Append(s, t)) = Len(s) + 1 /\ DOMAIN Append(s, t) = 1..(Len(s) + 1)
           /\ \A i \in 1..Len(s) : Append(s, t)[i] = s[i]
           /\ Append(s, t)[Len(s) + 1] = t
           /\ s \o <<t>> = Append(s, t)
<1>1. /\ Append(s, t) \in Seq(T) /\ DOMAIN s = 1..Len(s) /\ Len(s) \in Nat
      /\ Len(Append(s, t)) = Len(s) + 1 /\ DOMAIN Append(s, t) = 1..(Len(s) + 1)
      /\ \A i \in 1..Len(s) : Append(s, t)[i] = s[i]
      /\ Append(s, t)[Len(s) + 1] = t
  OBVIOUS
<1>2. s \o <<t>> = Append(s, t)
  BY AppendIsConcat
<1> QED
  BY <1>1, <1>2

LEMMA Nothing == ASSUME NEW T, NEW s \in Seq(T) PROVE s \o <<>> = s
OBVIOUS

LEMMA Rest ==
    ASSUME NEW T, NEW s \in Seq(T), s # <<>>
    PROVE  /\ Tail(s) \in Seq(T) /\ DOMAIN s = 1..Len(s) /\ Len(s) \in Nat \ {0}
           /\ Len(Tail(s)) = Len(s) - 1 /\ DOMAIN Tail(s) = 1..(Len(s) - 1)
           /\ \A i \in 1..(Len(s) - 1) : Tail(s)[i] = s[i + 1]
           /\ Head(s) = s[1] /\ 1 \in DOMAIN s /\ Head(s) \in T
OBVIOUS

LEMMA Cut ==
    ASSUME NEW T, NEW s \in Seq(T), NEW k \in 0..Len(s)
    PROVE  /\ SubSeq(s, 1, k) \in Seq(T) /\ DOMAIN SubSeq(s, 1, k) = 1..k
           /\ \A i \in 1..k : SubSeq(s, 1, k)[i] = s[i]
<1>1. k \in Int /\ Len(s) \in Nat /\ \A i \in 1..k : s[i] \in T
  OBVIOUS
<1>2. SubSeq(s, 1, k) \in Seq(T)
  BY <1>1, SubSeqProperties
<1> QED
  BY <1>1, <1>2, SubSeqProperties

\* A queue without its k-th place.
Without(s, k) == SubSeq(s, 1, k - 1) \o SubSeq(s, k + 1, Len(s))

LEMMA Removed ==
    ASSUME NEW T, NEW s \in Seq(T), NEW k \in 1..Len(s)
    PROVE  /\ Without(s, k) \in Seq(T)
           /\ DOMAIN Without(s, k) = 1..(Len(s) - 1)
           /\ \A i \in 1..(Len(s) - 1) : Without(s, k)[i] = s[IF i < k THEN i ELSE i + 1]
<1> DEFINE a == SubSeq(s, 1, k - 1)
           b == SubSeq(s, k + 1, Len(s))
<1>1. Len(s) \in Nat /\ k \in Nat /\ 1 <= k /\ k <= Len(s)
  OBVIOUS
<1>2. a \in Seq(T) /\ Len(a) = k - 1 /\ \A i \in 1..(k - 1) : a[i] = s[i]
  BY <1>1, SubSeqProperties
<1>3. /\ b \in Seq(T) /\ Len(b) = Len(s) - k
      /\ \A i \in 1..(Len(s) - k) : b[i] = s[k + i]
  BY <1>1, SubSeqProperties
<1> HIDE DEF a, b
<1>4. /\ a \o b \in Seq(T) /\ Len(a \o b) = Len(s) - 1
      /\ \A i \in 1..Len(a \o b) : (a \o b)[i] = IF i <= Len(a) THEN a[i] ELSE b[i - Len(a)]
  <2>1. /\ a \o b \in Seq(T) /\ Len(a \o b) = Len(a) + Len(b)
        /\ \A i \in 1..(Len(a) + Len(b)) :
              (a \o b)[i] = IF i <= Len(a) THEN a[i] ELSE b[i - Len(a)]
    <3>1. a \in Seq(T) /\ b \in Seq(T)
      BY <1>2, <1>3
    <3> QED
      BY <3>1, ConcatProperties
  <2> QED
    BY <1>1, <1>2, <1>3, <2>1
<1>5. ASSUME NEW i \in 1..(Len(s) - 1)
      PROVE  (a \o b)[i] = s[IF i < k THEN i ELSE i + 1]
  <2>1. CASE i < k
    BY <1>1, <1>2, <1>4, <2>1
  <2>2. CASE i >= k
    <3>1. (a \o b)[i] = b[i - (k - 1)] /\ i - (k - 1) \in 1..(Len(s) - k)
      BY <1>1, <1>2, <1>4, <2>2
    <3>2. b[i - (k - 1)] = s[k + (i - (k - 1))]
      BY <1>3, <3>1
    <3> QED
      BY <1>1, <2>2, <3>1, <3>2
  <2>3. i < k \/ i >= k
    BY <1>1
  <2> QED
    BY <2>1, <2>2, <2>3
<1> QED
  <2>1. Without(s, k) = a \o b
    BY DEF Without, a, b
  <2>2. DOMAIN (a \o b) = 1..(Len(s) - 1)
    BY <1>4
  <2> QED
    BY <1>4, <1>5, <2>1, <2>2

-----------------------------------------------------------------------------
(* The tasks of the main queue *)

TaskType == [kind : {"notify", "hear", "signedUp"}, user : Users,
             name : Names \cup {NoName}, listener : Nat]

LEMMA TasksTyped ==
    /\ \A u \in Users : Notify(u) \in TaskType /\ Notify(u).kind = "notify" /\ Notify(u).user = u
    /\ \A l \in Nat : Hear(l) \in TaskType /\ Hear(l).kind = "hear" /\ Hear(l).listener = l
    /\ \A n \in Names : SignedUp(n) \in TaskType /\ SignedUp(n).kind = "signedUp" /\ SignedUp(n).name = n
BY DEF TaskType, Notify, Hear, SignedUp, Users

LEMMA MainTyped ==
    ASSUME TypeOK, NEW d \in Devices
    PROVE  /\ main[d] \in Seq(TaskType) /\ DOMAIN main = Devices
           /\ saved[d] \in Users /\ currentUser(d) \in Users
BY DEF TypeOK, TaskType, currentUser, Users

\* A change of user appends its notification.
LEMMA Posting ==
    ASSUME TypeOK, NEW d \in Devices, NEW u \in Users
    PROVE  /\ SetUser(d, u, <<>>) =>
                /\ saved' = [saved EXCEPT ![d] = u]
                /\ main' = [main EXCEPT ![d] = Append(@, Notify(u))]
           /\ \A n \in Names : SetUser(d, u, <<SignedUp(n)>>) =>
                /\ saved' = [saved EXCEPT ![d] = u]
                /\ main' = [main EXCEPT ![d] = Append(Append(@, Notify(u)), SignedUp(n))]
<1>1. main[d] \in Seq(TaskType) /\ Notify(u) \in TaskType
  BY MainTyped, TasksTyped
<1>2. main[d] \o <<Notify(u)>> = Append(main[d], Notify(u)) /\ Append(main[d], Notify(u)) \in Seq(TaskType)
  BY <1>1, Appended
<1>3. main[d] \o <<Notify(u)>> \o <<>> = Append(main[d], Notify(u))
  BY <1>2, Nothing
<1>4. ASSUME NEW n \in Names
      PROVE  main[d] \o <<Notify(u)>> \o <<SignedUp(n)>> = Append(Append(main[d], Notify(u)), SignedUp(n))
  BY <1>2, Appended, TasksTyped
<1> QED
  BY <1>2, <1>3, <1>4 DEF SetUser

LEMMA PostingTyped ==
    ASSUME TypeOK, NEW d \in Devices, NEW u \in Users,
           SetUser(d, u, <<>>) \/ \E n \in Names : SetUser(d, u, <<SignedUp(n)>>)
    PROVE  saved' \in [Devices -> Users] /\ main' \in [Devices -> Seq(TaskType)]
<1>1. /\ saved \in [Devices -> Users] /\ main \in [Devices -> Seq(TaskType)]
  BY DEF TypeOK, TaskType
<1>2. saved' = [saved EXCEPT ![d] = u]
  BY DEF SetUser
<1>3. Append(main[d], Notify(u)) \in Seq(TaskType)
  BY <1>1, TasksTyped, Appended
<1>4. CASE SetUser(d, u, <<>>)
  <2>1. main' = [main EXCEPT ![d] = Append(main[d], Notify(u))]
    BY <1>4, Posting
  <2> QED
    BY <1>1, <1>2, <1>3, <2>1
<1>5. ASSUME NEW n \in Names, SetUser(d, u, <<SignedUp(n)>>)
      PROVE  main' \in [Devices -> Seq(TaskType)]
  <2>1. Append(Append(main[d], Notify(u)), SignedUp(n)) \in Seq(TaskType)
    BY <1>3, TasksTyped, Appended
  <2> QED
    <3>1. main' = [main EXCEPT ![d] = Append(Append(main[d], Notify(u)), SignedUp(n))]
      BY <1>5, Posting
    <3> QED
      BY <1>1, <2>1, <3>1
<1> QED
  BY <1>1, <1>2, <1>4, <1>5

-----------------------------------------------------------------------------
(* Types *)

AppType == [Instances -> [session : Users, isLoggedIn : BOOLEAN]]
ReadsType == [Instances -> [Accounts -> Nat]]
WriteType == [by : Users, account : Accounts, name : Names]
ListenerType == [instance : Instances, told : Users \cup {Unheard}]

LEMMA Parts ==
    TypeOK <=>
      /\ created \subseteq Accounts /\ profile \in [Accounts -> Names \cup {NoName}]
      /\ saved \in [Devices -> Users] /\ loaded \in [Devices -> BOOLEAN]
      /\ main \in [Devices -> Seq(TaskType)]
      /\ heeds \in [Devices -> Users] /\ listeners \in [Devices -> Seq(ListenerType)]
      /\ app \in [Devices -> AppType] /\ shown \in [Devices -> Instances]
      /\ root \in [Devices -> {"content", "feed"}] /\ reads \in [Devices -> ReadsType]
      /\ checks \in [Devices -> SUBSET Registration] /\ creating \in [Devices -> SUBSET Registration]
      /\ signing \in [Devices -> SUBSET Accounts] /\ writes \in [Devices -> Seq(WriteType)]
      /\ chosen \in [Accounts -> Names \cup {NoName}]
      /\ raced \subseteq Names /\ crossed \subseteq Devices
      /\ late \in [Devices -> SUBSET Instances] /\ missed \in [Devices -> SUBSET Instances]
      /\ presses \in 0..MaxPresses /\ faults \in 0..MaxFaults
BY DEF TypeOK, TaskType, AppType, ReadsType, WriteType, ListenerType

LEMMA PartsAfter ==
    TypeOK' <=>
      /\ created' \subseteq Accounts /\ profile' \in [Accounts -> Names \cup {NoName}]
      /\ saved' \in [Devices -> Users] /\ loaded' \in [Devices -> BOOLEAN]
      /\ main' \in [Devices -> Seq(TaskType)]
      /\ heeds' \in [Devices -> Users] /\ listeners' \in [Devices -> Seq(ListenerType)]
      /\ app' \in [Devices -> AppType] /\ shown' \in [Devices -> Instances]
      /\ root' \in [Devices -> {"content", "feed"}] /\ reads' \in [Devices -> ReadsType]
      /\ checks' \in [Devices -> SUBSET Registration] /\ creating' \in [Devices -> SUBSET Registration]
      /\ signing' \in [Devices -> SUBSET Accounts] /\ writes' \in [Devices -> Seq(WriteType)]
      /\ chosen' \in [Accounts -> Names \cup {NoName}]
      /\ raced' \subseteq Names /\ crossed' \subseteq Devices
      /\ late' \in [Devices -> SUBSET Instances] /\ missed' \in [Devices -> SUBSET Instances]
      /\ presses' \in 0..MaxPresses /\ faults' \in 0..MaxFaults
BY DEF TypeOK, TaskType, AppType, ReadsType, WriteType, ListenerType

LEMMA InitTyped == Init => TypeOK
<1> SUFFICES ASSUME Init PROVE TypeOK
  OBVIOUS
<1>1. created \subseteq Accounts
  BY DEF Init
<1>2. profile \in [Accounts -> Names \cup {NoName}]
  <2>1. ASSUME NEW a \in created
        PROVE  (CHOOSE n \in Names : <<a, n>> \in Registered) \in Names
    <3>1. PICK r \in Registered : a = r[1]
      BY DEF Init
    <3>2. r = <<a, r[2]>> /\ r[2] \in Names
      BY <3>1
    <3> QED
      BY <3>1, <3>2
  <2> QED
    BY <2>1 DEF Init
<1>3. /\ NoSession \in [session : Users, isLoggedIn : BOOLEAN] /\ NoReads \in ReadsType
      /\ 1 \in Instances
  BY DEF NoSession, NoReads, ReadsType, Users, Instances
<1>4. saved \in [Devices -> Users]
  BY <1>1 DEF Init, Users
<1>5. /\ main \in [Devices -> Seq(TaskType)] /\ listeners \in [Devices -> Seq(ListenerType)]
      /\ writes \in [Devices -> Seq(WriteType)]
  <2>1. \A T : <<>> \in Seq(T)
    BY EmptySeq
  <2> QED
    BY <2>1 DEF Init
<1>6. /\ app \in [Devices -> AppType] /\ reads \in [Devices -> ReadsType]
  BY <1>3 DEF Init, AppType
<1>7. /\ raced \subseteq Names /\ crossed \subseteq Devices
      /\ presses \in 0..MaxPresses /\ faults \in 0..MaxFaults
  BY DEF Init
<1> QED
  BY <1>1, <1>2, <1>3, <1>4, <1>5, <1>6, <1>7, Parts DEF Init, Users

\* What listeners are told.
LEMMA TellTyped ==
    ASSUME TypeOK, NEW d \in Devices, NEW ls \in SUBSET DOMAIN listeners[d], Tell(d, ls)
    PROVE  /\ listeners' \in [Devices -> Seq(ListenerType)]
           /\ app' \in [Devices -> AppType] /\ reads' \in [Devices -> ReadsType]
<1> DEFINE u == currentUser(d)
           Called == {l \in ls : listeners[d][l].told # u}
           Of(i) == {l \in Called : listeners[d][l].instance = i}
           q == [l \in DOMAIN listeners[d] |->
                   IF l \in Called THEN [listeners[d][l] EXCEPT !.told = u] ELSE listeners[d][l]]
<1>1. /\ listeners \in [Devices -> Seq(ListenerType)] /\ app \in [Devices -> AppType]
      /\ reads \in [Devices -> ReadsType] /\ u \in Users
  BY Parts, MainTyped
<1>2. /\ listeners[d] \in Seq(ListenerType) /\ DOMAIN listeners[d] = 1..Len(listeners[d])
      /\ Len(listeners[d]) \in Nat
  BY <1>1
<1>3. q \in Seq(ListenerType)
  <2>1. ASSUME NEW l \in 1..Len(listeners[d]) PROVE q[l] \in ListenerType
    <3>1. listeners[d][l] \in ListenerType
      BY <1>2
    <3>2. [listeners[d][l] EXCEPT !.told = u] \in ListenerType
      BY <1>1, <3>1 DEF ListenerType
    <3> QED
      BY <1>2, <3>1, <3>2
  <2> DEFINE n == Len(listeners[d])
  <2>2. DOMAIN q = 1..n /\ q = [l \in DOMAIN q |-> q[l]]
    BY <1>2
  <2> HIDE DEF q
  <2>3. q \in [1..n -> ListenerType]
    BY <2>1, <2>2
  <2> HIDE DEF n
  <2>4. n \in Nat
    BY <1>2 DEF n
  <2> QED
    BY <2>3, <2>4
<1>4. listeners' = [listeners EXCEPT ![d] = q]
  BY <1>1 DEF Tell
<1>5. ASSUME NEW i \in Instances
      PROVE  /\ (IF Of(i) = {} THEN app[d][i] ELSE Heard(app[d][i], u))
                  \in [session : Users, isLoggedIn : BOOLEAN]
             /\ Cardinality(Of(i)) \in Nat
  <2>1. app[d][i] \in [session : Users, isLoggedIn : BOOLEAN]
    BY <1>1 DEF AppType
  <2>2. Heard(app[d][i], u) \in [session : Users, isLoggedIn : BOOLEAN]
    BY <1>1, <2>1 DEF Heard, NoSession, Users
  <2>3. IsFiniteSet(Of(i))
    <3>1. IsFiniteSet(1..Len(listeners[d]))
      BY <1>2, FS_Interval
    <3> QED
      BY <1>2, <3>1, FS_Subset
  <2> QED
    BY <2>1, <2>2, <2>3, FS_CardinalityType
<1>6. /\ app' = [app EXCEPT ![d] =
           [i \in Instances |-> IF Of(i) = {} THEN app[d][i] ELSE Heard(app[d][i], u)]]
      /\ reads' = [reads EXCEPT ![d] =
           [i \in Instances |-> [a \in Accounts |->
              IF a = u THEN reads[d][i][a] + Cardinality(Of(i)) ELSE reads[d][i][a]]]]
  BY <1>1 DEF Tell
<1> HIDE DEF Of, Called, u, q
<1>7. app' \in [Devices -> AppType]
  <2>1. [i \in Instances |-> IF Of(i) = {} THEN app[d][i] ELSE Heard(app[d][i], u)] \in AppType
    BY <1>5 DEF AppType
  <2> QED
    BY <1>1, <1>6, <2>1
<1>8. reads' \in [Devices -> ReadsType]
  <2>1. [i \in Instances |-> [a \in Accounts |->
           IF a = u THEN reads[d][i][a] + Cardinality(Of(i)) ELSE reads[d][i][a]]] \in ReadsType
    <3>1. \A i \in Instances, a \in Accounts : reads[d][i][a] \in Nat
      BY <1>1 DEF ReadsType
    <3>2. \A i \in Instances, a \in Accounts : reads[d][i][a] + Cardinality(Of(i)) \in Nat
      BY <1>5, <3>1
    <3> QED
      BY <3>1, <3>2 DEF ReadsType
  <2> QED
    BY <1>1, <1>6, <2>1
<1> QED
  BY <1>1, <1>3, <1>4, <1>7, <1>8

LEMMA DieTyped ==
    ASSUME TypeOK, NEW d \in Devices, Die(d), presses' \in 0..MaxPresses, faults' \in 0..MaxFaults
    PROVE  TypeOK'
<1>1. /\ NoSession \in [session : Users, isLoggedIn : BOOLEAN] /\ NoReads \in ReadsType
      /\ 1 \in Instances
  BY DEF NoSession, NoReads, ReadsType, Users, Instances
<1>2. writes' \in [Devices -> Seq(WriteType)]
  <2>1. writes \in [Devices -> Seq(WriteType)] /\ writes[d] \in Seq(WriteType)
    BY Parts
  <2>2. PICK k \in 0..Len(writes[d]) : writes' = [writes EXCEPT ![d] = SubSeq(@, 1, k)]
    BY DEF Die
  <2>3. SubSeq(writes[d], 1, k) \in Seq(WriteType)
    BY <2>1, Cut
  <2> QED
    BY <2>1, <2>2, <2>3
<1>3. main' \in [Devices -> Seq(TaskType)] /\ listeners' \in [Devices -> Seq(ListenerType)]
  <2>1. \A T : <<>> \in Seq(T)
    BY EmptySeq
  <2> QED
    BY <2>1, Parts DEF Die
<1>4. app' \in [Devices -> AppType] /\ reads' \in [Devices -> ReadsType]
  BY <1>1, Parts DEF Die, AppType
<1>5. /\ loaded' \in [Devices -> BOOLEAN] /\ heeds' \in [Devices -> Users]
      /\ shown' \in [Devices -> Instances] /\ root' \in [Devices -> {"content", "feed"}]
      /\ checks' \in [Devices -> SUBSET Registration]
      /\ creating' \in [Devices -> SUBSET Registration]
      /\ signing' \in [Devices -> SUBSET Accounts]
      /\ late' \in [Devices -> SUBSET Instances] /\ missed' \in [Devices -> SUBSET Instances]
  BY <1>1, Parts DEF Die, Users
<1>6. /\ created' \subseteq Accounts /\ profile' \in [Accounts -> Names \cup {NoName}]
      /\ saved' \in [Devices -> Users] /\ chosen' \in [Accounts -> Names \cup {NoName}]
      /\ raced' \subseteq Names /\ crossed' \subseteq Devices
  BY Parts DEF Die, remote
<1> QED
  BY <1>2, <1>3, <1>4, <1>5, <1>6, PartsAfter

\* A step of d is one of these.
StepOf(d) ==
    \/ Load(d)
    \/ \E a \in Accounts : \E ok \in BOOLEAN : SignInAnswered(d, a, ok)
    \/ SignedOutByForce(d)
    \/ \E r \in Registration : SignUpAnswered(d, r) \/ SignUpLost(d, r)
    \/ RunNotify(d)
    \/ RunHear(d)
    \/ RunSignedUp(d)
    \/ \E i \in Instances : \E a \in Accounts : ReadAnswered(d, i, a) \/ ReadFails(d, i, a)
    \/ \E r \in Registration : CheckAnswered(d, r) \/ CheckAnsweredOffline(d, r)
    \/ CheckFails(d)
    \/ \E i \in DOMAIN writes[d] : Deliver(d, i)
    \/ Appear(d)
    \/ \E a \in Accounts : LogIn(d, a)
    \/ \E r \in Registration : Register(d, r)
    \/ LogOut(d)
    \/ UseFeedWithoutSession(d)
    \/ Restart(d)

LEMMA Steps == Next <=> \E d \in Devices : StepOf(d)
BY DEF Next, StepOf

LEMMA Typing ==
    ASSUME TypeOK, \A d \in Devices : Tasks(d), [Next]_vars
    PROVE  TypeOK'
<1>1. CASE UNCHANGED vars
  BY <1>1, Parts, PartsAfter DEF vars, remote, auth, ui, calls, history
<1> SUFFICES ASSUME NEW d \in Devices, StepOf(d) PROVE TypeOK'
  BY <1>1, Steps
<1> USE Parts
<1>2. /\ main[d] \in Seq(TaskType) /\ saved[d] \in Users /\ currentUser(d) \in Users
      /\ \A u \in Users : Notify(u) \in TaskType
      /\ \A l \in Nat : Hear(l) \in TaskType /\ \A n \in Names : SignedUp(n) \in TaskType
  BY MainTyped, TasksTyped
<1>3. /\ \A t \in TaskType : Append(main[d], t) \in Seq(TaskType)
      /\ main[d] # <<>> => Tail(main[d]) \in Seq(TaskType)
      /\ \A t, u \in TaskType : Append(Append(main[d], t), u) \in Seq(TaskType)
  BY <1>2
<1>4. /\ Nobody \in Users /\ Accounts \subseteq Users
      /\ \A r \in Registration : r.name \in Names /\ r.account \in Accounts
  BY DEF Users, Registration
<1>5. /\ presses < MaxPresses => presses + 1 \in 0..MaxPresses
      /\ faults < MaxFaults => faults + 1 \in 0..MaxFaults
  OBVIOUS
<1>6. CASE Load(d)
  BY <1>2, <1>3, <1>6, PartsAfter DEF Load, remote, ui, calls, history
<1>7. ASSUME NEW a \in Accounts, NEW ok \in BOOLEAN, SignInAnswered(d, a, ok) PROVE TypeOK'
  <2>1. main' \in [Devices -> Seq(TaskType)] /\ saved' \in [Devices -> Users]
    BY <1>4, <1>7, PostingTyped DEF SignInAnswered
  <2> QED
    BY <1>7, <2>1, PartsAfter DEF SignInAnswered, remote, ui, calls, history
<1>8. CASE SignedOutByForce(d)
  <2>1. main' \in [Devices -> Seq(TaskType)] /\ saved' \in [Devices -> Users]
    BY <1>4, <1>8, PostingTyped DEF SignedOutByForce
  <2> QED
    BY <1>5, <1>8, <2>1, PartsAfter DEF SignedOutByForce, remote, ui, calls, history
<1>9. ASSUME NEW r \in Registration, SignUpAnswered(d, r) PROVE TypeOK'
  <2>1. main' \in [Devices -> Seq(TaskType)] /\ saved' \in [Devices -> Users]
    <3>1. CASE r.account \notin created
      BY <1>4, <1>9, <3>1, PostingTyped DEF SignUpAnswered
    <3>2. CASE r.account \in created
      BY <1>9, <3>2 DEF SignUpAnswered, SignUpRefused
    <3> QED
      BY <3>1, <3>2
  <2>2. created' \subseteq Accounts /\ chosen' \in [Accounts -> Names \cup {NoName}]
    <3>1. r.account \in Accounts /\ r.name \in Names
      BY <1>4
    <3> QED
      <4>1. /\ created' \in {created, created \cup {r.account}}
            /\ chosen' \in {chosen, [chosen EXCEPT ![r.account] = r.name]}
        BY <1>9 DEF SignUpAnswered
      <4> QED
        BY <3>1, <4>1
  <2> QED
    BY <1>9, <2>1, <2>2, PartsAfter DEF SignUpAnswered, ui
<1>10. ASSUME NEW r \in Registration, SignUpLost(d, r) PROVE TypeOK'
  BY <1>4, <1>5, <1>10, PartsAfter DEF SignUpLost, auth, ui
<1>11. CASE RunNotify(d)
  <2>1. Head(main[d]).user \in Users /\ main[d] # <<>> /\ Head(main[d]) \in TaskType
    <3>1. main[d] # <<>>
      BY <1>11 DEF RunNotify, Task
    <3>2. Head(main[d]) \in TaskType
      BY <1>2, <3>1, Rest
    <3> QED
      BY <3>1, <3>2 DEF TaskType
  <2>2. /\ listeners' \in [Devices -> Seq(ListenerType)]
        /\ app' \in [Devices -> AppType] /\ reads' \in [Devices -> ReadsType]
    BY <1>11, TellTyped DEF RunNotify
  <2> QED
    BY <1>3, <1>11, <2>1, <2>2, PartsAfter DEF RunNotify, Done, remote, history
<1>12. CASE RunHear(d)
  <2>1. main[d] # <<>> /\ {Head(main[d]).listener} \in SUBSET DOMAIN listeners[d]
    <3>1. main[d] # <<>> /\ Head(main[d]).kind = "hear" /\ Head(main[d]) = main[d][1] /\ 1 \in DOMAIN main[d]
      BY <1>2, <1>12, Rest DEF RunHear, Task
    <3>2. IsTask(main[d][1], Len(listeners[d]))
      BY <3>1 DEF Tasks
    <3>3. \E l \in 1..Len(listeners[d]) : Head(main[d]).listener = l
      BY <3>1, <3>2 DEF IsTask, Notify, Hear, SignedUp
    <3>4. DOMAIN listeners[d] = 1..Len(listeners[d])
      OBVIOUS
    <3> QED
      BY <3>1, <3>3, <3>4
  <2>2. /\ listeners' \in [Devices -> Seq(ListenerType)]
        /\ app' \in [Devices -> AppType] /\ reads' \in [Devices -> ReadsType]
    BY <1>12, <2>1, TellTyped DEF RunHear
  <2> QED
    BY <1>3, <1>12, <2>1, <2>2, PartsAfter DEF RunHear, Done, remote, history
<1>13. CASE RunSignedUp(d)
  <2>1. CASE currentUser(d) = Nobody
    BY <1>13, <2>1, DieTyped DEF RunSignedUp
  <2>2. CASE currentUser(d) # Nobody
    <3>1. /\ main[d] # <<>> /\ Head(main[d]).kind = "signedUp"
          /\ Head(main[d]) = main[d][1] /\ 1 \in DOMAIN main[d]
      BY <1>2, <1>13, Rest DEF RunSignedUp, Task
    <3>2. IsTask(main[d][1], Len(listeners[d]))
      BY <3>1 DEF Tasks
    <3>3. Head(main[d]).name \in Names
      BY <3>1, <3>2 DEF IsTask, Notify, Hear, SignedUp
    <3>4. currentUser(d) \in Accounts /\ heeds[d] \in Users
      BY <1>2, <2>2 DEF Users
    <3>5. [by |-> heeds[d], account |-> currentUser(d), name |-> Head(main[d]).name] \in WriteType
      BY <3>3, <3>4 DEF WriteType
    <3>6. writes' \in [Devices -> Seq(WriteType)]
      <4>1. Append(writes[d], [by |-> heeds[d], account |-> currentUser(d), name |-> Head(main[d]).name])
               \in Seq(WriteType)
        BY <3>5
      <4> QED
        BY <1>13, <2>2, <4>1 DEF RunSignedUp
    <3>7. main' \in [Devices -> Seq(TaskType)]
      BY <1>3, <1>13, <2>2, <3>1 DEF RunSignedUp, Done
    <3> QED
      BY <1>13, <2>2, <3>6, <3>7, PartsAfter DEF RunSignedUp, remote, ui, history
  <2> QED
    BY <2>1, <2>2
<1>14. ASSUME NEW i \in Instances, NEW a \in Accounts, ReadAnswered(d, i, a) \/ ReadFails(d, i, a)
       PROVE  TypeOK'
  <2>1. \E u \in Users : SetSession(d, i, a, u)
    BY <1>4, <1>14 DEF ReadAnswered, ReadFails
  <2>2. PICK u \in Users : SetSession(d, i, a, u)
    BY <2>1
  <2>3. app' \in [Devices -> AppType]
    <3>1. app[d][i] \in [session : Users, isLoggedIn : BOOLEAN] /\ app[d] \in AppType
      BY DEF AppType
    <3>2. [app[d][i] EXCEPT !.session = u] \in [session : Users, isLoggedIn : BOOLEAN]
      BY <3>1
    <3>3. app' = [app EXCEPT ![d] = [app[d] EXCEPT ![i] = [app[d][i] EXCEPT !.session = u]]]
      BY <2>2 DEF SetSession
    <3> QED
      BY <3>1, <3>2, <3>3 DEF AppType
  <2>4. reads' \in [Devices -> ReadsType]
    <3>1. reads[d] \in ReadsType /\ reads[d][i] \in [Accounts -> Nat] /\ reads[d][i][a] - 1 \in Nat
      BY <2>2 DEF ReadsType, SetSession, Awaited
    <3>2. reads' = [reads EXCEPT ![d] = [reads[d] EXCEPT ![i] = [reads[d][i] EXCEPT ![a] = reads[d][i][a] - 1]]]
      BY <2>2 DEF SetSession
    <3> QED
      BY <3>1, <3>2 DEF ReadsType
  <2>5. late' \in [Devices -> SUBSET Instances] /\ missed' \in [Devices -> SUBSET Instances]
    BY <2>2 DEF SetSession
  <2>6. faults' \in 0..MaxFaults
    BY <1>5, <1>14 DEF ReadAnswered, ReadFails
  <2> QED
    BY <2>2, <2>3, <2>4, <2>5, <2>6, PartsAfter DEF SetSession, remote, auth
<1>15. ASSUME NEW r \in Registration, CheckAnswered(d, r) \/ CheckAnsweredOffline(d, r)
       PROVE  TypeOK'
  <2>1. /\ checks' \in [Devices -> SUBSET Registration] /\ creating' \in [Devices -> SUBSET Registration]
    <3>1. /\ checks' = [checks EXCEPT ![d] = @ \ {r}]
          /\ creating' \in {creating, [creating EXCEPT ![d] = @ \cup {r}]}
      BY <1>15 DEF CheckAnswered, CheckAnsweredOffline
    <3>2. checks' \in [Devices -> SUBSET Registration]
      BY <3>1
    <3>3. [creating EXCEPT ![d] = @ \cup {r}] \in [Devices -> SUBSET Registration]
      OBVIOUS
    <3> QED
      BY <3>1, <3>2, <3>3
  <2>2. raced' \subseteq Names
    BY <1>4, <1>15 DEF CheckAnswered, CheckAnsweredOffline
  <2>3. faults' \in 0..MaxFaults
    BY <1>5, <1>15 DEF CheckAnswered, CheckAnsweredOffline
  <2> QED
    BY <1>15, <2>1, <2>2, <2>3, PartsAfter DEF CheckAnswered, CheckAnsweredOffline, remote, auth, ui
<1>16. CASE CheckFails(d)
  BY <1>5, <1>16, DieTyped DEF CheckFails
<1>17. ASSUME NEW i \in DOMAIN writes[d], Deliver(d, i) PROVE TypeOK'
  <2>1. writes[d] \in Seq(WriteType) /\ i \in 1..Len(writes[d]) /\ writes[d][i] \in WriteType
    OBVIOUS
  <2>2. writes' = [writes EXCEPT ![d] = Without(writes[d], i)] /\ Without(writes[d], i) \in Seq(WriteType)
    BY <1>17, <2>1, Removed DEF Deliver, Without
  <2>3. profile' \in [Accounts -> Names \cup {NoName}]
    BY <1>17, <2>1 DEF Deliver, WriteType
  <2> QED
    <3>1. writes' \in [Devices -> Seq(WriteType)]
      BY <2>2
    <3> QED
      BY <1>17, <2>3, <3>1, PartsAfter DEF Deliver, auth, ui, history
<1>18. CASE Appear(d)
  <2>1. listeners[d] \in Seq(ListenerType) /\ Len(listeners[d]) + 1 \in Nat
        /\ [instance |-> shown[d], told |-> Unheard] \in ListenerType
    <3>1. listeners[d] \in Seq(ListenerType) /\ shown[d] \in Instances
      OBVIOUS
    <3> QED
      BY <3>1 DEF ListenerType
  <2>2. /\ listeners' \in [Devices -> Seq(ListenerType)] /\ main' \in [Devices -> Seq(TaskType)]
    BY <1>2, <1>3, <1>18, <2>1 DEF Appear, Listen
  <2> QED
    BY <1>18, <2>2, PartsAfter DEF Appear, remote, ui, calls, history
<1>19. ASSUME NEW a \in Accounts, LogIn(d, a) PROVE TypeOK'
  BY <1>5, <1>19, PartsAfter DEF LogIn, Press, ShowFeed, Cross, remote, auth
<1>20. ASSUME NEW r \in Registration, Register(d, r) PROVE TypeOK'
  BY <1>5, <1>20, PartsAfter DEF Register, Press, ShowFeed, Cross, remote, auth
<1>21. CASE LogOut(d)
  <2>1. main' \in [Devices -> Seq(TaskType)] /\ saved' \in [Devices -> Users]
    BY <1>4, <1>21, PostingTyped DEF LogOut
  <2>2. app' \in [Devices -> AppType]
    BY <1>21 DEF LogOut, AppType, NoSession, Users
  <2>3. shown' \in [Devices -> Instances]
    BY <1>21 DEF LogOut, Instances
  <2> QED
    BY <1>5, <1>21, <2>1, <2>2, <2>3, PartsAfter DEF LogOut, Press, remote, calls, history
<1>22. CASE UseFeedWithoutSession(d)
  BY <1>5, <1>22, DieTyped DEF UseFeedWithoutSession, Press
<1>23. CASE Restart(d)
  BY <1>5, <1>23, DieTyped DEF Restart
<1> QED
  BY <1>6, <1>7, <1>8, <1>9, <1>10, <1>11, <1>12, <1>13, <1>14, <1>15, <1>16, <1>17, <1>18,
     <1>19, <1>20, <1>21, <1>22, <1>23 DEF StepOf

-----------------------------------------------------------------------------
(* Who was told what *)

LEMMA Same ==
    ASSUME NEW d,
           UNCHANGED <<main[d], heeds[d], listeners[d], saved[d], loaded[d],
                       app[d], shown[d], reads[d], late[d]>>
    PROVE  (Queued(d) => Queued(d)') /\ (Screens(d) => Screens(d)')
<1>1. currentUser(d)' = currentUser(d) /\ Visible(d)' = Visible(d)
  BY DEF currentUser, Visible
<1>2. Tasks(d) => Tasks(d)'
  BY DEF Tasks
<1>3. Posted(d) => Posted(d)'
  BY <1>1 DEF Posted
<1>4. Told(d) => Told(d)'
  BY <1>1 DEF Told, Notifying, Hearing
<1>5. Shows(d) => Shows(d)'
  BY <1>1 DEF Shows, ToldOf
<1>6. Settled(d) => Settled(d)' /\ (Shown(d) => Shown(d)')
  BY DEF Settled, Shown
<1> QED
  BY <1>2, <1>3, <1>4, <1>5, <1>6 DEF Queued, Screens

LEMMA SameScreens ==
    ASSUME NEW d, UNCHANGED <<listeners[d], app[d], shown[d], reads[d], late[d]>>
    PROVE  Screens(d) => Screens(d)'
<1>1. Visible(d)' = Visible(d)
  BY DEF Visible
<1>2. Shows(d) => Shows(d)'
  BY <1>1 DEF Shows, ToldOf
<1>3. Settled(d) => Settled(d)' /\ (Shown(d) => Shown(d)')
  BY DEF Settled, Shown
<1> QED
  BY <1>2, <1>3 DEF Screens

LEMMA EmptyAtStart ==
    ASSUME NEW d \in Devices, main[d] = <<>>, heeds[d] = Nobody, listeners[d] = <<>>,
           ~loaded[d], \A i \in Instances : app[d][i] = NoSession
    PROVE  Following(d)
<1>1. DOMAIN main[d] = {} /\ DOMAIN listeners[d] = {}
  OBVIOUS
<1>2. currentUser(d) = Nobody
  BY DEF currentUser
<1>3. Queued(d)
  BY <1>1, <1>2 DEF Queued, Tasks, Posted, Told
<1>4. Screens(d)
  BY <1>1 DEF Screens, Shows, ToldOf, Settled, Shown, NoSession
<1> QED
  BY <1>3, <1>4 DEF Following

LEMMA Dying == ASSUME TypeOK, NEW d \in Devices, Die(d) PROVE Following(d)'
<1>1. /\ main'[d] = <<>> /\ heeds'[d] = Nobody /\ listeners'[d] = <<>> /\ ~loaded'[d]
      /\ \A i \in Instances : app'[d][i] = NoSession
  BY Parts DEF Die
<1>2. DOMAIN main'[d] = {} /\ DOMAIN listeners'[d] = {}
  BY <1>1
<1>3. currentUser(d)' = Nobody
  BY <1>1 DEF currentUser
<1>4. Queued(d)'
  BY <1>1, <1>2, <1>3 DEF Queued, Tasks, Posted, Told
<1>5. Screens(d)'
  BY <1>1, <1>2 DEF Screens, Shows, ToldOf, Settled, Shown, NoSession
<1> QED
  BY <1>4, <1>5 DEF Following

\* A notification of the current user was appended, perhaps with a completion.
LEMMA Announced ==
    ASSUME TypeOK, NEW d \in Devices, NEW u \in Users, Queued(d),
           currentUser(d)' = u, listeners'[d] = listeners[d],
           \/ main'[d] = Append(main[d], Notify(u))
           \/ \E n \in Names : main'[d] = Append(Append(main[d], Notify(u)), SignedUp(n))
    PROVE  Queued(d)'
<1> DEFINE n == Len(main[d])
<1>1. main[d] \in Seq(TaskType) /\ n \in Nat /\ DOMAIN main[d] = 1..n
  BY MainTyped
<1>2. /\ Notify(u) \in TaskType /\ Notify(u).kind = "notify" /\ Notify(u).user = u
      /\ \A m \in Names : SignedUp(m) \in TaskType /\ SignedUp(m).kind = "signedUp"
  BY TasksTyped
<1>3. /\ Append(main[d], Notify(u)) \in Seq(TaskType) /\ Len(Append(main[d], Notify(u))) = n + 1
      /\ DOMAIN Append(main[d], Notify(u)) = 1..(n + 1)
      /\ \A i \in 1..n : Append(main[d], Notify(u))[i] = main[d][i]
      /\ Append(main[d], Notify(u))[n + 1] = Notify(u)
  BY <1>1, <1>2, Appended
<1>4. /\ 1..(n + 1) \subseteq DOMAIN main'[d]
      /\ \A i \in 1..n : main'[d][i] = main[d][i]
      /\ main'[d][n + 1] = Notify(u)
      /\ \A i \in DOMAIN main'[d] : i \in 1..(n + 1) \/ \E m \in Names : main'[d][i] = SignedUp(m)
  <2>1. CASE main'[d] = Append(main[d], Notify(u))
    BY <1>3, <2>1
  <2>2. ASSUME NEW m \in Names, main'[d] = Append(Append(main[d], Notify(u)), SignedUp(m))
        PROVE  <1>4!:
    <3>1. /\ DOMAIN main'[d] = 1..(n + 2)
          /\ \A i \in 1..(n + 1) : main'[d][i] = Append(main[d], Notify(u))[i]
          /\ main'[d][n + 2] = SignedUp(m)
      <4>1. /\ DOMAIN main'[d] = 1..((n + 1) + 1)
            /\ \A i \in 1..(n + 1) : main'[d][i] = Append(main[d], Notify(u))[i]
            /\ main'[d][(n + 1) + 1] = SignedUp(m)
        BY <1>2, <1>3, <2>2, Appended
      <4> QED
        BY <1>1, <4>1
    <3>2. /\ 1..(n + 1) \subseteq DOMAIN main'[d] /\ n + 1 \in 1..(n + 1)
          /\ \A i \in 1..(n + 2) : i \in 1..(n + 1) \/ i = n + 2
          /\ \A i \in 1..n : i \in 1..(n + 1)
      BY <1>1, <3>1
    <3> QED
      BY <1>3, <3>1, <3>2
  <2> QED
    BY <2>1, <2>2
<1>9. /\ \A i \in 1..(n + 1) : i \in 1..n \/ i = n + 1
      /\ n + 1 \in 1..(n + 1) /\ \A i \in 1..n : i < n + 1
  BY <1>1
<1> HIDE DEF n
<1>5. Tasks(d)'
  <2> SUFFICES ASSUME NEW i \in DOMAIN main'[d] PROVE IsTask(main'[d][i], Len(listeners[d]))
    BY DEF Tasks
  <2>1. CASE i \in 1..n
    BY <1>1, <1>4, <2>1 DEF Queued, Tasks
  <2>2. CASE i = n + 1
    BY <1>4, <2>2 DEF IsTask
  <2> QED
    BY <1>4, <1>9, <2>1, <2>2 DEF IsTask
<1>6. Posted(d)'
  <2> SUFFICES ASSUME NEW i \in DOMAIN main'[d], LastNotify(main'[d], i)
               PROVE  main'[d][i].user = u
    BY DEF Posted
  <2>1. i \notin 1..n
    BY <1>2, <1>4, <1>9 DEF LastNotify
  <2>2. i = n + 1
    BY <1>2, <1>4, <1>9, <2>1 DEF LastNotify
  <2> QED
    BY <1>2, <1>4, <2>2
<1>7. Notifying(d)'
  BY <1>2, <1>4, <1>9 DEF Notifying
<1> QED
  BY <1>5, <1>6, <1>7 DEF Queued, Told

LEMMA ChangingUser ==
    ASSUME TypeOK, NEW d \in Devices, NEW u \in Users, Queued(d),
           SetUser(d, u, <<>>) \/ \E n \in Names : SetUser(d, u, <<SignedUp(n)>>),
           loaded[d], UNCHANGED <<loaded, listeners>>
    PROVE  Queued(d)'
<1>1. saved' = [saved EXCEPT ![d] = u] /\ saved \in [Devices -> Users] /\ DOMAIN main = Devices
  BY Parts, MainTyped DEF SetUser
<1>2. currentUser(d)' = u
  BY <1>1 DEF currentUser
<1>3. \/ main'[d] = Append(main[d], Notify(u))
      \/ \E n \in Names : main'[d] = Append(Append(main[d], Notify(u)), SignedUp(n))
  <2>1. CASE SetUser(d, u, <<>>)
    <3>1. main' = [main EXCEPT ![d] = Append(main[d], Notify(u))]
      BY <2>1, Posting
    <3> QED
      BY <1>1, <3>1
  <2>2. ASSUME NEW n \in Names, SetUser(d, u, <<SignedUp(n)>>)
        PROVE  main'[d] = Append(Append(main[d], Notify(u)), SignedUp(n))
    <3>1. main' = [main EXCEPT ![d] = Append(Append(main[d], Notify(u)), SignedUp(n))]
      BY <2>2, Posting
    <3> QED
      BY <1>1, <3>1
  <2> QED
    BY <2>1, <2>2
<1> QED
  BY <1>2, <1>3, Announced

\* One task less.
LEMMA Ran ==
    ASSUME TypeOK, NEW d \in Devices, Queued(d), main[d] # <<>>, main'[d] = Tail(main[d]),
           currentUser(d)' = currentUser(d), Len(listeners[d])' = Len(listeners[d])
    PROVE  /\ Tasks(d)' /\ Posted(d)'
           /\ ~Notifying(d)' /\ Head(main[d]).kind = "notify" => Head(main[d]).user = currentUser(d)
           /\ ~Notifying(d)' /\ Head(main[d]).kind # "notify" => ~Notifying(d)
           /\ \A l \in Nat : Hearing(d, l) /\ Head(main[d]) # Hear(l) => Hearing(d, l)'
<1> DEFINE n == Len(main[d])
<1>1. /\ main[d] \in Seq(TaskType) /\ n \in Nat \ {0} /\ DOMAIN main[d] = 1..n
      /\ DOMAIN main'[d] = 1..(n - 1) /\ \A i \in 1..(n - 1) : main'[d][i] = main[d][i + 1]
      /\ Head(main[d]) = main[d][1]
  BY MainTyped, Rest
<1> HIDE DEF n
<1>2. /\ \A i \in 1..n : i = 1 \/ (i - 1 \in 1..(n - 1) /\ main'[d][i - 1] = main[d][i])
      /\ \A i \in 1..(n - 1) : i + 1 \in 1..n
  BY <1>1
<1>3. Tasks(d)'
  BY <1>1 DEF Queued, Tasks
<1>4. ASSUME NEW i \in 1..(n - 1), LastNotify(main'[d], i) PROVE LastNotify(main[d], i + 1)
  <2>1. main[d][i + 1].kind = "notify" /\ i + 1 \in 1..n
    BY <1>1, <1>2, <1>4 DEF LastNotify
  <2>2. ASSUME NEW j \in 1..n, j > i + 1 PROVE main[d][j].kind # "notify"
    <3>1. j - 1 \in 1..(n - 1) /\ main'[d][j - 1] = main[d][j] /\ j - 1 > i
      <4>1. j # 1
        BY <1>1, <2>2
      <4> QED
        BY <1>1, <1>2, <2>2, <4>1
    <3> QED
      BY <1>1, <1>4, <3>1 DEF LastNotify
  <2> QED
    BY <1>1, <2>1, <2>2 DEF LastNotify
<1>5. Posted(d)'
  BY <1>1, <1>4 DEF Queued, Posted
<1>6. ASSUME ~Notifying(d)', Head(main[d]).kind = "notify"
      PROVE  Head(main[d]).user = currentUser(d)
  <2>1. LastNotify(main[d], 1)
    <3>1. ASSUME NEW j \in 1..n, j > 1 PROVE main[d][j].kind # "notify"
      <4>1. j - 1 \in DOMAIN main'[d] /\ main'[d][j - 1] = main[d][j]
        BY <1>1, <1>2, <3>1
      <4> QED
        BY <1>6, <4>1 DEF Notifying
    <3> QED
      BY <1>1, <1>6, <3>1 DEF LastNotify
  <2> QED
    BY <1>1, <2>1 DEF Queued, Posted
<1>7. ASSUME ~Notifying(d)', Head(main[d]).kind # "notify" PROVE ~Notifying(d)
  BY <1>1, <1>2, <1>7 DEF Notifying
<1>8. ASSUME NEW l \in Nat, Hearing(d, l), Head(main[d]) # Hear(l) PROVE Hearing(d, l)'
  <2>1. PICK i \in 1..n : main[d][i] = Hear(l)
    BY <1>1, <1>8 DEF Hearing
  <2>2. i - 1 \in DOMAIN main'[d] /\ main'[d][i - 1] = Hear(l)
    BY <1>1, <1>2, <1>8, <2>1
  <2> QED
    BY <2>2 DEF Hearing, Hear
<1> QED
  BY <1>3, <1>5, <1>6, <1>7, <1>8

\* The listeners of an object that are called when those in ls are told.
CalledOf(d, ls, i) == {l \in ls : listeners[d][l].told # currentUser(d) /\ listeners[d][l].instance = i}

\* What FIRAuth's listeners know once those in ls were told, and what the
\* objects make of it.
ListenersKnow(d, ls) ==
    /\ DOMAIN listeners'[d] = DOMAIN listeners[d]
    /\ Len(listeners'[d]) = Len(listeners[d])
    /\ \A l \in DOMAIN listeners[d] :
          /\ listeners'[d][l].instance = listeners[d][l].instance
          /\ listeners'[d][l].told = IF l \in ls THEN currentUser(d) ELSE listeners[d][l].told
ObjectKnows(d, ls, i) ==
    /\ CalledOf(d, ls, i) = {} => app'[d][i] = app[d][i]
    /\ CalledOf(d, ls, i) # {} =>
          IF currentUser(d) = Nobody
          THEN app'[d][i].session = Nobody /\ app'[d][i].isLoggedIn = FALSE
          ELSE app'[d][i].isLoggedIn = TRUE /\ reads'[d][i][currentUser(d)] > 0
    /\ \A a \in Accounts : reads'[d][i][a] >= reads[d][i][a]

LEMMA WhoIsTold ==
    ASSUME TypeOK, NEW d \in Devices, NEW ls \in SUBSET DOMAIN listeners[d], Tell(d, ls),
           currentUser(d) \in Users
    PROVE  ListenersKnow(d, ls) /\ \A i \in Instances : ObjectKnows(d, ls, i)
<1> DEFINE u == currentUser(d)
           Called == {l \in ls : listeners[d][l].told # u}
           Named(i) == {l \in Called : listeners[d][l].instance = i}
           Of(i) == CalledOf(d, ls, i)
<1>1. /\ listeners[d] \in Seq(ListenerType) /\ DOMAIN listeners[d] = 1..Len(listeners[d])
      /\ Len(listeners[d]) \in Nat /\ DOMAIN listeners = Devices
      /\ app \in [Devices -> AppType] /\ reads \in [Devices -> ReadsType]
  BY Parts
<1>2. \A i : Named(i) = Of(i)
  BY DEF CalledOf
<1>3. listeners'[d] = [l \in DOMAIN listeners[d] |->
          IF l \in Called THEN [listeners[d][l] EXCEPT !.told = u] ELSE listeners[d][l]]
  BY <1>1 DEF Tell
<1>4. /\ DOMAIN listeners'[d] = DOMAIN listeners[d]
      /\ \A l \in DOMAIN listeners[d] :
            /\ listeners'[d][l].instance = listeners[d][l].instance
            /\ listeners'[d][l].told = IF l \in ls THEN u ELSE listeners[d][l].told
  <2>1. \A l \in DOMAIN listeners[d] : listeners[d][l] \in ListenerType
    BY <1>1
  <2> QED
    BY <1>3, <2>1 DEF ListenerType
<1>5. Len(listeners'[d]) = Len(listeners[d])
  <2>1. listeners'[d] \in Seq(ListenerType)
    BY TellTyped
  <2>2. DOMAIN listeners'[d] = 1..Len(listeners'[d]) /\ Len(listeners'[d]) \in Nat
    BY <2>1
  <2> QED
    BY <1>1, <1>4, <2>2
<1>6. /\ app'[d] = [i \in Instances |-> IF Named(i) = {} THEN app[d][i] ELSE Heard(app[d][i], u)]
      /\ reads'[d] = [i \in Instances |-> [a \in Accounts |->
           IF a = u THEN reads[d][i][a] + Cardinality(Named(i)) ELSE reads[d][i][a]]]
  BY <1>1 DEF Tell
<1>7. ASSUME NEW i \in Instances PROVE ObjectKnows(d, ls, i)
  <2>1. IsFiniteSet(Of(i))
    <3>1. IsFiniteSet(1..Len(listeners[d]))
      <4>1. 1 \in Int /\ Len(listeners[d]) \in Int
        BY <1>1
      <4> QED
        BY <4>1, FS_Interval
    <3> QED
      BY <1>1, <3>1, FS_Subset DEF CalledOf
  <2>2. Cardinality(Of(i)) \in Nat /\ (Of(i) # {} => Cardinality(Of(i)) > 0)
    BY <2>1, FS_CardinalityType, FS_EmptySet
  <2>3. /\ app'[d][i] = IF Of(i) = {} THEN app[d][i] ELSE Heard(app[d][i], u)
        /\ \A a \in Accounts :
              reads'[d][i][a] = IF a = u THEN reads[d][i][a] + Cardinality(Of(i)) ELSE reads[d][i][a]
    <3>1. Named(i) = Of(i)
      BY <1>2
    <3> HIDE DEF Named, Of, u
    <3> QED
      BY <1>6, <3>1
  <2>4. \A a \in Accounts : reads[d][i][a] \in Nat
    BY <1>1 DEF ReadsType
  <2>5. app[d][i] \in [session : Users, isLoggedIn : BOOLEAN]
    BY <1>1 DEF AppType
  <2>6. u # Nobody => u \in Accounts
    BY DEF Users
  <2> HIDE DEF Of, u
  <2>7. /\ u = Nobody => /\ Heard(app[d][i], u).session = Nobody
                         /\ Heard(app[d][i], u).isLoggedIn = FALSE
        /\ u # Nobody => Heard(app[d][i], u).isLoggedIn = TRUE
    <3>1. CASE u = Nobody
      BY <3>1 DEF Heard, NoSession
    <3>2. CASE u # Nobody
      BY <2>5, <3>2 DEF Heard
    <3> QED
      BY <3>1, <3>2
  <2> QED
    BY <2>2, <2>3, <2>4, <2>6, <2>7 DEF Of, u, ObjectKnows
<1> QED
  BY <1>4, <1>5, <1>7 DEF ListenersKnow

LEMMA ScreensTold ==
    ASSUME TypeOK, NEW d \in Devices, NEW ls \in SUBSET DOMAIN listeners[d], Tell(d, ls),
           Screens(d), UNCHANGED <<shown, late>>
    PROVE  Screens(d)'
<1> DEFINE u == currentUser(d)
           Of(i) == CalledOf(d, ls, i)
<1>1. u \in Users /\ shown[d] \in Instances /\ u # Unheard
  BY MainTyped, Parts DEF Users
<1>2. /\ DOMAIN listeners'[d] = DOMAIN listeners[d]
      /\ \A l \in DOMAIN listeners[d] :
            /\ listeners'[d][l].instance = listeners[d][l].instance
            /\ listeners'[d][l].told = IF l \in ls THEN u ELSE listeners[d][l].told
      /\ \A i \in Instances :
            /\ Of(i) = {} => app'[d][i] = app[d][i]
            /\ Of(i) # {} => IF u = Nobody
                             THEN app'[d][i].session = Nobody /\ app'[d][i].isLoggedIn = FALSE
                             ELSE app'[d][i].isLoggedIn = TRUE /\ reads'[d][i][u] > 0
            /\ \A a \in Accounts : reads'[d][i][a] >= reads[d][i][a]
  <2>1. ListenersKnow(d, ls) /\ \A i \in Instances : ObjectKnows(d, ls, i)
    BY <1>1, WhoIsTold
  <2> QED
    BY <2>1 DEF ListenersKnow, ObjectKnows
<1>3. ASSUME NEW i, Of(i) = {}, NEW l \in DOMAIN listeners[d], listeners[d][l].instance = i
      PROVE  listeners'[d][l].told = listeners[d][l].told
  BY <1>2, <1>3 DEF CalledOf
<1> HIDE DEF u
<1>4. Shown(d)'
  BY <1>2 DEF Screens, Shown
<1>5. Shows(d)'
  <2>1. CASE Of(shown[d]) # {}
    <3>1. PICK l \in ls : listeners[d][l].instance = shown[d]
      BY <2>1 DEF CalledOf
    <3>2. \E k \in DOMAIN listeners'[d] : listeners'[d][k].instance = shown'[d] /\ listeners'[d][k].told = u
      <4>1. l \in DOMAIN listeners'[d]
        BY <1>2, <3>1
      <4>2. listeners'[d][l].instance = shown'[d] /\ listeners'[d][l].told = u
        BY <1>2, <3>1
      <4> QED
        BY <4>1, <4>2
    <3>3. Visible(d)'.isLoggedIn = (u # Nobody)
      BY <1>1, <1>2, <2>1 DEF Visible
    <3> QED
      BY <1>1, <3>2, <3>3 DEF Shows, ToldOf
  <2>2. CASE Of(shown[d]) = {}
    <3>1. \A v : ToldOf(d, shown[d], v)' <=> ToldOf(d, shown[d], v)
      BY <1>2, <1>3, <2>2 DEF ToldOf
    <3>2. Visible(d)' = Visible(d)
      BY <1>1, <1>2, <2>2 DEF Visible
    <3>3. Shows(d)
      BY DEF Screens
    <3> QED
      BY <3>1, <3>2, <3>3 DEF Shows
  <2> QED
    BY <2>1, <2>2
<1>6. Settled(d)'
  <2> SUFFICES ASSUME NEW i \in Instances, app'[d][i].session # Nobody, i \notin late[d],
                      \A a \in Accounts : ~(reads'[d][i][a] > 0),
                      NEW l \in DOMAIN listeners'[d], listeners'[d][l].instance = i
               PROVE  listeners'[d][l].told \in {app'[d][i].session, Unheard}
    BY DEF Settled
  <2>1. Of(i) = {}
    BY <1>1, <1>2 DEF Users
  <2>2. app'[d][i] = app[d][i] /\ \A a \in Accounts : ~(reads[d][i][a] > 0)
    <3>1. reads'[d] \in ReadsType /\ reads[d] \in ReadsType
      BY TellTyped, Parts
    <3>2. \A a \in Accounts : reads'[d][i][a] \in Nat /\ reads[d][i][a] \in Nat
      BY <3>1 DEF ReadsType
    <3> QED
      BY <1>2, <2>1, <3>2
  <2>3. listeners[d][l].instance = i /\ listeners'[d][l].told = listeners[d][l].told
    BY <1>2, <1>3, <2>1
  <2> QED
    BY <1>2, <2>2, <2>3 DEF Screens, Settled
<1> QED
  BY <1>4, <1>5, <1>6 DEF Screens

LEMMA RunningNotify ==
    ASSUME TypeOK, NEW d \in Devices, Following(d), RunNotify(d)
    PROVE  Following(d)'
<1>1. /\ main[d] # <<>> /\ Head(main[d]).kind = "notify" /\ main'[d] = Tail(main[d])
      /\ heeds'[d] = Head(main[d]).user /\ currentUser(d)' = currentUser(d)
      /\ currentUser(d) \in Users
  BY Parts, MainTyped DEF RunNotify, Task, Done, currentUser
<1>2. /\ DOMAIN listeners'[d] = DOMAIN listeners[d] /\ Len(listeners'[d]) = Len(listeners[d])
      /\ \A l \in DOMAIN listeners[d] : listeners'[d][l].told = currentUser(d)
  BY <1>1, WhoIsTold DEF RunNotify, ListenersKnow
<1>3. /\ Tasks(d)' /\ Posted(d)'
      /\ ~Notifying(d)' => Head(main[d]).user = currentUser(d)
  BY <1>1, <1>2, Ran DEF Following
<1>4. Told(d)'
  BY <1>1, <1>2, <1>3 DEF Told
<1>5. Screens(d)'
  BY ScreensTold DEF RunNotify, Following, history
<1> QED
  BY <1>3, <1>4, <1>5 DEF Following, Queued

LEMMA RunningHear ==
    ASSUME TypeOK, NEW d \in Devices, Following(d), RunHear(d)
    PROVE  Following(d)'
<1> DEFINE h == Head(main[d]).listener
<1>1. /\ main[d] # <<>> /\ Head(main[d]).kind = "hear" /\ main'[d] = Tail(main[d])
      /\ heeds'[d] = heeds[d] /\ currentUser(d)' = currentUser(d)
      /\ currentUser(d) \in Users
  BY Parts, MainTyped DEF RunHear, Task, Done, currentUser
<1>2. h \in DOMAIN listeners[d] /\ Head(main[d]) = Hear(h)
  <2>1. Head(main[d]) = main[d][1] /\ 1 \in DOMAIN main[d]
    BY <1>1, MainTyped, Rest
  <2>2. IsTask(main[d][1], Len(listeners[d]))
    BY <2>1 DEF Following, Queued, Tasks
  <2>3. PICK l \in 1..Len(listeners[d]) : Head(main[d]) = Hear(l)
    <3>1. /\ \A u \in Users : Notify(u).kind # "hear"
          /\ \A m \in Names : SignedUp(m).kind # "hear"
      BY DEF Notify, SignedUp
    <3>2. \E l \in 1..Len(listeners[d]) : main[d][1] = Hear(l)
      BY <1>1, <2>1, <2>2, <3>1 DEF IsTask
    <3> QED
      BY <2>1, <3>2
  <2>4. h = l
    BY <2>3 DEF Hear
  <2>5. DOMAIN listeners[d] = 1..Len(listeners[d])
    BY Parts
  <2> QED
    BY <2>3, <2>4, <2>5
<1>3. Tell(d, {h}) /\ {h} \in SUBSET DOMAIN listeners[d]
  BY <1>2 DEF RunHear
<1>4. /\ DOMAIN listeners'[d] = DOMAIN listeners[d] /\ Len(listeners'[d]) = Len(listeners[d])
      /\ \A l \in DOMAIN listeners[d] :
            listeners'[d][l].told = IF l \in {h} THEN currentUser(d) ELSE listeners[d][l].told
  <2>1. ListenersKnow(d, {h})
    BY <1>1, <1>3, WhoIsTold
  <2> QED
    BY <2>1 DEF ListenersKnow
<1>5. /\ Tasks(d)' /\ Posted(d)' /\ (~Notifying(d)' => ~Notifying(d))
      /\ \A l \in Nat : Hearing(d, l) /\ Head(main[d]) # Hear(l) => Hearing(d, l)'
  BY <1>1, <1>4, Ran DEF Following
<1>6. Told(d)'
  <2> SUFFICES ASSUME ~Notifying(d)'
               PROVE  /\ heeds'[d] = currentUser(d)
                      /\ \A l \in DOMAIN listeners[d] :
                            \/ listeners'[d][l].told = currentUser(d)
                            \/ listeners'[d][l].told = Unheard /\ Hearing(d, l)'
    BY <1>1, <1>4 DEF Told
  <2>1. /\ heeds[d] = currentUser(d)
        /\ \A l \in DOMAIN listeners[d] :
              \/ listeners[d][l].told = currentUser(d)
              \/ listeners[d][l].told = Unheard /\ Hearing(d, l)
    BY <1>5 DEF Following, Queued, Told
  <2>2. ASSUME NEW l \in DOMAIN listeners[d], l # h PROVE Hearing(d, l) => Hearing(d, l)'
    <3>1. Head(main[d]) # Hear(l) /\ l \in Nat
      BY <1>2, <2>2, Parts DEF Hear
    <3> QED
      BY <1>5, <3>1
  <2> QED
    BY <1>1, <1>4, <2>1, <2>2
<1>7. Screens(d)'
  BY <1>3, ScreensTold DEF RunHear, Following, history
<1> QED
  BY <1>5, <1>6, <1>7 DEF Following, Queued

LEMMA Answering ==
    ASSUME TypeOK, NEW d \in Devices, NEW i \in Instances, NEW a \in Accounts,
           NEW u \in {a, Nobody}, SetSession(d, i, a, u), Following(d)
    PROVE  Following(d)'
<1>1. /\ app[d] \in AppType /\ reads[d] \in ReadsType /\ late[d] \in SUBSET Instances
      /\ DOMAIN app = Devices /\ DOMAIN reads = Devices /\ DOMAIN late = Devices
      /\ u \in Users /\ u # Unheard
  BY Parts DEF Users
<1>2. /\ app' = [app EXCEPT ![d] = [app[d] EXCEPT ![i] = [app[d][i] EXCEPT !.session = u]]]
      /\ reads' = [reads EXCEPT ![d] = [reads[d] EXCEPT ![i] = [reads[d][i] EXCEPT ![a] = @ - 1]]]
      /\ late' = [late EXCEPT ![d] = IF Current(d, i, a) THEN @ \ {i} ELSE @ \cup {i}]
      /\ UNCHANGED <<saved, loaded, main, heeds, listeners, shown>>
  BY DEF SetSession, auth
<1>3. /\ app'[d][i].session = u /\ app'[d][i].isLoggedIn = app[d][i].isLoggedIn
      /\ \A j \in Instances \ {i} : app'[d][j] = app[d][j] /\ reads'[d][j] = reads[d][j]
      /\ \A j \in Instances \ {i} : j \in late'[d] <=> j \in late[d]
      /\ i \notin late'[d] => Current(d, i, a)
  <2>1. app[d][i] \in [session : Users, isLoggedIn : BOOLEAN]
    BY <1>1 DEF AppType
  <2>2. DOMAIN app[d] = Instances /\ DOMAIN reads[d] = Instances
    BY <1>1 DEF AppType, ReadsType
  <2> QED
    BY <1>1, <1>2, <2>1, <2>2
<1>4. Queued(d)'
  <2>1. currentUser(d)' = currentUser(d)
    BY <1>2 DEF currentUser
  <2> QED
    BY <1>2, <2>1 DEF Following, Queued, Tasks, Posted, Told, Notifying, Hearing
<1>5. Shows(d)' /\ Shown(d)'
  <2>1. Visible(d)'.isLoggedIn = Visible(d).isLoggedIn
    BY <1>2, <1>3, Parts DEF Visible
  <2> QED
    BY <1>2, <2>1 DEF Following, Screens, Shows, ToldOf, Shown
<1>6. Settled(d)'
  <2> SUFFICES ASSUME NEW j \in Instances, app'[d][j].session # Nobody, j \notin late'[d],
                      \A b \in Accounts : ~(reads'[d][j][b] > 0),
                      NEW l \in DOMAIN listeners[d], listeners[d][l].instance = j
               PROVE  listeners[d][l].told \in {app'[d][j].session, Unheard}
    BY <1>2 DEF Settled
  <2>1. CASE j = i
    BY <1>3, <2>1 DEF Current
  <2>2. CASE j # i
    BY <1>3, <2>2 DEF Following, Screens, Settled
  <2> QED
    BY <2>1, <2>2
<1> QED
  BY <1>4, <1>5, <1>6 DEF Following, Screens

LEMMA Appearing ==
    ASSUME TypeOK, NEW d \in Devices, Appear(d), Following(d)
    PROVE  Following(d)'
<1> DEFINE n == Len(listeners[d])
           m == Len(main[d])
<1>1. /\ listeners[d] \in Seq(ListenerType) /\ main[d] \in Seq(TaskType)
      /\ DOMAIN listeners = Devices /\ DOMAIN main = Devices /\ shown[d] \in Instances
  BY Parts
<1>2. /\ n \in Nat /\ m \in Nat /\ DOMAIN listeners[d] = 1..n /\ DOMAIN main[d] = 1..m
  BY <1>1
<1>3. Hear(n + 1) \in TaskType /\ Hear(n + 1).kind = "hear"
  BY <1>2, TasksTyped
<1>4. /\ listeners'[d] = Append(listeners[d], [instance |-> shown[d], told |-> Unheard])
      /\ main'[d] = Append(main[d], Hear(n + 1))
      /\ UNCHANGED <<saved, loaded, heeds, app, shown, reads, late>>
  BY <1>1 DEF Appear, Listen, ui, calls, history
<1>5. /\ DOMAIN main'[d] = 1..(m + 1) /\ \A i \in 1..m : main'[d][i] = main[d][i]
      /\ main'[d][m + 1] = Hear(n + 1)
  BY <1>1, <1>3, <1>4, Appended
<1>6. /\ Len(listeners'[d]) = n + 1 /\ DOMAIN listeners'[d] = 1..(n + 1)
      /\ \A l \in 1..n : listeners'[d][l] = listeners[d][l]
      /\ listeners'[d][n + 1].instance = shown[d] /\ listeners'[d][n + 1].told = Unheard
  <2>1. [instance |-> shown[d], told |-> Unheard] \in ListenerType
    BY <1>1 DEF ListenerType
  <2> QED
    BY <1>1, <1>4, <2>1, Appended
<1>7. /\ \A i \in 1..(m + 1) : i \in 1..m \/ i = m + 1
      /\ m + 1 \in 1..(m + 1) /\ 1..m \subseteq 1..(m + 1)
      /\ \A i \in 1..(n + 1) : i \in 1..n \/ i = n + 1
      /\ n + 1 \in 1..(n + 1) /\ 1..n \subseteq 1..(n + 1)
  BY <1>2
<1>8. currentUser(d)' = currentUser(d) /\ Visible(d)' = Visible(d)
  BY <1>4 DEF currentUser, Visible
<1> HIDE DEF n, m
<1>9. Tasks(d)'
  <2>1. \A i \in 1..m : IsTask(main[d][i], n)
    BY <1>2 DEF Following, Queued, Tasks, n
  <2>2. \A i \in 1..m : IsTask(main[d][i], n + 1)
    BY <1>7, <2>1 DEF IsTask
  <2>3. IsTask(Hear(n + 1), n + 1)
    BY <1>7 DEF IsTask
  <2> QED
    BY <1>5, <1>6, <1>7, <2>2, <2>3 DEF Tasks
<1>10. Posted(d)'
  <2> SUFFICES ASSUME NEW i \in 1..(m + 1), LastNotify(main'[d], i)
               PROVE  main'[d][i].user = currentUser(d)
    BY <1>5, <1>8 DEF Posted
  <2>1. i \in 1..m
    BY <1>3, <1>5, <1>7 DEF LastNotify
  <2>2. LastNotify(main[d], i)
    BY <1>2, <1>5, <1>7, <2>1 DEF LastNotify
  <2> QED
    BY <1>2, <1>5, <2>1, <2>2 DEF Following, Queued, Posted
<1>11. Told(d)'
  <2> SUFFICES ASSUME ~Notifying(d)'
               PROVE  /\ heeds[d] = currentUser(d)
                      /\ \A l \in 1..(n + 1) :
                            \/ listeners'[d][l].told = currentUser(d)
                            \/ listeners'[d][l].told = Unheard /\ Hearing(d, l)'
    BY <1>4, <1>6, <1>8 DEF Told
  <2>1. ~Notifying(d)
    BY <1>2, <1>5, <1>7 DEF Notifying
  <2>2. /\ heeds[d] = currentUser(d)
        /\ \A l \in 1..n : \/ listeners[d][l].told = currentUser(d)
                           \/ listeners[d][l].told = Unheard /\ Hearing(d, l)
    BY <1>2, <2>1 DEF Following, Queued, Told
  <2>3. \A l : Hearing(d, l) => Hearing(d, l)'
    BY <1>2, <1>5, <1>7 DEF Hearing, Hear
  <2>4. ASSUME NEW l \in 1..(n + 1)
        PROVE  \/ listeners'[d][l].told = currentUser(d)
               \/ listeners'[d][l].told = Unheard /\ Hearing(d, l)'
    <3>1. CASE l \in 1..n
      BY <1>6, <2>2, <2>3, <3>1
    <3>2. CASE l = n + 1
      BY <1>5, <1>6, <1>7, <3>2 DEF Hearing
    <3> QED
      BY <1>7, <3>1, <3>2
  <2> QED
    BY <2>2, <2>4
<1>12. Screens(d)'
  <2>1. ASSUME NEW u \in Users PROVE ToldOf(d, shown[d], u)' <=> ToldOf(d, shown[d], u)
    <3>1. u # Unheard
      BY DEF Users
    <3> QED
      BY <1>2, <1>4, <1>6, <1>7, <3>1 DEF ToldOf
  <2>2. Shows(d)'
    <3>1. Shows(d) /\ shown' = shown
      BY <1>4 DEF Following, Screens
    <3>2. \A u \in Users : ToldOf(d, shown[d], u)' <=> ToldOf(d, shown[d], u)
      BY <2>1
    <3> QED
      BY <1>8, <3>1, <3>2 DEF Shows
  <2>3. Shown(d)'
    <3>1. \A l \in 1..n : listeners[d][l].instance <= shown[d]
      BY <1>2 DEF Following, Screens, Shown
    <3>2. shown[d] <= shown[d]
      BY <1>1 DEF Instances
    <3> QED
      BY <1>4, <1>6, <1>7, <3>1, <3>2 DEF Shown
  <2>4. Settled(d)'
    BY <1>2, <1>4, <1>6, <1>7 DEF Following, Screens, Settled
  <2> QED
    BY <2>2, <2>3, <2>4 DEF Screens
<1> QED
  BY <1>9, <1>10, <1>11, <1>12 DEF Following, Queued

LEMMA LoggingOut ==
    ASSUME TypeOK, NEW d \in Devices, LogOut(d), Following(d)
    PROVE  Following(d)'
<1>1. /\ shown[d] \in Instances /\ shown[d] + 1 \in Nat /\ DOMAIN shown = Devices
      /\ DOMAIN app = Devices /\ DOMAIN app[d] = Instances
  BY Parts DEF Instances, AppType
<1>2. /\ UNCHANGED <<loaded, heeds, listeners, reads, late>> /\ loaded[d]
      /\ shown'[d] = shown[d] + 1
      /\ app'[d][shown[d]] = NoSession
      /\ \A i \in Instances \ {shown[d]} : app'[d][i] = app[d][i]
  BY <1>1 DEF LogOut, calls, history
<1>3. Queued(d)'
  <2>1. CASE saved[d] = Nobody
    <3>1. UNCHANGED <<saved, main>>
      BY <2>1 DEF LogOut
    <3>2. currentUser(d)' = currentUser(d)
      BY <1>2, <3>1 DEF currentUser
    <3> QED
      BY <1>2, <3>1, <3>2 DEF Following, Queued, Tasks, Posted, Told, Notifying, Hearing
  <2>2. CASE saved[d] # Nobody
    <3>1. SetUser(d, Nobody, <<>>) /\ Nobody \in Users
      BY <2>2 DEF LogOut, Users
    <3> QED
      BY <1>2, <3>1, ChangingUser DEF Following
  <2> QED
    BY <2>1, <2>2
<1>4. \A l \in DOMAIN listeners[d] : listeners[d][l].instance \in Instances /\ listeners[d][l].instance <= shown[d]
  <2>1. listeners[d] \in Seq(ListenerType)
    BY Parts
  <2>2. \A l \in DOMAIN listeners[d] : listeners[d][l] \in ListenerType
    BY <2>1
  <2> QED
    BY <2>2 DEF Following, Screens, Shown, ListenerType
<1>5. \A l \in DOMAIN listeners[d] : /\ listeners[d][l].instance <= shown[d] + 1
                                     /\ listeners[d][l].instance # shown[d] + 1
  BY <1>1, <1>4 DEF Instances
<1>6. Shown(d)' /\ Shows(d)'
  BY <1>2, <1>5 DEF Shown, Shows, ToldOf
<1>7. Settled(d)'
  <2>1. Settled(d)
    BY DEF Following, Screens
  <2> QED
    BY <1>1, <1>2, <2>1 DEF Settled, NoSession
<1> QED
  BY <1>3, <1>6, <1>7 DEF Following, Screens

LEMMA Loading ==
    ASSUME TypeOK, NEW d \in Devices, Load(d), Following(d)
    PROVE  Following(d)'
<1>1. /\ DOMAIN loaded = Devices /\ DOMAIN main = Devices /\ saved[d] \in Users
      /\ loaded'[d] = TRUE /\ ~loaded[d]
      /\ UNCHANGED <<saved, heeds, listeners, app, shown, reads, late>>
      /\ main'[d] = IF saved[d] = Nobody THEN main[d] ELSE Append(main[d], Notify(saved[d]))
  BY Parts DEF Load, ui, calls, history
<1>2. currentUser(d)' = saved[d] /\ currentUser(d) = Nobody
  BY <1>1 DEF currentUser
<1>3. CASE saved[d] = Nobody
  BY <1>1, <1>2, <1>3, SameScreens
       DEF Following, Queued, Tasks, Posted, Told, Notifying, Hearing
<1>4. CASE saved[d] # Nobody
  <2>1. Queued(d)'
    BY <1>1, <1>2, <1>4, Announced DEF Following
  <2> QED
    BY <1>1, <2>1, SameScreens DEF Following
<1> QED
  BY <1>3, <1>4

LEMMA RunningSignedUp ==
    ASSUME TypeOK, NEW d \in Devices, RunSignedUp(d), Following(d)
    PROVE  Following(d)'
<1>1. CASE currentUser(d) = Nobody
  BY <1>1, Dying DEF RunSignedUp
<1>2. CASE currentUser(d) # Nobody
  <2>1. /\ main[d] # <<>> /\ Head(main[d]).kind # "notify" /\ main'[d] = Tail(main[d])
        /\ UNCHANGED <<saved, loaded, heeds, listeners, app, shown, reads, late>>
    <3>1. main[d] # <<>> /\ Head(main[d]).kind # "notify" /\ DOMAIN main = Devices
      BY MainTyped DEF RunSignedUp, Task
    <3> QED
      BY <1>2, <3>1 DEF RunSignedUp, Done, ui, history
  <2>2. currentUser(d)' = currentUser(d)
    BY <2>1 DEF currentUser
  <2>3. \A l \in Nat : Hear(l) # Head(main[d])
    BY DEF RunSignedUp, Task, Hear
  <2>4. /\ Tasks(d)' /\ Posted(d)' /\ (~Notifying(d)' => ~Notifying(d))
        /\ \A l \in Nat : Hearing(d, l) => Hearing(d, l)'
    BY <2>1, <2>2, <2>3, Ran DEF Following
  <2>5. DOMAIN listeners[d] \subseteq Nat
    BY Parts
  <2>6. Told(d)'
    BY <2>1, <2>2, <2>4, <2>5 DEF Following, Queued, Told
  <2> QED
    BY <2>1, <2>4, <2>6, SameScreens DEF Following, Queued
<1> QED
  BY <1>1, <1>2

\* What a step of another device leaves alone.
Elsewhere(e) == UNCHANGED <<main[e], heeds[e], listeners[e], saved[e], loaded[e],
                            app[e], shown[e], reads[e], late[e]>>

LEMMA StepsElsewhere ==
    ASSUME TypeOK, NEW d \in Devices, StepOf(d), NEW e \in Devices \ {d}
    PROVE  Elsewhere(e)
<1> USE Parts
<1>1. ASSUME Die(d) PROVE Elsewhere(e)
  BY <1>1 DEF Die, Elsewhere
<1>2. ASSUME NEW u, NEW ts, SetUser(d, u, ts) PROVE UNCHANGED <<saved[e], main[e]>>
  BY <1>2 DEF SetUser
<1>3. ASSUME NEW ls, Tell(d, ls) PROVE UNCHANGED <<listeners[e], app[e], reads[e]>>
  BY <1>3 DEF Tell
<1>4. CASE Load(d) \/ Appear(d)
  BY <1>4 DEF Load, Appear, Listen, Elsewhere, ui, calls, history
<1>5. CASE \/ \E a \in Accounts : \E ok \in BOOLEAN : SignInAnswered(d, a, ok)
           \/ SignedOutByForce(d)
  BY <1>2, <1>5 DEF SignInAnswered, SignedOutByForce, Elsewhere, ui, calls, history
<1>6. CASE \E r \in Registration : SignUpAnswered(d, r)
  BY <1>2, <1>6 DEF SignUpAnswered, SignUpRefused, Elsewhere, ui
<1>7. CASE \/ \E r \in Registration : \/ SignUpLost(d, r)
                                      \/ CheckAnswered(d, r) \/ CheckAnsweredOffline(d, r)
           \/ \E i \in DOMAIN writes[d] : Deliver(d, i)
  BY <1>7 DEF SignUpLost, CheckAnswered, CheckAnsweredOffline, Deliver, Elsewhere, auth, ui, history
<1>8. CASE RunNotify(d) \/ RunHear(d)
  BY <1>3, <1>8 DEF RunNotify, RunHear, Done, Elsewhere, history
<1>9. CASE RunSignedUp(d) \/ CheckFails(d) \/ UseFeedWithoutSession(d) \/ Restart(d)
  BY <1>1, <1>9 DEF RunSignedUp, CheckFails, UseFeedWithoutSession, Restart, Done, Elsewhere, ui, history
<1>10. CASE \E i \in Instances : \E a \in Accounts : ReadAnswered(d, i, a) \/ ReadFails(d, i, a)
  BY <1>10 DEF ReadAnswered, ReadFails, SetSession, Elsewhere, auth
<1>11. CASE \/ \E a \in Accounts : LogIn(d, a)
            \/ \E r \in Registration : Register(d, r)
  BY <1>11 DEF LogIn, Register, Elsewhere, auth
<1>12. CASE LogOut(d)
  BY <1>2, <1>12 DEF LogOut, Elsewhere, calls, history
<1> QED
  BY <1>4, <1>5, <1>6, <1>7, <1>8, <1>9, <1>10, <1>11, <1>12 DEF StepOf

LEMMA FollowingStep ==
    ASSUME TypeOK, NEW d \in Devices, StepOf(d), Following(d)
    PROVE  Following(d)'
<1>1. ASSUME Elsewhere(d) PROVE Following(d)'
  BY <1>1, Same DEF Elsewhere, Following
<1>2. ASSUME NEW u \in Users, loaded[d],
             SetUser(d, u, <<>>) \/ \E n \in Names : SetUser(d, u, <<SignedUp(n)>>),
             UNCHANGED <<loaded, listeners, app, shown, reads, late>>
      PROVE  Following(d)'
  <2>1. Queued(d)'
    BY <1>2, ChangingUser DEF Following
  <2> QED
    BY <1>2, <2>1, SameScreens DEF Following
<1>3. Accounts \subseteq Users /\ Nobody \in Users
  BY DEF Users
<1>4. ASSUME NEW a \in Accounts, NEW ok \in BOOLEAN, SignInAnswered(d, a, ok) PROVE Following(d)'
  <2>1. CASE ok
    <3>1. /\ SetUser(d, a, <<>>) /\ loaded[d]
          /\ UNCHANGED <<loaded, listeners, app, shown, reads, late>>
      BY <1>4, <2>1 DEF SignInAnswered, ui, history
    <3> QED
      BY <1>2, <1>3, <3>1
  <2>2. CASE ~ok
    BY <1>1, <1>4, <2>2 DEF SignInAnswered, Elsewhere, ui, history
  <2> QED
    BY <2>1, <2>2
<1>5. CASE SignedOutByForce(d)
  <2>1. loaded[d]
    BY <1>5 DEF SignedOutByForce, currentUser
  <2>2. SetUser(d, Nobody, <<>>) /\ UNCHANGED <<loaded, listeners, app, shown, reads, late>>
    BY <1>5 DEF SignedOutByForce, ui, calls, history
  <2> QED
    BY <1>2, <1>3, <2>1, <2>2
<1>6. ASSUME NEW r \in Registration, SignUpAnswered(d, r) PROVE Following(d)'
  <2>1. UNCHANGED <<loaded, heeds, listeners, app, shown, reads, late>> /\ loaded[d]
    BY <1>6 DEF SignUpAnswered, ui
  <2>2. CASE r.account \notin created
    <3>1. SetUser(d, r.account, <<SignedUp(r.name)>>) /\ r.account \in Users /\ r.name \in Names
      BY <1>3, <1>6, <2>2 DEF SignUpAnswered, Registration
    <3> QED
      BY <1>2, <2>1, <3>1
  <2>3. CASE r.account \in created
    <3>1. UNCHANGED <<main, saved>>
      BY <1>6, <2>3 DEF SignUpAnswered, SignUpRefused
    <3> QED
      BY <1>1, <2>1, <3>1 DEF Elsewhere
  <2> QED
    BY <2>2, <2>3
<1>7. CASE \/ \E r \in Registration : \/ SignUpLost(d, r)
                                      \/ CheckAnswered(d, r) \/ CheckAnsweredOffline(d, r)
           \/ \E i \in DOMAIN writes[d] : Deliver(d, i)
  BY <1>1, <1>7 DEF SignUpLost, CheckAnswered, CheckAnsweredOffline, Deliver, Elsewhere, auth, ui, history
<1>8. CASE \/ \E a \in Accounts : LogIn(d, a)
           \/ \E r \in Registration : Register(d, r)
  BY <1>1, <1>8 DEF LogIn, Register, Elsewhere, auth
<1>9. CASE CheckFails(d) \/ UseFeedWithoutSession(d) \/ Restart(d)
  BY <1>9, Dying DEF CheckFails, UseFeedWithoutSession, Restart
<1>10. ASSUME NEW i \in Instances, NEW a \in Accounts, ReadAnswered(d, i, a) \/ ReadFails(d, i, a)
       PROVE  Following(d)'
  <2>1. \E u \in {a, Nobody} : SetSession(d, i, a, u)
    BY <1>10 DEF ReadAnswered, ReadFails
  <2> QED
    BY <2>1, Answering
<1> QED
  BY <1>4, <1>5, <1>6, <1>7, <1>8, <1>9, <1>10, Loading, RunningNotify, RunningHear,
     RunningSignedUp, Appearing, LoggingOut DEF StepOf

-----------------------------------------------------------------------------
(* Accounts and the names they were registered with *)

\* What was on the main queue for a completion is there still, or is gone.
LEMMA Survivors ==
    ASSUME NEW s \in Seq(TaskType), NEW t,
           \/ t = s \/ t = <<>> \/ (s # <<>> /\ t = Tail(s))
           \/ \E x \in TaskType : x.kind # "signedUp" /\ t = Append(s, x)
    PROVE  \E o \in {0, 1} : \A i \in DOMAIN t :
              i \in Nat /\ (t[i].kind = "signedUp" => i + o \in DOMAIN s /\ t[i] = s[i + o])
<1>1. CASE t = s \/ t = <<>>
  <2>1. \A i \in DOMAIN t : i \in Nat /\ i + 0 \in DOMAIN s /\ t[i] = s[i + 0]
    BY <1>1
  <2> QED
    BY <2>1
<1>2. CASE s # <<>> /\ t = Tail(s)
  <2>1. \A i \in DOMAIN t : i \in Nat /\ i + 1 \in DOMAIN s /\ t[i] = s[i + 1]
    <3> DEFINE n == Len(s)
    <3>1. /\ DOMAIN t = 1..(n - 1) /\ DOMAIN s = 1..n /\ n \in Nat
          /\ \A i \in 1..(n - 1) : t[i] = s[i + 1]
      BY <1>2, Rest
    <3> HIDE DEF n
    <3>2. \A i \in 1..(n - 1) : i \in Nat /\ i + 1 \in 1..n
      BY <3>1
    <3> QED
      BY <3>1, <3>2
  <2> QED
    BY <2>1
<1>3. ASSUME NEW x \in TaskType, x.kind # "signedUp", t = Append(s, x)
      PROVE  \E o \in {0, 1} : \A i \in DOMAIN t :
                i \in Nat /\ (t[i].kind = "signedUp" => i + o \in DOMAIN s /\ t[i] = s[i + o])
  <2> DEFINE n == Len(s)
  <2>1. /\ DOMAIN t = 1..(n + 1) /\ DOMAIN s = 1..n /\ n \in Nat
        /\ \A i \in 1..n : t[i] = s[i]
        /\ t[n + 1] = x
    BY <1>3, Appended
  <2> HIDE DEF n
  <2>2. \A i \in 1..(n + 1) : i \in Nat /\ i + 0 = i /\ (i \in 1..n \/ i = n + 1)
    BY <2>1
  <2>3. \A i \in DOMAIN t : i \in Nat /\ (t[i].kind = "signedUp" => i + 0 \in DOMAIN s /\ t[i] = s[i + 0])
    BY <1>3, <2>1, <2>2
  <2> QED
    BY <2>3
<1> QED
  BY <1>1, <1>2, <1>3

\* A sign-up that the server accepts.
SigningUp(d, r) == SignUpAnswered(d, r) /\ r.account \notin created

LEMMA MainSteps ==
    ASSUME TypeOK, NEW d \in Devices, StepOf(d), ~\E r \in Registration : SigningUp(d, r)
    PROVE  \/ main'[d] = main[d] \/ main'[d] = <<>>
           \/ main[d] # <<>> /\ main'[d] = Tail(main[d])
           \/ \E x \in TaskType : x.kind # "signedUp" /\ main'[d] = Append(main[d], x)
<1> DEFINE Goal == \/ main'[d] = main[d] \/ main'[d] = <<>>
                   \/ main[d] # <<>> /\ main'[d] = Tail(main[d])
                   \/ \E x \in TaskType : x.kind # "signedUp" /\ main'[d] = Append(main[d], x)
<1>1. DOMAIN main = Devices /\ main[d] \in Seq(TaskType) /\ saved[d] \in Users
      /\ Accounts \subseteq Users /\ Nobody \in Users
  BY MainTyped DEF Users
<1>2. /\ \A u \in Users : Notify(u) \in TaskType /\ Notify(u).kind # "signedUp"
      /\ \A l \in Nat : Hear(l) \in TaskType /\ Hear(l).kind # "signedUp"
  BY TasksTyped
<1>3. ASSUME NEW u \in Users, SetUser(d, u, <<>>) PROVE Goal
  <2>1. main' = [main EXCEPT ![d] = Append(main[d], Notify(u))]
    BY <1>3, Posting
  <2>2. main'[d] = Append(main[d], Notify(u))
    BY <1>1, <2>1
  <2> QED
    BY <1>2, <2>2
<1>4. ASSUME Die(d) PROVE Goal
  BY <1>1, <1>4 DEF Die
<1>5. CASE Load(d)
  <2>1. main'[d] = main[d] \/ main'[d] = Append(main[d], Notify(saved[d]))
    BY <1>1, <1>5 DEF Load
  <2> QED
    BY <1>1, <1>2, <2>1
<1>6. CASE \E a \in Accounts : \E ok \in BOOLEAN : SignInAnswered(d, a, ok)
  BY <1>1, <1>3, <1>6 DEF SignInAnswered
<1>7. CASE SignedOutByForce(d) \/ LogOut(d)
  BY <1>1, <1>3, <1>7 DEF SignedOutByForce, LogOut
<1>8. CASE \E r \in Registration : SignUpAnswered(d, r)
  BY <1>8 DEF SignUpAnswered, SigningUp, SignUpRefused
<1>9. CASE RunNotify(d) \/ RunHear(d) \/ RunSignedUp(d)
  BY <1>1, <1>4, <1>9 DEF RunNotify, RunHear, RunSignedUp, Done, Task
<1>10. CASE Appear(d)
  <2>1. main'[d] = Append(main[d], Hear(Len(listeners[d]) + 1)) /\ Len(listeners[d]) + 1 \in Nat
    BY <1>1, <1>10, Parts DEF Appear, Listen
  <2> QED
    BY <1>2, <2>1
<1>11. CASE CheckFails(d) \/ UseFeedWithoutSession(d) \/ Restart(d)
  BY <1>4, <1>11 DEF CheckFails, UseFeedWithoutSession, Restart
<1>12. CASE \/ \E i \in Instances : \E a \in Accounts : ReadAnswered(d, i, a) \/ ReadFails(d, i, a)
            \/ \E r \in Registration : \/ CheckAnswered(d, r) \/ CheckAnsweredOffline(d, r)
                                       \/ Register(d, r) \/ SignUpLost(d, r)
            \/ \E a \in Accounts : LogIn(d, a)
            \/ \E i \in DOMAIN writes[d] : Deliver(d, i)
  BY <1>12 DEF ReadAnswered, ReadFails, SetSession, CheckAnswered, CheckAnsweredOffline, Register,
     SignUpLost, LogIn, Deliver, auth
<1> QED
  BY <1>5, <1>6, <1>7, <1>8, <1>9, <1>10, <1>11, <1>12 DEF StepOf

\* A sign-up tells the new user and then completes.
LEMMA SignUpSteps ==
    ASSUME TypeOK, NEW d \in Devices, NEW r \in Registration, SigningUp(d, r)
    PROVE  LET n == Len(main[d]) IN
           /\ n \in Nat /\ DOMAIN main[d] = 1..n /\ DOMAIN main'[d] = 1..(n + 2)
           /\ \A i \in 1..n : main'[d][i] = main[d][i]
           /\ main'[d][n + 1].kind = "notify" /\ main'[d][n + 2] = SignedUp(r.name)
           /\ SignedUp(r.name).kind = "signedUp" /\ SignedUp(r.name).name = r.name /\ r.name \in Names
           /\ saved'[d] = r.account /\ r.account \in Accounts
<1> DEFINE n == Len(main[d])
           q == Append(main[d], Notify(r.account))
<1>1. r.account \in Accounts /\ r.account \in Users /\ r.name \in Names
      /\ SetUser(d, r.account, <<SignedUp(r.name)>>)
  BY DEF Registration, Users, SigningUp, SignUpAnswered
<1>2. main[d] \in Seq(TaskType) /\ DOMAIN main = Devices /\ DOMAIN saved = Devices
  BY MainTyped, Parts
<1>3. main'[d] = Append(q, SignedUp(r.name)) /\ saved'[d] = r.account
  <2>1. /\ main' = [main EXCEPT ![d] = Append(Append(main[d], Notify(r.account)), SignedUp(r.name))]
        /\ saved' = [saved EXCEPT ![d] = r.account]
    BY <1>1, Posting
  <2> QED
    BY <1>2, <2>1
<1>4. /\ Notify(r.account) \in TaskType /\ Notify(r.account).kind = "notify"
      /\ SignedUp(r.name) \in TaskType /\ SignedUp(r.name).kind = "signedUp" /\ SignedUp(r.name).name = r.name
  BY <1>1, TasksTyped
<1>5. /\ q \in Seq(TaskType) /\ n \in Nat /\ Len(q) = n + 1 /\ DOMAIN main[d] = 1..n
      /\ \A i \in 1..n : q[i] = main[d][i]
      /\ q[n + 1] = Notify(r.account)
  BY <1>2, <1>4, Appended
<1> HIDE DEF q
<1>6. /\ DOMAIN main'[d] = 1..((n + 1) + 1)
      /\ \A i \in 1..(n + 1) : main'[d][i] = q[i]
      /\ main'[d][(n + 1) + 1] = SignedUp(r.name)
  BY <1>3, <1>4, <1>5, Appended
<1> HIDE DEF n
<1>7. (n + 1) + 1 = n + 2 /\ 1..n \subseteq 1..(n + 1) /\ n + 1 \in 1..(n + 1)
  BY <1>5
<1>8. /\ n \in Nat /\ DOMAIN main[d] = 1..n /\ DOMAIN main'[d] = 1..(n + 2)
      /\ \A i \in 1..n : main'[d][i] = main[d][i]
      /\ main'[d][n + 1].kind = "notify" /\ main'[d][n + 2] = SignedUp(r.name)
  BY <1>4, <1>5, <1>6, <1>7
<1> QED
  BY <1>1, <1>3, <1>4, <1>8 DEF n

\* A completion finds somebody signed in.
Completes(d) == RunSignedUp(d) /\ currentUser(d) # Nobody

LEMMA WriteSteps ==
    ASSUME TypeOK, NEW d \in Devices, StepOf(d), ~Completes(d)
    PROVE  \E f \in [Nat -> Nat] :
              /\ \A j \in DOMAIN writes'[d] :
                    j \in Nat /\ f[j] \in DOMAIN writes[d] /\ writes'[d][j] = writes[d][f[j]]
              /\ \A j, k \in DOMAIN writes'[d] : f[j] = f[k] => j = k
<1> DEFINE Kept(f) == /\ \A j \in DOMAIN writes'[d] :
                            j \in Nat /\ f[j] \in DOMAIN writes[d] /\ writes'[d][j] = writes[d][f[j]]
                      /\ \A j, k \in DOMAIN writes'[d] : f[j] = f[k] => j = k
           id == [j \in Nat |-> j]
           n == Len(writes[d])
<1>1. /\ writes[d] \in Seq(WriteType) /\ DOMAIN writes = Devices
      /\ n \in Nat /\ DOMAIN writes[d] = 1..n /\ id \in [Nat -> Nat]
  BY Parts
<1>2. ASSUME UNCHANGED writes PROVE Kept(id)
  BY <1>1, <1>2
<1>3. ASSUME Die(d) PROVE Kept(id)
  <2>1. PICK k \in 0..n : writes' = [writes EXCEPT ![d] = SubSeq(@, 1, k)]
    BY <1>3 DEF Die
  <2>2. /\ DOMAIN writes'[d] = 1..k /\ \A i \in 1..k : writes'[d][i] = writes[d][i]
    BY <1>1, <2>1, Cut
  <2>3. 1..k \subseteq 1..n /\ 1..k \subseteq Nat
    BY <1>1
  <2> QED
    BY <1>1, <2>2, <2>3
<1>4. ASSUME NEW i \in DOMAIN writes[d], Deliver(d, i) PROVE \E f \in [Nat -> Nat] : Kept(f)
  <2> DEFINE f == [j \in Nat |-> IF j < i THEN j ELSE j + 1]
  <2>1. i \in 1..n /\ writes'[d] = Without(writes[d], i)
    BY <1>1, <1>4 DEF Deliver, Without
  <2>2. /\ DOMAIN writes'[d] = 1..(n - 1)
        /\ \A j \in 1..(n - 1) : writes'[d][j] = writes[d][IF j < i THEN j ELSE j + 1]
    BY <1>1, <2>1, Removed
  <2>3. /\ f \in [Nat -> Nat]
        /\ \A j \in 1..(n - 1) : /\ j \in Nat /\ f[j] = (IF j < i THEN j ELSE j + 1)
                                 /\ f[j] \in 1..n
        /\ \A j, k \in 1..(n - 1) : f[j] = f[k] => j = k
    <3>1. \A j \in Nat : f[j] = IF j < i THEN j ELSE j + 1
      OBVIOUS
    <3>2. i \in Nat /\ 1 <= i /\ i <= n /\ \A j \in 1..(n - 1) : j \in Nat
      BY <1>1, <2>1
    <3>3. f \in [Nat -> Nat]
      OBVIOUS
    <3> HIDE DEF f, n
    <3>4. \A j \in 1..(n - 1) : f[j] \in 1..n
      BY <1>1, <3>1, <3>2
    <3>5. \A j, k \in 1..(n - 1) : f[j] = f[k] => j = k
      BY <3>1, <3>2
    <3> QED
      BY <3>1, <3>2, <3>3, <3>4, <3>5
  <2> HIDE DEF f
  <2>4. Kept(f)
    BY <1>1, <2>2, <2>3
  <2> QED
    BY <2>3, <2>4
<1> HIDE DEF Kept, id
<1>5. (\E f \in [Nat -> Nat] : Kept(f)) \/ UNCHANGED writes \/ Die(d)
  <2>1. CASE CheckFails(d) \/ UseFeedWithoutSession(d) \/ Restart(d) \/ RunSignedUp(d)
    BY <2>1 DEF CheckFails, UseFeedWithoutSession, Restart, RunSignedUp, Completes
  <2>2. CASE \/ Load(d) \/ SignedOutByForce(d) \/ RunNotify(d) \/ RunHear(d) \/ Appear(d) \/ LogOut(d)
             \/ \E a \in Accounts : \/ LogIn(d, a) \/ \E ok \in BOOLEAN : SignInAnswered(d, a, ok)
             \/ \E i \in Instances : \E a \in Accounts : ReadAnswered(d, i, a) \/ ReadFails(d, i, a)
             \/ \E r \in Registration : \/ SignUpAnswered(d, r) \/ SignUpLost(d, r) \/ Register(d, r)
                                        \/ CheckAnswered(d, r) \/ CheckAnsweredOffline(d, r)
    BY <2>2 DEF Load, SignedOutByForce, RunNotify, RunHear, Appear, LogOut, LogIn, SignInAnswered,
       ReadAnswered, ReadFails, SetSession, SignUpAnswered, SignUpLost, Register, CheckAnswered,
       CheckAnsweredOffline, calls
  <2>3. CASE \E i \in DOMAIN writes[d] : Deliver(d, i)
    BY <1>4, <2>3
  <2> QED
    BY <2>1, <2>2, <2>3 DEF StepOf
<1>6. \E f \in [Nat -> Nat] : Kept(f)
  BY <1>1, <1>2, <1>3, <1>5
<1> QED
  BY <1>6 DEF Kept

LEMMA CompleteSteps ==
    ASSUME TypeOK, NEW d \in Devices, Completes(d)
    PROVE  LET n == Len(writes[d]) IN
           /\ main[d] # <<>> /\ 1 \in DOMAIN main[d] /\ main'[d] = Tail(main[d])
           /\ main[d][1].kind = "signedUp" /\ saved[d] = currentUser(d) /\ saved[d] \in Accounts
           /\ n \in Nat /\ DOMAIN writes[d] = 1..n /\ DOMAIN writes'[d] = 1..(n + 1)
           /\ \A i \in 1..n : writes'[d][i] = writes[d][i]
           /\ writes'[d][n + 1].account = saved[d] /\ writes'[d][n + 1].name = main[d][1].name
           /\ UNCHANGED <<remote, saved, history, checks, creating, signing>>
<1> DEFINE w == [by |-> heeds[d], account |-> currentUser(d), name |-> Head(main[d]).name]
<1>1. /\ main[d] \in Seq(TaskType) /\ DOMAIN main = Devices /\ DOMAIN writes = Devices
      /\ writes[d] \in Seq(WriteType) /\ saved[d] \in Users
  BY MainTyped, Parts
<1>2. /\ main[d] # <<>> /\ Head(main[d]).kind = "signedUp" /\ main'[d] = Tail(main[d])
      /\ writes'[d] = Append(writes[d], w)
      /\ UNCHANGED <<remote, saved, history, checks, creating, signing>>
  BY <1>1 DEF Completes, RunSignedUp, Task, Done
<1>3. Head(main[d]) = main[d][1] /\ 1 \in DOMAIN main[d]
  BY <1>1, <1>2, Rest
<1>4. saved[d] = currentUser(d) /\ saved[d] \in Accounts
  BY <1>1 DEF Completes, currentUser, Users
<1>5. w.account = saved[d] /\ w.name = main[d][1].name
  BY <1>3, <1>4
<1> HIDE DEF w
<1>6. /\ Len(writes[d]) \in Nat /\ DOMAIN writes[d] = 1..Len(writes[d])
      /\ DOMAIN writes'[d] = 1..(Len(writes[d]) + 1)
      /\ \A i \in 1..Len(writes[d]) : writes'[d][i] = writes[d][i]
      /\ writes'[d][Len(writes[d]) + 1] = w
  BY <1>1, <1>2
<1> QED
  BY <1>2, <1>3, <1>4, <1>5, <1>6

\* The rest of what a step does to accounts, names and writes.
LEMMA NameSteps ==
    ASSUME TypeOK, NEW d \in Devices, StepOf(d)
    PROVE  /\ \A e \in Devices \ {d} : UNCHANGED <<main[e], writes[e], checks[e], creating[e], signing[e], saved[e]>>
           /\ created \subseteq created' /\ raced \subseteq raced' /\ crossed \subseteq crossed'
           /\ \/ UNCHANGED chosen
              \/ \E r \in Registration : /\ r.account \notin created /\ r.account \in created'
                                         /\ chosen' = [chosen EXCEPT ![r.account] = r.name]
           /\ \/ UNCHANGED profile
              \/ \E i \in DOMAIN writes[d] : Deliver(d, i)
           /\ \/ saved'[d] = saved[d] \/ saved'[d] = Nobody
              \/ \E a \in signing[d] : saved'[d] = a /\ a \in created
              \/ \E r \in Registration : SigningUp(d, r)
<1> DEFINE Goal ==
           /\ \A e \in Devices \ {d} : UNCHANGED <<main[e], writes[e], checks[e], creating[e], signing[e], saved[e]>>
           /\ created \subseteq created' /\ raced \subseteq raced' /\ crossed \subseteq crossed'
           /\ \/ UNCHANGED chosen
              \/ \E r \in Registration : /\ r.account \notin created /\ r.account \in created'
                                         /\ chosen' = [chosen EXCEPT ![r.account] = r.name]
           /\ \/ UNCHANGED profile
              \/ \E i \in DOMAIN writes[d] : Deliver(d, i)
           /\ \/ saved'[d] = saved[d] \/ saved'[d] = Nobody
              \/ \E a \in signing[d] : saved'[d] = a /\ a \in created
              \/ \E r \in Registration : SigningUp(d, r)
<1> USE Parts
<1>1. ASSUME NEW u \in Users, NEW ts, SetUser(d, u, ts)
      PROVE  /\ saved'[d] = u
             /\ \A e \in Devices \ {d} : UNCHANGED <<main[e], saved[e]>>
  BY <1>1 DEF SetUser
<1>2. Nobody \in Users /\ Accounts \subseteq Users
  BY DEF Users
<1>3. ASSUME Die(d)
      PROVE  /\ \A e \in Devices \ {d} : UNCHANGED <<main[e], writes[e], checks[e], creating[e], signing[e]>>
             /\ UNCHANGED <<created, profile, saved, chosen, raced, crossed>>
  BY <1>3 DEF Die, remote
<1>4. CASE CheckFails(d) \/ UseFeedWithoutSession(d) \/ Restart(d)
  BY <1>3, <1>4 DEF CheckFails, UseFeedWithoutSession, Restart
<1>5. CASE RunSignedUp(d)
  BY <1>3, <1>5 DEF RunSignedUp, Done, remote, history
<1>6. CASE \/ Load(d) \/ RunNotify(d) \/ RunHear(d) \/ Appear(d)
           \/ \E i \in Instances : \E a \in Accounts : ReadAnswered(d, i, a) \/ ReadFails(d, i, a)
  BY <1>6 DEF Load, RunNotify, RunHear, Done, Appear, Listen, ReadAnswered, ReadFails, SetSession,
     remote, calls, history, auth
<1>7. CASE SignedOutByForce(d) \/ LogOut(d)
  BY <1>1, <1>2, <1>7 DEF SignedOutByForce, LogOut, remote, calls, history
<1>8. ASSUME NEW a \in Accounts, NEW ok \in BOOLEAN, SignInAnswered(d, a, ok)
      PROVE  /\ \A e \in Devices \ {d} : UNCHANGED <<main[e], writes[e], checks[e], creating[e], signing[e], saved[e]>>
             /\ UNCHANGED <<created, profile, chosen, raced, crossed>>
             /\ saved'[d] = saved[d] \/ (a \in signing[d] /\ saved'[d] = a /\ a \in created)
  BY <1>1, <1>2, <1>8 DEF SignInAnswered, remote, history
<1>9. ASSUME NEW r \in Registration, SignUpAnswered(d, r)
      PROVE  /\ \A e \in Devices \ {d} : UNCHANGED <<main[e], writes[e], checks[e], creating[e], signing[e], saved[e]>>
             /\ UNCHANGED <<profile, raced, crossed>>
             /\ IF r.account \in created
                THEN UNCHANGED <<created, chosen, saved>>
                ELSE /\ SigningUp(d, r) /\ created' = created \cup {r.account}
                     /\ chosen' = [chosen EXCEPT ![r.account] = r.name]
  <2>1. r.account \in Users
    BY DEF Registration, Users
  <2>2. \A e \in Devices \ {d} : UNCHANGED <<main[e], saved[e]>>
    BY <1>1, <1>9, <2>1 DEF SignUpAnswered, SignUpRefused
  <2> QED
    BY <1>9, <2>2 DEF SignUpAnswered, SigningUp
<1>10. ASSUME NEW r \in Registration, SignUpLost(d, r)
       PROVE  /\ \A e \in Devices \ {d} : UNCHANGED <<main[e], writes[e], checks[e], creating[e], signing[e], saved[e]>>
              /\ UNCHANGED <<profile, raced, crossed, saved>>
              /\ r.account \notin created /\ created' = created \cup {r.account}
              /\ chosen' = [chosen EXCEPT ![r.account] = r.name]
  BY <1>10 DEF SignUpLost, auth
<1>11. CASE \E r \in Registration : CheckAnswered(d, r) \/ CheckAnsweredOffline(d, r)
  BY <1>11 DEF CheckAnswered, CheckAnsweredOffline, remote, auth
<1>12. CASE \E i \in DOMAIN writes[d] : Deliver(d, i)
  BY <1>12 DEF Deliver, auth, history
<1>13. CASE \/ \E a \in Accounts : LogIn(d, a)
            \/ \E r \in Registration : Register(d, r)
  BY <1>13 DEF LogIn, Register, Cross, remote, auth
<1>14. ASSUME NEW r \in Registration, SignUpAnswered(d, r) PROVE Goal
  <2>1. CASE r.account \in created
    BY <1>9, <1>14, <2>1
  <2>2. CASE r.account \notin created
    BY <1>9, <1>14, <2>2
  <2> QED
    BY <2>1, <2>2
<1>15. ASSUME NEW r \in Registration, SignUpLost(d, r) PROVE Goal
  BY <1>10, <1>15
<1>16. ASSUME NEW a \in Accounts, NEW ok \in BOOLEAN, SignInAnswered(d, a, ok) PROVE Goal
  BY <1>8, <1>16
<1>17. \/ Load(d) \/ RunNotify(d) \/ RunHear(d) \/ Appear(d) \/ SignedOutByForce(d) \/ LogOut(d)
       \/ CheckFails(d) \/ UseFeedWithoutSession(d) \/ Restart(d) \/ RunSignedUp(d)
       \/ \E i \in DOMAIN writes[d] : Deliver(d, i)
       \/ \E i \in Instances : \E a \in Accounts : ReadAnswered(d, i, a) \/ ReadFails(d, i, a)
       \/ \E r \in Registration : CheckAnswered(d, r) \/ CheckAnsweredOffline(d, r)
       \/ \E a \in Accounts : LogIn(d, a)
       \/ \E r \in Registration : Register(d, r)
       \/ Goal
  <2> HIDE DEF Goal
  <2> QED
    BY <1>14, <1>15, <1>16 DEF StepOf
<1> QED
  BY <1>4, <1>5, <1>6, <1>7, <1>11, <1>12, <1>13, <1>17

LEMMA KnownStep == ASSUME TypeOK, Known, NEW d \in Devices, StepOf(d) PROVE Known'
<1>1. /\ \A e \in Devices \ {d} : UNCHANGED <<writes[e], saved[e]>>
      /\ created \subseteq created'
      /\ UNCHANGED profile \/ \E i \in DOMAIN writes[d] : Deliver(d, i)
      /\ \/ saved'[d] = saved[d] \/ saved'[d] = Nobody
         \/ \E a \in signing[d] : saved'[d] = a /\ a \in created
         \/ \E r \in Registration : SigningUp(d, r)
  BY NameSteps
<1>2. saved'[d] \in created' \cup {Nobody}
  <2>1. ASSUME NEW r \in Registration, SigningUp(d, r) PROVE saved'[d] \in created'
    BY <2>1, SignUpSteps DEF SigningUp, SignUpAnswered
  <2> QED
    BY <1>1, <2>1 DEF Known
<1>3. \A i \in DOMAIN writes'[d] : writes'[d][i].account \in created'
  <2>1. CASE Completes(d)
    <3> DEFINE n == Len(writes[d])
    <3>1. /\ n \in Nat /\ DOMAIN writes[d] = 1..n /\ DOMAIN writes'[d] = 1..(n + 1)
          /\ \A i \in 1..n : writes'[d][i] = writes[d][i]
          /\ writes'[d][n + 1].account = saved[d] /\ saved[d] \in Accounts
      BY <2>1, CompleteSteps
    <3> HIDE DEF n
    <3>2. \A i \in 1..(n + 1) : i \in 1..n \/ i = n + 1
      BY <3>1
    <3> QED
      BY <1>1, <3>1, <3>2 DEF Known
  <2>2. CASE ~Completes(d)
    BY <1>1, <2>2, WriteSteps DEF Known
  <2> QED
    BY <2>1, <2>2
<1>4. \A a \in Accounts : profile'[a] # NoName => a \in created'
  BY <1>1, Parts DEF Deliver, Known
<1> QED
  BY <1>1, <1>2, <1>3, <1>4 DEF Known

\* The registrations of a device: they get fewer, one is checked, or one begins.
LEMMA AttemptSteps ==
    ASSUME TypeOK, NEW d \in Devices, StepOf(d)
    PROVE  \/ /\ checks'[d] \subseteq checks[d] /\ creating'[d] \subseteq creating[d]
              /\ signing'[d] \subseteq signing[d]
           \/ \E r \in checks[d] : /\ checks'[d] = checks[d] \ {r}
                                   /\ creating'[d] \subseteq creating[d] \cup {r}
                                   /\ signing'[d] = signing[d]
           \/ \E a \in Accounts : LogIn(d, a)
           \/ \E r \in Registration : Register(d, r)
<1> DEFINE Fewer == /\ checks'[d] \subseteq checks[d] /\ creating'[d] \subseteq creating[d]
                    /\ signing'[d] \subseteq signing[d]
<1> USE Parts
<1>1. ASSUME Die(d) PROVE Fewer
  BY <1>1 DEF Die
<1>2. CASE CheckFails(d) \/ UseFeedWithoutSession(d) \/ Restart(d) \/ RunSignedUp(d)
  BY <1>1, <1>2 DEF CheckFails, UseFeedWithoutSession, Restart, RunSignedUp
<1>3. CASE \/ Load(d) \/ SignedOutByForce(d) \/ RunNotify(d) \/ RunHear(d) \/ Appear(d) \/ LogOut(d)
           \/ \E i \in DOMAIN writes[d] : Deliver(d, i)
           \/ \E i \in Instances : \E a \in Accounts : ReadAnswered(d, i, a) \/ ReadFails(d, i, a)
  BY <1>3 DEF Load, SignedOutByForce, RunNotify, RunHear, Appear, LogOut, Deliver, ReadAnswered,
     ReadFails, SetSession, calls
<1>4. CASE \E a \in Accounts : \E ok \in BOOLEAN : SignInAnswered(d, a, ok)
  BY <1>4 DEF SignInAnswered
<1>5. CASE \E r \in Registration : SignUpAnswered(d, r) \/ SignUpLost(d, r)
  BY <1>5 DEF SignUpAnswered, SignUpLost
<1>6. ASSUME NEW r \in Registration, CheckAnswered(d, r) \/ CheckAnsweredOffline(d, r)
      PROVE  /\ r \in checks[d] /\ checks'[d] = checks[d] \ {r}
             /\ creating'[d] \subseteq creating[d] \cup {r} /\ signing'[d] = signing[d]
  <2>1. CASE CheckAnswered(d, r)
    BY <2>1 DEF CheckAnswered
  <2>2. CASE CheckAnsweredOffline(d, r)
    BY <2>2 DEF CheckAnsweredOffline
  <2> QED
    BY <1>6, <2>1, <2>2
<1> QED
  BY <1>2, <1>3, <1>4, <1>5, <1>6 DEF StepOf

\* Completions on the main queue get fewer, unless the server accepts a sign-up.
LEMMA TellingLess ==
    ASSUME TypeOK, NEW d \in Devices, StepOf(d), ~\E r \in Registration : SigningUp(d, r)
    PROVE  /\ Telling(d) = {} => Telling(d)' = {}
           /\ AtMostOne(Telling(d)) => AtMostOne(Telling(d)')
           /\ \A i \in Telling(d)' : \E k \in Telling(d) : main'[d][i] = main[d][k]
<1>1. PICK o \in {0, 1} : \A i \in DOMAIN main'[d] :
         i \in Nat /\ (main'[d][i].kind = "signedUp" => i + o \in DOMAIN main[d] /\ main'[d][i] = main[d][i + o])
  <2>1. \/ main'[d] = main[d] \/ main'[d] = <<>>
        \/ main[d] # <<>> /\ main'[d] = Tail(main[d])
        \/ \E x \in TaskType : x.kind # "signedUp" /\ main'[d] = Append(main[d], x)
    BY MainSteps
  <2>2. main[d] \in Seq(TaskType)
    BY MainTyped
  <2>3. \E o \in {0, 1} : \A i \in DOMAIN main'[d] :
           i \in Nat /\ (main'[d][i].kind = "signedUp" => i + o \in DOMAIN main[d] /\ main'[d][i] = main[d][i + o])
    BY <2>1, <2>2, Survivors
  <2> QED
    BY <2>3
<1>2. \A i \in Telling(d)' : i \in Nat /\ i + o \in Telling(d) /\ main'[d][i] = main[d][i + o]
  BY <1>1 DEF Telling
<1>3. \A i, k \in Nat : i + o = k + o => i = k
  BY <1>1
<1>4. AtMostOne(Telling(d)) => AtMostOne(Telling(d)')
  BY <1>2, <1>3 DEF AtMostOne
<1> QED
  BY <1>2, <1>4

LEMMA OneAttemptStep ==
    ASSUME TypeOK, NEW d \in Devices, StepOf(d), OneAttempt(d), crossed' = {}
    PROVE  OneAttempt(d)'
<1>1. ASSUME NEW r \in Registration, SigningUp(d, r) PROVE OneAttempt(d)'
  <2> DEFINE n == Len(main[d])
  <2>1. /\ r \in creating[d] /\ creating'[d] = creating[d] \ {r}
        /\ checks'[d] = checks[d] /\ signing'[d] = signing[d]
    BY <1>1, Parts DEF SigningUp, SignUpAnswered
  <2>2. /\ checks[d] = {} /\ signing[d] = {} /\ Telling(d) = {} /\ creating'[d] = {}
    BY <2>1 DEF OneAttempt, AtMostOne
  <2>3. /\ n \in Nat /\ DOMAIN main[d] = 1..n /\ DOMAIN main'[d] = 1..(n + 2)
        /\ \A i \in 1..n : main'[d][i] = main[d][i]
        /\ main'[d][n + 1].kind = "notify"
    BY <1>1, SignUpSteps
  <2> HIDE DEF n
  <2>4. \A i \in 1..(n + 2) : i \in 1..n \/ i = n + 1 \/ i = n + 2
    BY <2>3
  <2>5. Telling(d)' \subseteq {n + 2}
    BY <2>2, <2>3, <2>4 DEF Telling
  <2> QED
    BY <2>1, <2>2, <2>5 DEF OneAttempt, AtMostOne
<1>2. CASE ~\E r \in Registration : SigningUp(d, r)
  <2>1. /\ Telling(d) = {} => Telling(d)' = {}
        /\ AtMostOne(Telling(d)) => AtMostOne(Telling(d)')
    BY <1>2, TellingLess
  <2>2. CASE /\ checks'[d] \subseteq checks[d] /\ creating'[d] \subseteq creating[d]
             /\ signing'[d] \subseteq signing[d]
    BY <2>1, <2>2 DEF OneAttempt, AtMostOne
  <2>3. ASSUME NEW r \in checks[d], checks'[d] = checks[d] \ {r},
               creating'[d] \subseteq creating[d] \cup {r}, signing'[d] = signing[d]
        PROVE  OneAttempt(d)'
    <3>1. creating[d] = {} /\ signing[d] = {} /\ Telling(d) = {} /\ checks'[d] = {}
      BY <2>3 DEF OneAttempt, AtMostOne
    <3>2. creating'[d] \subseteq {r} /\ signing'[d] = {} /\ Telling(d)' = {}
      BY <2>1, <2>3, <3>1
    <3> QED
      BY <3>1, <3>2 DEF OneAttempt, AtMostOne
  <2>4. ASSUME Cross(d) PROVE checks[d] = {} /\ creating[d] = {} /\ signing[d] = {} /\ Telling(d) = {}
    BY <2>4 DEF Cross, Busy, Telling
  <2>5. ASSUME NEW a \in Accounts, LogIn(d, a) PROVE OneAttempt(d)'
    <3>1. /\ Cross(d) /\ signing'[d] = signing[d] \cup {a}
          /\ checks'[d] = checks[d] /\ creating'[d] = creating[d]
      BY <2>5, Parts DEF LogIn
    <3>2. signing'[d] = {a} /\ checks'[d] = {} /\ creating'[d] = {} /\ Telling(d)' = {}
      BY <2>1, <2>4, <3>1
    <3> QED
      BY <3>2 DEF OneAttempt, AtMostOne
  <2>6. ASSUME NEW r \in Registration, Register(d, r) PROVE OneAttempt(d)'
    <3>1. /\ Cross(d) /\ checks'[d] = checks[d] \cup {r}
          /\ signing'[d] = signing[d] /\ creating'[d] = creating[d]
      BY <2>6, Parts DEF Register
    <3>2. checks'[d] = {r} /\ signing'[d] = {} /\ creating'[d] = {} /\ Telling(d)' = {}
      BY <2>1, <2>4, <3>1
    <3> QED
      BY <3>2 DEF OneAttempt, AtMostOne
  <2> QED
    BY <2>2, <2>3, <2>5, <2>6, AttemptSteps
<1> QED
  BY <1>1, <1>2

\* Whom a completion is for does not change before it runs.
LEMMA OwnNameStep ==
    ASSUME TypeOK, Known, NEW d \in Devices, StepOf(d), OneAttempt(d), OwnName(d)
    PROVE  OwnName(d)'
<1>1. \A a \in created : chosen'[a] = chosen[a]
  <2>1. chosen \in [Accounts -> Names \cup {NoName}] /\ created \subseteq Accounts
    BY Parts
  <2> QED
    BY <2>1, NameSteps
<1>2. /\ saved[d] \in created \cup {Nobody}
      /\ \A i \in DOMAIN writes[d] : writes[d][i].account \in created
  BY DEF Known
<1>3. ASSUME NEW r \in Registration, SigningUp(d, r) PROVE OwnName(d)'
  <2> DEFINE n == Len(main[d])
  <2>1. Telling(d) = {} /\ writes' = writes /\ chosen'[r.account] = r.name
    <3>1. r \in creating[d] /\ r.account \in Accounts
      BY <1>3 DEF SigningUp, SignUpAnswered, Registration
    <3> QED
      BY <1>3, <3>1, Parts DEF SigningUp, SignUpAnswered, OneAttempt
  <2>2. /\ n \in Nat /\ DOMAIN main[d] = 1..n /\ DOMAIN main'[d] = 1..(n + 2)
        /\ \A i \in 1..n : main'[d][i] = main[d][i]
        /\ main'[d][n + 1].kind = "notify" /\ main'[d][n + 2] = SignedUp(r.name)
        /\ SignedUp(r.name).name = r.name /\ saved'[d] = r.account
    BY <1>3, SignUpSteps
  <2> HIDE DEF n
  <2>3. \A i \in 1..(n + 2) : i \in 1..n \/ i = n + 1 \/ i = n + 2
    BY <2>2
  <2>4. \A i \in Telling(d)' : i = n + 2
    BY <2>1, <2>2, <2>3 DEF Telling
  <2>5. \A i \in Telling(d)' : main'[d][i].name = chosen'[saved'[d]]
    BY <2>1, <2>2, <2>4
  <2>6. \A i \in DOMAIN writes'[d] : writes'[d][i].name = chosen'[writes'[d][i].account]
    BY <1>1, <1>2, <2>1 DEF OwnName
  <2> QED
    BY <2>5, <2>6 DEF OwnName
<1>4. CASE ~\E r \in Registration : SigningUp(d, r)
  <2>1. ASSUME NEW i \in Telling(d)' PROVE saved'[d] = Nobody \/ main'[d][i].name = chosen'[saved'[d]]
    <3>1. PICK k \in Telling(d) : main'[d][i] = main[d][k]
      BY <1>4, <2>1, TellingLess
    <3>2. saved[d] = Nobody \/ main[d][k].name = chosen[saved[d]]
      BY <3>1 DEF OwnName
    <3>3. signing[d] = {}
      BY <3>1 DEF OneAttempt
    <3>4. saved'[d] = saved[d] \/ saved'[d] = Nobody
      BY <1>4, <3>3, NameSteps
    <3> QED
      BY <1>1, <1>2, <3>1, <3>2, <3>4
  <2>2. \A i \in DOMAIN writes'[d] : writes'[d][i].name = chosen'[writes'[d][i].account]
    <3>1. CASE Completes(d)
      <4> DEFINE n == Len(writes[d])
      <4>1. /\ 1 \in DOMAIN main[d] /\ main[d][1].kind = "signedUp"
            /\ saved[d] \in Accounts
            /\ n \in Nat /\ DOMAIN writes[d] = 1..n /\ DOMAIN writes'[d] = 1..(n + 1)
            /\ \A i \in 1..n : writes'[d][i] = writes[d][i]
            /\ writes'[d][n + 1].account = saved[d] /\ writes'[d][n + 1].name = main[d][1].name
        BY <3>1, CompleteSteps
      <4> HIDE DEF n
      <4>2. main[d][1].name = chosen[saved[d]] /\ saved[d] \in created
        BY <1>2, <4>1, AccountAssumption DEF OwnName, Telling
      <4>3. \A i \in 1..(n + 1) : i \in 1..n \/ i = n + 1
        BY <4>1
      <4> QED
        BY <1>1, <1>2, <4>1, <4>2, <4>3 DEF OwnName
    <3>2. CASE ~Completes(d)
      <4>1. \A j \in DOMAIN writes'[d] : \E k \in DOMAIN writes[d] : writes'[d][j] = writes[d][k]
        BY <3>2, WriteSteps
      <4> QED
        BY <1>1, <1>2, <4>1 DEF OwnName
    <3> QED
      BY <3>1, <3>2
  <2> QED
    BY <2>1, <2>2 DEF OwnName
<1> QED
  BY <1>3, <1>4

LEMMA NamingStep == ASSUME TypeOK, Known, Naming, NEW d \in Devices, StepOf(d) PROVE Naming'
<1>1. /\ \A e \in Devices \ {d} : UNCHANGED <<main[e], writes[e], checks[e], creating[e], signing[e], saved[e]>>
      /\ crossed \subseteq crossed'
      /\ UNCHANGED profile \/ \E i \in DOMAIN writes[d] : Deliver(d, i)
  BY NameSteps
<1>2. \A a \in created : chosen'[a] = chosen[a]
  <2>1. chosen \in [Accounts -> Names \cup {NoName}] /\ created \subseteq Accounts
    BY Parts
  <2> QED
    BY <2>1, NameSteps
<1> SUFFICES ASSUME crossed' = {}
             PROVE  /\ \A a \in Accounts : profile'[a] \in {NoName, chosen'[a]}
                    /\ \A e \in Devices : OneAttempt(e)' /\ OwnName(e)'
  BY DEF Naming, ProfileIsOwn
<1>3. /\ \A a \in Accounts : profile[a] \in {NoName, chosen[a]}
      /\ \A e \in Devices : OneAttempt(e) /\ OwnName(e)
  BY <1>1 DEF Naming, ProfileIsOwn
<1>4. OneAttempt(d)' /\ OwnName(d)'
  BY <1>3, OneAttemptStep, OwnNameStep
<1>5. ASSUME NEW e \in Devices \ {d} PROVE OneAttempt(e)' /\ OwnName(e)'
  <2>1. Telling(e)' = Telling(e)
    BY <1>1, <1>5 DEF Telling
  <2>2. OneAttempt(e)'
    BY <1>1, <1>3, <1>5, <2>1 DEF OneAttempt
  <2>3. OwnName(e)'
    <3>1. OwnName(e)
      BY <1>3
    <3> QED
      BY <1>1, <1>2, <1>5, <2>1, <3>1 DEF OwnName, Known
  <2> QED
    BY <2>2, <2>3
<1>6. ASSUME NEW a \in Accounts PROVE profile'[a] \in {NoName, chosen'[a]}
  <2>1. CASE UNCHANGED profile
    BY <1>2, <1>3, <2>1 DEF Known
  <2>2. ASSUME NEW i \in DOMAIN writes[d], Deliver(d, i) PROVE profile'[a] \in {NoName, chosen'[a]}
    <3>1. /\ profile' = [profile EXCEPT ![writes[d][i].account] = writes[d][i].name]
          /\ chosen' = chosen
      BY <2>2 DEF Deliver, history
    <3>2. writes[d][i].name = chosen[writes[d][i].account]
      BY <1>3 DEF OwnName
    <3> QED
      BY <1>3, <3>1, <3>2, Parts
  <2> QED
    BY <1>1, <2>1, <2>2
<1> QED
  BY <1>4, <1>5, <1>6

-----------------------------------------------------------------------------
(* Where a name is *)

\* S has elements, or several, only if T has.
Fewer(S, T) == (T = {} => S = {}) /\ (AtMostOne(T) => AtMostOne(S))

\* A registration found its name free, as far as the device can see.
Free(d, r) == CheckAnswered(d, r) /\ ~Taken(d, r.name)

LEMMA RegisteringLess ==
    ASSUME TypeOK, NEW d \in Devices, StepOf(d), NEW n \in Names \ raced',
           ~\E r \in Registration : Free(d, r) /\ r.name = n
    PROVE  Fewer(Registering(n)', Registering(n))
<1>1. ASSUME NEW r \in creating'[d], r.name = n PROVE r \in creating[d]
  <2>1. CASE creating'[d] \subseteq creating[d]
    BY <1>1, <2>1
  <2>2. ASSUME NEW q \in Registration, CheckAnswered(d, q) PROVE r \in creating[d]
    <3>1. q = r => q.name = n
      BY <1>1
    <3>2. IF ~Taken(d, q.name) THEN creating'[d] = creating[d] \cup {q} ELSE creating'[d] = creating[d]
      BY <2>2, Parts DEF CheckAnswered, Proceeds
    <3> QED
      BY <1>1, <2>2, <3>1, <3>2 DEF Free
  <2>3. ASSUME NEW q \in Registration, CheckAnsweredOffline(d, q) PROVE r \in creating[d]
    <3>1. creating'[d] = creating[d] \cup {q} /\ q.name \in raced'
      BY <2>3, Parts DEF CheckAnsweredOffline
    <3> QED
      BY <1>1, <3>1
  <2>4. ASSUME Die(d) PROVE creating'[d] = {}
    BY <2>4, Parts DEF Die
  <2>5. CASE CheckFails(d) \/ UseFeedWithoutSession(d) \/ Restart(d) \/ RunSignedUp(d)
    BY <2>1, <2>4, <2>5 DEF CheckFails, UseFeedWithoutSession, Restart, RunSignedUp
  <2>6. CASE \/ Load(d) \/ SignedOutByForce(d) \/ RunNotify(d) \/ RunHear(d) \/ Appear(d) \/ LogOut(d)
             \/ \E i \in DOMAIN writes[d] : Deliver(d, i)
             \/ \E i \in Instances : \E a \in Accounts : ReadAnswered(d, i, a) \/ ReadFails(d, i, a)
             \/ \E a \in Accounts : \/ LogIn(d, a) \/ \E ok \in BOOLEAN : SignInAnswered(d, a, ok)
             \/ \E q \in Registration : Register(d, q)
    BY <2>1, <2>6 DEF Load, SignedOutByForce, RunNotify, RunHear, Appear, LogOut, Deliver, ReadAnswered,
       ReadFails, SetSession, LogIn, SignInAnswered, Register, calls
  <2>7. CASE \E q \in Registration : SignUpAnswered(d, q) \/ SignUpLost(d, q)
    BY <2>1, <2>7, Parts DEF SignUpAnswered, SignUpLost
  <2> QED
    BY <2>2, <2>3, <2>5, <2>6, <2>7 DEF StepOf
<1>2. \A e \in Devices \ {d} : creating'[e] = creating[e]
  BY NameSteps
<1>3. Registering(n)' \subseteq Registering(n)
  BY <1>1, <1>2 DEF Registering
<1> QED
  BY <1>3 DEF Fewer, AtMostOne

LEMMA CompletingLess ==
    ASSUME TypeOK, NEW d \in Devices, StepOf(d), NEW n \in Names,
           ~\E r \in Registration : SigningUp(d, r) /\ r.name = n
    PROVE  Fewer(Completing(n)', Completing(n))
<1>1. \A e \in Devices \ {d} : main'[e] = main[e]
  BY NameSteps
<1>2. SignedUp(n).kind = "signedUp" /\ SignedUp(n).name = n
  BY TasksTyped
<1>3. \E o \in {0, 1} : \A i \in DOMAIN main'[d] :
         i \in Nat /\ (main'[d][i] = SignedUp(n) => i + o \in DOMAIN main[d] /\ main'[d][i] = main[d][i + o])
  <2>1. ASSUME NEW r \in Registration, SigningUp(d, r)
        PROVE  \A i \in DOMAIN main'[d] :
                  i \in Nat /\ (main'[d][i] = SignedUp(n) => i + 0 \in DOMAIN main[d] /\ main'[d][i] = main[d][i + 0])
    <3> DEFINE m == Len(main[d])
    <3>1. /\ m \in Nat /\ DOMAIN main[d] = 1..m /\ DOMAIN main'[d] = 1..(m + 2)
          /\ \A i \in 1..m : main'[d][i] = main[d][i]
          /\ main'[d][m + 1].kind = "notify" /\ main'[d][m + 2] = SignedUp(r.name)
          /\ SignedUp(r.name).name = r.name /\ r.name # n
      BY <2>1, SignUpSteps
    <3> HIDE DEF m
    <3>2. \A i \in 1..(m + 2) : i \in Nat /\ i + 0 = i /\ (i \in 1..m \/ i = m + 1 \/ i = m + 2)
      BY <3>1
    <3>3. main'[d][m + 1] # SignedUp(n) /\ main'[d][m + 2] # SignedUp(n)
      BY <1>2, <3>1
    <3> QED
      BY <3>1, <3>2, <3>3
  <2>2. CASE ~\E r \in Registration : SigningUp(d, r)
    <3>1. \/ main'[d] = main[d] \/ main'[d] = <<>>
          \/ main[d] # <<>> /\ main'[d] = Tail(main[d])
          \/ \E x \in TaskType : x.kind # "signedUp" /\ main'[d] = Append(main[d], x)
      BY <2>2, MainSteps
    <3>2. main[d] \in Seq(TaskType)
      BY MainTyped
    <3>3. \E o \in {0, 1} : \A i \in DOMAIN main'[d] :
             i \in Nat /\ (main'[d][i].kind = "signedUp" => i + o \in DOMAIN main[d] /\ main'[d][i] = main[d][i + o])
      BY <3>1, <3>2, Survivors
    <3> QED
      BY <1>2, <3>3
  <2> QED
    BY <2>1, <2>2
<1>4. PICK o \in {0, 1} : \A i \in DOMAIN main'[d] :
         i \in Nat /\ (main'[d][i] = SignedUp(n) => i + o \in DOMAIN main[d] /\ main'[d][i] = main[d][i + o])
  BY <1>3
<1>5. \A i, k \in Nat : i + o \in Nat /\ (i + o = k + o => i = k)
  BY <1>4
<1> DEFINE g(x) == IF x[1] = d THEN <<d, x[2] + o>> ELSE x
<1>6. ASSUME NEW x \in Completing(n)' PROVE g(x) \in Completing(n)
  <2>1. x = <<x[1], x[2]>> /\ x[1] \in Devices /\ x[2] \in Nat
        /\ x[2] \in DOMAIN main'[x[1]] /\ main'[x[1]][x[2]] = SignedUp(n)
    BY <1>6 DEF Completing
  <2>2. CASE x[1] = d
    BY <1>4, <1>5, <2>1, <2>2 DEF Completing
  <2>3. CASE x[1] # d
    BY <1>1, <2>1, <2>3 DEF Completing
  <2> QED
    BY <2>2, <2>3
<1>7. ASSUME NEW x \in Completing(n)', NEW y \in Completing(n)', g(x) = g(y) PROVE x = y
  <2>1. /\ x = <<x[1], x[2]>> /\ x[2] \in Nat
        /\ y = <<y[1], y[2]>> /\ y[2] \in Nat
    BY <1>7 DEF Completing
  <2>2. CASE x[1] = d
    BY <1>5, <1>7, <2>1, <2>2
  <2>3. CASE x[1] # d
    BY <1>5, <1>7, <2>1, <2>3
  <2> QED
    BY <2>2, <2>3
<1> HIDE DEF g
<1> QED
  BY <1>6, <1>7 DEF Fewer, AtMostOne

LEMMA WritingLess ==
    ASSUME TypeOK, NEW d \in Devices, StepOf(d), NEW n \in Names,
           ~(Completes(d) /\ main[d][1].name = n)
    PROVE  Fewer(Writing(n)', Writing(n))
<1>1. \A e \in Devices \ {d} : writes'[e] = writes[e]
  BY NameSteps
<1>2. \E f \in [Nat -> Nat] :
         /\ \A j \in DOMAIN writes'[d] :
               j \in Nat /\ (writes'[d][j].name = n => f[j] \in DOMAIN writes[d] /\ writes[d][f[j]].name = n)
         /\ \A j, k \in DOMAIN writes'[d] : f[j] = f[k] => j = k
  <2>1. CASE Completes(d)
    <3> DEFINE m == Len(writes[d])
               id == [j \in Nat |-> j]
    <3>1. /\ m \in Nat /\ DOMAIN writes[d] = 1..m /\ DOMAIN writes'[d] = 1..(m + 1)
          /\ \A i \in 1..m : writes'[d][i] = writes[d][i]
          /\ writes'[d][m + 1].name = main[d][1].name /\ main[d][1].name # n
      BY <2>1, CompleteSteps
    <3> HIDE DEF m
    <3>2. \A i \in 1..(m + 1) : i \in Nat /\ (i \in 1..m \/ i = m + 1)
      BY <3>1
    <3>3. id \in [Nat -> Nat] /\ \A j \in DOMAIN writes'[d] : id[j] = j
      BY <3>1, <3>2
    <3> HIDE DEF id
    <3>4. /\ \A j \in DOMAIN writes'[d] :
               j \in Nat /\ (writes'[d][j].name = n => id[j] \in DOMAIN writes[d] /\ writes[d][id[j]].name = n)
          /\ \A j, k \in DOMAIN writes'[d] : id[j] = id[k] => j = k
      BY <3>1, <3>2, <3>3
    <3> QED
      BY <3>3, <3>4
  <2>2. CASE ~Completes(d)
    <3>1. PICK f \in [Nat -> Nat] :
              /\ \A j \in DOMAIN writes'[d] :
                    j \in Nat /\ f[j] \in DOMAIN writes[d] /\ writes'[d][j] = writes[d][f[j]]
              /\ \A j, k \in DOMAIN writes'[d] : f[j] = f[k] => j = k
      BY <2>2, WriteSteps
    <3> QED
      BY <3>1
  <2> QED
    BY <2>1, <2>2
<1>3. PICK f \in [Nat -> Nat] :
         /\ \A j \in DOMAIN writes'[d] :
               j \in Nat /\ (writes'[d][j].name = n => f[j] \in DOMAIN writes[d] /\ writes[d][f[j]].name = n)
         /\ \A j, k \in DOMAIN writes'[d] : f[j] = f[k] => j = k
  BY <1>2
<1> DEFINE g(x) == IF x[1] = d THEN <<d, f[x[2]]>> ELSE x
<1>4. ASSUME NEW x \in Writing(n)' PROVE g(x) \in Writing(n)
  <2>1. x = <<x[1], x[2]>> /\ x[1] \in Devices /\ x[2] \in Nat
        /\ x[2] \in DOMAIN writes'[x[1]] /\ writes'[x[1]][x[2]].name = n
    BY <1>4 DEF Writing
  <2>2. CASE x[1] = d
    BY <1>3, <2>1, <2>2 DEF Writing
  <2>3. CASE x[1] # d
    BY <1>1, <2>1, <2>3 DEF Writing
  <2> QED
    BY <2>2, <2>3
<1>5. ASSUME NEW x \in Writing(n)', NEW y \in Writing(n)', g(x) = g(y) PROVE x = y
  <2>1. /\ x = <<x[1], x[2]>> /\ x[2] \in Nat /\ x[2] \in DOMAIN writes'[x[1]]
        /\ y = <<y[1], y[2]>> /\ y[2] \in Nat /\ y[2] \in DOMAIN writes'[y[1]]
    BY <1>5 DEF Writing
  <2>2. CASE x[1] = d
    <3>1. y[1] = d /\ f[x[2]] = f[y[2]]
      BY <1>5, <2>1, <2>2
    <3> QED
      BY <1>3, <2>1, <2>2, <3>1
  <2>3. CASE x[1] # d
    BY <1>5, <2>1, <2>3
  <2> QED
    BY <2>2, <2>3
<1> HIDE DEF g
<1> QED
  BY <1>4, <1>5 DEF Fewer, AtMostOne

LEMMA OwningLess ==
    ASSUME TypeOK, NEW d \in Devices, StepOf(d), NEW n \in Names,
           ~\E i \in DOMAIN writes[d] : Deliver(d, i) /\ writes[d][i].name = n
    PROVE  Fewer(Owning(n)', Owning(n))
<1>1. Owning(n)' \subseteq Owning(n)
  <2>1. CASE UNCHANGED profile
    BY <2>1 DEF Owning
  <2>2. ASSUME NEW i \in DOMAIN writes[d], Deliver(d, i) PROVE Owning(n)' \subseteq Owning(n)
    <3>1. profile' = [profile EXCEPT ![writes[d][i].account] = writes[d][i].name] /\ writes[d][i].name # n
      BY <2>2 DEF Deliver
    <3> QED
      BY <3>1, Parts DEF Owning
  <2> QED
    BY <2>1, <2>2, NameSteps
<1> QED
  BY <1>1 DEF Fewer, AtMostOne

\* A name that is found free is nowhere, if nobody races for it.
LEMMA Freed ==
    ASSUME TypeOK, NEW d \in Devices, NEW r \in Registration, Free(d, r), r.name \notin raced'
    PROVE  Unique(r.name)'
<1> DEFINE n == r.name
<1>1. /\ creating' = [creating EXCEPT ![d] = @ \cup {r}] /\ UNCHANGED <<main, writes, profile>>
      /\ ~Held(n) /\ ~Hidden(d, n) /\ ~Taken(d, n)
  BY DEF Free, CheckAnswered, Proceeds, remote, auth
<1>2. Registering(n) = {} /\ Completing(n) = {} /\ Writing(n) = {}
  BY <1>1 DEF Held, Registering, Completing, Writing
<1>3. Owning(n) = {}
  BY <1>1 DEF Hidden, Taken, Owning
<1>4. Registering(n)' \subseteq {<<d, r>>}
  <2>1. ASSUME NEW x \in Devices \X Registration, x[2] \in creating'[x[1]], x[2].name = n
        PROVE  x = <<d, r>>
    <3>1. x = <<x[1], x[2]>> /\ ~(x[2] \in creating[x[1]])
      BY <1>2, <2>1 DEF Registering
    <3>2. x[1] = d /\ x[2] = r
      BY <1>1, <2>1, <3>1, Parts
    <3> QED
      BY <3>1, <3>2
  <2> QED
    BY <2>1 DEF Registering
<1>5. Completing(n)' = {} /\ Writing(n)' = {} /\ Owning(n)' = {}
  BY <1>1, <1>2, <1>3 DEF Completing, Writing, Owning
<1> HIDE DEF n
<1>6. Unique(n)'
  BY <1>4, <1>5 DEF Unique, AtMostOne
<1> QED
  BY <1>6 DEF n

LEMMA NameSignsUp ==
    ASSUME TypeOK, NEW d \in Devices, StepOf(d), NEW r \in Registration, SigningUp(d, r), Unique(r.name)
    PROVE  Unique(r.name)'
<1> DEFINE n == r.name
           m == Len(main[d])
<1>1. /\ r \in creating[d] /\ creating' = [creating EXCEPT ![d] = @ \ {r}]
      /\ UNCHANGED <<writes, profile>>
  BY DEF SigningUp, SignUpAnswered
<1>2. <<d, r>> \in Registering(n)
  BY <1>1 DEF Registering
<1>3. Completing(n) = {} /\ Writing(n) = {} /\ Owning(n) = {} /\ AtMostOne(Registering(n))
  BY <1>2 DEF Unique
<1>4. Registering(n)' = {}
  <2>1. ASSUME NEW x \in Registering(n)' PROVE FALSE
    <3>1. x \in Devices \X Registration /\ x[2] \in creating'[x[1]] /\ x[2].name = n
      BY <2>1 DEF Registering
    <3>2. x \in Registering(n)
      BY <1>1, <3>1, Parts DEF Registering
    <3>3. x = <<d, r>>
      BY <1>2, <1>3, <3>2 DEF AtMostOne
    <3> QED
      BY <1>1, <3>1, <3>3, Parts
  <2> QED
    BY <2>1
<1>5. Completing(n)' \subseteq {<<d, m + 2>>}
  <2>1. /\ m \in Nat /\ DOMAIN main[d] = 1..m /\ DOMAIN main'[d] = 1..(m + 2)
        /\ \A i \in 1..m : main'[d][i] = main[d][i]
        /\ main'[d][m + 1].kind = "notify" /\ SignedUp(n).kind = "signedUp"
    BY SignUpSteps
  <2> HIDE DEF m
  <2>2. \A i \in 1..(m + 2) : i \in 1..m \/ i = m + 1 \/ i = m + 2
    BY <2>1
  <2>3. \A e \in Devices \ {d} : main'[e] = main[e]
    BY NameSteps
  <2>4. ASSUME NEW x \in Completing(n)' PROVE x = <<d, m + 2>>
    <3>1. /\ x \in Devices \X Nat /\ x = <<x[1], x[2]>>
          /\ x[2] \in DOMAIN main'[x[1]] /\ main'[x[1]][x[2]] = SignedUp(n)
      BY <2>4 DEF Completing
    <3>2. ~(x[2] \in DOMAIN main[x[1]] /\ main[x[1]][x[2]] = SignedUp(n))
      BY <1>3, <3>1 DEF Completing
    <3>3. x[1] = d
      BY <2>3, <3>1, <3>2
    <3>4. x[2] = m + 2
      BY <2>1, <2>2, <3>1, <3>2, <3>3
    <3> QED
      BY <3>1, <3>3, <3>4
  <2> QED
    BY <2>4
<1>6. Writing(n)' = {} /\ Owning(n)' = {}
  BY <1>1, <1>3 DEF Writing, Owning
<1> HIDE DEF n
<1>7. Unique(n)'
  BY <1>4, <1>5, <1>6 DEF Unique, AtMostOne
<1> QED
  BY <1>7 DEF n

LEMMA NameIsWritten ==
    ASSUME TypeOK, NEW d \in Devices, StepOf(d), Completes(d), Tasks(d),
           NEW n \in Names, main[d][1].name = n, Unique(n)
    PROVE  Unique(n)'
<1> DEFINE m == Len(writes[d])
<1>1. /\ main[d] # <<>> /\ 1 \in DOMAIN main[d] /\ main'[d] = Tail(main[d])
      /\ main[d][1].kind = "signedUp"
      /\ m \in Nat /\ DOMAIN writes[d] = 1..m /\ DOMAIN writes'[d] = 1..(m + 1)
      /\ \A i \in 1..m : writes'[d][i] = writes[d][i]
      /\ UNCHANGED <<remote, saved, history, checks, creating, signing>>
  BY CompleteSteps
<1>2. main[d][1] = SignedUp(n)
  <2>1. /\ \A u : Notify(u).kind = "notify"
        /\ \A l : Hear(l).kind = "hear"
    BY DEF Notify, Hear
  <2>2. \A k \in Names : SignedUp(k).name = k
    BY TasksTyped
  <2>3. IsTask(main[d][1], Len(listeners[d]))
    BY <1>1 DEF Tasks
  <2>4. PICK k \in Names : main[d][1] = SignedUp(k)
    BY <1>1, <2>1, <2>3 DEF IsTask
  <2> QED
    BY <2>2, <2>4
<1>3. <<d, 1>> \in Completing(n)
  BY <1>1, <1>2 DEF Completing
<1>4. Registering(n) = {} /\ Writing(n) = {} /\ Owning(n) = {} /\ AtMostOne(Completing(n))
  BY <1>3 DEF Unique
<1>5. \A e \in Devices \ {d} : main'[e] = main[e] /\ writes'[e] = writes[e]
  BY NameSteps
<1>6. Completing(n)' = {}
  <2> DEFINE k == Len(main[d])
  <2>1. /\ k \in Nat \ {0} /\ DOMAIN main[d] = 1..k /\ DOMAIN main'[d] = 1..(k - 1)
        /\ \A i \in 1..(k - 1) : main'[d][i] = main[d][i + 1]
    BY <1>1, MainTyped, Rest
  <2> HIDE DEF k
  <2>2. \A i \in 1..(k - 1) : i \in Nat /\ i + 1 \in 1..k /\ i + 1 # 1
    BY <2>1
  <2>3. ASSUME NEW x \in Completing(n)' PROVE FALSE
    <3>1. /\ x \in Devices \X Nat /\ x = <<x[1], x[2]>>
          /\ x[2] \in DOMAIN main'[x[1]] /\ main'[x[1]][x[2]] = SignedUp(n)
      BY <2>3 DEF Completing
    <3>2. CASE x[1] = d
      <4>1. x[2] + 1 \in DOMAIN main[d] /\ main[d][x[2] + 1] = SignedUp(n) /\ x[2] + 1 # 1
        BY <2>1, <2>2, <3>1, <3>2
      <4>2. <<d, x[2] + 1>> \in Completing(n)
        BY <3>1, <4>1 DEF Completing
      <4>3. <<d, x[2] + 1>> = <<d, 1>>
        BY <1>3, <1>4, <4>2 DEF AtMostOne
      <4> QED
        BY <4>1, <4>3
    <3>3. CASE x[1] # d
      <4>1. x \in Completing(n)
        BY <1>5, <3>1, <3>3 DEF Completing
      <4>2. x = <<d, 1>>
        BY <1>3, <1>4, <4>1 DEF AtMostOne
      <4> QED
        BY <3>1, <3>3, <4>2
    <3> QED
      BY <3>2, <3>3
  <2> QED
    BY <2>3
<1>7. Writing(n)' \subseteq {<<d, m + 1>>}
  <2> HIDE DEF m
  <2>1. \A i \in 1..(m + 1) : i \in 1..m \/ i = m + 1
    BY <1>1
  <2>2. ASSUME NEW x \in Writing(n)' PROVE x = <<d, m + 1>>
    <3>1. /\ x \in Devices \X Nat /\ x = <<x[1], x[2]>>
          /\ x[2] \in DOMAIN writes'[x[1]] /\ writes'[x[1]][x[2]].name = n
      BY <2>2 DEF Writing
    <3>2. ~(x[2] \in DOMAIN writes[x[1]] /\ writes[x[1]][x[2]].name = n)
      BY <1>4, <3>1 DEF Writing
    <3>3. x[1] = d
      BY <1>5, <3>1, <3>2
    <3>4. x[2] = m + 1
      BY <1>1, <2>1, <3>1, <3>2, <3>3
    <3> QED
      BY <3>1, <3>3, <3>4
  <2> QED
    BY <2>2
<1>8. Registering(n)' = {} /\ Owning(n)' = {}
  BY <1>1, <1>4 DEF Registering, Owning, remote
<1> QED
  BY <1>6, <1>7, <1>8 DEF Unique, AtMostOne

LEMMA NameIsDelivered ==
    ASSUME TypeOK, NEW d \in Devices, NEW i \in DOMAIN writes[d], Deliver(d, i),
           NEW n \in Names, writes[d][i].name = n, Unique(n)
    PROVE  Unique(n)'
<1> DEFINE m == Len(writes[d])
<1>1. /\ writes[d] \in Seq(WriteType) /\ DOMAIN writes = Devices
      /\ m \in Nat /\ DOMAIN writes[d] = 1..m /\ i \in 1..m /\ i \in Nat
  BY Parts
<1>2. /\ writes'[d] = Without(writes[d], i)
      /\ \A e \in Devices \ {d} : writes'[e] = writes[e]
      /\ profile' = [profile EXCEPT ![writes[d][i].account] = n]
      /\ UNCHANGED <<creating, main>>
  BY <1>1 DEF Deliver, Without, auth
<1>3. <<d, i>> \in Writing(n)
  BY <1>1 DEF Writing
<1>4. Registering(n) = {} /\ Completing(n) = {} /\ Owning(n) = {} /\ AtMostOne(Writing(n))
  BY <1>3 DEF Unique
<1>5. /\ DOMAIN writes'[d] = 1..(m - 1)
      /\ \A j \in 1..(m - 1) : writes'[d][j] = writes[d][IF j < i THEN j ELSE j + 1]
  BY <1>1, <1>2, Removed
<1> HIDE DEF m
<1>6. \A j \in 1..(m - 1) : /\ (IF j < i THEN j ELSE j + 1) \in 1..m
                            /\ (IF j < i THEN j ELSE j + 1) # i
                            /\ (IF j < i THEN j ELSE j + 1) \in Nat
  BY <1>1
<1>7. Writing(n)' = {}
  <2>1. ASSUME NEW x \in Writing(n)' PROVE FALSE
    <3>1. /\ x \in Devices \X Nat /\ x = <<x[1], x[2]>>
          /\ x[2] \in DOMAIN writes'[x[1]] /\ writes'[x[1]][x[2]].name = n
      BY <2>1 DEF Writing
    <3>2. CASE x[1] = d
      <4> DEFINE j == IF x[2] < i THEN x[2] ELSE x[2] + 1
      <4>1. j \in 1..m /\ j # i /\ j \in Nat /\ writes[d][j].name = n
        <5>1. x[2] \in 1..(m - 1) /\ writes'[d][x[2]].name = n
          BY <1>5, <3>1, <3>2
        <5>2. j \in 1..m /\ j # i /\ j \in Nat
          BY <1>6, <5>1
        <5>3. writes'[d][x[2]] = writes[d][j]
          BY <1>5, <5>1
        <5> QED
          BY <5>1, <5>2, <5>3
      <4> HIDE DEF j
      <4>2. <<d, j>> \in Writing(n)
        BY <1>1, <4>1 DEF Writing
      <4> QED
        BY <1>3, <1>4, <4>1, <4>2 DEF AtMostOne
    <3>3. CASE x[1] # d
      <4>1. x \in Writing(n)
        BY <1>2, <3>1, <3>3 DEF Writing
      <4> QED
        BY <1>3, <1>4, <3>1, <3>3, <4>1 DEF AtMostOne
    <3> QED
      BY <3>2, <3>3
  <2> QED
    BY <2>1
<1>8. Owning(n)' \subseteq {writes[d][i].account}
  BY <1>2, <1>4, Parts DEF Owning
<1>9. Registering(n)' = {} /\ Completing(n)' = {}
  BY <1>2, <1>4 DEF Registering, Completing
<1> QED
  BY <1>7, <1>8, <1>9 DEF Unique, AtMostOne

LEMMA UnracedStep ==
    ASSUME TypeOK, Unraced, NEW d \in Devices, Tasks(d), StepOf(d)
    PROVE  Unraced'
<1> SUFFICES ASSUME NEW n \in Names \ raced' PROVE Unique(n)'
  BY DEF Unraced
<1>1. Unique(n)
  BY NameSteps DEF Unraced
<1>2. ASSUME NEW r \in Registration, Free(d, r), r.name = n PROVE Unique(n)'
  BY <1>2, Freed
<1>3. ASSUME NEW r \in Registration, SigningUp(d, r), r.name = n PROVE Unique(n)'
  BY <1>1, <1>3, NameSignsUp
<1>4. CASE Completes(d) /\ main[d][1].name = n
  BY <1>1, <1>4, NameIsWritten
<1>5. ASSUME NEW i \in DOMAIN writes[d], Deliver(d, i), writes[d][i].name = n PROVE Unique(n)'
  BY <1>1, <1>5, NameIsDelivered
<1>6. CASE /\ ~\E r \in Registration : Free(d, r) /\ r.name = n
           /\ ~\E r \in Registration : SigningUp(d, r) /\ r.name = n
           /\ ~(Completes(d) /\ main[d][1].name = n)
           /\ ~\E i \in DOMAIN writes[d] : Deliver(d, i) /\ writes[d][i].name = n
  <2>1. Fewer(Registering(n)', Registering(n))
    BY <1>6, RegisteringLess
  <2>2. Fewer(Completing(n)', Completing(n))
    BY <1>6, CompletingLess
  <2>3. Fewer(Writing(n)', Writing(n))
    BY <1>6, WritingLess
  <2>4. Fewer(Owning(n)', Owning(n))
    BY <1>6, OwningLess
  <2> QED
    BY <1>1, <2>1, <2>2, <2>3, <2>4 DEF Fewer, Unique
<1> QED
  BY <1>2, <1>3, <1>4, <1>5, <1>6

-----------------------------------------------------------------------------
(* The theorems *)

LEMMA Initially == Init => Inv
<1> SUFFICES ASSUME Init PROVE Inv
  OBVIOUS
<1>1. TypeOK
  BY InitTyped
<1>2. ASSUME NEW d \in Devices PROVE Following(d)
  BY EmptyAtStart DEF Init
<1>3. ASSUME NEW d \in Devices
      PROVE  /\ DOMAIN main[d] = {} /\ DOMAIN writes[d] = {}
             /\ checks[d] = {} /\ creating[d] = {} /\ signing[d] = {}
  BY DEF Init
<1>4. Known
  <2>1. \A a \in Accounts : profile[a] # NoName => a \in created
    BY DEF Init
  <2> QED
    BY <1>3, <2>1 DEF Init, Known
<1>5. Naming
  <2>1. ProfileIsOwn
    BY DEF Init, ProfileIsOwn
  <2>2. ASSUME NEW d \in Devices PROVE OneAttempt(d) /\ OwnName(d)
    <3>1. Telling(d) = {}
      BY <1>3 DEF Telling
    <3> QED
      BY <1>3, <3>1 DEF OneAttempt, AtMostOne, OwnName
  <2> QED
    BY <2>1, <2>2 DEF Naming
<1>6. Unraced
  <2>1. ASSUME NEW n \in Names \ raced PROVE Unique(n)
    <3>1. Registering(n) = {} /\ Completing(n) = {} /\ Writing(n) = {}
      BY <1>3 DEF Registering, Completing, Writing
    <3>2. AtMostOne(Owning(n))
      BY DEF Init, Owning, AtMostOne
    <3> QED
      BY <3>1, <3>2 DEF Unique, AtMostOne
  <2> QED
    BY <2>1 DEF Unraced
<1> QED
  BY <1>1, <1>2, <1>4, <1>5, <1>6 DEF Inv

LEMMA Stepping == Inv /\ [Next]_vars => Inv'
<1> SUFFICES ASSUME Inv, [Next]_vars PROVE Inv'
  OBVIOUS
<1>1. TypeOK /\ Known /\ Naming /\ Unraced /\ \A d \in Devices : Following(d) /\ Tasks(d)
  BY DEF Inv, Following, Queued
<1>2. TypeOK'
  BY <1>1, Typing
<1>3. CASE UNCHANGED vars
  <2>1. UNCHANGED <<created, profile, saved, loaded, main, heeds, listeners, app, shown, reads, checks,
                    creating, signing, writes, chosen, raced, crossed, late>>
    BY <1>3 DEF vars, remote, auth, ui, calls, history
  <2>2. \A d \in Devices : Following(d)'
    BY <1>1, <2>1, Same DEF Following
  <2>3. Known'
    BY <1>1, <2>1 DEF Known
  <2>4. Naming'
    BY <1>1, <2>1 DEF Naming, ProfileIsOwn, OneAttempt, OwnName, Telling
  <2>5. Unraced'
    <3>1. ASSUME NEW n \in Names
          PROVE  /\ Registering(n)' = Registering(n) /\ Completing(n)' = Completing(n)
                 /\ Writing(n)' = Writing(n) /\ Owning(n)' = Owning(n)
      BY <2>1 DEF Registering, Completing, Writing, Owning
    <3> QED
      BY <1>1, <2>1, <3>1 DEF Unraced, Unique
  <2> QED
    BY <1>2, <2>2, <2>3, <2>4, <2>5 DEF Inv
<1>4. ASSUME NEW d \in Devices, StepOf(d) PROVE Inv'
  <2>1. ASSUME NEW e \in Devices PROVE Following(e)'
    <3>1. CASE e = d
      BY <1>1, <1>4, <3>1, FollowingStep
    <3>2. CASE e # d
      <4>1. Elsewhere(e)
        BY <1>1, <1>4, <3>2, StepsElsewhere
      <4> QED
        BY <1>1, <4>1, Same DEF Elsewhere, Following
    <3> QED
      BY <3>1, <3>2
  <2>2. Known'
    BY <1>1, <1>4, KnownStep
  <2>3. Naming'
    BY <1>1, <1>4, NamingStep
  <2>4. Unraced'
    BY <1>1, <1>4, UnracedStep
  <2> QED
    BY <1>2, <2>1, <2>2, <2>3, <2>4 DEF Inv
<1> QED
  BY <1>3, <1>4, Steps

LEMMA Invariance == Spec => []Inv
BY Initially, Stepping, PTL DEF Spec

(* The variables keep their types in every reachable state, for any        *)
(* devices, accounts and names and any number of presses and faults.       *)
THEOREM TypeCorrect == Spec => []TypeOK
<1>1. Inv => TypeOK
  BY DEF Inv
<1> QED
  BY <1>1, Invariance, PTL

(* FIRAuth leaves no listener and no Firestore SDK behind: whoever is not  *)
(* about to be told was told of the user who is current, across starts,    *)
(* sign-ins, sign-outs and sign-ups in any order.                         *)
THEOREM EverybodyIsTold == Spec => []EverybodyTold
<1>1. Inv => EverybodyTold
  BY DEF Inv, Following, Queued, Told, EverybodyTold
<1> QED
  BY <1>1, Invariance, PTL

(* The FirebaseSession on the screen follows FIRAuth: told and answered,   *)
(* it has the current user or none, and isLoggedIn says whether there is   *)
(* one, whatever other objects and their listeners were left by log-outs.  *)
THEOREM ScreenIsRight == Spec => []ScreenFollows
<1>1. ASSUME Inv PROVE ScreenFollows
  <2> SUFFICES ASSUME NEW d \in Devices, ~Notifying(d), Listens(d)
               PROVE  /\ Visible(d).isLoggedIn = (currentUser(d) # Nobody)
                      /\ \/ \E a \in Accounts : reads[d][shown[d]][a] > 0
                         \/ shown[d] \in late[d]
                         \/ Visible(d).session \in {Nobody, currentUser(d)}
    BY DEF ScreenFollows
  <2>1. /\ TypeOK /\ Shows(d) /\ Settled(d)
        /\ \A l \in DOMAIN listeners[d] :
              \/ listeners[d][l].told = currentUser(d)
              \/ listeners[d][l].told = Unheard /\ Hearing(d, l)
    BY <1>1 DEF Inv, Following, Queued, Screens, Told
  <2>2. /\ currentUser(d) \in Users /\ shown[d] \in Instances /\ Unheard \notin Users
        /\ app[d][shown[d]].session \in Users
    BY <2>1, MainTyped, Parts DEF AppType, Users
  <2>3. PICK l \in DOMAIN listeners[d] :
           listeners[d][l].instance = shown[d] /\ listeners[d][l].told = currentUser(d)
    BY <2>1 DEF Listens
  <2>4. \A u \in Users : ToldOf(d, shown[d], u) => u = currentUser(d)
    BY <2>1, <2>2 DEF ToldOf
  <2>5. ToldOf(d, shown[d], currentUser(d))
    BY <2>3 DEF ToldOf
  <2>6. Visible(d).isLoggedIn = (currentUser(d) # Nobody)
    BY <2>1, <2>2, <2>4, <2>5 DEF Shows
  <2>7. \/ Visible(d).session = Nobody \/ shown[d] \in late[d]
        \/ \E a \in Accounts : reads[d][shown[d]][a] > 0
        \/ listeners[d][l].told \in {Visible(d).session, Unheard}
    BY <2>1, <2>2, <2>3 DEF Settled, Visible
  <2> QED
    BY <2>2, <2>3, <2>6, <2>7
<1> QED
  BY <1>1, Invariance, PTL

(* A profile carries the name its account was registered with, as long as  *)
(* no device begins a sign-in or sign-up before the last one has ended.    *)
THEOREM OwnProfiles == Spec => []ProfileIsOwn
<1>1. Inv => ProfileIsOwn
  BY DEF Inv, Naming
<1> QED
  BY <1>1, Invariance, PTL

(* Two accounts have one user name only if registrations raced for it, one *)
(* was checked offline, or a device's own pending write hid its owner.     *)
THEOREM UniqueNames == Spec => []UniqueUnlessRaced
<1>1. ASSUME Inv PROVE UniqueUnlessRaced
  <2> SUFFICES ASSUME NEW a \in Accounts, NEW b \in Accounts, a # b, profile[a] = profile[b],
                      profile[a] \notin raced \cup {NoName}
               PROVE  FALSE
    BY DEF UniqueUnlessRaced
  <2> DEFINE n == profile[a]
  <2>1. n \in Names \ raced
    BY <1>1, Parts DEF Inv
  <2>2. Unique(n)
    BY <1>1, <2>1 DEF Inv, Unraced
  <2>3. a \in Owning(n) /\ b \in Owning(n)
    BY DEF Owning
  <2> HIDE DEF n
  <2> QED
    BY <2>2, <2>3 DEF Unique, AtMostOne
<1> QED
  BY <1>1, Invariance, PTL
=============================================================================
