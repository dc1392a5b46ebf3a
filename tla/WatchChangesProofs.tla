------------------------- MODULE WatchChangesProofs -------------------------
(***************************************************************************)
(* WatchChanges, for any targets and bounds.                               *)
(***************************************************************************)
EXTENDS WatchChanges, FiniteSetTheorems, SequenceTheorems, WellFoundedInduction, TLAPS

USE WatchChangesAssumption

-----------------------------------------------------------------------------
(* Two messages of the wire, what was asked and what was said *)

About(m, k) == m.type # "snapshot" /\ m.key = k
Says(type, m, k) == m.type = type /\ m.key = k

\* Requests: none is about k; the last and the first that are.
Silent(q, k) == \A i \in DOMAIN q : q[i].key # k
LastRequest(q, k, i) == q[i].key = k /\ \A j \in DOMAIN q : j > i => q[j].key # k
FirstRequest(q, k, i) == q[i].key = k /\ \A j \in DOMAIN q : j < i => q[j].key # k

\* All answers about k that are under way come before i.
AnsweredBefore(s, k, i) == \A j \in DOMAIN s : IsAnswer(s[j], k) => j < i
NoReset(s, k, c, i) == \A j \in DOMAIN s : c < j /\ j < i => ~Says("reset", s[j], k)

\* When k last changed in l, up to a time, and whether it then existed.
LastOf(l, k, t) == LET C == {i \in 1..t : l[i].key = k} IN IF C = {} THEN 0 ELSE Max(C)
Existed(l, k, t) == LastOf(l, k, t) > 0 /\ l[LastOf(l, k, t)].exists

-----------------------------------------------------------------------------
(* The inductive invariant, for a target k listened to for the g-th time,  *)
(* with v what the server has of it and L what is listened to              *)

\* Watching and unwatching are asked in turn, what is wanted last; a target
\* is not served when it is watched anew or was refused or is not wanted.
Alternates(q, k) ==
    \A i, j \in DOMAIN q :
       /\ i < j /\ q[i].key = k /\ q[j].key = k
       /\ \A h \in DOMAIN q : i < h /\ h < j => q[h].key # k
       => q[i].op # q[j].op \/ q[j].op = "unwatch"
WantedLast(q, k, g, L) ==
    \A i \in DOMAIN q : LastRequest(q, k, i) => q[i].gen = g /\ (q[i].op = "watch" <=> k \in L)
WatchedAnew(q, k, v) ==
    \A i \in DOMAIN q : FirstRequest(q, k, i) /\ q[i].op = "watch" => v.status = "off"
Unserved(q, k, L, v) == k \notin L /\ Silent(q, k) => v.status = "off"
Refused(q, s, k, v) ==
    \A i \in DOMAIN s :
       Says("rejected", s[i], k) /\ AnsweredBefore(s, k, i + 1) /\ Silent(q, k) => v.status = "off"
Asking(q, s, k, g, L, v) ==
    /\ Alternates(q, k) /\ WantedLast(q, k, g, L)
    /\ WatchedAnew(q, k, v) /\ Unserved(q, k, L, v) /\ Refused(q, s, k, v)

\* What is said after the last answer is about the present listen, and a
\* snapshot after it is not older.
SaidNow(s, k, g, t, v) ==
    /\ v.status # "off" => v.gen = g
    /\ \A i \in DOMAIN s :
          AnsweredBefore(s, k, i + 1) /\ About(s[i], k) => s[i].gen = g /\ s[i].type # "removed"
    /\ \A i \in DOMAIN s : AnsweredBefore(s, k, i) /\ s[i].type = "snapshot" => s[i].at >= t

\* Documents come in the order of their times, and as they were then; u is
\* the one received last.
InOrder(s, k, u) ==
    /\ \A i, j \in DOMAIN s :
          i < j /\ Says("document", s[i], k) /\ Says("document", s[j], k) => s[i].at <= s[j].at
    /\ \A i \in DOMAIN s : Says("document", s[i], k) /\ u # Nothing => u.at <= s[i].at
Truly(l, k, doc) ==
    /\ LastOf(l, k, doc.at) = doc.at
    /\ doc.exists <=> Existed(l, k, doc.at)
AllTrue(s, k, u, l) ==
    /\ \A i \in DOMAIN s : Says("document", s[i], k) => Truly(l, k, s[i])
    /\ u # Nothing => Truly(l, k, u)

\* The device has k as of time t, or it is on its way and comes before i; n
\* is the time of what it has.
Knows(s, k, n, t, i) ==
    \/ t <= n
    \/ \E d \in DOMAIN s : /\ d < i /\ AnsweredBefore(s, k, d)
                           /\ Says("document", s[d], k) /\ s[d].at >= t

\* From c on, where 0 is now, the device takes the target to be current; c is
\* its state.
CurrentSince(s, k, e, c) ==
    /\ AnsweredBefore(s, k, c)
    /\ (c = 0 /\ e.current) \/ (c \in DOMAIN s /\ Says("current", s[c], k))

\* Who takes a target to be current is right, and knows what a snapshot says.
CurrentIsServed(s, k, e, v) ==
    \A c \in Nat : CurrentSince(s, k, e, c) /\ NoReset(s, k, c, Len(s) + 1) => v.status = "current"
SentIsKnown(s, k, n, v) == v.status # "off" => Knows(s, k, n, v.sent, Len(s) + 1)
SnapshotIsKnown(s, k, e, n, l) ==
    \A i \in DOMAIN s, c \in Nat :
       s[i].type = "snapshot" /\ c < i /\ CurrentSince(s, k, e, c) /\ NoReset(s, k, c, i)
          => Knows(s, k, n, LastOf(l, k, s[i].at), i)
Showing(s, k, e, n, v, l) ==
    CurrentIsServed(s, k, e, v) /\ SentIsKnown(s, k, n, v) /\ SnapshotIsKnown(s, k, e, n, l)

\* The time of the newest that the device has of k.
Held(k) == IF updates[k] # Nothing /\ updates[k].at > Have(k) THEN updates[k].at ELSE Have(k)

Watching(k) ==
    /\ InOrder(responses, k, updates[k])
    /\ AllTrue(responses, k, updates[k], log)
    /\ k \notin leaked => Asking(requests, responses, k, gen[k], listening, serving[k])
    /\ k \in listening \ leaked /\ Silent(requests, k)
          => SaidNow(responses, k, gen[k], since[k], serving[k])
    /\ k \in listening \ (leaked \cup stale) /\ Silent(requests, k)
          => Showing(responses, k, Ensure(k), Held(k), serving[k], log)

\* A closed stream leaves nothing behind.
Closed == ~open => \A k \in Targets : state[k] = Absent /\ serving[k].status = "off"

\* What the requests say the device has is no more than it has.
TokensOld == \A i \in DOMAIN requests : requests[i].have <= Have(requests[i].key)

Inv ==
    /\ TypeOK /\ IsFiniteSet(listening)
    /\ Closed /\ TokensOld
    /\ CountsUnlessRejected /\ NothingStrays
    /\ \A k \in Targets : Watching(k)
    /\ CacheIsTruthful /\ SyncedIsFresh

-----------------------------------------------------------------------------
(* Times of the log *)

LEMMA LeastIn == ASSUME NEW S, S \subseteq Nat, S # {} PROVE \E x \in S : \A y \in S : x <= y
<1> DEFINE R == {ss \in Nat \X Nat : ss[1] < ss[2]}
<1>1. IsWellFoundedOn(R, Nat)
  BY NatLessThanWellFounded DEF OpToRel
<1>2. \E x \in S : \A y \in S : <<y, x>> \notin R
  <2> HIDE DEF R
  <2> QED BY <1>1, WFMin
<1>3. \A x, y \in Nat : <<y, x>> \notin R => x <= y
  OBVIOUS
<1> HIDE DEF R
<1> QED
  BY <1>2, <1>3

LEMMA LargestIn ==
    ASSUME NEW S \in SUBSET Nat, S # {}, NEW b \in Nat, \A x \in S : x <= b
    PROVE  Max(S) \in S /\ \A x \in S : x <= Max(S)
<1> DEFINE U == {n \in Nat : \A x \in S : x <= n}
           P(x) == \A y \in S : x >= y
<1>1. PICK u \in U : \A n \in U : u <= n
  <2>1. U \subseteq Nat /\ b \in U
    OBVIOUS
  <2> QED
    BY <2>1, LeastIn
<1>2. u \in S
  <2> SUFFICES ASSUME u \notin S PROVE FALSE
    OBVIOUS
  <2>1. \A x \in S : x < u
    BY <1>1
  <2>2. u \in Nat /\ u - 1 \in Nat /\ u - 1 < u
    <3>1. PICK x \in S : TRUE
      OBVIOUS
    <3>2. x \in Nat /\ u \in Nat /\ x < u
      BY <2>1
    <3> QED
      BY <3>2
  <2>3. u - 1 \in U
    BY <2>1, <2>2
  <2> QED
    BY <2>2, <2>3, <1>1
<1>3. P(u)
  BY <1>1
<1>4. (CHOOSE x \in S : P(x)) \in S /\ P(CHOOSE x \in S : P(x))
  <2> HIDE DEF P
  <2> QED BY <1>2, <1>3
<1>5. Max(S) \in S /\ \A y \in S : Max(S) >= y
  BY <1>4 DEF Max
<1> HIDE DEF P
<1> QED BY <1>5
-----------------------------------------------------------------------------
(* Queues *)

LEMMA LastOfIs ==
    ASSUME NEW l, NEW k, NEW t \in Nat
    PROVE  /\ LastOf(l, k, t) \in 0..t
           /\ LastOf(l, k, t) > 0 => l[LastOf(l, k, t)].key = k
           /\ \A i \in 1..t : l[i].key = k => i <= LastOf(l, k, t)
<1> DEFINE C == {i \in 1..t : l[i].key = k}
<1>1. LastOf(l, k, t) = IF C = {} THEN 0 ELSE Max(C)
  BY DEF LastOf
<1>2. C \in SUBSET Nat /\ \A x \in C : x <= t
  OBVIOUS
<1>3. C # {} => Max(C) \in C /\ \A x \in C : x <= Max(C)
  <2> HIDE DEF C
  <2> QED
    BY <1>2, LargestIn
<1> QED
  BY <1>1, <1>3

LEMMA LastOfUnique ==
    ASSUME NEW l, NEW k, NEW t \in Nat, NEW n \in 0..t, n > 0 => l[n].key = k,
           \A i \in 1..t : l[i].key = k => i <= n
    PROVE  LastOf(l, k, t) = n
<1>1. /\ LastOf(l, k, t) \in 0..t
      /\ LastOf(l, k, t) > 0 => l[LastOf(l, k, t)].key = k
      /\ \A i \in 1..t : l[i].key = k => i <= LastOf(l, k, t)
  BY LastOfIs
<1> QED
  BY <1>1

LEMMA LastOfOrder ==
    ASSUME NEW l, NEW k, NEW t \in Nat, NEW u \in Nat, t <= u
    PROVE  /\ LastOf(l, k, t) <= LastOf(l, k, u)
           /\ LastOf(l, k, u) <= t => LastOf(l, k, t) = LastOf(l, k, u)
<1>1. /\ LastOf(l, k, t) \in 0..t
      /\ LastOf(l, k, t) > 0 => l[LastOf(l, k, t)].key = k
      /\ \A i \in 1..t : l[i].key = k => i <= LastOf(l, k, t)
  BY LastOfIs
<1>2. /\ LastOf(l, k, u) \in 0..u
      /\ LastOf(l, k, u) > 0 => l[LastOf(l, k, u)].key = k
      /\ \A i \in 1..u : l[i].key = k => i <= LastOf(l, k, u)
  BY LastOfIs
<1> QED
  BY <1>1, <1>2

\* The past does not change.
LEMMA LastOfPast ==
    ASSUME NEW l, NEW m, NEW k, NEW t \in Nat, \A i \in 1..t : m[i] = l[i]
    PROVE  LastOf(m, k, t) = LastOf(l, k, t) /\ Existed(m, k, t) = Existed(l, k, t)
<1>1. /\ LastOf(l, k, t) \in 0..t
      /\ LastOf(l, k, t) > 0 => l[LastOf(l, k, t)].key = k
      /\ \A i \in 1..t : l[i].key = k => i <= LastOf(l, k, t)
  BY LastOfIs
<1>2. LastOf(m, k, t) = LastOf(l, k, t)
  BY <1>1, LastOfUnique
<1>3. LastOf(l, k, t) > 0 => m[LastOf(l, k, t)] = l[LastOf(l, k, t)]
  BY <1>1
<1> QED
  BY <1>2, <1>3 DEF Existed

LEMMA SameTimes ==
    ASSUME NEW k, NEW t
    PROVE  LastChange(k, t) = LastOf(log, k, t) /\ ExistsAt(k, t) = Existed(log, k, t)
BY DEF LastChange, Changed, LastOf, ExistsAt, Existed

-----------------------------------------------------------------------------
(* Sequences *)

LEMMA Taken ==
    ASSUME NEW S, NEW s \in Seq(S), s # <<>>
    PROVE  /\ Head(s) = s[1] /\ 1 \in DOMAIN s /\ Head(s) \in S /\ Tail(s) \in Seq(S)
           /\ Len(s) \in Nat /\ Len(s) > 0 /\ Len(Tail(s)) = Len(s) - 1
           /\ \A i \in DOMAIN Tail(s) : i \in Nat /\ i > 0 /\ i + 1 \in DOMAIN s /\ Tail(s)[i] = s[i + 1]
           /\ \A i \in DOMAIN s : \/ i = 1
                                 \/ /\ i \in Nat /\ i > 1 /\ i - 1 \in DOMAIN Tail(s)
                                    /\ s[i] = Tail(s)[i - 1]
<1>1. Len(s) \in Nat /\ Len(s) # 0 /\ DOMAIN s = 1..Len(s)
  BY EmptySeq
<1>2. /\ Head(s) \in S /\ Tail(s) \in Seq(S) /\ Len(Tail(s)) = Len(s) - 1
      /\ \A i \in 1 .. Len(Tail(s)) : Tail(s)[i] = s[i+1]
  BY HeadTailProperties
<1>3. Head(s) = s[1] /\ DOMAIN Tail(s) = 1..(Len(s) - 1)
  BY <1>1, <1>2
<1>4. ASSUME NEW i \in DOMAIN s, i # 1
      PROVE  i \in Nat /\ i > 1 /\ i - 1 \in DOMAIN Tail(s) /\ s[i] = Tail(s)[i - 1]
  <2>1. i \in Nat /\ i > 1 /\ i - 1 \in 1..Len(Tail(s)) /\ (i - 1) + 1 = i
    BY <1>1, <1>2, <1>4
  <2> QED
    BY <1>1, <1>2, <1>3, <2>1
<1> QED
  BY <1>1, <1>2, <1>3, <1>4

LEMMA Added ==
    ASSUME NEW S, NEW s \in Seq(S), NEW m \in S
    PROVE  /\ Append(s, m) \in Seq(S) /\ Len(s) \in Nat /\ Len(Append(s, m)) = Len(s) + 1
           /\ Len(s) + 1 \in DOMAIN Append(s, m) /\ Append(s, m)[Len(s) + 1] = m
           /\ \A i \in DOMAIN s : /\ i \in Nat /\ i > 0 /\ i <= Len(s)
                                  /\ i \in DOMAIN Append(s, m) /\ Append(s, m)[i] = s[i]
           /\ \A i \in DOMAIN Append(s, m) : i \in DOMAIN s \/ i = Len(s) + 1
<1>1. /\ Len(s) \in Nat /\ DOMAIN s = 1..Len(s) /\ DOMAIN Append(s, m) = 1..(Len(s) + 1)
      /\ Append(s, m) \in Seq(S) /\ Len(Append(s, m)) = Len(s) + 1
      /\ \A i \in 1..Len(s) : Append(s, m)[i] = s[i]
      /\ Append(s, m)[Len(s) + 1] = m
  BY AppendProperties
<1> QED
  BY <1>1

LEMMA InSomeOrder ==
    ASSUME NEW S, IsFiniteSet(S)
    PROVE  /\ SetToSeq(S) \in Seq(S)
           /\ \A i, j \in DOMAIN SetToSeq(S) : SetToSeq(S)[i] = SetToSeq(S)[j] => i = j
           /\ \A x \in S : \E i \in DOMAIN SetToSeq(S) : SetToSeq(S)[i] = x
<1> DEFINE n == Cardinality(S)
           q == SetToSeq(S)
<1>1. n \in Nat /\ ExistsBijection(1..n, S)
  BY FS_CardinalityType
<1>2. IsFiniteSet(1..n) /\ Cardinality(1..n) = n
  BY <1>1, FS_Interval
<1>3. Cardinality(S) = n
  OBVIOUS
<1> HIDE DEF n
<1>4. \E f \in [1..n -> S] : IsInjective(f)
  BY <1>1 DEF ExistsBijection, Bijection, Injection
<1>5. q \in [1..n -> S] /\ IsInjective(q)
  BY <1>4 DEF SetToSeq, n
<1> HIDE DEF q
<1>6. q \in Injection(1..n, S)
  BY <1>5 DEF Injection, IsInjective
<1>7. q \in Surjection(1..n, S)
  BY <1>2, <1>3, <1>6, FS_Injection
<1>8. q \in Seq(S) /\ DOMAIN q = 1..n
  BY <1>1, <1>5
<1>9. \A i, j \in DOMAIN q : q[i] = q[j] => i = j
  BY <1>5 DEF IsInjective
<1>10. \A x \in S : \E i \in DOMAIN q : q[i] = x
  BY <1>7, <1>8 DEF Surjection
<1> QED
  BY <1>8, <1>9, <1>10 DEF q

-----------------------------------------------------------------------------
(* Counting the answers that are due *)

Asks(q, k) == {i \in DOMAIN q : q[i].key = k}
Answers(s, k) == {i \in DOMAIN s : IsAnswer(s[i], k)}
Due(q, s, k) == Cardinality(Asks(q, k)) + Cardinality(Answers(s, k))

LEMMA FewPlaces ==
    ASSUME NEW n \in Nat, NEW P \in SUBSET (1..n)
    PROVE  IsFiniteSet(P) /\ Cardinality(P) \in Nat
<1>1. IsFiniteSet(1..n)
  BY FS_Interval
<1>2. IsFiniteSet(P)
  BY <1>1, FS_Subset
<1> QED
  BY <1>2, FS_CardinalityType

LEMMA OneMore ==
    ASSUME NEW n \in Nat, NEW P \in SUBSET (1..n)
    PROVE  Cardinality(P \cup {n + 1}) = Cardinality(P) + 1
<1>1. n + 1 \notin P
  OBVIOUS
<1> QED
  BY <1>1, FewPlaces, FS_AddElement

LEMMA OneLess ==
    ASSUME NEW n \in Nat, NEW P \in SUBSET (1..n), NEW Q, Q = {i \in 1..(n - 1) : i + 1 \in P}
    PROVE  Cardinality(Q) = Cardinality(P) - (IF 1 \in P THEN 1 ELSE 0)
<1> DEFINE f == [i \in Q |-> i + 1]
           R == P \ {1}
<1>1. f \in [Q -> R]
  OBVIOUS
<1>2. \A i, j \in Q : f[i] = f[j] => i = j
  OBVIOUS
<1>3. \A x \in R : x - 1 \in Q /\ f[x - 1] = x
  OBVIOUS
<1> HIDE DEF f
<1>4. f \in Bijection(Q, R)
  BY <1>1, <1>2, <1>3 DEF Bijection, Injection, Surjection, IsInjective
<1>5. Q \in SUBSET (1..n)
  OBVIOUS
<1> HIDE DEF R
<1>6. IsFiniteSet(Q) /\ IsFiniteSet(P) /\ Cardinality(P) \in Nat
  BY <1>5, FewPlaces
<1>7. ExistsBijection(Q, R)
  BY <1>4 DEF ExistsBijection
<1>8. Cardinality(R) = Cardinality(Q)
  BY <1>6, <1>7, FS_Bijection
<1>9. Cardinality(R) = IF 1 \in P THEN Cardinality(P) - 1 ELSE Cardinality(P)
  BY <1>6, FS_RemoveElement DEF R
<1> QED
  BY <1>6, <1>8, <1>9

LEMMA DueTypes ==
    ASSUME NEW S, NEW T, NEW q \in Seq(S), NEW s \in Seq(T), NEW k
    PROVE  /\ Asks(q, k) \in SUBSET (1..Len(q)) /\ Answers(s, k) \in SUBSET (1..Len(s))
           /\ Cardinality(Asks(q, k)) \in Nat /\ Cardinality(Answers(s, k)) \in Nat
           /\ Due(q, s, k) \in Nat
<1>1. /\ Asks(q, k) \in SUBSET (1..Len(q)) /\ Answers(s, k) \in SUBSET (1..Len(s))
      /\ Len(q) \in Nat /\ Len(s) \in Nat
  BY DEF Asks, Answers
<1>2. Cardinality(Asks(q, k)) \in Nat /\ Cardinality(Answers(s, k)) \in Nat
  BY <1>1, FewPlaces
<1> QED
  BY <1>1, <1>2 DEF Due

LEMMA DueAsked ==
    ASSUME NEW S, NEW T, NEW q \in Seq(S), NEW s \in Seq(T), NEW k, NEW r \in S
    PROVE  Due(Append(q, r), s, k) = Due(q, s, k) + (IF r.key = k THEN 1 ELSE 0)
<1>1. Asks(Append(q, r), k) = Asks(q, k) \cup (IF r.key = k THEN {Len(q) + 1} ELSE {})
  BY Added DEF Asks
<1>2. /\ Cardinality(Asks(q, k)) \in Nat /\ Cardinality(Answers(s, k)) \in Nat
      /\ Asks(q, k) \in SUBSET (1..Len(q)) /\ Len(q) \in Nat
  BY DueTypes
<1>3. CASE r.key = k
  <2>1. Asks(Append(q, r), k) = Asks(q, k) \cup {Len(q) + 1}
    BY <1>1, <1>3
  <2>2. Cardinality(Asks(Append(q, r), k)) = Cardinality(Asks(q, k)) + 1
    BY <1>2, <2>1, OneMore
  <2> QED
    BY <1>2, <1>3, <2>2 DEF Due
<1>4. CASE r.key # k
  <2>1. Asks(Append(q, r), k) = Asks(q, k)
    BY <1>1, <1>4
  <2> QED
    BY <1>2, <1>4, <2>1 DEF Due
<1> QED
  BY <1>3, <1>4

LEMMA DueTold ==
    ASSUME NEW S, NEW T, NEW q \in Seq(S), NEW s \in Seq(T), NEW k, NEW m \in T
    PROVE  Due(q, Append(s, m), k) = Due(q, s, k) + (IF IsAnswer(m, k) THEN 1 ELSE 0)
<1>1. Answers(Append(s, m), k) = Answers(s, k) \cup (IF IsAnswer(m, k) THEN {Len(s) + 1} ELSE {})
  BY Added DEF Answers
<1>2. /\ Cardinality(Asks(q, k)) \in Nat /\ Cardinality(Answers(s, k)) \in Nat
      /\ Answers(s, k) \in SUBSET (1..Len(s)) /\ Len(s) \in Nat
  BY DueTypes
<1>3. CASE IsAnswer(m, k)
  <2>1. Answers(Append(s, m), k) = Answers(s, k) \cup {Len(s) + 1}
    BY <1>1, <1>3
  <2>2. Cardinality(Answers(Append(s, m), k)) = Cardinality(Answers(s, k)) + 1
    BY <1>2, <2>1, OneMore
  <2> QED
    BY <1>2, <1>3, <2>2 DEF Due
<1>4. CASE ~IsAnswer(m, k)
  <2>1. Answers(Append(s, m), k) = Answers(s, k)
    BY <1>1, <1>4
  <2> QED
    BY <1>2, <1>4, <2>1 DEF Due
<1> QED
  BY <1>3, <1>4

LEMMA DueHeard ==
    ASSUME NEW S, NEW T, NEW q \in Seq(S), NEW s \in Seq(T), NEW k, s # <<>>
    PROVE  Due(q, Tail(s), k) = Due(q, s, k) - (IF IsAnswer(Head(s), k) THEN 1 ELSE 0)
<1>1. /\ Cardinality(Asks(q, k)) \in Nat /\ Cardinality(Answers(s, k)) \in Nat
      /\ Answers(s, k) \in SUBSET (1..Len(s)) /\ Len(s) \in Nat
  BY DueTypes
<1>2. Answers(Tail(s), k) = {i \in 1..(Len(s) - 1) : i + 1 \in Answers(s, k)}
  BY Taken DEF Answers
<1>3. 1 \in Answers(s, k) <=> IsAnswer(Head(s), k)
  BY Taken DEF Answers
<1>4. Cardinality(Answers(Tail(s), k))
         = Cardinality(Answers(s, k)) - (IF 1 \in Answers(s, k) THEN 1 ELSE 0)
  BY <1>1, <1>2, OneLess
<1>5. CASE IsAnswer(Head(s), k)
  BY <1>1, <1>3, <1>4, <1>5 DEF Due
<1>6. CASE ~IsAnswer(Head(s), k)
  BY <1>1, <1>3, <1>4, <1>6 DEF Due
<1> QED
  BY <1>5, <1>6

LEMMA DueServed ==
    ASSUME NEW S, NEW T, NEW q \in Seq(S), NEW s \in Seq(T), NEW k, q # <<>>
    PROVE  Due(Tail(q), s, k) = Due(q, s, k) - (IF Head(q).key = k THEN 1 ELSE 0)
<1>1. /\ Cardinality(Asks(q, k)) \in Nat /\ Cardinality(Answers(s, k)) \in Nat
      /\ Asks(q, k) \in SUBSET (1..Len(q)) /\ Len(q) \in Nat
  BY DueTypes
<1>2. Asks(Tail(q), k) = {i \in 1..(Len(q) - 1) : i + 1 \in Asks(q, k)}
  BY Taken DEF Asks
<1>3. 1 \in Asks(q, k) <=> Head(q).key = k
  BY Taken DEF Asks
<1>4. Cardinality(Asks(Tail(q), k)) = Cardinality(Asks(q, k)) - (IF 1 \in Asks(q, k) THEN 1 ELSE 0)
  BY <1>1, <1>2, OneLess
<1> QED
  BY <1>1, <1>3, <1>4 DEF Due

LEMMA NoneDue ==
    ASSUME NEW S, NEW T, NEW q \in Seq(S), NEW s \in Seq(T), NEW k
    PROVE  Due(q, s, k) = 0 <=> Silent(q, k) /\ AnsweredBefore(s, k, 1)
<1>1. /\ Cardinality(Asks(q, k)) \in Nat /\ Cardinality(Answers(s, k)) \in Nat
      /\ IsFiniteSet(Asks(q, k)) /\ IsFiniteSet(Answers(s, k))
  <2>1. Asks(q, k) \in SUBSET (1..Len(q)) /\ Answers(s, k) \in SUBSET (1..Len(s))
    BY DueTypes
  <2>2. Len(q) \in Nat /\ Len(s) \in Nat
    OBVIOUS
  <2> QED
    BY <2>1, <2>2, FewPlaces
<1>2. Asks(q, k) = {} <=> Silent(q, k)
  BY DEF Asks, Silent
<1>3. Answers(s, k) = {} <=> AnsweredBefore(s, k, 1)
  BY DEF Answers, AnsweredBefore
<1>4. Due(q, s, k) = 0 <=> Cardinality(Asks(q, k)) = 0 /\ Cardinality(Answers(s, k)) = 0
  BY <1>1 DEF Due
<1> QED
  BY <1>1, <1>2, <1>3, <1>4, FS_EmptySet

\* The last answer that is due comes next.
LEMMA LastDue ==
    ASSUME NEW S, NEW T, NEW q \in Seq(S), NEW s \in Seq(T), NEW k, s # <<>>,
           IsAnswer(Head(s), k), Due(q, s, k) = 1
    PROVE  Silent(q, k) /\ AnsweredBefore(s, k, 2)
<1>1. Due(q, Tail(s), k) = 0 /\ Tail(s) \in Seq(T)
  BY DueHeard, Taken
<1>2. Silent(q, k) /\ AnsweredBefore(Tail(s), k, 1)
  BY <1>1, NoneDue
<1>3. AnsweredBefore(s, k, 2)
  <2>1. \A j \in DOMAIN s : j = 1 \/ (j \in Nat /\ j > 1 /\ j - 1 \in DOMAIN Tail(s))
    BY Taken
  <2>2. \A i \in DOMAIN Tail(s) : i \in Nat /\ i > 0 /\ Tail(s)[i] = s[i + 1]
    BY Taken
  <2>3. ASSUME NEW j \in DOMAIN s, IsAnswer(s[j], k), j # 1 PROVE FALSE
    <3>1. j - 1 \in DOMAIN Tail(s) /\ j \in Nat
      BY <2>1, <2>3
    <3>2. Tail(s)[j - 1] = s[j]
      BY <2>2, <3>1
    <3>3. j - 1 < 1
      BY <1>2, <2>3, <3>1, <3>2 DEF AnsweredBefore
    <3> QED
      BY <2>2, <3>1, <3>3
  <2> QED
    BY <2>3 DEF AnsweredBefore
<1> QED
  BY <1>2, <1>3

LEMMA SameCount == ASSUME NEW k PROVE Requested(k) + Answered(k) = Due(requests, responses, k)
BY DEF Requested, Answered, Due, Asks, Answers

-----------------------------------------------------------------------------
(* What is asked *)

LEMMA AnswersMore ==
    ASSUME NEW T, NEW s \in Seq(T), NEW m \in T, NEW k, NEW i, AnsweredBefore(Append(s, m), k, i)
    PROVE  AnsweredBefore(s, k, i) /\ (IsAnswer(m, k) => Len(s) + 1 < i)
BY Added DEF AnsweredBefore

LEMMA AnswersSame ==
    ASSUME NEW T, NEW s \in Seq(T), NEW m \in T, NEW k, NEW i, ~IsAnswer(m, k)
    PROVE  AnsweredBefore(s, k, i) <=> AnsweredBefore(Append(s, m), k, i)
BY Added DEF AnsweredBefore

LEMMA AnswersLess ==
    ASSUME NEW T, NEW s \in Seq(T), s # <<>>, NEW k, NEW i \in Nat
    PROVE  /\ i > 0 => (AnsweredBefore(Tail(s), k, i) <=> AnsweredBefore(s, k, i + 1))
           /\ ~IsAnswer(Head(s), k) => (AnsweredBefore(Tail(s), k, i) <=> AnsweredBefore(s, k, i + 1))
<1> DEFINE t == Tail(s)
<1>1. /\ \A j \in DOMAIN s : j = 1 \/ (j \in Nat /\ j > 1 /\ j - 1 \in DOMAIN t)
      /\ \A j \in DOMAIN t : j \in Nat /\ j > 0 /\ j + 1 \in DOMAIN s /\ t[j] = s[j + 1]
      /\ Head(s) = s[1] /\ 1 \in DOMAIN s
  BY Taken
<1> HIDE DEF t
<1>2. ASSUME AnsweredBefore(t, k, i), i > 0 \/ ~IsAnswer(Head(s), k)
      PROVE  AnsweredBefore(s, k, i + 1)
  <2> SUFFICES ASSUME NEW j \in DOMAIN s, IsAnswer(s[j], k) PROVE j < i + 1
    BY DEF AnsweredBefore
  <2> SUFFICES ASSUME j # 1 PROVE j < i + 1
    <3>1. CASE j = 1 /\ i > 0
      BY <3>1
    <3>2. CASE j = 1 /\ ~IsAnswer(Head(s), k)
      BY <1>1, <3>2
    <3> QED
      BY <1>2, <3>1, <3>2
  <2>1. j - 1 \in DOMAIN t /\ j \in Nat
    BY <1>1
  <2>2. t[j - 1] = s[j]
    BY <1>1, <2>1
  <2>3. j - 1 < i
    BY <1>2, <2>1, <2>2 DEF AnsweredBefore
  <2> QED
    BY <2>1, <2>3
<1>3. ASSUME AnsweredBefore(s, k, i + 1) PROVE AnsweredBefore(t, k, i)
  <2> SUFFICES ASSUME NEW j \in DOMAIN t, IsAnswer(t[j], k) PROVE j < i
    BY DEF AnsweredBefore
  <2>1. j + 1 < i + 1 /\ j \in Nat
    BY <1>1, <1>3 DEF AnsweredBefore
  <2> QED
    BY <2>1
<1> QED
  BY <1>2, <1>3 DEF t

LEMMA NothingAsked ==
    ASSUME NEW k, NEW g, NEW L, NEW v, v.status = "off"
    PROVE  Asking(<<>>, <<>>, k, g, L, v)
<1>1. DOMAIN <<>> = {}
  OBVIOUS
<1> QED
  BY <1>1 DEF Asking, Alternates, WantedLast, WatchedAnew, Unserved, Refused

\* The device hears something.
LEMMA AskingHeard ==
    ASSUME NEW T, NEW q, NEW s \in Seq(T), s # <<>>, NEW k, NEW g, NEW L, NEW v,
           Asking(q, s, k, g, L, v)
    PROVE  Asking(q, Tail(s), k, g, L, v)
<1> SUFFICES ASSUME NEW i \in DOMAIN Tail(s), Says("rejected", Tail(s)[i], k),
                    AnsweredBefore(Tail(s), k, i + 1), Silent(q, k)
             PROVE  v.status = "off"
  BY DEF Asking, Refused
<1>1. i \in Nat /\ i + 1 \in Nat /\ i + 1 \in DOMAIN s /\ Tail(s)[i] = s[i + 1]
  BY Taken
<1>2. AnsweredBefore(s, k, (i + 1) + 1)
  BY <1>1, AnswersLess
<1> QED
  BY <1>1, <1>2 DEF Asking, Refused

\* The server says something that refuses nothing.
LEMMA AskingTold ==
    ASSUME NEW T, NEW q, NEW s \in Seq(T), NEW m \in T, NEW k, NEW g, NEW L, NEW v, NEW w,
           Asking(q, s, k, g, L, v), ~Says("rejected", m, k), v.status = "off" => w.status = "off"
    PROVE  Asking(q, Append(s, m), k, g, L, w)
<1>1. ASSUME NEW i \in DOMAIN Append(s, m), Says("rejected", Append(s, m)[i], k),
             AnsweredBefore(Append(s, m), k, i + 1), Silent(q, k)
      PROVE  w.status = "off"
  <2>1. i \in DOMAIN s /\ Append(s, m)[i] = s[i]
    BY <1>1, Added
  <2>2. AnsweredBefore(s, k, i + 1)
    BY <1>1, AnswersMore
  <2> QED
    BY <1>1, <2>1, <2>2 DEF Asking, Refused
<1> QED
  BY <1>1 DEF Asking, Refused, WatchedAnew, Unserved

LEMMA SilentMore ==
    ASSUME NEW S, NEW q \in Seq(S), NEW r \in S, NEW k
    PROVE  /\ Silent(Append(q, r), k) <=> Silent(q, k) /\ r.key # k
           /\ \A i \in DOMAIN q : /\ LastRequest(Append(q, r), k, i)
                                       <=> LastRequest(q, k, i) /\ r.key # k
                                  /\ FirstRequest(Append(q, r), k, i) <=> FirstRequest(q, k, i)
           /\ FirstRequest(Append(q, r), k, Len(q) + 1) <=> Silent(q, k) /\ r.key = k
<1> DEFINE p == Append(q, r)
           n == Len(q) + 1
<1>1. /\ Len(q) \in Nat /\ n \in Nat /\ n \in DOMAIN p /\ p[n] = r
      /\ \A i \in DOMAIN q : i \in Nat /\ i < n /\ i \in DOMAIN p /\ p[i] = q[i]
      /\ \A i \in DOMAIN p : i \in DOMAIN q \/ i = n
  <2>1. \A i \in DOMAIN q : i \in Nat /\ i <= Len(q) /\ Len(q) \in Nat => i < n
    OBVIOUS
  <2> QED
    BY <2>1, Added
<1> HIDE DEF p, n
<1>2. Silent(p, k) <=> Silent(q, k) /\ r.key # k
  BY <1>1 DEF Silent
<1>3. ASSUME NEW i \in DOMAIN q
      PROVE  LastRequest(p, k, i) <=> LastRequest(q, k, i) /\ r.key # k
  BY <1>1 DEF LastRequest
<1>4. ASSUME NEW i \in DOMAIN q
      PROVE  FirstRequest(p, k, i) <=> FirstRequest(q, k, i)
  <2>1. \A j \in DOMAIN p : j < i => j \in DOMAIN q
    BY <1>1
  <2> QED
    BY <1>1, <2>1 DEF FirstRequest
<1>5. FirstRequest(p, k, n) <=> Silent(q, k) /\ r.key = k
  <2>1. \A j \in DOMAIN p : j < n <=> j \in DOMAIN q
    BY <1>1
  <2> QED
    BY <1>1, <2>1 DEF FirstRequest, Silent
<1> QED
  BY <1>2, <1>3, <1>4, <1>5 DEF p, n

\* The device asks for the other: to watch what it did not, or to unwatch.
LEMMA AskingMore ==
    ASSUME NEW S, NEW q \in Seq(S), NEW r \in S, NEW s, NEW k, NEW g, NEW L, NEW h, NEW M, NEW v,
           Asking(q, s, k, g, L, v), r.key = k, r.gen = h, r.op \in {"watch", "unwatch"},
           r.op = "watch" <=> k \in M, k \in L <=> k \notin M
    PROVE  Asking(Append(q, r), s, k, h, M, v)
<1> DEFINE p == Append(q, r)
           n == Len(q) + 1
<1>1. /\ Len(q) \in Nat /\ n \in Nat /\ n \in DOMAIN p /\ p[n] = r
      /\ \A i \in DOMAIN q : i \in Nat /\ i < n /\ i \in DOMAIN p /\ p[i] = q[i]
      /\ \A i \in DOMAIN p : i \in DOMAIN q \/ i = n
  <2>1. \A i \in DOMAIN q : i \in Nat /\ i <= Len(q) /\ Len(q) \in Nat => i < n
    OBVIOUS
  <2> QED
    BY <2>1, Added
<1>2. /\ ~Silent(p, k)
      /\ \A i \in DOMAIN q : ~LastRequest(p, k, i)
      /\ \A i \in DOMAIN q : FirstRequest(p, k, i) <=> FirstRequest(q, k, i)
      /\ FirstRequest(p, k, n) <=> Silent(q, k)
  BY SilentMore
<1> HIDE DEF p, n
<1>3. Alternates(p, k)
  <2> SUFFICES ASSUME NEW i \in DOMAIN p, NEW j \in DOMAIN p, i < j, p[i].key = k, p[j].key = k,
                      \A x \in DOMAIN p : i < x /\ x < j => p[x].key # k
               PROVE  p[i].op # p[j].op \/ p[j].op = "unwatch"
    BY DEF Alternates
  <2>1. i \in DOMAIN q /\ p[i] = q[i]
    BY <1>1
  <2>2. CASE j \in DOMAIN q
    <3>1. \A x \in DOMAIN q : x \in DOMAIN p /\ p[x] = q[x]
      BY <1>1
    <3>2. \A x \in DOMAIN q : i < x /\ x < j => q[x].key # k
      BY <3>1
    <3> QED
      BY <1>1, <2>1, <2>2, <3>2 DEF Asking, Alternates
  <2>3. CASE j = n
    <3>1. LastRequest(q, k, i)
      BY <1>1, <2>1, <2>3 DEF LastRequest
    <3>2. q[i].op = "watch" <=> k \in L
      BY <2>1, <3>1 DEF Asking, WantedLast
    <3> QED
      BY <1>1, <2>1, <2>3, <3>2
  <2> QED
    BY <1>1, <2>2, <2>3
<1>4. WantedLast(p, k, h, M)
  BY <1>1, <1>2 DEF WantedLast
<1>5. WatchedAnew(p, k, v)
  <2>1. Silent(q, k) /\ r.op = "watch" => v.status = "off"
    BY DEF Asking, Unserved
  <2> QED
    BY <1>1, <1>2, <2>1 DEF Asking, WatchedAnew
<1>6. Unserved(p, k, M, v) /\ Refused(p, s, k, v)
  BY <1>2 DEF Unserved, Refused
<1> QED
  BY <1>3, <1>4, <1>5, <1>6 DEF Asking, p

\* ... or for another target.
LEMMA AskingOther ==
    ASSUME NEW S, NEW q \in Seq(S), NEW r \in S, NEW s, NEW k, NEW g, NEW L, NEW M, NEW v,
           Asking(q, s, k, g, L, v), r.key # k, k \in L <=> k \in M
    PROVE  Asking(Append(q, r), s, k, g, M, v)
<1> DEFINE p == Append(q, r)
           n == Len(q) + 1
<1>1. /\ Len(q) \in Nat /\ n \in Nat /\ n \in DOMAIN p /\ p[n] = r
      /\ \A i \in DOMAIN q : i \in Nat /\ i < n /\ i \in DOMAIN p /\ p[i] = q[i]
      /\ \A i \in DOMAIN p : i \in DOMAIN q \/ i = n
  <2>1. \A i \in DOMAIN q : i \in Nat /\ i <= Len(q) /\ Len(q) \in Nat => i < n
    OBVIOUS
  <2> QED
    BY <2>1, Added
<1>2. /\ Silent(p, k) <=> Silent(q, k)
      /\ \A i \in DOMAIN q : LastRequest(p, k, i) <=> LastRequest(q, k, i)
      /\ \A i \in DOMAIN q : FirstRequest(p, k, i) <=> FirstRequest(q, k, i)
  BY SilentMore
<1> HIDE DEF p, n
<1>3. Alternates(p, k)
  <2> SUFFICES ASSUME NEW i \in DOMAIN p, NEW j \in DOMAIN p, i < j, p[i].key = k, p[j].key = k,
                      \A x \in DOMAIN p : i < x /\ x < j => p[x].key # k
               PROVE  p[i].op # p[j].op \/ p[j].op = "unwatch"
    BY DEF Alternates
  <2>1. i \in DOMAIN q /\ p[i] = q[i] /\ j \in DOMAIN q /\ p[j] = q[j]
    BY <1>1
  <2>2. \A x \in DOMAIN q : i < x /\ x < j => q[x].key # k
    BY <1>1
  <2> QED
    BY <2>1, <2>2 DEF Asking, Alternates
<1>4. WantedLast(p, k, g, M)
  <2>1. \A i \in DOMAIN p : LastRequest(p, k, i) => i \in DOMAIN q
    BY <1>1 DEF LastRequest
  <2> QED
    BY <1>1, <1>2, <2>1 DEF Asking, WantedLast
<1>5. WatchedAnew(p, k, v)
  <2>1. \A i \in DOMAIN p : FirstRequest(p, k, i) => i \in DOMAIN q
    BY <1>1 DEF FirstRequest
  <2> QED
    BY <1>1, <1>2, <2>1 DEF Asking, WatchedAnew
<1>6. Unserved(p, k, M, v) /\ Refused(p, s, k, v)
  BY <1>2 DEF Asking, Unserved, Refused
<1> QED
  BY <1>3, <1>4, <1>5, <1>6 DEF Asking, p

LEMMA SilentLess ==
    ASSUME NEW S, NEW q \in Seq(S), q # <<>>, NEW k
    PROVE  /\ Silent(q, k) <=> Silent(Tail(q), k) /\ Head(q).key # k
           /\ Silent(Tail(q), k) /\ Head(q).key = k => LastRequest(q, k, 1)
           /\ Head(q).key = k => FirstRequest(q, k, 1)
           /\ \A i \in DOMAIN Tail(q) :
                 /\ LastRequest(Tail(q), k, i) => LastRequest(q, k, i + 1)
                 /\ FirstRequest(Tail(q), k, i) /\ Head(q).key # k => FirstRequest(q, k, i + 1)
<1> DEFINE t == Tail(q)
<1>1. /\ \A j \in DOMAIN q : j = 1 \/ (j \in Nat /\ j > 1 /\ j - 1 \in DOMAIN t /\ q[j] = t[j - 1])
      /\ \A j \in DOMAIN t : j \in Nat /\ j > 0 /\ j + 1 \in DOMAIN q /\ t[j] = q[j + 1]
      /\ Head(q) = q[1] /\ 1 \in DOMAIN q
  BY Taken
<1> HIDE DEF t
<1>2. Silent(q, k) <=> Silent(t, k) /\ Head(q).key # k
  BY <1>1 DEF Silent
<1>3. Silent(t, k) /\ Head(q).key = k => LastRequest(q, k, 1)
  <2> SUFFICES ASSUME Silent(t, k), NEW j \in DOMAIN q, j > 1 PROVE q[j].key # k
    BY <1>1 DEF LastRequest
  <2>1. j - 1 \in DOMAIN t /\ q[j] = t[j - 1]
    BY <1>1
  <2> QED
    BY <2>1 DEF Silent
<1>4. Head(q).key = k => FirstRequest(q, k, 1)
  BY <1>1 DEF FirstRequest
<1>5. ASSUME NEW i \in DOMAIN t, LastRequest(t, k, i) PROVE LastRequest(q, k, i + 1)
  <2> SUFFICES ASSUME NEW j \in DOMAIN q, j > i + 1 PROVE q[j].key # k
    BY <1>1, <1>5 DEF LastRequest
  <2>1. j - 1 \in DOMAIN t /\ j - 1 > i /\ q[j] = t[j - 1]
    BY <1>1
  <2> QED
    BY <1>5, <2>1 DEF LastRequest
<1>6. ASSUME NEW i \in DOMAIN t, FirstRequest(t, k, i), Head(q).key # k
      PROVE  FirstRequest(q, k, i + 1)
  <2> SUFFICES ASSUME NEW j \in DOMAIN q, j < i + 1, j # 1 PROVE q[j].key # k
    BY <1>1, <1>6 DEF FirstRequest
  <2>1. i \in Nat /\ j \in Nat /\ j - 1 \in DOMAIN t /\ q[j] = t[j - 1]
    BY <1>1
  <2>2. j - 1 < i
    BY <2>1
  <2> QED
    BY <1>6, <2>1, <2>2 DEF FirstRequest
<1> QED
  BY <1>2, <1>3, <1>4, <1>5, <1>6 DEF t

LEMMA AlternatesLess ==
    ASSUME NEW S, NEW q \in Seq(S), q # <<>>, NEW k, Alternates(q, k)
    PROVE  Alternates(Tail(q), k)
<1> DEFINE t == Tail(q)
<1>1. /\ \A j \in DOMAIN q : j = 1 \/ (j \in Nat /\ j > 1 /\ j - 1 \in DOMAIN t /\ q[j] = t[j - 1])
      /\ \A j \in DOMAIN t : j \in Nat /\ j > 0 /\ j + 1 \in DOMAIN q /\ t[j] = q[j + 1]
  BY Taken
<1> HIDE DEF t
<1> SUFFICES ASSUME NEW i \in DOMAIN t, NEW j \in DOMAIN t, i < j, t[i].key = k, t[j].key = k,
                    \A x \in DOMAIN t : i < x /\ x < j => t[x].key # k
             PROVE  t[i].op # t[j].op \/ t[j].op = "unwatch"
  BY DEF Alternates, t
<1>2. ASSUME NEW x \in DOMAIN q, i + 1 < x, x < j + 1 PROVE q[x].key # k
  <2>1. x - 1 \in DOMAIN t /\ i < x - 1 /\ x - 1 < j /\ q[x] = t[x - 1]
    BY <1>1, <1>2
  <2> QED
    BY <2>1
<1>3. i + 1 \in DOMAIN q /\ j + 1 \in DOMAIN q /\ i + 1 < j + 1
  BY <1>1
<1>4. q[i + 1] = t[i] /\ q[j + 1] = t[j]
  BY <1>1
<1>5. \A x \in DOMAIN q : i + 1 < x /\ x < j + 1 => q[x].key # k
  BY <1>2
<1>6. q[i + 1].op # q[j + 1].op \/ q[j + 1].op = "unwatch"
  <2>1. q[i + 1].key = k /\ q[j + 1].key = k
    BY <1>4
  <2> QED
    BY <1>3, <1>5, <2>1 DEF Alternates
<1> QED
  BY <1>4, <1>6

\* The server answers: it watches or refuses to, or watches no more.
LEMMA AskingServed ==
    ASSUME NEW S, NEW q \in Seq(S), q # <<>>, NEW T, NEW s \in Seq(T), NEW m \in T,
           NEW k, NEW g, NEW L, NEW v, NEW w, Asking(q, s, k, g, L, v), Head(q).key = k,
           IsAnswer(m, k),
           \/ Head(q).op = "watch" /\ m.type = "added"
           \/ Head(q).op = "watch" /\ m.type = "rejected" /\ w = v
           \/ Head(q).op = "unwatch" /\ m.type = "removed" /\ w.status = "off"
    PROVE  /\ Asking(Tail(q), Append(s, m), k, g, L, w)
           /\ Silent(Tail(q), k) => (Head(q).op = "watch" <=> k \in L) /\ Head(q).gen = g
           /\ Head(q).op = "watch" => v.status = "off"
<1> DEFINE t == Tail(q)
<1>1. /\ \A j \in DOMAIN t : j \in Nat /\ j > 0 /\ j + 1 \in DOMAIN q /\ t[j] = q[j + 1]
      /\ Head(q) = q[1] /\ 1 \in DOMAIN q
      /\ \A j \in DOMAIN q : j = 1 \/ (j \in Nat /\ j > 1 /\ j - 1 \in DOMAIN t /\ q[j] = t[j - 1])
  BY Taken
<1>2. /\ Silent(t, k) => LastRequest(q, k, 1)
      /\ FirstRequest(q, k, 1)
      /\ \A i \in DOMAIN t : LastRequest(t, k, i) => LastRequest(q, k, i + 1)
  BY SilentLess
<1>3. Alternates(t, k)
  BY AlternatesLess DEF Asking
<1> HIDE DEF t
<1>4. Head(q).op = "watch" => v.status = "off"
  BY <1>1, <1>2 DEF Asking, WatchedAnew
<1>5. Silent(t, k) => (Head(q).op = "watch" <=> k \in L) /\ Head(q).gen = g
  BY <1>1, <1>2 DEF Asking, WantedLast
<1>6. WantedLast(t, k, g, L)
  BY <1>1, <1>2 DEF Asking, WantedLast
<1>7. WatchedAnew(t, k, w)
  <2> SUFFICES ASSUME NEW i \in DOMAIN t, FirstRequest(t, k, i), t[i].op = "watch",
                      Head(q).op = "watch"
               PROVE  FALSE
    BY DEF WatchedAnew
  <2>1. \A x \in DOMAIN q : 1 < x /\ x < i + 1 => q[x].key # k
    <3> SUFFICES ASSUME NEW x \in DOMAIN q, 1 < x, x < i + 1 PROVE q[x].key # k
      OBVIOUS
    <3>1. x - 1 \in DOMAIN t /\ x - 1 < i /\ q[x] = t[x - 1]
      BY <1>1
    <3> QED
      BY <3>1 DEF FirstRequest
  <2>2. 1 < i + 1 /\ i + 1 \in DOMAIN q /\ q[i + 1] = t[i] /\ t[i].key = k
    BY <1>1 DEF FirstRequest
  <2>3. Alternates(q, k) /\ 1 \in DOMAIN q /\ q[1].op = "watch" /\ q[1].key = k
    BY <1>1 DEF Asking
  <2>4. q[1].op # q[i + 1].op \/ q[i + 1].op = "unwatch"
    BY <2>1, <2>2, <2>3 DEF Alternates
  <2> QED
    BY <2>2, <2>3, <2>4
<1>8. Unserved(t, k, L, w)
  BY <1>4, <1>5 DEF Unserved
<1>9. Refused(t, Append(s, m), k, w)
  <2> SUFFICES ASSUME NEW i \in DOMAIN Append(s, m), Says("rejected", Append(s, m)[i], k),
                      AnsweredBefore(Append(s, m), k, i + 1)
               PROVE  w.status = "off"
    BY DEF Refused
  <2>1. Len(s) + 1 < i + 1
    BY AnswersMore
  <2>2. i = Len(s) + 1 /\ Append(s, m)[i] = m
    BY <2>1, Added
  <2> QED
    BY <1>4, <2>2 DEF Says
<1> QED
  BY <1>3, <1>4, <1>5, <1>6, <1>7, <1>8, <1>9 DEF Asking, t

\* ... or it answers about another target.
LEMMA AskingPassed ==
    ASSUME NEW S, NEW q \in Seq(S), q # <<>>, NEW T, NEW s \in Seq(T), NEW m \in T,
           NEW k, NEW g, NEW L, NEW v, Asking(q, s, k, g, L, v), Head(q).key # k, ~About(m, k)
    PROVE  Asking(Tail(q), Append(s, m), k, g, L, v)
<1> DEFINE t == Tail(q)
<1>1. \A j \in DOMAIN t : j \in Nat /\ j > 0 /\ j + 1 \in DOMAIN q /\ t[j] = q[j + 1]
  BY Taken
<1>2. /\ Silent(q, k) <=> Silent(t, k)
      /\ \A i \in DOMAIN t : /\ LastRequest(t, k, i) => LastRequest(q, k, i + 1)
                             /\ FirstRequest(t, k, i) => FirstRequest(q, k, i + 1)
  BY SilentLess
<1>3. Alternates(t, k)
  BY AlternatesLess DEF Asking
<1> HIDE DEF t
<1>4. WantedLast(t, k, g, L)
  BY <1>1, <1>2 DEF Asking, WantedLast
<1>5. WatchedAnew(t, k, v)
  BY <1>1, <1>2 DEF Asking, WatchedAnew
<1>6. Unserved(t, k, L, v)
  BY <1>2 DEF Asking, Unserved
<1>7. Refused(t, s, k, v)
  BY <1>2 DEF Asking, Refused
<1>8. Asking(t, s, k, g, L, v)
  BY <1>3, <1>4, <1>5, <1>6, <1>7 DEF Asking
<1>9. ~Says("rejected", m, k)
  BY DEF Says, About
<1> QED
  BY <1>8, <1>9, AskingTold DEF t

\* A new stream watches what is listened to, and nothing twice.
LEMMA AskingAnew ==
    ASSUME NEW S, NEW q \in Seq(S), NEW k, NEW g, NEW L, NEW v, v.status = "off",
           \A i \in DOMAIN q : q[i].key \in L /\ q[i].op = "watch",
           \A i \in DOMAIN q : q[i].key = k => q[i].gen = g,
           \A i, j \in DOMAIN q : q[i].key = q[j].key => i = j
    PROVE  Asking(q, <<>>, k, g, L, v)
<1>1. DOMAIN <<>> = {}
  OBVIOUS
<1>2. Alternates(q, k)
  BY DEF Alternates
<1>3. WantedLast(q, k, g, L)
  BY DEF WantedLast, LastRequest
<1> QED
  BY <1>1, <1>2, <1>3 DEF Asking, WatchedAnew, Unserved, Refused

-----------------------------------------------------------------------------
(* What is said *)

\* Requests and messages up to a time.
Asked(n) == [op : {"watch", "unwatch"}, key : Targets, gen : Nat, have : 0..n]
Said(n) == [type : {"added", "removed", "rejected", "current", "reset", "document"},
            key : Targets, gen : Nat, at : 0..n, exists : BOOLEAN]
           \cup [type : {"snapshot"}, at : 0..n]

LEMMA SaidAt == ASSUME NEW n \in Nat, NEW m \in Said(n) PROVE m.at \in 0..n /\ m.at \in Nat
BY DEF Said

LEMMA SaidNothing ==
    ASSUME NEW k, NEW g, NEW t, NEW v, v.status = "off" PROVE SaidNow(<<>>, k, g, t, v)
<1>1. DOMAIN <<>> = {}
  OBVIOUS
<1> QED
  BY <1>1 DEF SaidNow

LEMMA SaidHeard ==
    ASSUME NEW T, NEW s \in Seq(T), s # <<>>, NEW k, NEW g, NEW t, NEW v, SaidNow(s, k, g, t, v)
    PROVE  SaidNow(Tail(s), k, g, t, v)
<1> DEFINE r == Tail(s)
<1>1. /\ \A i \in DOMAIN r : i \in Nat /\ i > 0 /\ i + 1 \in DOMAIN s /\ r[i] = s[i + 1]
  BY Taken
<1>2. ASSUME NEW i \in DOMAIN r
      PROVE  /\ AnsweredBefore(r, k, i) => AnsweredBefore(s, k, i + 1)
             /\ AnsweredBefore(r, k, i + 1) => AnsweredBefore(s, k, (i + 1) + 1)
  <2>1. i \in Nat /\ i > 0 /\ i + 1 \in Nat /\ i + 1 > 0
    BY <1>1
  <2> QED
    BY <2>1, AnswersLess
<1> HIDE DEF r
<1>3. ASSUME NEW i \in DOMAIN r, AnsweredBefore(r, k, i + 1), About(r[i], k)
      PROVE  r[i].gen = g /\ r[i].type # "removed"
  BY <1>1, <1>2, <1>3 DEF SaidNow
<1>4. ASSUME NEW i \in DOMAIN r, AnsweredBefore(r, k, i), r[i].type = "snapshot"
      PROVE  r[i].at >= t
  BY <1>1, <1>2, <1>4 DEF SaidNow
<1> QED
  BY <1>3, <1>4 DEF SaidNow, r

LEMMA SaidMore ==
    ASSUME NEW T, NEW s \in Seq(T), NEW m \in T, NEW k, NEW g, NEW t, NEW v, NEW w,
           SaidNow(s, k, g, t, v), ~IsAnswer(m, k), w.status # "off" => w.gen = g,
           About(m, k) => m.gen = g, m.type = "snapshot" => m.at >= t
    PROVE  SaidNow(Append(s, m), k, g, t, w)
<1> DEFINE r == Append(s, m)
<1>1. \A i \in DOMAIN r : (i \in DOMAIN s /\ r[i] = s[i]) \/ r[i] = m
  BY Added
<1>2. \A i : AnsweredBefore(r, k, i) => AnsweredBefore(s, k, i)
  BY AnswersMore
<1> HIDE DEF r
<1>3. About(m, k) => m.type # "removed"
  BY DEF IsAnswer, About
<1>4. ASSUME NEW i \in DOMAIN r, AnsweredBefore(r, k, i + 1), About(r[i], k)
      PROVE  r[i].gen = g /\ r[i].type # "removed"
  BY <1>1, <1>2, <1>3, <1>4 DEF SaidNow
<1>5. ASSUME NEW i \in DOMAIN r, AnsweredBefore(r, k, i), r[i].type = "snapshot"
      PROVE  r[i].at >= t
  BY <1>1, <1>2, <1>5 DEF SaidNow
<1> QED
  BY <1>4, <1>5 DEF SaidNow, r

LEMMA SaidAnswered ==
    ASSUME NEW T, NEW s \in Seq(T), NEW m \in T, NEW k, NEW g, NEW t, NEW w,
           IsAnswer(m, k), m.gen = g, m.type # "removed", w.status # "off" => w.gen = g
    PROVE  SaidNow(Append(s, m), k, g, t, w)
<1> DEFINE r == Append(s, m)
           n == Len(s) + 1
<1>1. n \in Nat /\ n \in DOMAIN r /\ r[n] = m /\ \A i \in DOMAIN r : i \in Nat /\ i <= n
  BY Added
<1> HIDE DEF r, n
<1>2. \A i \in Nat : AnsweredBefore(r, k, i) => i > n
  BY <1>1 DEF AnsweredBefore
<1>3. m.type # "snapshot"
  BY DEF IsAnswer
<1>4. ASSUME NEW i \in DOMAIN r, AnsweredBefore(r, k, i + 1) PROVE i = n
  <2>1. i \in Nat /\ i <= n /\ i + 1 \in Nat
    BY <1>1
  <2>2. i + 1 > n
    BY <1>2, <1>4, <2>1
  <2> QED
    BY <1>1, <2>1, <2>2
<1>5. \A i \in DOMAIN r : ~AnsweredBefore(r, k, i)
  BY <1>1, <1>2
<1> QED
  BY <1>1, <1>4, <1>5 DEF SaidNow, r

-----------------------------------------------------------------------------
(* Documents *)

LEMMA DocumentsHeard ==
    ASSUME NEW T, NEW s \in Seq(T), s # <<>>, NEW k, NEW l, NEW u, NEW w,
           InOrder(s, k, u), AllTrue(s, k, u, l),
           \/ w = u \/ w = Nothing
           \/ /\ Says("document", Head(s), k)
              /\ w.at = Head(s).at /\ w.exists = Head(s).exists
    PROVE  InOrder(Tail(s), k, w) /\ AllTrue(Tail(s), k, w, l)
<1> DEFINE r == Tail(s)
<1>1. /\ \A i \in DOMAIN r : i \in Nat /\ i > 0 /\ i + 1 \in DOMAIN s /\ r[i] = s[i + 1]
      /\ Head(s) = s[1] /\ 1 \in DOMAIN s
  BY Taken
<1> HIDE DEF r
<1>2. ASSUME NEW i \in DOMAIN r, NEW j \in DOMAIN r, i < j,
             Says("document", r[i], k), Says("document", r[j], k)
      PROVE  r[i].at <= r[j].at
  <2>1. i + 1 < j + 1 /\ i + 1 \in DOMAIN s /\ j + 1 \in DOMAIN s
    BY <1>1, <1>2
  <2> QED
    BY <1>1, <1>2, <2>1 DEF InOrder
<1>3. ASSUME NEW i \in DOMAIN r, Says("document", r[i], k), w # Nothing
      PROVE  w.at <= r[i].at
  <2>1. i + 1 \in DOMAIN s /\ r[i] = s[i + 1] /\ 1 < i + 1
    BY <1>1
  <2> QED
    BY <1>1, <1>3, <2>1 DEF InOrder
<1>4. \A i \in DOMAIN r : Says("document", r[i], k) => Truly(l, k, r[i])
  BY <1>1 DEF AllTrue
<1>5. w # Nothing => Truly(l, k, w)
  <2>1. CASE w = u
    BY <2>1 DEF AllTrue
  <2>2. CASE Says("document", Head(s), k) /\ w.at = Head(s).at /\ w.exists = Head(s).exists
    <3>1. Truly(l, k, Head(s))
      BY <1>1, <2>2 DEF AllTrue
    <3> QED
      BY <2>2, <3>1 DEF Truly
  <2> QED
    BY <2>1, <2>2
<1> QED
  BY <1>2, <1>3, <1>4, <1>5 DEF InOrder, AllTrue, r

LEMMA DocumentsMore ==
    ASSUME NEW T, NEW s \in Seq(T), NEW m \in T, NEW k, NEW l, NEW u,
           InOrder(s, k, u), AllTrue(s, k, u, l), ~Says("document", m, k)
    PROVE  InOrder(Append(s, m), k, u) /\ AllTrue(Append(s, m), k, u, l)
<1> DEFINE r == Append(s, m)
<1>1. \A i \in DOMAIN r : (i \in DOMAIN s /\ r[i] = s[i]) \/ r[i] = m
  BY Added
<1> HIDE DEF r
<1>2. \A i \in DOMAIN r : Says("document", r[i], k) => i \in DOMAIN s /\ r[i] = s[i]
  BY <1>1
<1> QED
  BY <1>2 DEF InOrder, AllTrue, r

LEMMA TruthKept ==
    ASSUME NEW l, NEW k, NEW m, NEW doc, doc.at \in Nat, \A i \in 1..doc.at : m[i] = l[i]
    PROVE  Truly(m, k, doc) <=> Truly(l, k, doc)
BY LastOfPast DEF Truly

LEMMA DocumentsKept ==
    ASSUME NEW n \in Nat, NEW s \in Seq(Said(n)), NEW k, NEW l, NEW m, NEW u,
           u # Nothing => u.at \in 0..n, \A i \in 1..n : m[i] = l[i],
           InOrder(s, k, u), AllTrue(s, k, u, l)
    PROVE  InOrder(s, k, u) /\ AllTrue(s, k, u, m)
<1>1. \A t \in 0..n : t \in Nat /\ \A i \in 1..t : m[i] = l[i]
  OBVIOUS
<1>2. ASSUME NEW i \in DOMAIN s, Says("document", s[i], k) PROVE s[i].at \in 0..n
  BY <1>2 DEF Said
<1>3. ASSUME NEW i \in DOMAIN s, Says("document", s[i], k) PROVE Truly(m, k, s[i])
  BY <1>1, <1>2, <1>3, TruthKept DEF AllTrue
<1>4. u # Nothing => Truly(m, k, u)
  BY <1>1, TruthKept DEF AllTrue
<1> QED
  BY <1>3, <1>4 DEF AllTrue

\* A document is sent as it is now.
LEMMA DocumentSent ==
    ASSUME NEW n \in Nat, NEW s \in Seq(Said(n)), NEW k, NEW l, NEW u, NEW m \in Said(n),
           u # Nothing => u.at \in 0..n, InOrder(s, k, u), AllTrue(s, k, u, l),
           Says("document", m, k), m.at = LastOf(l, k, n), m.exists <=> Existed(l, k, n)
    PROVE  InOrder(Append(s, m), k, u) /\ AllTrue(Append(s, m), k, u, l)
<1> DEFINE r == Append(s, m)
<1>1. /\ Len(s) \in Nat
      /\ \A i \in DOMAIN r : (i \in DOMAIN s /\ r[i] = s[i]) \/ (i = Len(s) + 1 /\ r[i] = m)
      /\ \A i \in DOMAIN s : i \in Nat /\ i <= Len(s)
  BY Added
<1> HIDE DEF r
<1>2. m.at \in 0..n
  BY LastOfIs
<1>3. LastOf(l, k, m.at) = m.at
  BY <1>2, LastOfOrder
<1>4. Truly(l, k, m)
  BY <1>3 DEF Truly, Existed
<1>5. \A t \in 0..n : LastOf(l, k, t) = t => t <= m.at
  BY LastOfOrder
<1>6. ASSUME NEW i \in DOMAIN s, Says("document", s[i], k) PROVE s[i].at <= m.at
  <2>1. s[i].at \in 0..n
    BY <1>6 DEF Said
  <2> QED
    BY <1>5, <1>6, <2>1 DEF AllTrue, Truly
<1>7. u # Nothing => u.at <= m.at
  BY <1>5 DEF AllTrue, Truly
<1>8. ASSUME NEW i \in DOMAIN r, NEW j \in DOMAIN r, i < j,
             Says("document", r[i], k), Says("document", r[j], k)
      PROVE  r[i].at <= r[j].at
  <2>1. i \in DOMAIN s /\ r[i] = s[i]
    BY <1>1, <1>8
  <2> QED
    BY <1>1, <1>6, <1>8, <2>1 DEF InOrder
<1>9. ASSUME NEW i \in DOMAIN r, Says("document", r[i], k)
      PROVE  (u # Nothing => u.at <= r[i].at) /\ Truly(l, k, r[i])
  BY <1>1, <1>4, <1>7, <1>9 DEF InOrder, AllTrue
<1> QED
  BY <1>8, <1>9 DEF InOrder, AllTrue, r

-----------------------------------------------------------------------------
(* What is shown *)

LEMMA Transitive ==
    ASSUME NEW a \in Nat, NEW b \in Nat, NEW c \in Nat, a <= b, b <= c PROVE a <= c
OBVIOUS

LEMMA OneBefore ==
    ASSUME NEW d \in Nat, NEW i \in Nat, d > 1, d < i + 1
    PROVE  d - 1 \in Nat /\ d - 1 > 0 /\ (d - 1) + 1 = d /\ d - 1 < i
OBVIOUS

LEMMA KnowsHeard ==
    ASSUME NEW h \in Nat, NEW s \in Seq(Said(h)), s # <<>>, NEW k, NEW n \in Nat, NEW p \in Nat,
           NEW t \in Nat, NEW i \in Nat, n <= p, Knows(s, k, n, t, i + 1),
           Says("document", Head(s), k) /\ AnsweredBefore(s, k, 1) => Head(s).at <= p
    PROVE  Knows(Tail(s), k, p, t, i)
<1> DEFINE r == Tail(s)
<1>1. /\ \A j \in DOMAIN s : \/ j = 1
                             \/ j \in Nat /\ j > 1 /\ j - 1 \in DOMAIN r /\ s[j] = r[j - 1]
      /\ Head(s) = s[1] /\ 1 \in DOMAIN s /\ Head(s) \in Said(h)
  BY Taken
<1>2. \A j \in Nat : j > 0 => (AnsweredBefore(r, k, j) <=> AnsweredBefore(s, k, j + 1))
  BY AnswersLess
<1> HIDE DEF r
<1>3. CASE t <= n
  BY <1>3 DEF Knows
<1>4. CASE \E d \in DOMAIN s : /\ d < i + 1 /\ AnsweredBefore(s, k, d)
                               /\ Says("document", s[d], k) /\ s[d].at >= t
  <2>1. PICK d \in DOMAIN s : /\ d < i + 1 /\ AnsweredBefore(s, k, d)
                              /\ Says("document", s[d], k) /\ s[d].at >= t
    BY <1>4
  <2>2. CASE d = 1
    <3>1. Head(s).at <= p /\ Head(s).at >= t
      BY <1>1, <2>1, <2>2
    <3>2. Head(s).at \in Nat
      BY <1>1 DEF Said
    <3>3. t <= p
      BY <3>1, <3>2
    <3> QED
      BY <3>3 DEF Knows
  <2>3. CASE d # 1
    <3>1. d \in Nat /\ d > 1 /\ d - 1 \in DOMAIN r /\ s[d] = r[d - 1]
      BY <1>1, <2>3
    <3>2. d \in Nat /\ d > 1 /\ d < i + 1
      BY <2>1, <3>1
    <3>3. d - 1 \in Nat /\ d - 1 > 0 /\ (d - 1) + 1 = d /\ d - 1 < i
      BY <3>2, OneBefore
    <3>4. AnsweredBefore(r, k, d - 1)
      BY <1>2, <2>1, <3>3
    <3> QED
      BY <2>1, <3>1, <3>3, <3>4 DEF Knows, r
  <2> QED
    BY <2>2, <2>3
<1> QED
  BY <1>3, <1>4 DEF Knows

\* The device hears something: what it knew before, it knows now.
LEMMA ShowingHeard ==
    ASSUME NEW h \in Nat, NEW s \in Seq(Said(h)), s # <<>>, NEW k, NEW n \in Nat, NEW p \in Nat,
           NEW e, NEW f, NEW v, NEW l, v.sent \in Nat, n <= p, Showing(s, k, e, n, v, l),
           Says("document", Head(s), k) /\ AnsweredBefore(s, k, 1) => Head(s).at <= p,
           AnsweredBefore(Tail(s), k, 0) /\ f.current
              => \/ e.current /\ AnsweredBefore(s, k, 0) /\ ~Says("reset", Head(s), k)
                 \/ Says("current", Head(s), k) /\ AnsweredBefore(s, k, 1)
    PROVE  Showing(Tail(s), k, f, p, v, l)
<1> DEFINE r == Tail(s)
<1>1. /\ \A j \in DOMAIN s : \/ j = 1
                             \/ j \in Nat /\ j > 1 /\ j - 1 \in DOMAIN r /\ s[j] = r[j - 1]
      /\ \A j \in DOMAIN r : j \in Nat /\ j > 0 /\ j + 1 \in DOMAIN s /\ r[j] = s[j + 1]
      /\ Head(s) = s[1] /\ 1 \in DOMAIN s /\ Head(s) \in Said(h)
      /\ Len(s) \in Nat /\ Len(r) = Len(s) - 1 /\ Len(s) > 0
  BY Taken
<1>2. \A j \in Nat : j > 0 => (AnsweredBefore(r, k, j) <=> AnsweredBefore(s, k, j + 1))
  BY AnswersLess
<1>3. \A t, i \in Nat : Knows(s, k, n, t, i + 1) => Knows(r, k, p, t, i)
  BY KnowsHeard
<1> HIDE DEF r
<1>4. ASSUME NEW c \in Nat, NEW i \in Nat, CurrentSince(r, k, f, c), NoReset(r, k, c, i)
      PROVE  \E b \in Nat : b <= c + 1 /\ CurrentSince(s, k, e, b) /\ NoReset(s, k, b, i + 1)
  <2>1. ASSUME NEW j \in DOMAIN s, c + 1 < j, j < i + 1 PROVE ~Says("reset", s[j], k)
    <3>1. j \in Nat /\ j > 1 /\ j - 1 \in DOMAIN r /\ s[j] = r[j - 1]
      BY <1>1, <2>1
    <3>2. j \in Nat /\ c + 1 < j /\ j < i + 1
      BY <2>1, <3>1
    <3>3. c < j - 1 /\ j - 1 < i
      BY <3>2
    <3> QED
      BY <1>4, <3>1, <3>3 DEF NoReset
  <2>2. CASE c # 0 \/ ~f.current
    <3>1. c \in DOMAIN r /\ Says("current", r[c], k) /\ AnsweredBefore(r, k, c)
      BY <1>4, <2>2 DEF CurrentSince
    <3>2. c + 1 \in DOMAIN s /\ Says("current", s[c + 1], k) /\ c > 0
      BY <1>1, <3>1
    <3>3. AnsweredBefore(s, k, c + 1)
      BY <1>2, <3>1, <3>2
    <3>4. CurrentSince(s, k, e, c + 1) /\ NoReset(s, k, c + 1, i + 1)
      BY <2>1, <3>2, <3>3 DEF CurrentSince, NoReset
    <3> QED
      BY <3>4
  <2>3. CASE c = 0 /\ f.current
    <3>1. AnsweredBefore(r, k, 0)
      BY <1>4, <2>3 DEF CurrentSince
    <3>2. CASE e.current /\ AnsweredBefore(s, k, 0) /\ ~Says("reset", Head(s), k)
      <4>1. CurrentSince(s, k, e, 0)
        BY <3>2 DEF CurrentSince
      <4>2. NoReset(s, k, 0, i + 1)
        <5> SUFFICES ASSUME NEW j \in DOMAIN s, j # 1, j < i + 1 PROVE ~Says("reset", s[j], k)
          BY <1>1, <3>2 DEF NoReset
        <5>1. j \in Nat /\ c + 1 < j
          BY <1>1, <2>3
        <5> QED
          BY <2>1, <5>1
      <4> QED
        BY <4>1, <4>2
    <3>3. CASE Says("current", Head(s), k) /\ AnsweredBefore(s, k, 1)
      <4>1. CurrentSince(s, k, e, 1)
        BY <1>1, <3>3 DEF CurrentSince
      <4>2. NoReset(s, k, 1, i + 1)
        BY <2>1, <2>3 DEF NoReset
      <4> QED
        BY <2>3, <4>1, <4>2
    <3> QED
      BY <2>3, <3>1, <3>2, <3>3 DEF r
  <2> QED
    BY <2>2, <2>3
<1>5. CurrentIsServed(r, k, f, v)
  <2> SUFFICES ASSUME NEW c \in Nat, CurrentSince(r, k, f, c), NoReset(r, k, c, Len(r) + 1)
               PROVE  v.status = "current"
    BY DEF CurrentIsServed
  <2>1. Len(r) + 1 = Len(s) /\ Len(s) \in Nat
    BY <1>1
  <2>2. PICK b \in Nat : CurrentSince(s, k, e, b) /\ NoReset(s, k, b, Len(s) + 1)
    BY <1>4, <2>1
  <2> QED
    BY <2>2 DEF Showing, CurrentIsServed
<1>6. SentIsKnown(r, k, p, v)
  <2>1. Len(r) + 1 = Len(s) /\ Len(s) \in Nat
    BY <1>1
  <2> QED
    BY <1>3, <2>1 DEF Showing, SentIsKnown
<1>7. SnapshotIsKnown(r, k, f, p, l)
  <2> SUFFICES ASSUME NEW i \in DOMAIN r, NEW c \in Nat, r[i].type = "snapshot", c < i,
                      CurrentSince(r, k, f, c), NoReset(r, k, c, i)
               PROVE  Knows(r, k, p, LastOf(l, k, r[i].at), i)
    BY DEF SnapshotIsKnown
  <2>1. i \in Nat /\ i + 1 \in DOMAIN s /\ r[i] = s[i + 1] /\ s[i + 1] \in Said(h)
    BY <1>1
  <2>2. PICK b \in Nat : b <= c + 1 /\ CurrentSince(s, k, e, b) /\ NoReset(s, k, b, i + 1)
    BY <1>4, <2>1
  <2>3. b < i + 1
    BY <2>1, <2>2
  <2>4. Knows(s, k, n, LastOf(l, k, r[i].at), i + 1)
    BY <2>1, <2>2, <2>3 DEF Showing, SnapshotIsKnown
  <2>5. LastOf(l, k, r[i].at) \in Nat
    <3>1. r[i].at \in Nat
      BY <2>1 DEF Said
    <3> QED
      BY <3>1, LastOfIs
  <2> QED
    BY <1>3, <2>1, <2>4, <2>5
<1> QED
  BY <1>5, <1>6, <1>7 DEF Showing, r

LEMMA KnowsMore ==
    ASSUME NEW h \in Nat, NEW s \in Seq(Said(h)), NEW m \in Said(h), NEW k, NEW n \in Nat,
           NEW t \in Nat, NEW u \in Nat, NEW i \in Nat, NEW j \in Nat, i <= j, u <= t,
           ~IsAnswer(m, k), Knows(s, k, n, t, i)
    PROVE  Knows(Append(s, m), k, n, u, j)
<1>1. CASE t <= n
  BY <1>1 DEF Knows
<1>2. CASE \E d \in DOMAIN s : /\ d < i /\ AnsweredBefore(s, k, d)
                               /\ Says("document", s[d], k) /\ s[d].at >= t
  <2>1. PICK d \in DOMAIN s : /\ d < i /\ AnsweredBefore(s, k, d)
                              /\ Says("document", s[d], k) /\ s[d].at >= t
    BY <1>2
  <2>2. d \in Nat /\ d \in DOMAIN Append(s, m) /\ Append(s, m)[d] = s[d] /\ s[d] \in Said(h)
    BY Added
  <2>3. s[d].at \in Nat
    BY <2>2, SaidAt
  <2>4. d < j /\ s[d].at >= u
    <3>1. d < j
      BY <2>1, <2>2
    <3>2. s[d].at >= u
      BY <2>1, <2>3
    <3> QED
      BY <3>1, <3>2
  <2>5. AnsweredBefore(Append(s, m), k, d)
    BY <2>1, AnswersSame
  <2> QED
    BY <2>1, <2>2, <2>4, <2>5 DEF Knows
<1> QED
  BY <1>1, <1>2 DEF Knows

\* The server says something that answers nothing.
LEMMA ShowingMore ==
    ASSUME NEW h \in Nat, NEW s \in Seq(Said(h)), NEW m \in Said(h), NEW k, NEW n \in Nat,
           NEW e, NEW v, NEW w, NEW l, v.sent \in Nat, w.sent \in Nat,
           Showing(s, k, e, n, v, l), ~IsAnswer(m, k),
           v.status = "current" /\ ~Says("reset", m, k) => w.status = "current",
           Says("current", m, k) => w.status = "current",
           w.status # "off" => \/ v.status # "off" /\ w.sent = v.sent
                               \/ w.sent = 0
                               \/ Says("document", m, k) /\ w.sent = m.at,
           m.type = "snapshot" /\ v.status = "current" => LastOf(l, k, m.at) <= v.sent
    PROVE  Showing(Append(s, m), k, e, n, w, l)
<1> DEFINE r == Append(s, m)
           z == Len(s) + 1
<1>1. /\ Len(s) \in Nat /\ z \in Nat /\ z \in DOMAIN r /\ r[z] = m /\ Len(r) + 1 = z + 1
      /\ \A i \in DOMAIN s : i \in Nat /\ i < z /\ i \in DOMAIN r /\ r[i] = s[i]
      /\ \A i \in DOMAIN r : i \in DOMAIN s \/ i = z
  <2>1. Len(s) \in Nat /\ Len(r) = Len(s) + 1 /\ \A i \in DOMAIN s : i \in Nat /\ i <= Len(s)
    BY Added
  <2>2. z \in Nat /\ Len(r) + 1 = z + 1 /\ \A i \in DOMAIN s : i < z
    BY <2>1
  <2> QED
    BY <2>1, <2>2, Added
<1>2. \A i : AnsweredBefore(s, k, i) <=> AnsweredBefore(r, k, i)
  BY AnswersSame
<1>3. \A t, u, i, j \in Nat : i <= j /\ u <= t /\ Knows(s, k, n, t, i) => Knows(r, k, n, u, j)
  BY KnowsMore
<1>4. \A c, i : NoReset(r, k, c, i) => NoReset(s, k, c, i)
  BY Added DEF NoReset
<1> HIDE DEF r, z
<1>5. ASSUME NEW c \in Nat, CurrentSince(r, k, e, c)
      PROVE  (c < z /\ CurrentSince(s, k, e, c)) \/ (c = z /\ Says("current", m, k))
  BY <1>1, <1>2, <1>5 DEF CurrentSince
<1>6. CurrentIsServed(r, k, e, w)
  <2> SUFFICES ASSUME NEW c \in Nat, CurrentSince(r, k, e, c), NoReset(r, k, c, z + 1),
                      c < z, CurrentSince(s, k, e, c)
               PROVE  w.status = "current"
    BY <1>1, <1>5 DEF CurrentIsServed
  <2>1. NoReset(s, k, c, z) /\ ~Says("reset", m, k)
    <3>1. z < z + 1
      BY <1>1
    <3>2. ~Says("reset", m, k)
      BY <1>1, <3>1 DEF NoReset
    <3>3. \A i \in DOMAIN s : i < z => i < z + 1
      BY <1>1
    <3>4. NoReset(s, k, c, z)
      BY <1>4, <3>3 DEF NoReset
    <3> QED
      BY <3>2, <3>4
  <2>2. v.status = "current"
    BY <2>1 DEF Showing, CurrentIsServed, z
  <2> QED
    BY <2>1, <2>2
<1>7. SentIsKnown(r, k, n, w)
  <2> SUFFICES ASSUME w.status # "off" PROVE Knows(r, k, n, w.sent, z + 1)
    BY <1>1 DEF SentIsKnown
  <2>1. CASE v.status # "off" /\ w.sent = v.sent
    <3>1. Knows(s, k, n, v.sent, z)
      BY <2>1 DEF Showing, SentIsKnown, z
    <3>2. z <= z + 1 /\ z + 1 \in Nat /\ v.sent <= v.sent
      BY <1>1
    <3> QED
      BY <1>1, <1>3, <2>1, <3>1, <3>2
  <2>2. CASE w.sent = 0
    BY <2>2 DEF Knows
  <2>3. CASE Says("document", m, k) /\ w.sent = m.at
    <3>1. z < z + 1 /\ m.at >= w.sent
      BY <1>1, <2>3
    <3>2. AnsweredBefore(r, k, z)
      BY <1>1 DEF AnsweredBefore
    <3> QED
      BY <1>1, <2>3, <3>1, <3>2 DEF Knows
  <2> QED
    BY <2>1, <2>2, <2>3
<1>8. SnapshotIsKnown(r, k, e, n, l)
  <2> SUFFICES ASSUME NEW i \in DOMAIN r, NEW c \in Nat, r[i].type = "snapshot", c < i,
                      CurrentSince(r, k, e, c), NoReset(r, k, c, i)
               PROVE  Knows(r, k, n, LastOf(l, k, r[i].at), i)
    BY DEF SnapshotIsKnown
  <2>1. i \in Nat /\ i <= z /\ r[i] \in Said(h)
    <3>1. \A x \in Nat : x < z => x <= z
      BY <1>1
    <3>2. z <= z
      BY <1>1
    <3>3. r \in Seq(Said(h))
      BY Added DEF r
    <3>4. r[i] \in Said(h)
      BY <3>3
    <3>5. i \in Nat /\ i <= z
      BY <1>1, <3>1, <3>2
    <3> QED
      BY <3>4, <3>5
  <2>2. c < z
    BY <1>1, <2>1
  <2>3. CurrentSince(s, k, e, c) /\ NoReset(s, k, c, i)
    BY <1>1, <1>4, <1>5, <2>2
  <2>4. LastOf(l, k, r[i].at) \in Nat
    <3>1. r[i].at \in Nat
      BY <2>1 DEF Said
    <3> QED
      BY <3>1, LastOfIs
  <2>5. CASE i \in DOMAIN s
    <3>1. Knows(s, k, n, LastOf(l, k, r[i].at), i)
      BY <1>1, <2>3, <2>5 DEF Showing, SnapshotIsKnown
    <3>2. i <= i /\ LastOf(l, k, r[i].at) <= LastOf(l, k, r[i].at)
      BY <2>1, <2>4
    <3> QED
      BY <1>3, <2>1, <2>4, <3>1, <3>2
  <2>6. CASE i = z
    <3>1. v.status = "current"
      BY <2>3, <2>6 DEF Showing, CurrentIsServed, z
    <3>2. Knows(s, k, n, v.sent, z)
      BY <3>1 DEF Showing, SentIsKnown, z
    <3>3. LastOf(l, k, r[i].at) <= v.sent
      BY <1>1, <2>6, <3>1
    <3> QED
      BY <1>3, <2>1, <2>4, <2>6, <3>2, <3>3
  <2> QED
    BY <1>1, <2>5, <2>6
<1> QED
  BY <1>6, <1>7, <1>8 DEF Showing, r

\* The server answers a request about the target.
LEMMA ShowingAnswered ==
    ASSUME NEW T, NEW s \in Seq(T), NEW m \in T, NEW k, NEW n \in Nat, NEW e, NEW w, NEW l,
           IsAnswer(m, k), w.status # "off" => w.sent <= n
    PROVE  Showing(Append(s, m), k, e, n, w, l)
<1> DEFINE r == Append(s, m)
           z == Len(s) + 1
<1>1. z \in Nat /\ z > 0 /\ z \in DOMAIN r /\ r[z] = m /\ \A i \in DOMAIN r : i \in Nat /\ i <= z
  BY Added
<1> HIDE DEF r, z
<1>2. \A c \in Nat : ~CurrentSince(r, k, e, c)
  <2> SUFFICES ASSUME NEW c \in Nat, CurrentSince(r, k, e, c) PROVE FALSE
    OBVIOUS
  <2>1. z < c
    BY <1>1 DEF CurrentSince, AnsweredBefore
  <2>2. c \in DOMAIN r
    BY <1>1, <2>1 DEF CurrentSince
  <2> QED
    BY <1>1, <2>1, <2>2
<1>3. CurrentIsServed(r, k, e, w) /\ SnapshotIsKnown(r, k, e, n, l)
  BY <1>2 DEF CurrentIsServed, SnapshotIsKnown
<1>4. SentIsKnown(r, k, n, w)
  BY DEF SentIsKnown, Knows
<1> QED
  BY <1>3, <1>4 DEF Showing, r

LEMMA ShowingNothing ==
    ASSUME NEW k, NEW n, NEW e, NEW v, NEW l, v.status = "off", ~e.current
    PROVE  Showing(<<>>, k, e, n, v, l)
<1>1. DOMAIN <<>> = {}
  OBVIOUS
<1> QED
  BY <1>1 DEF Showing, CurrentIsServed, SentIsKnown, SnapshotIsKnown, CurrentSince

\* The past of a target stays what it is.
LEMMA ShowingKept ==
    ASSUME NEW h \in Nat, NEW s \in Seq(Said(h)), NEW k, NEW n, NEW e, NEW v, NEW l, NEW m,
           \A i \in 1..h : m[i] = l[i], Showing(s, k, e, n, v, l)
    PROVE  Showing(s, k, e, n, v, m)
<1>1. \A t \in 0..h : LastOf(m, k, t) = LastOf(l, k, t)
  <2> SUFFICES ASSUME NEW t \in 0..h PROVE LastOf(m, k, t) = LastOf(l, k, t)
    OBVIOUS
  <2>1. t \in Nat /\ \A i \in 1..t : m[i] = l[i]
    OBVIOUS
  <2> QED
    BY <2>1, LastOfPast
<1>2. \A i \in DOMAIN s : s[i].at \in 0..h
  <2>1. \A i \in DOMAIN s : s[i] \in Said(h)
    OBVIOUS
  <2> QED
    BY <2>1, SaidAt
<1>3. \A i \in DOMAIN s : LastOf(m, k, s[i].at) = LastOf(l, k, s[i].at)
  BY <1>1, <1>2
<1> QED
  BY <1>3 DEF Showing, SnapshotIsKnown

-----------------------------------------------------------------------------
(* The state *)

LEMMA Typed ==
    ASSUME TypeOK
    PROVE  /\ now \in Nat /\ log \in Seq([key : Targets, exists : BOOLEAN])
           /\ requests \in Seq(Asked(now)) /\ responses \in Seq(Said(now))
           /\ \A k \in Targets : /\ Have(k) \in 0..now /\ Held(k) \in 0..now
                                 /\ updates[k] # Nothing => updates[k].at \in 0..now
                                 /\ cache[k] # Nothing => cache[k].at \in 0..now
                                 /\ gen[k] \in Nat /\ since[k] \in 0..now
                                 /\ serving[k].sent \in 0..now /\ serving[k].gen \in Nat
<1>1. now \in Nat /\ log \in Seq([key : Targets, exists : BOOLEAN])
  BY DEF TypeOK, now
<1>2. requests \in Seq(Asked(now)) /\ responses \in Seq(Said(now))
  BY DEF TypeOK, Asked, Said
<1>3. ASSUME NEW k \in Targets
      PROVE  /\ updates[k] # Nothing => updates[k].at \in 0..now
             /\ cache[k] # Nothing => cache[k].at \in 0..now
  <2>1. /\ updates[k] \in [at : 0..now, exists : BOOLEAN] \cup {Nothing}
        /\ cache[k] \in [at : 0..now, exists : BOOLEAN] \cup {Nothing}
    BY DEF TypeOK
  <2> QED
    BY <2>1
<1>4. ASSUME NEW k \in Targets
      PROVE  Have(k) \in 0..now /\ Held(k) \in 0..now
  BY <1>1, <1>3 DEF Have, Held
<1>5. ASSUME NEW k \in Targets
      PROVE  /\ gen[k] \in Nat /\ since[k] \in 0..now
             /\ serving[k].sent \in 0..now /\ serving[k].gen \in Nat
  <2>1. gen[k] \in 0..MaxListens /\ MaxListens \in Nat
    BY DEF TypeOK
  <2>2. since[k] \in 0..now
    BY DEF TypeOK
  <2>3. serving[k] \in [status : {"off", "added", "current"}, gen : Nat, sent : 0..now]
    BY DEF TypeOK
  <2> QED
    BY <2>1, <2>2, <2>3
<1> QED
  BY <1>1, <1>2, <1>3, <1>4, <1>5

LEMMA Times ==
    ASSUME TypeOK, NEW k \in Targets
    PROVE  /\ Have(k) \in Nat /\ Held(k) \in Nat /\ Have(k) <= Held(k)
           /\ serving[k].sent \in Nat /\ since[k] <= now
<1>1. now \in Nat
  BY Typed
<1>2. /\ Have(k) \in 0..now /\ Held(k) \in 0..now /\ serving[k].sent \in 0..now
      /\ since[k] \in 0..now /\ (updates[k] # Nothing => updates[k].at \in 0..now)
  BY Typed
<1>3. Have(k) \in Nat /\ Held(k) \in Nat /\ serving[k].sent \in Nat /\ since[k] <= now
  BY <1>1, <1>2
<1>4. Have(k) <= Held(k)
  BY <1>2, <1>3 DEF Held
<1> QED
  BY <1>3, <1>4

LEMMA EnsureType ==
    ASSUME TypeOK, NEW k \in Targets
    PROVE  /\ Ensure(k) \in [outstanding : Int, current : BOOLEAN]
           /\ Fresh \in [outstanding : Int, current : BOOLEAN]
           /\ ~Fresh.current /\ Fresh.outstanding = 0
           /\ state[k] # Absent => Ensure(k) = state[k]
           /\ state[k] = Absent => Ensure(k) = Fresh
BY DEF TypeOK, Ensure, Fresh

\* A state is there when it was set to something else.
LEMMA EnsureNext ==
    ASSUME NEW k \in Targets, NEW s \in [outstanding : Int, current : BOOLEAN]
    PROVE  /\ state'[k] = s => Ensure(k)' = s
           /\ state'[k] = Absent => Ensure(k)' = Fresh
           /\ state'[k] = state[k] => Ensure(k)' = Ensure(k)
<1>1. s # Absent
  OBVIOUS
<1> QED
  BY <1>1 DEF Ensure, Fresh

LEMMA Counting ==
    ASSUME Inv, NEW k \in Targets \ leaked
    PROVE  /\ Ensure(k).outstanding = Due(requests, responses, k)
           /\ Ensure(k).outstanding = 0 <=> Silent(requests, k) /\ AnsweredBefore(responses, k, 1)
<1>1. Ensure(k).outstanding = Due(requests, responses, k)
  BY SameCount DEF Inv, CountsUnlessRejected
<1>2. requests \in Seq(Asked(now)) /\ responses \in Seq(Said(now))
  BY Typed DEF Inv
<1> QED
  BY <1>1, <1>2, NoneDue

\* Who is active has heard all answers.
LEMMA ActiveNow ==
    ASSUME Inv, NEW k \in Targets \ leaked
    PROVE  Active(k) <=> k \in listening /\ Silent(requests, k) /\ AnsweredBefore(responses, k, 1)
BY Counting DEF Active

LEMMA FromZero ==
    ASSUME NEW T, NEW s \in Seq(T), NEW k
    PROVE  AnsweredBefore(s, k, 0) <=> AnsweredBefore(s, k, 1)
<1>1. \A j \in DOMAIN s : j \in Nat /\ j > 0
  OBVIOUS
<1> QED
  BY <1>1 DEF AnsweredBefore

-----------------------------------------------------------------------------
(* What the device hears *)

LEMMA AskingSame ==
    ASSUME NEW q, NEW s, NEW k, NEW g, NEW L, NEW M, NEW v, Asking(q, s, k, g, L, v), k \in L <=> k \in M
    PROVE  Asking(q, s, k, g, M, v)
BY DEF Asking, WantedLast, Unserved

LEMMA Hearing ==
    ASSUME Inv, NEW k \in Targets, responses # <<>>, responses' = Tail(responses),
           UNCHANGED <<log, serving, requests, gen, since>>,
           k \in listening' => k \in listening, leaked \subseteq leaked', stale \subseteq stale',
           \/ updates'[k] = updates[k] \/ updates'[k] = Nothing
           \/ /\ Says("document", Head(responses), k)
              /\ updates'[k].at = Head(responses).at /\ updates'[k].exists = Head(responses).exists,
           k \notin leaked' => Asking(requests, Tail(responses), k, gen[k], listening', serving[k]),
           k \in listening' \ (leaked' \cup stale') /\ Silent(requests, k) =>
              /\ Held(k)' \in Nat /\ Held(k) <= Held(k)'
              /\ Says("document", Head(responses), k) /\ AnsweredBefore(responses, k, 1)
                    => Head(responses).at <= Held(k)'
              /\ AnsweredBefore(Tail(responses), k, 0) /\ Ensure(k)'.current
                    => \/ /\ Ensure(k).current /\ AnsweredBefore(responses, k, 0)
                          /\ ~Says("reset", Head(responses), k)
                       \/ Says("current", Head(responses), k) /\ AnsweredBefore(responses, k, 1)
    PROVE  Watching(k)'
<1>1. TypeOK /\ Watching(k)
  BY DEF Inv
<1>2. /\ now \in Nat /\ responses \in Seq(Said(now))
      /\ Held(k) \in Nat /\ serving[k].sent \in Nat
  <2>1. now \in Nat /\ responses \in Seq(Said(now)) /\ Held(k) \in 0..now /\ serving[k].sent \in 0..now
    BY <1>1, Typed
  <2> QED
    BY <2>1
<1>3. /\ InOrder(responses', k, updates'[k]) /\ AllTrue(responses', k, updates'[k], log')
  BY <1>1, <1>2, DocumentsHeard DEF Watching
<1>4. k \notin leaked' => Asking(requests', responses', k, gen'[k], listening', serving'[k])
  OBVIOUS
<1>5. ASSUME k \in listening' \ leaked', Silent(requests', k)
      PROVE  SaidNow(responses', k, gen'[k], since'[k], serving'[k])
  <2>1. SaidNow(responses, k, gen[k], since[k], serving[k])
    BY <1>1, <1>5 DEF Watching
  <2> QED
    BY <1>2, <2>1, SaidHeard
<1>6. ASSUME k \in listening' \ (leaked' \cup stale'), Silent(requests', k)
      PROVE  Showing(responses', k, Ensure(k)', Held(k)', serving'[k], log')
  <2>1. Showing(responses, k, Ensure(k), Held(k), serving[k], log)
    BY <1>1, <1>6 DEF Watching
  <2>2. Showing(Tail(responses), k, Ensure(k)', Held(k)', serving[k], log)
    BY <1>2, <1>6, <2>1, ShowingHeard
  <2> QED
    BY <2>2
<1> QED
  BY <1>3, <1>4, <1>5, <1>6 DEF Watching

\* What is heard changes nothing of the wire's other end.
LEMMA Receiving ==
    ASSUME Inv, NEW type, Receive(type)
    PROVE  /\ responses # <<>> /\ responses' = Tail(responses)
           /\ Head(responses) \in Said(now) /\ Head(responses).type = type
           /\ UNCHANGED <<log, serving, requests, gen, since, open, breaks, resets, rejections>>
           /\ now' = now /\ responses' \in Seq(Said(now')) /\ open
           /\ type # "snapshot" => /\ Head(responses).key \in Targets /\ Head(responses).gen \in Nat
                                   /\ Head(responses).exists \in BOOLEAN
<1>1. TypeOK
  BY DEF Inv
<1>2. /\ responses # <<>> /\ responses' = Tail(responses) /\ Head(responses).type = type
      /\ UNCHANGED <<log, serving, requests, gen, since, open, breaks, resets, rejections>>
  BY DEF Receive, server, bounds
<1>3. now \in Nat /\ responses \in Seq(Said(now))
  BY <1>1, Typed
<1>4. Head(responses) \in Said(now) /\ Tail(responses) \in Seq(Said(now))
  BY <1>2, <1>3, Taken
<1>5. now' = now
  BY <1>2 DEF now
<1>6. open
  BY <1>1, <1>2 DEF TypeOK
<1>7. type # "snapshot" => /\ Head(responses).key \in Targets /\ Head(responses).gen \in Nat
                           /\ Head(responses).exists \in BOOLEAN
  BY <1>2, <1>4 DEF Said
<1> QED
  BY <1>2, <1>4, <1>5, <1>6, <1>7

\* Types after something was heard.
LEMMA ReceivingTypes ==
    ASSUME Inv, NEW type, Receive(type),
           listening' \subseteq Targets,
           state' \in [Targets -> [outstanding : Int, current : BOOLEAN] \cup {Absent}],
           updates' \in [Targets -> [at : 0..now, exists : BOOLEAN] \cup {Nothing}],
           cache' \in [Targets -> [at : 0..now, exists : BOOLEAN] \cup {Nothing}],
           synced' \in [Targets -> BOOLEAN],
           stale' \subseteq Targets, leaked' \subseteq Targets, strayed' \in BOOLEAN
    PROVE  TypeOK'
<1>1. TypeOK
  BY DEF Inv
<1>2. /\ UNCHANGED <<log, serving, requests, gen, since, open, breaks, resets, rejections>>
      /\ now' = now /\ responses' \in Seq(Said(now')) /\ open
  BY Receiving
<1>3. log' \in Seq([key : Targets, exists : BOOLEAN])
  BY <1>1, <1>2 DEF TypeOK
<1>4. serving' \in [Targets -> [status : {"off", "added", "current"}, gen : Nat, sent : 0..now']]
  BY <1>1, <1>2 DEF TypeOK
<1>5. requests' \in Seq([op : {"watch", "unwatch"}, key : Targets, gen : Nat, have : 0..now'])
  BY <1>1, <1>2 DEF TypeOK
<1>6. gen' \in [Targets -> 0..MaxListens] /\ since' \in [Targets -> 0..now']
  BY <1>1, <1>2 DEF TypeOK
<1>7. breaks' \in 0..MaxBreaks /\ resets' \in 0..MaxResets /\ rejections' \in 0..MaxRejections
  BY <1>1, <1>2 DEF TypeOK
<1>8. open' \in BOOLEAN /\ open'
  BY <1>1, <1>2 DEF TypeOK
<1> QED
  BY <1>2, <1>3, <1>4, <1>5, <1>6, <1>7, <1>8 DEF TypeOK, Said

\* The cache stays, and no view becomes current.
LEMMA CacheKept ==
    ASSUME Inv, UNCHANGED <<log, cache>>, stale \cup leaked \subseteq stale' \cup leaked',
           \A k \in listening' : synced'[k] => k \in listening /\ synced[k] /\ since'[k] = since[k]
    PROVE  CacheIsTruthful' /\ SyncedIsFresh'
<1>1. CacheIsTruthful /\ SyncedIsFresh
  BY DEF Inv
<1>2. CacheIsTruthful'
  <2>1. ASSUME NEW k \in Targets \ (stale' \cup leaked'), cache'[k] # Nothing
        PROVE  /\ cache'[k].exists = ExistsAt(k, cache[k].at)'
               /\ cache'[k].exists => LastChange(k, cache[k].at)' = cache'[k].at
    <3>1. k \in Targets \ (stale \cup leaked)
      OBVIOUS
    <3>2. /\ cache[k].exists = ExistsAt(k, cache[k].at)
          /\ cache[k].exists => LastChange(k, cache[k].at) = cache[k].at
      BY <1>1, <2>1, <3>1 DEF CacheIsTruthful
    <3>3. LastChange(k, cache[k].at)' = LastChange(k, cache[k].at)
      BY DEF LastChange, Changed
    <3>4. ExistsAt(k, cache[k].at)' = ExistsAt(k, cache[k].at)
      BY <3>3 DEF ExistsAt
    <3> QED
      BY <3>2, <3>3, <3>4
  <2> QED
    BY <2>1 DEF CacheIsTruthful
<1>3. SyncedIsFresh'
  <2>1. ASSUME NEW k \in listening' \ (stale' \cup leaked'), synced'[k]
        PROVE  cache'[k] # Nothing /\ cache'[k].at >= LastChange(k, since[k])'
    <3>1. k \in listening \ (stale \cup leaked) /\ synced[k] /\ since'[k] = since[k]
      BY <2>1
    <3>2. cache[k] # Nothing /\ cache[k].at >= LastChange(k, since[k])
      BY <1>1, <3>1 DEF SyncedIsFresh
    <3>3. LastChange(k, since[k])' = LastChange(k, since[k])
      BY <3>1 DEF LastChange, Changed
    <3> QED
      BY <3>2, <3>3
  <2> QED
    BY <2>1 DEF SyncedIsFresh
<1> QED
  BY <1>2, <1>3

LEMMA CountsNext ==
    ASSUME \A k \in Targets \ leaked' : Ensure(k)'.outstanding = Due(requests', responses', k)
    PROVE  CountsUnlessRejected'
BY DEF CountsUnlessRejected, Requested, Answered, Due, Asks, Answers

LEMMA TokensKept == ASSUME TokensOld, UNCHANGED <<requests, cache>> PROVE TokensOld'
BY DEF TokensOld, Have

\* What is heard of one target says nothing of another.
LEMMA HearingOther ==
    ASSUME Inv, NEW k \in Targets, responses # <<>>, responses' = Tail(responses),
           UNCHANGED <<log, serving, requests, gen, since>>,
           k \in listening' <=> k \in listening, leaked \subseteq leaked', stale \subseteq stale',
           updates'[k] = updates[k], Held(k)' = Held(k), state'[k] = state[k],
           ~About(Head(responses), k), Head(responses).type # "snapshot"
    PROVE  Watching(k)'
<1> DEFINE m == Head(responses)
<1>1. TypeOK /\ Watching(k)
  BY DEF Inv
<1>2. responses \in Seq(Said(now)) /\ now \in Nat /\ Held(k) \in Nat
  <2>1. now \in Nat /\ Held(k) \in 0..now
    BY <1>1, Typed
  <2> QED
    BY <1>1, <2>1, Typed
<1>3. /\ ~IsAnswer(m, k) /\ ~Says("document", m, k) /\ ~Says("reset", m, k)
  BY DEF IsAnswer, Says, About
<1>4. AnsweredBefore(Tail(responses), k, 0) => AnsweredBefore(responses, k, 0)
  <2>1. AnsweredBefore(Tail(responses), k, 0) => AnsweredBefore(responses, k, 0 + 1)
    BY <1>2, <1>3, AnswersLess
  <2> QED
    BY <1>2, <2>1, FromZero
<1>5. Ensure(k)' = Ensure(k)
  BY DEF Ensure, Fresh
<1>6. k \notin leaked' => Asking(requests, Tail(responses), k, gen[k], listening', serving[k])
  <2> SUFFICES ASSUME k \notin leaked'
               PROVE  Asking(requests, Tail(responses), k, gen[k], listening', serving[k])
    OBVIOUS
  <2>1. Asking(requests, responses, k, gen[k], listening, serving[k])
    BY <1>1 DEF Watching
  <2>2. Asking(requests, Tail(responses), k, gen[k], listening, serving[k])
    BY <1>2, <2>1, AskingHeard
  <2> QED
    BY <2>2, AskingSame
<1>7. Held(k)' \in Nat /\ Held(k) <= Held(k)'
  BY <1>2
<1> HIDE DEF m
<1> QED
  BY <1>3, <1>4, <1>5, <1>6, <1>7, Hearing DEF m

\* What hearing something of target h does: its state becomes f, ...
Becomes(h, f) ==
    /\ UNCHANGED <<listening, cache, synced, leaked>>
    /\ stale \subseteq stale' /\ stale' \subseteq Targets
    /\ state' \in [Targets -> [outstanding : Int, current : BOOLEAN] \cup {Absent}]
    /\ Ensure(h)' = f
    /\ \A k \in Targets : k # h => state'[k] = state[k]
    /\ f.outstanding = Ensure(h).outstanding - (IF IsAnswer(Head(responses), h) THEN 1 ELSE 0)
    /\ strayed' = FALSE

\* ... a document may be kept for the next snapshot, ...
Notes(h, type) ==
    /\ updates' \in [Targets -> [at : 0..now, exists : BOOLEAN] \cup {Nothing}]
    /\ \A k \in Targets : k # h => updates'[k] = updates[k]
    /\ \/ updates'[h] = updates[h]
       \/ /\ type = "document" /\ updates'[h] # Nothing
          /\ updates'[h].at = Head(responses).at /\ updates'[h].exists = Head(responses).exists

\* ... and it is current only for a reason.
Believes(h, type, f) ==
    h \in listening \ (leaked \cup stale') /\ Silent(requests, h) =>
       /\ type = "document" /\ AnsweredBefore(responses, h, 1)
             => updates'[h] # Nothing /\ updates'[h].at = Head(responses).at
       /\ AnsweredBefore(Tail(responses), h, 0) /\ f.current
             => \/ Ensure(h).current /\ AnsweredBefore(responses, h, 0) /\ type # "reset"
                \/ type = "current" /\ AnsweredBefore(responses, h, 1)

\* Something is heard of a target, after which its state is f.
LEMMA HearingOf ==
    ASSUME Inv, NEW type, type # "snapshot", Receive(type),
           NEW h \in Targets, h = Head(responses).key,
           NEW f \in [outstanding : Int, current : BOOLEAN],
           Becomes(h, f), Notes(h, type), Believes(h, type, f)
    PROVE  Inv'
<1> USE DEF Becomes, Notes, Believes
<1> DEFINE m == Head(responses)
<1>1. /\ responses # <<>> /\ responses' = Tail(responses)
      /\ m \in Said(now) /\ m.type = type /\ m.key = h
      /\ UNCHANGED <<log, serving, requests, gen, since>> /\ open' = open /\ open
  BY Receiving
<1> HIDE DEF m
<1>2. /\ TypeOK /\ Closed /\ TokensOld /\ IsFiniteSet(listening)
      /\ requests \in Seq(Asked(now)) /\ responses \in Seq(Said(now)) /\ now \in Nat
  <2>1. TypeOK /\ Closed /\ TokensOld /\ IsFiniteSet(listening)
    BY DEF Inv
  <2> QED
    BY <2>1, Typed
<1>3. TypeOK'
  <2>1. /\ listening \subseteq Targets /\ leaked \subseteq Targets
        /\ cache \in [Targets -> [at : 0..now, exists : BOOLEAN] \cup {Nothing}]
        /\ synced \in [Targets -> BOOLEAN]
    BY <1>2 DEF TypeOK
  <2>2. strayed' \in BOOLEAN
    OBVIOUS
  <2> QED
    BY <2>1, <2>2, ReceivingTypes
<1>4. \A k \in Targets : IsAnswer(m, k) => k = h
  BY <1>1 DEF IsAnswer
<1>5. ASSUME NEW k \in Targets, k # h
      PROVE  Ensure(k)' = Ensure(k)
  BY <1>5 DEF Ensure, Fresh
<1>6. ASSUME NEW k \in Targets \ leaked
      PROVE  Ensure(k)'.outstanding = Due(requests, Tail(responses), k)
  <2>1. Ensure(k).outstanding = Due(requests, responses, k)
    BY Counting
  <2>2. Due(requests, Tail(responses), k)
           = Due(requests, responses, k) - (IF IsAnswer(m, k) THEN 1 ELSE 0)
    BY <1>1, <1>2, DueHeard DEF m
  <2>3. Due(requests, responses, k) \in Nat
    BY <1>2, DueTypes
  <2>4. CASE k = h
    BY <2>1, <2>2, <2>4 DEF m
  <2>5. CASE k # h
    <3>1. ~IsAnswer(m, k)
      BY <1>4, <2>5
    <3>2. Ensure(k)'.outstanding = Ensure(k).outstanding
      BY <1>5, <2>5
    <3> QED
      BY <2>1, <2>2, <2>3, <3>1, <3>2
  <2> QED
    BY <2>4, <2>5
<1>7. CountsUnlessRejected'
  BY <1>1, <1>6, CountsNext
<1>8. ASSUME NEW k \in Targets, k # h PROVE Watching(k)'
  <2>1. ~About(m, k) /\ m.type # "snapshot"
    BY <1>1, <1>8 DEF About
  <2>2. Held(k)' = Held(k)
    BY <1>8 DEF Held, Have
  <2> QED
    BY <1>1, <1>8, <2>1, <2>2, HearingOther DEF m
<1>9. Watching(h)'
  <2>1. h \notin leaked' => Asking(requests, Tail(responses), h, gen[h], listening', serving[h])
    BY <1>1, <1>2, AskingHeard DEF Inv, Watching
  <2>2. /\ Held(h) \in Nat /\ Have(h) \in Nat /\ m.at \in Nat
        /\ updates[h] # Nothing => updates[h].at \in Nat
    <3>1. /\ Held(h) \in 0..now /\ Have(h) \in 0..now /\ m.at \in 0..now
          /\ updates[h] # Nothing => updates[h].at \in 0..now
      BY <1>1, <1>2, Typed, SaidAt
    <3> QED
      BY <1>2, <3>1
  <2>3. /\ Held(h)' \in Nat /\ Held(h) <= Held(h)'
        /\ updates'[h] # Nothing => updates'[h].at <= Held(h)'
    <3>1. Have(h)' = Have(h)
      BY DEF Have
    <3>2. Held(h)' = IF updates'[h] # Nothing /\ updates'[h].at > Have(h)
                     THEN updates'[h].at ELSE Have(h)
      BY <3>1 DEF Held
    <3>3. CASE updates'[h] = updates[h]
      BY <2>2, <3>2, <3>3 DEF Held
    <3>4. CASE updates'[h] # updates[h]
      <4>1. /\ Says("document", m, h)
            /\ updates'[h].at = m.at
        BY <1>1, <3>4 DEF Says, m
      <4>2. updates[h] # Nothing => updates[h].at <= m.at
        BY <1>1, <1>2, <4>1, Taken DEF Inv, Watching, InOrder, m
      <4>3. updates'[h] # Nothing
        BY <3>4
      <4> QED
        BY <2>2, <3>2, <4>1, <4>2, <4>3 DEF Held
    <3> QED
      BY <3>3, <3>4
  <2>4. ASSUME h \in listening \ (leaked \cup stale'), Silent(requests, h)
        PROVE  /\ Says("document", m, h) /\ AnsweredBefore(responses, h, 1) => m.at <= Held(h)'
               /\ AnsweredBefore(Tail(responses), h, 0) /\ Ensure(h)'.current
                     => \/ /\ Ensure(h).current /\ AnsweredBefore(responses, h, 0)
                           /\ ~Says("reset", m, h)
                        \/ Says("current", m, h) /\ AnsweredBefore(responses, h, 1)
    BY <1>1, <2>3, <2>4 DEF Says, m
  <2> QED
    BY <1>1, <2>1, <2>3, <2>4, Hearing DEF m, Says
<1>10. CacheIsTruthful' /\ SyncedIsFresh'
  BY <1>1, CacheKept
<1>11. Closed' /\ TokensOld' /\ NothingStrays' /\ IsFiniteSet(listening')
  BY <1>1, <1>2, TokensKept DEF Closed, NothingStrays
<1> QED
  BY <1>3, <1>7, <1>8, <1>9, <1>10, <1>11 DEF Inv

LEMMA HearingAdded == ASSUME Inv, ReceiveAdded PROVE Inv'
<1>1. Receive("added")
  BY DEF ReceiveAdded
<1> PICK h \in Targets : h = Head(responses).key
  BY <1>1, Receiving
<1> DEFINE f == [Ensure(h) EXCEPT !.outstanding = Ensure(h).outstanding - 1]
<1>2. /\ state' = [state EXCEPT ![h] = f]
      /\ stale' = IF f.outstanding = 0 /\ f.current THEN stale \cup {h} ELSE stale
      /\ UNCHANGED <<listening, updates, cache, synced, leaked, strayed>>
  BY DEF ReceiveAdded
<1>3. /\ TypeOK /\ responses # <<>> /\ responses \in Seq(Said(now)) /\ requests \in Seq(Asked(now))
      /\ Head(responses).type = "added" /\ now \in Nat
  BY <1>1, Receiving, Typed DEF Inv
<1>4. f \in [outstanding : Int, current : BOOLEAN] /\ f.outstanding = Ensure(h).outstanding - 1
  <2>1. Ensure(h) \in [outstanding : Int, current : BOOLEAN]
    BY <1>3, EnsureType
  <2> QED
    BY <2>1
<1>5. IsAnswer(Head(responses), h)
  BY <1>3 DEF IsAnswer
<1>6. ASSUME h \in listening \ (leaked \cup stale'), Silent(requests, h),
             AnsweredBefore(Tail(responses), h, 0), f.current
      PROVE  FALSE
  <2>1. AnsweredBefore(Tail(responses), h, 1) /\ Tail(responses) \in Seq(Said(now))
    BY <1>3, <1>6, Taken, FromZero
  <2>2. Due(requests, Tail(responses), h) = 0
    BY <1>3, <1>6, <2>1, NoneDue
  <2>3. Due(requests, Tail(responses), h) = Due(requests, responses, h) - 1
    BY <1>3, <1>5, DueHeard
  <2>4. Ensure(h).outstanding = Due(requests, responses, h)
    BY <1>6, Counting
  <2>5. f.outstanding = 0
    BY <1>4, <2>2, <2>3, <2>4
  <2> QED
    BY <1>2, <1>6, <2>5
<1> HIDE DEF f
<1>7. /\ state \in [Targets -> [outstanding : Int, current : BOOLEAN] \cup {Absent}]
      /\ updates' \in [Targets -> [at : 0..now, exists : BOOLEAN] \cup {Nothing}]
      /\ stale \subseteq Targets /\ strayed' = FALSE
  BY <1>2, <1>3 DEF TypeOK, Inv, NothingStrays
<1>8. /\ state' \in [Targets -> [outstanding : Int, current : BOOLEAN] \cup {Absent}]
      /\ state'[h] = f /\ \A k \in Targets : k # h => state'[k] = state[k]
  BY <1>2, <1>4, <1>7
<1>9. Ensure(h)' = f
  BY <1>4, <1>8, EnsureNext
<1>10. stale \subseteq stale' /\ stale' \subseteq Targets
  BY <1>2, <1>7
<1>11. Becomes(h, f)
  BY <1>2, <1>4, <1>5, <1>7, <1>8, <1>9, <1>10 DEF Becomes
<1>12. Notes(h, "added")
  BY <1>2, <1>7 DEF Notes
<1>13. Believes(h, "added", f)
  BY <1>6 DEF Believes
<1> QED
  BY <1>1, <1>4, <1>11, <1>12, <1>13, HearingOf

LEMMA HearingRemoved == ASSUME Inv, ReceiveRemoved PROVE Inv'
<1>1. Receive("removed")
  BY DEF ReceiveRemoved
<1> PICK h \in Targets : h = Head(responses).key
  BY <1>1, Receiving
<1> DEFINE s == [Ensure(h) EXCEPT !.outstanding = Ensure(h).outstanding - 1]
           f == IF s.outstanding = 0 THEN Fresh ELSE s
<1>2. /\ state' = [state EXCEPT ![h] = IF s.outstanding = 0 THEN Absent ELSE s]
      /\ UNCHANGED <<listening, updates, cache, synced, stale, leaked, strayed>>
  BY DEF ReceiveRemoved, Forgotten
<1>3. /\ TypeOK /\ responses # <<>> /\ responses \in Seq(Said(now)) /\ now \in Nat
      /\ Head(responses).type = "removed"
  BY <1>1, Receiving, Typed DEF Inv
<1>4. s \in [outstanding : Int, current : BOOLEAN] /\ s.outstanding = Ensure(h).outstanding - 1
  <2>1. Ensure(h) \in [outstanding : Int, current : BOOLEAN]
    BY <1>3, EnsureType
  <2> QED
    BY <2>1
<1> HIDE DEF s
<1>5. f \in [outstanding : Int, current : BOOLEAN] /\ f.outstanding = Ensure(h).outstanding - 1
  BY <1>3, <1>4, EnsureType
<1>6. IsAnswer(Head(responses), h)
  BY <1>3 DEF IsAnswer
<1>7. ASSUME h \in listening \ leaked, Silent(requests, h), AnsweredBefore(Tail(responses), h, 0)
      PROVE  FALSE
  <2>1. AnsweredBefore(Tail(responses), h, 1)
    BY <1>3, <1>7, Taken, FromZero
  <2>2. AnsweredBefore(responses, h, 1 + 1)
    BY <1>3, <2>1, AnswersLess
  <2>3. SaidNow(responses, h, gen[h], since[h], serving[h])
    BY <1>7 DEF Inv, Watching
  <2>4. 1 \in DOMAIN responses /\ Head(responses) = responses[1]
    BY <1>3, Taken
  <2> QED
    BY <1>3, <2>2, <2>3, <2>4 DEF SaidNow, About
<1>8. /\ state \in [Targets -> [outstanding : Int, current : BOOLEAN] \cup {Absent}]
      /\ updates' \in [Targets -> [at : 0..now, exists : BOOLEAN] \cup {Nothing}]
      /\ stale \subseteq Targets /\ strayed' = FALSE
  BY <1>2, <1>3 DEF TypeOK, Inv, NothingStrays
<1>9. /\ state' \in [Targets -> [outstanding : Int, current : BOOLEAN] \cup {Absent}]
      /\ state'[h] = (IF s.outstanding = 0 THEN Absent ELSE s)
      /\ \A k \in Targets : k # h => state'[k] = state[k]
  BY <1>2, <1>4, <1>8
<1>10. Ensure(h)' = f
  BY <1>4, <1>9, EnsureNext
<1> HIDE DEF f
<1>11. Becomes(h, f)
  BY <1>2, <1>5, <1>6, <1>8, <1>9, <1>10 DEF Becomes
<1>12. Notes(h, "removed")
  BY <1>2, <1>8 DEF Notes
<1>13. Believes(h, "removed", f)
  BY <1>7 DEF Believes
<1> QED
  BY <1>1, <1>5, <1>11, <1>12, <1>13, HearingOf

\* What is accepted is about the present listen.
LEMMA NotStraying ==
    ASSUME Inv, NEW type, type \in {"current", "reset", "document"}, Receive(type),
           Accepts(Head(responses))
    PROVE  strayed' = FALSE
<1> PICK h \in Targets : h = Head(responses).key
  BY Receiving
<1>1. /\ responses # <<>> /\ responses \in Seq(Said(now)) /\ strayed = FALSE
      /\ Head(responses).type = type /\ now \in Nat
  BY Receiving, Typed DEF Inv, NothingStrays, TypeOK
<1>2. ASSUME Active(h), h \notin leaked PROVE Head(responses).gen = gen[h]
  <2>1. h \in listening /\ Silent(requests, h) /\ AnsweredBefore(responses, h, 1)
    BY <1>2, ActiveNow
  <2>2. SaidNow(responses, h, gen[h], since[h], serving[h])
    BY <1>2, <2>1 DEF Inv, Watching
  <2>3. 1 \in DOMAIN responses /\ Head(responses) = responses[1]
    BY <1>1, Taken
  <2>4. \A j \in DOMAIN responses : j \in Nat
    BY <1>1
  <2>5. AnsweredBefore(responses, h, 1 + 1)
    BY <2>1, <2>4 DEF AnsweredBefore
  <2> QED
    BY <1>1, <2>2, <2>3, <2>5 DEF SaidNow, About
<1>3. strayed' = (strayed \/ (Active(h) /\ Head(responses).gen # gen[h] /\ h \notin leaked))
  BY DEF Accepts
<1> QED
  BY <1>1, <1>2, <1>3

LEMMA HearingCurrent == ASSUME Inv, ReceiveCurrent PROVE Inv'
<1>1. Receive("current")
  BY DEF ReceiveCurrent
<1> PICK h \in Targets : h = Head(responses).key
  BY <1>1, Receiving
<1> DEFINE f == [Ensure(h) EXCEPT !.current = Ensure(h).current \/ Active(h)]
<1>2. /\ state' = [state EXCEPT ![h] = f]
      /\ UNCHANGED <<listening, updates, cache, synced, stale, leaked>>
      /\ Accepts(Head(responses))
  BY DEF ReceiveCurrent
<1>3. TypeOK /\ Head(responses).type = "current"
  BY <1>1, Receiving DEF Inv
<1>4. /\ f \in [outstanding : Int, current : BOOLEAN]
      /\ f.outstanding = Ensure(h).outstanding
      /\ f.current <=> Ensure(h).current \/ Active(h)
  <2>1. Ensure(h) \in [outstanding : Int, current : BOOLEAN]
    BY <1>3, EnsureType
  <2>2. (Ensure(h).current \/ Active(h)) \in BOOLEAN
    BY DEF Active
  <2> QED
    BY <2>1, <2>2
<1> HIDE DEF f
<1>5. ~IsAnswer(Head(responses), h)
  BY <1>3 DEF IsAnswer
<1>6. /\ state \in [Targets -> [outstanding : Int, current : BOOLEAN] \cup {Absent}]
      /\ updates' \in [Targets -> [at : 0..now, exists : BOOLEAN] \cup {Nothing}]
      /\ stale \subseteq Targets
  BY <1>2, <1>3 DEF TypeOK
<1>7. /\ state' \in [Targets -> [outstanding : Int, current : BOOLEAN] \cup {Absent}]
      /\ state'[h] = f /\ \A k \in Targets : k # h => state'[k] = state[k]
  BY <1>2, <1>4, <1>6
<1>8. Ensure(h)' = f
  BY <1>4, <1>7, EnsureNext
<1>9. strayed' = FALSE
  BY <1>1, <1>2, NotStraying
<1>10. ASSUME h \in listening \ leaked, AnsweredBefore(Tail(responses), h, 0), f.current
       PROVE  \/ Ensure(h).current /\ AnsweredBefore(responses, h, 0)
              \/ AnsweredBefore(responses, h, 1)
  <2>1. responses # <<>> /\ responses \in Seq(Said(now))
    BY <1>1, <1>3, Receiving, Typed
  <2>2. AnsweredBefore(responses, h, 0 + 1)
    BY <1>5, <1>10, <2>1, AnswersLess
  <2> QED
    BY <2>2
<1>11. f.outstanding = Ensure(h).outstanding - 0
  BY <1>4
<1>12. Becomes(h, f)
  BY <1>2, <1>5, <1>6, <1>7, <1>8, <1>9, <1>11 DEF Becomes
<1>13. Notes(h, "current")
  BY <1>2, <1>6 DEF Notes
<1>14. Believes(h, "current", f)
  BY <1>10 DEF Believes
<1> QED
  BY <1>1, <1>4, <1>12, <1>13, <1>14, HearingOf

LEMMA HearingReset == ASSUME Inv, ReceiveReset PROVE Inv'
<1>1. Receive("reset")
  BY DEF ReceiveReset
<1> PICK h \in Targets : h = Head(responses).key
  BY <1>1, Receiving
<1> DEFINE f == IF Active(h) THEN Fresh ELSE Ensure(h)
<1>2. /\ state' = [state EXCEPT ![h] = f]
      /\ UNCHANGED <<listening, updates, cache, synced, stale, leaked>>
      /\ Accepts(Head(responses))
  BY DEF ReceiveReset
<1>3. /\ TypeOK /\ Head(responses).type = "reset"
      /\ responses # <<>> /\ responses \in Seq(Said(now))
  BY <1>1, Receiving, Typed DEF Inv
<1>4. f \in [outstanding : Int, current : BOOLEAN] /\ f.outstanding = Ensure(h).outstanding - 0
  <2>1. /\ Ensure(h) \in [outstanding : Int, current : BOOLEAN]
        /\ Fresh \in [outstanding : Int, current : BOOLEAN] /\ Fresh.outstanding = 0
    BY <1>3, EnsureType
  <2>2. Active(h) => Ensure(h).outstanding = 0
    BY DEF Active
  <2> QED
    BY <2>1, <2>2
<1>5. ~IsAnswer(Head(responses), h)
  BY <1>3 DEF IsAnswer
<1>6. ASSUME h \in listening \ leaked, Silent(requests, h), AnsweredBefore(Tail(responses), h, 0),
             f.current
      PROVE  FALSE
  <2>1. AnsweredBefore(responses, h, 0 + 1)
    BY <1>3, <1>5, <1>6, AnswersLess
  <2>2. Active(h)
    BY <1>6, <2>1, ActiveNow
  <2> QED
    BY <1>6, <2>2 DEF Fresh
<1> HIDE DEF f
<1>7. /\ state \in [Targets -> [outstanding : Int, current : BOOLEAN] \cup {Absent}]
      /\ updates' \in [Targets -> [at : 0..now, exists : BOOLEAN] \cup {Nothing}]
      /\ stale \subseteq Targets
  BY <1>2, <1>3 DEF TypeOK
<1>8. /\ state' \in [Targets -> [outstanding : Int, current : BOOLEAN] \cup {Absent}]
      /\ state'[h] = f /\ \A k \in Targets : k # h => state'[k] = state[k]
  BY <1>2, <1>4, <1>7
<1>9. Ensure(h)' = f
  BY <1>4, <1>8, EnsureNext
<1>10. strayed' = FALSE
  BY <1>1, <1>2, NotStraying
<1>11. Becomes(h, f)
  BY <1>2, <1>4, <1>5, <1>7, <1>8, <1>9, <1>10 DEF Becomes
<1>12. Notes(h, "reset")
  BY <1>2, <1>7 DEF Notes
<1>13. Believes(h, "reset", f)
  BY <1>6 DEF Believes
<1> QED
  BY <1>1, <1>4, <1>11, <1>12, <1>13, HearingOf

LEMMA HearingDocument == ASSUME Inv, ReceiveDocument PROVE Inv'
<1>1. Receive("document")
  BY DEF ReceiveDocument
<1> PICK h \in Targets : h = Head(responses).key
  BY <1>1, Receiving
<1> DEFINE d == Doc(Head(responses).at, Head(responses).exists)
           f == Ensure(h)
<1>2. /\ IF Active(h) THEN /\ updates' = [updates EXCEPT ![h] = d]
                           /\ state' = [state EXCEPT ![h] = f]
                      ELSE UNCHANGED <<state, updates>>
      /\ UNCHANGED <<listening, cache, synced, stale, leaked>>
      /\ Accepts(Head(responses))
  BY DEF ReceiveDocument, aggregator
<1>3. /\ TypeOK /\ Head(responses).type = "document" /\ Head(responses) \in Said(now)
      /\ Head(responses).exists \in BOOLEAN /\ now \in Nat
      /\ responses # <<>> /\ responses \in Seq(Said(now))
  BY <1>1, Receiving, Typed DEF Inv
<1>4. /\ d \in [at : 0..now, exists : BOOLEAN] /\ d # Nothing
      /\ d.at = Head(responses).at /\ d.exists = Head(responses).exists
  <2>1. Head(responses).at \in 0..now
    BY <1>3, SaidAt
  <2>2. d \in [at : 0..now, exists : BOOLEAN] /\ d \in [at : Nat, exists : BOOLEAN]
    BY <1>3, <2>1 DEF Doc
  <2> QED
    BY <2>2 DEF Doc
<1> HIDE DEF d
<1>5. f \in [outstanding : Int, current : BOOLEAN] /\ f.outstanding = Ensure(h).outstanding - 0
  <2>1. Ensure(h) \in [outstanding : Int, current : BOOLEAN]
    BY <1>3, EnsureType
  <2> QED
    BY <2>1
<1>6. ~IsAnswer(Head(responses), h)
  BY <1>3 DEF IsAnswer
<1>7. /\ state \in [Targets -> [outstanding : Int, current : BOOLEAN] \cup {Absent}]
      /\ updates \in [Targets -> [at : 0..now, exists : BOOLEAN] \cup {Nothing}]
      /\ stale \subseteq Targets
  BY <1>3 DEF TypeOK
<1> HIDE DEF f
<1>8. /\ state' \in [Targets -> [outstanding : Int, current : BOOLEAN] \cup {Absent}]
      /\ updates' \in [Targets -> [at : 0..now, exists : BOOLEAN] \cup {Nothing}]
      /\ state'[h] \in {f, state[h]}
      /\ \A k \in Targets : k # h => state'[k] = state[k] /\ updates'[k] = updates[k]
      /\ updates'[h] = (IF Active(h) THEN d ELSE updates[h])
  <2>1. CASE Active(h)
    BY <1>2, <1>4, <1>5, <1>7, <2>1
  <2>2. CASE ~Active(h)
    BY <1>2, <1>7, <2>2
  <2> QED
    BY <2>1, <2>2
<1>9. Ensure(h)' = f
  BY <1>5, <1>8, EnsureNext DEF f
<1>10. strayed' = FALSE
  BY <1>1, <1>2, NotStraying
<1>11. ASSUME h \in listening \ leaked, Silent(requests, h)
       PROVE  /\ AnsweredBefore(responses, h, 1) => updates'[h] = d
              /\ AnsweredBefore(Tail(responses), h, 0) => AnsweredBefore(responses, h, 0)
  <2>1. AnsweredBefore(Tail(responses), h, 0) => AnsweredBefore(responses, h, 0 + 1)
    BY <1>3, <1>6, AnswersLess
  <2>2. AnsweredBefore(Tail(responses), h, 0) => AnsweredBefore(responses, h, 0)
    BY <1>3, <2>1, FromZero
  <2> QED
    BY <1>8, <1>11, <2>2, ActiveNow
<1>12. \/ updates'[h] = updates[h]
       \/ /\ updates'[h] # Nothing /\ updates'[h].at = Head(responses).at
          /\ updates'[h].exists = Head(responses).exists
  BY <1>4, <1>8
<1>13. h \in listening \ (leaked \cup stale') /\ Silent(requests, h) =>
          /\ AnsweredBefore(responses, h, 1)
                => updates'[h] # Nothing /\ updates'[h].at = Head(responses).at
          /\ AnsweredBefore(Tail(responses), h, 0) /\ f.current
                => Ensure(h).current /\ AnsweredBefore(responses, h, 0)
  BY <1>4, <1>11 DEF f
<1>14. Becomes(h, f)
  BY <1>2, <1>5, <1>6, <1>7, <1>8, <1>9, <1>10 DEF Becomes
<1>15. Notes(h, "document")
  BY <1>8, <1>12 DEF Notes
<1>16. Believes(h, "document", f)
  BY <1>13 DEF Believes
<1> QED
  BY <1>1, <1>5, <1>14, <1>15, <1>16, HearingOf

\* Who is active and current as of a snapshot has what it says.
LEMMA ShownBySnapshot ==
    ASSUME Inv, Receive("snapshot"), NEW k \in Targets \ (leaked \cup stale),
           state[k] # Absent, Active(k)
    PROVE  /\ since[k] <= Head(responses).at
           /\ state[k].current => LastOf(log, k, Head(responses).at) <= Held(k)
<1>1. /\ TypeOK /\ responses # <<>> /\ responses \in Seq(Said(now)) /\ now \in Nat
      /\ Head(responses).type = "snapshot"
  BY Receiving, Typed DEF Inv
<1>2. k \in listening /\ Silent(requests, k) /\ AnsweredBefore(responses, k, 1)
  BY ActiveNow
<1>3. AnsweredBefore(responses, k, 0)
  BY <1>1, <1>2, FromZero
<1>4. 1 \in DOMAIN responses /\ Head(responses) = responses[1]
  BY <1>1, Taken
<1>5. since[k] <= Head(responses).at
  BY <1>1, <1>2, <1>4 DEF Inv, Watching, SaidNow
<1>6. ASSUME state[k].current PROVE LastOf(log, k, Head(responses).at) <= Held(k)
  <2>1. SnapshotIsKnown(responses, k, Ensure(k), Held(k), log)
    BY <1>2 DEF Inv, Watching, Showing
  <2>2. CurrentSince(responses, k, Ensure(k), 0)
    BY <1>3, <1>6 DEF CurrentSince, Ensure
  <2>3. NoReset(responses, k, 0, 1)
    <3>1. \A j \in DOMAIN responses : j \in Nat
      BY <1>1
    <3> QED
      BY <3>1 DEF NoReset
  <2>4. Knows(responses, k, Held(k), LastOf(log, k, Head(responses).at), 1)
    BY <1>1, <1>4, <2>1, <2>2, <2>3 DEF SnapshotIsKnown
  <2>5. \A d \in DOMAIN responses : ~(d < 1)
    BY <1>1
  <2> QED
    BY <2>4, <2>5 DEF Knows
<1> QED
  BY <1>5, <1>6

\* The document that a snapshot brings to the cache, with what was there.
Brought(k, t) == IF (state[k] # Absent /\ Active(k)) /\ Missing(k) THEN Doc(t, FALSE) ELSE updates[k]
Stored(d, old) == IF d # Nothing /\ Newer(d, old) THEN d ELSE old

LEMMA SnapshotStored ==
    ASSUME TypeOK, NEW k \in Targets, NEW t \in 0..now, NEW c, c = Stored(Brought(k, t), cache[k])
    PROVE  /\ Brought(k, t) \in [at : 0..now, exists : BOOLEAN] \cup {Nothing}
           /\ c \in [at : 0..now, exists : BOOLEAN] \cup {Nothing}
           /\ c # Nothing => c.at \in 0..now
           /\ c = Nothing => Held(k) = 0 /\ cache[k] = Nothing
           /\ c # Nothing => Held(k) <= c.at
           /\ (state[k] # Absent /\ Active(k)) /\ state[k].current => c # Nothing
<1> DEFINE d == Brought(k, t)
<1>1. /\ now \in Nat
      /\ updates[k] \in [at : 0..now, exists : BOOLEAN] \cup {Nothing}
      /\ cache[k] \in [at : 0..now, exists : BOOLEAN] \cup {Nothing}
      /\ updates[k] # Nothing => updates[k].at \in 0..now
      /\ cache[k] # Nothing => cache[k].at \in 0..now
  <2>1. /\ updates[k] \in [at : 0..now, exists : BOOLEAN] \cup {Nothing}
        /\ cache[k] \in [at : 0..now, exists : BOOLEAN] \cup {Nothing}
    BY DEF TypeOK
  <2> QED
    BY <2>1, Typed
<1>2. /\ Doc(t, FALSE) \in [at : 0..now, exists : BOOLEAN] /\ Doc(t, FALSE).at = t
      /\ Doc(t, FALSE) # Nothing
  <2>1. t \in Nat
    BY <1>1
  <2>2. Doc(t, FALSE) \in [at : Nat, exists : BOOLEAN]
    BY <2>1 DEF Doc
  <2> QED
    BY <2>2 DEF Doc
<1>3. d \in [at : 0..now, exists : BOOLEAN] \cup {Nothing}
  BY <1>1, <1>2 DEF Brought
<1>4. d # Nothing => d.at \in 0..now
  BY <1>1, <1>2 DEF Brought
<1>5. updates[k] # Nothing => d = updates[k]
  BY DEF Brought, Missing
<1>6. (state[k] # Absent /\ Active(k)) /\ state[k].current => d # Nothing \/ cache[k] # Nothing
  BY <1>2 DEF Brought, Missing
<1> HIDE DEF d
<1>7. c = IF d # Nothing /\ (cache[k] = Nothing \/ d.at > cache[k].at) THEN d ELSE cache[k]
  BY DEF d, Stored, Newer
<1>8. c \in [at : 0..now, exists : BOOLEAN] \cup {Nothing}
  BY <1>1, <1>3, <1>7
<1>9. c # Nothing => c.at \in 0..now
  BY <1>1, <1>4, <1>7
<1>10. c = Nothing => d = Nothing /\ cache[k] = Nothing
  BY <1>7
<1>11. c # Nothing => Held(k) <= c.at
  <2>1. Held(k) = IF updates[k] # Nothing /\ updates[k].at > Have(k) THEN updates[k].at ELSE Have(k)
    BY DEF Held
  <2>2. Have(k) = IF cache[k] = Nothing THEN 0 ELSE cache[k].at
    BY DEF Have
  <2> QED
    BY <1>1, <1>4, <1>5, <1>7, <2>1, <2>2
<1>12. c = Nothing => Held(k) = 0 /\ cache[k] = Nothing
  BY <1>5, <1>10 DEF Held, Have
<1> QED
  BY <1>3, <1>6, <1>7, <1>8, <1>9, <1>11, <1>12 DEF d

\* ... is true: what is made up from silence, too.
LEMMA SnapshotIsTrue ==
    ASSUME Inv, Receive("snapshot"), NEW k \in Targets \ (stale \cup leaked),
           NEW c, c = Stored(Brought(k, Head(responses).at), cache[k]), c # Nothing
    PROVE  /\ c.exists = Existed(log, k, c.at)
           /\ c.exists => LastOf(log, k, c.at) = c.at
<1> DEFINE t == Head(responses).at
<1>1. /\ TypeOK /\ t \in 0..now /\ now \in Nat /\ Watching(k)
  BY Receiving, Typed, SaidAt DEF Inv
<1>2. CASE c = cache[k]
  BY <1>2, SameTimes DEF Inv, CacheIsTruthful
<1>3. CASE c = updates[k] /\ c # cache[k]
  <2>1. Truly(log, k, c)
    BY <1>1, <1>3 DEF Watching, AllTrue
  <2>2. c \in [at : 0..now, exists : BOOLEAN]
    BY <1>1, <1>3 DEF TypeOK
  <2>3. c.exists \in BOOLEAN /\ Existed(log, k, c.at) \in BOOLEAN
    BY <2>2 DEF Existed
  <2> QED
    BY <2>1, <2>3 DEF Truly
<1>4. CASE c # updates[k] /\ c # cache[k]
  <2> HIDE DEF t
  <2>1. /\ state[k] # Absent /\ Active(k) /\ Missing(k) /\ c = Doc(t, FALSE)
        /\ cache[k] = Nothing \/ c.at > cache[k].at
    BY <1>4 DEF Stored, Brought, Newer, t
  <2>2. c.at = t /\ c.exists = FALSE /\ t \in Nat
    BY <1>1, <2>1 DEF Doc
  <2>3. LastOf(log, k, t) <= Held(k) /\ Held(k) = Have(k)
    BY <2>1, ShownBySnapshot DEF Missing, Held, t
  <2>4. LastOf(log, k, t) \in 0..t /\ LastOf(log, k, t) \in Nat
    BY <2>2, LastOfIs
  <2>5. ~Existed(log, k, t)
    <3>1. CASE cache[k] = Nothing
      <4>1. LastOf(log, k, t) = 0
        BY <2>3, <2>4, <3>1 DEF Have
      <4> QED
        BY <4>1 DEF Existed
    <3>2. CASE cache[k] # Nothing
      <4>1. /\ cache[k].exists = ExistsAt(k, cache[k].at) /\ ~cache[k].exists
            /\ cache[k].at \in Nat /\ cache[k].at <= t
        <5>1. cache[k].at \in 0..now
          BY <1>1, <3>2, Typed
        <5>2. cache[k].at \in Nat /\ cache[k].at <= t
          BY <1>1, <2>1, <2>2, <3>2, <5>1
        <5>3. ~cache[k].exists
          BY <2>1, <3>2 DEF Missing
        <5> QED
          BY <3>2, <5>2, <5>3 DEF Inv, CacheIsTruthful
      <4>2. LastOf(log, k, t) <= cache[k].at
        BY <2>3, <3>2 DEF Have
      <4>3. LastOf(log, k, cache[k].at) = LastOf(log, k, t)
        BY <2>2, <4>1, <4>2, LastOfOrder
      <4>4. ~Existed(log, k, cache[k].at)
        BY <4>1, SameTimes
      <4> QED
        BY <4>3, <4>4 DEF Existed
    <3> QED
      BY <3>1, <3>2
  <2>6. Existed(log, k, t) = FALSE
    BY <2>5 DEF Existed
  <2> QED
    BY <2>2, <2>6
<1> QED
  BY <1>2, <1>3, <1>4

LEMMA HearingSnapshot == ASSUME Inv, ReceiveSnapshot PROVE Inv'
<1> DEFINE t == Head(responses).at
           told(k) == state[k] # Absent /\ Active(k)
           c(k) == Stored(Brought(k, t), cache[k])
<1>1. Receive("snapshot")
  BY DEF ReceiveSnapshot
<1>2. /\ responses # <<>> /\ responses' = Tail(responses) /\ Head(responses).type = "snapshot"
      /\ UNCHANGED <<log, serving, requests, gen, since>> /\ open' = open /\ open /\ now' = now
      /\ TypeOK /\ responses \in Seq(Said(now)) /\ now \in Nat /\ t \in 0..now /\ t \in Nat
  <2>1. /\ responses # <<>> /\ responses' = Tail(responses) /\ Head(responses).type = "snapshot"
        /\ UNCHANGED <<log, serving, requests, gen, since>> /\ open' = open /\ open /\ now' = now
        /\ Head(responses) \in Said(now)
    BY <1>1, Receiving
  <2>2. TypeOK /\ responses \in Seq(Said(now)) /\ now \in Nat
    BY Typed DEF Inv
  <2> QED
    BY <2>1, <2>2, SaidAt
<1>3. /\ cache' = [k \in Targets |-> c(k)]
      /\ synced' = [k \in Targets |-> IF told(k) THEN state[k].current ELSE synced[k]]
      /\ updates' = [k \in Targets |-> Nothing]
      /\ UNCHANGED <<listening, state, stale, leaked, strayed>>
  <2>1. \A k \in Targets : k \in {x \in Targets : state[x] # Absent /\ Active(x)} <=> told(k)
    OBVIOUS
  <2>2. cache' = [k \in Targets |-> c(k)]
    BY <2>1 DEF ReceiveSnapshot, Stored, Brought
  <2>3. synced' = [k \in Targets |-> IF told(k) THEN state[k].current ELSE synced[k]]
    BY <2>1 DEF ReceiveSnapshot
  <2> QED
    BY <2>2, <2>3 DEF ReceiveSnapshot
<1>4. ASSUME NEW k \in Targets
      PROVE  /\ cache'[k] \in [at : 0..now, exists : BOOLEAN] \cup {Nothing}
             /\ cache'[k] # Nothing => cache'[k].at \in 0..now
             /\ cache'[k] = Nothing => Held(k) = 0 /\ cache[k] = Nothing
             /\ cache'[k] # Nothing => Held(k) <= cache'[k].at
             /\ told(k) /\ state[k].current => cache'[k] # Nothing
  <2> HIDE DEF t
  <2>1. cache'[k] = Stored(Brought(k, t), cache[k])
    BY <1>3
  <2> QED
    BY <1>2, <2>1, SnapshotStored
<1>5. ASSUME NEW k \in Targets
      PROVE  /\ Held(k)' = Have(k)' /\ Have(k)' \in Nat /\ Held(k) \in Nat
             /\ Held(k) <= Have(k)' /\ Have(k) <= Have(k)' /\ Ensure(k)' = Ensure(k)
  <2>1. Held(k)' = Have(k)' /\ Ensure(k)' = Ensure(k)
    BY <1>3 DEF Held, Ensure, Fresh
  <2>2. Held(k) \in 0..now /\ Have(k) \in 0..now /\ (updates[k] # Nothing => updates[k].at \in 0..now)
    BY <1>2, Typed
  <2>3. Have(k)' = IF cache'[k] = Nothing THEN 0 ELSE cache'[k].at
    BY DEF Have
  <2>4. Have(k) <= Held(k)
    BY <1>2, <2>2 DEF Held
  <2> QED
    BY <1>2, <1>4, <2>1, <2>2, <2>3, <2>4
<1> HIDE DEF c
<1>6. TypeOK'
  <2>1. cache' \in [Targets -> [at : 0..now, exists : BOOLEAN] \cup {Nothing}]
    BY <1>3, <1>4
  <2>2. synced' \in [Targets -> BOOLEAN]
    <3>1. ASSUME NEW k \in Targets PROVE (IF told(k) THEN state[k].current ELSE synced[k]) \in BOOLEAN
      <4>1. CASE told(k)
        <5>1. state[k] \in [outstanding : Int, current : BOOLEAN]
          BY <1>2, <4>1 DEF TypeOK
        <5> QED
          BY <4>1, <5>1
      <4>2. CASE ~told(k)
        BY <1>2, <4>2 DEF TypeOK
      <4> QED
        BY <4>1, <4>2
    <3> HIDE DEF told
    <3> QED
      BY <1>3, <3>1
  <2>3. updates' \in [Targets -> [at : 0..now, exists : BOOLEAN] \cup {Nothing}]
    BY <1>3
  <2>4. /\ listening' \subseteq Targets /\ stale' \subseteq Targets /\ leaked' \subseteq Targets
        /\ strayed' \in BOOLEAN
        /\ state' \in [Targets -> [outstanding : Int, current : BOOLEAN] \cup {Absent}]
    BY <1>2, <1>3 DEF TypeOK
  <2> QED
    BY <1>1, <2>1, <2>2, <2>3, <2>4, ReceivingTypes
<1>7. CountsUnlessRejected'
  <2>1. ASSUME NEW k \in Targets \ leaked'
        PROVE  Ensure(k)'.outstanding = Due(requests', responses', k)
    <3>1. ~IsAnswer(Head(responses), k)
      BY <1>2 DEF IsAnswer
    <3>2. Ensure(k).outstanding = Due(requests, responses, k)
      BY <1>3, Counting
    <3>3. requests \in Seq(Asked(now))
      BY <1>2, Typed
    <3>4. /\ Due(requests, Tail(responses), k) = Due(requests, responses, k) - 0
          /\ Due(requests, responses, k) \in Nat
      BY <1>2, <3>1, <3>3, DueHeard, DueTypes
    <3> QED
      BY <1>2, <1>5, <3>2, <3>4
  <2> QED
    BY <2>1, CountsNext
<1>8. ASSUME NEW k \in Targets PROVE Watching(k)'
  <2>1. k \notin leaked' => Asking(requests, Tail(responses), k, gen[k], listening', serving[k])
    BY <1>2, <1>3, AskingHeard DEF Inv, Watching
  <2>2. ~Says("document", Head(responses), k)
    BY <1>2 DEF Says
  <2>3. AnsweredBefore(Tail(responses), k, 0) => AnsweredBefore(responses, k, 0)
    <3>1. ~IsAnswer(Head(responses), k)
      BY <1>2 DEF IsAnswer
    <3>2. AnsweredBefore(Tail(responses), k, 0) => AnsweredBefore(responses, k, 0 + 1)
      BY <1>2, <3>1, AnswersLess
    <3> QED
      BY <1>2, <3>2, FromZero
  <2>4. ~Says("reset", Head(responses), k)
    BY <1>2 DEF Says
  <2>5. Held(k)' \in Nat /\ Held(k) <= Held(k)' /\ Ensure(k)' = Ensure(k)
    BY <1>5
  <2>6. updates'[k] = Nothing
    BY <1>3
  <2> QED
    BY <1>2, <1>3, <2>1, <2>2, <2>3, <2>4, <2>5, <2>6, Hearing
<1>9. CacheIsTruthful'
  <2>1. ASSUME NEW k \in Targets \ (stale \cup leaked), cache'[k] # Nothing
        PROVE  /\ cache'[k].exists = Existed(log, k, cache'[k].at)
               /\ cache'[k].exists => LastOf(log, k, cache'[k].at) = cache'[k].at
    <3>1. cache'[k] = Stored(Brought(k, t), cache[k])
      BY <1>3 DEF c
    <3> QED
      BY <1>1, <2>1, <3>1, SnapshotIsTrue
  <2>2. ASSUME NEW k \in Targets \ (stale' \cup leaked'), cache'[k] # Nothing
        PROVE  /\ cache'[k].exists = ExistsAt(k, cache[k].at)'
               /\ cache'[k].exists => LastChange(k, cache[k].at)' = cache'[k].at
    <3> PICK u : u = cache'[k].at
      OBVIOUS
    <3>1. /\ cache'[k].exists = Existed(log, k, u)
          /\ cache'[k].exists => LastOf(log, k, u) = u
      BY <1>3, <2>1, <2>2
    <3>2. LastChange(k, u)' = LastOf(log, k, u) /\ ExistsAt(k, u)' = Existed(log, k, u)
      BY <1>2 DEF LastChange, Changed, LastOf, ExistsAt, Existed
    <3>3. LastChange(k, cache[k].at)' = LastChange(k, u)' /\ ExistsAt(k, cache[k].at)' = ExistsAt(k, u)'
      BY DEF LastChange, Changed, ExistsAt
    <3> QED
      BY <3>1, <3>2, <3>3
  <2> QED
    BY <2>2 DEF CacheIsTruthful
<1>10. SyncedIsFresh'
  <2>1. ASSUME NEW k \in listening \ (stale \cup leaked), synced'[k]
        PROVE  cache'[k] # Nothing /\ LastOf(log, k, since[k]) <= cache'[k].at
    <3>1. k \in Targets /\ k \notin stale /\ k \notin leaked
      BY <1>2, <2>1 DEF TypeOK
    <3>2. since[k] \in Nat /\ LastOf(log, k, since[k]) \in Nat
      <4>1. since[k] \in 0..now
        BY <1>2, <3>1, Typed
      <4>2. since[k] \in Nat
        BY <1>2, <4>1
      <4>3. LastOf(log, k, since[k]) \in 0..since[k]
        BY <4>2, LastOfIs
      <4> QED
        BY <4>2, <4>3
    <3>3. CASE told(k)
      <4>1. state[k].current
        BY <1>3, <2>1, <3>1, <3>3
      <4>2. cache'[k] # Nothing /\ Held(k) <= cache'[k].at
        BY <1>4, <3>1, <3>3, <4>1
      <4>3. since[k] <= t /\ LastOf(log, k, t) <= Held(k)
        BY <1>1, <3>1, <3>3, <4>1, ShownBySnapshot
      <4>4. LastOf(log, k, since[k]) <= LastOf(log, k, t)
        BY <1>2, <3>2, <4>3, LastOfOrder
      <4>5. LastOf(log, k, t) \in Nat /\ Held(k) \in Nat /\ cache'[k].at \in Nat
        <5>1. LastOf(log, k, t) \in 0..t
          BY <1>2, LastOfIs
        <5>2. cache'[k].at \in 0..now
          BY <1>4, <3>1, <4>2
        <5> QED
          BY <1>2, <1>5, <3>1, <5>1, <5>2
      <4> QED
        BY <3>2, <4>2, <4>3, <4>4, <4>5
    <3>4. CASE ~told(k)
      <4>1. synced[k]
        BY <1>3, <2>1, <3>1, <3>4
      <4>2. cache[k] # Nothing /\ LastOf(log, k, since[k]) <= cache[k].at
        BY <2>1, <4>1, SameTimes DEF Inv, SyncedIsFresh
      <4>3. cache'[k] # Nothing
        BY <1>4, <3>1, <4>2
      <4>4. Have(k) = cache[k].at /\ Have(k)' = cache'[k].at
        BY <4>2, <4>3 DEF Have
      <4>5. cache[k].at <= cache'[k].at
        BY <1>5, <3>1, <4>4
      <4>6. cache[k].at \in Nat /\ cache'[k].at \in Nat
        <5>1. cache[k].at \in 0..now /\ cache'[k].at \in 0..now
          BY <1>2, <1>4, <3>1, <4>2, <4>3, Typed
        <5> QED
          BY <5>1
      <4>7. LastOf(log, k, since[k]) <= cache'[k].at
        BY <3>2, <4>2, <4>5, <4>6, Transitive
      <4> QED
        BY <4>3, <4>7
    <3> QED
      BY <3>3, <3>4
  <2> QED
    BY <1>2, <1>3, <2>1 DEF SyncedIsFresh, LastChange, Changed, LastOf
<1>11. TokensOld'
  <2>1. ASSUME NEW i \in DOMAIN requests' PROVE requests'[i].have <= Have(requests[i].key)'
    <3>1. requests \in Seq(Asked(now)) /\ requests' = requests
      BY <1>2, Typed
    <3>2. requests[i] \in Asked(now)
      BY <3>1
    <3>3. requests[i].key \in Targets /\ requests[i].have \in 0..now
      BY <3>2 DEF Asked
    <3> PICK k \in Targets : k = requests[i].key
      BY <3>3
    <3>4. requests[i].have <= Have(k)
      BY <3>1 DEF Inv, TokensOld
    <3>5. Have(k) \in 0..now
      BY <1>2, Typed
    <3>6. requests[i].have <= Have(k)'
      BY <1>2, <1>5, <3>3, <3>4, <3>5
    <3>7. Have(requests[i].key)' = Have(k)'
      BY <3>1 DEF Have
    <3> QED
      BY <3>1, <3>6, <3>7
  <2> QED
    BY <2>1 DEF TokensOld
<1>12. Closed' /\ NothingStrays' /\ IsFiniteSet(listening')
  BY <1>2, <1>3 DEF Inv, Closed, NothingStrays
<1> QED
  BY <1>6, <1>7, <1>8, <1>9, <1>10, <1>11, <1>12 DEF Inv

\* The last request about a target is refused, and the device gives it up.
LEMMA AskingGivenUp ==
    ASSUME NEW T, NEW q, NEW s \in Seq(T), s # <<>>, NEW k, NEW g, NEW L, NEW M, NEW v,
           Asking(q, s, k, g, L, v), Silent(q, k), AnsweredBefore(s, k, 2),
           Says("rejected", Head(s), k), k \notin M
    PROVE  Asking(q, Tail(s), k, g, M, v)
<1>1. 1 \in DOMAIN s /\ Head(s) = s[1]
  BY Taken
<1>2. v.status = "off"
  BY <1>1 DEF Asking, Refused
<1>3. \A i \in DOMAIN q : ~LastRequest(q, k, i) /\ ~FirstRequest(q, k, i)
  BY DEF Silent, LastRequest, FirstRequest
<1> QED
  BY <1>2, <1>3 DEF Asking, WantedLast, WatchedAnew, Unserved, Refused

LEMMA HearingRejected == ASSUME Inv, ReceiveRejected PROVE Inv'
<1>1. Receive("rejected")
  BY DEF ReceiveRejected
<1> PICK h \in Targets : h = Head(responses).key
  BY <1>1, Receiving
<1>2. /\ responses # <<>> /\ responses' = Tail(responses) /\ Head(responses).type = "rejected"
      /\ UNCHANGED <<log, serving, requests, gen, since>> /\ open' = open /\ open /\ now' = now
      /\ TypeOK /\ responses \in Seq(Said(now)) /\ requests \in Seq(Asked(now)) /\ now \in Nat
  <2>1. /\ responses # <<>> /\ responses' = Tail(responses) /\ Head(responses).type = "rejected"
        /\ UNCHANGED <<log, serving, requests, gen, since>> /\ open' = open /\ open /\ now' = now
    BY <1>1, Receiving
  <2>2. TypeOK /\ responses \in Seq(Said(now)) /\ requests \in Seq(Asked(now)) /\ now \in Nat
    BY Typed DEF Inv
  <2> QED
    BY <2>1, <2>2
<1>3. /\ UNCHANGED <<updates, cache, stale, strayed>>
      /\ leaked' = IF h \in listening /\ Due(requests, responses, h) = 1
                   THEN leaked ELSE leaked \cup {h}
  BY SameCount DEF ReceiveRejected
<1>4. \/ /\ h \in listening /\ listening' = listening \ {h}
         /\ state' = [state EXCEPT ![h] = Absent] /\ synced' = [synced EXCEPT ![h] = FALSE]
      \/ h \notin listening /\ UNCHANGED <<listening, state, synced>>
  BY DEF ReceiveRejected
<1>5. /\ state' \in [Targets -> [outstanding : Int, current : BOOLEAN] \cup {Absent}]
      /\ listening' \subseteq listening /\ listening' \subseteq Targets /\ h \notin listening'
      /\ synced' \in [Targets -> BOOLEAN]
      /\ h \in listening => state'[h] = Absent
      /\ h \in leaked' \/ h \in listening
      /\ \A k \in Targets : k # h => /\ state'[k] = state[k] /\ synced'[k] = synced[k]
                                   /\ (k \in listening' <=> k \in listening)
      /\ leaked \subseteq leaked' /\ leaked' \subseteq Targets
  <2>1. /\ state \in [Targets -> [outstanding : Int, current : BOOLEAN] \cup {Absent}]
        /\ listening \subseteq Targets /\ synced \in [Targets -> BOOLEAN] /\ leaked \subseteq Targets
    BY <1>2 DEF TypeOK
  <2>2. leaked \subseteq leaked' /\ leaked' \subseteq Targets /\ (h \in leaked' \/ h \in listening)
    BY <1>3, <2>1
  <2>3. CASE h \in listening
    BY <1>4, <2>1, <2>2, <2>3
  <2>4. CASE h \notin listening
    BY <1>4, <2>1, <2>2, <2>4
  <2> QED
    BY <2>3, <2>4
<1>6. TypeOK'
  <2>1. /\ updates' \in [Targets -> [at : 0..now, exists : BOOLEAN] \cup {Nothing}]
        /\ cache' \in [Targets -> [at : 0..now, exists : BOOLEAN] \cup {Nothing}]
        /\ stale' \subseteq Targets /\ strayed' \in BOOLEAN
    BY <1>2, <1>3 DEF TypeOK
  <2> QED
    BY <1>1, <1>5, <2>1, ReceivingTypes
<1>7. IsAnswer(Head(responses), h) /\ Says("rejected", Head(responses), h)
  BY <1>2 DEF IsAnswer, Says
<1>8. ASSUME h \notin leaked'
      PROVE  /\ h \notin leaked /\ Due(requests, responses, h) = 1 /\ Ensure(h)' = Fresh
             /\ Asking(requests, Tail(responses), h, gen[h], listening', serving[h])
  <2>1. h \in listening /\ h \notin leaked /\ Due(requests, responses, h) = 1
    BY <1>3, <1>8
  <2>2. Ensure(h)' = Fresh
    BY <1>5, <2>1 DEF Ensure, Fresh
  <2>3. Silent(requests, h) /\ AnsweredBefore(responses, h, 2)
    BY <1>2, <1>7, <2>1, LastDue
  <2>4. Asking(requests, responses, h, gen[h], listening, serving[h])
    BY <2>1 DEF Inv, Watching
  <2>5. Asking(requests, Tail(responses), h, gen[h], listening', serving[h])
    BY <1>2, <1>5, <1>7, <2>3, <2>4, AskingGivenUp
  <2> QED
    BY <2>1, <2>2, <2>5
<1>9. CountsUnlessRejected'
  <2>1. ASSUME NEW k \in Targets \ leaked'
        PROVE  Ensure(k)'.outstanding = Due(requests', responses', k)
    <3>1. k \in Targets \ leaked
      BY <1>5
    <3>2. /\ Due(requests, Tail(responses), k)
                = Due(requests, responses, k) - (IF IsAnswer(Head(responses), k) THEN 1 ELSE 0)
          /\ Due(requests, responses, k) \in Nat
      <4>1. Due(requests, responses, k) \in Nat
        BY <1>2, DueTypes
      <4> QED
        BY <1>2, <4>1, DueHeard
    <3>3. CASE k = h
      BY <1>2, <1>7, <1>8, <3>2, <3>3 DEF Fresh
    <3>4. CASE k # h
      <4>1. ~IsAnswer(Head(responses), k)
        BY <3>4 DEF IsAnswer
      <4>2. Ensure(k)' = Ensure(k)
        BY <1>5, <3>4 DEF Ensure, Fresh
      <4>3. Ensure(k).outstanding = Due(requests, responses, k)
        BY <3>1, Counting
      <4> QED
        BY <1>2, <3>2, <4>1, <4>2, <4>3
    <3> QED
      BY <3>3, <3>4
  <2> QED
    BY <2>1, CountsNext
<1>10. ASSUME NEW k \in Targets PROVE Watching(k)'
  <2>1. Held(k)' = Held(k)
    BY <1>3 DEF Held, Have
  <2>2. CASE k = h
    BY <1>2, <1>3, <1>5, <1>8, <2>2, Hearing
  <2>3. CASE k # h
    <3>1. ~About(Head(responses), k) /\ Head(responses).type # "snapshot"
      BY <1>2, <2>3 DEF About
    <3> QED
      BY <1>2, <1>3, <1>5, <2>1, <2>3, <3>1, HearingOther
  <2> QED
    BY <2>2, <2>3
<1>11. CacheIsTruthful' /\ SyncedIsFresh'
  <2>1. \A k \in listening' : k \in Targets /\ k \in listening /\ k # h
    BY <1>5
  <2> QED
    BY <1>2, <1>3, <1>5, <2>1, CacheKept
<1>12. Closed' /\ TokensOld' /\ NothingStrays' /\ IsFiniteSet(listening')
  <2>1. Closed /\ TokensOld /\ NothingStrays /\ IsFiniteSet(listening)
    BY DEF Inv
  <2>2. IsFiniteSet(listening')
    BY <1>5, <2>1, FS_Subset
  <2> QED
    BY <1>2, <1>3, <2>1, <2>2, TokensKept DEF Closed, NothingStrays
<1> QED
  BY <1>6, <1>9, <1>10, <1>11, <1>12 DEF Inv

-----------------------------------------------------------------------------
(* What the server says without being asked *)

\* What m means for what the server has of k, v before and w after.
Tells(m, k, v, w) ==
    /\ ~IsAnswer(m, k)
    /\ w.status # "off" => /\ v.status # "off" /\ w.gen = v.gen
                           /\ \/ w.sent = v.sent
                              \/ w.sent = 0
                              \/ Says("document", m, k) /\ w.sent = m.at
    /\ About(m, k) => v.status # "off" /\ m.gen = v.gen
    /\ v.status = "current" /\ ~Says("reset", m, k) => w.status = "current"
    /\ Says("current", m, k) => w.status = "current"
    /\ m.type = "snapshot" => m.at = now /\ (v.status = "current" => LastOf(log, k, now) <= v.sent)
    /\ Says("document", m, k) => m.at = LastOf(log, k, now) /\ (m.exists <=> Existed(log, k, now))

\* Types after the server said or answered something.
LEMMA SayingTypes ==
    ASSUME TypeOK, open, UNCHANGED <<log, open, client, breaks>>,
           serving' \in [Targets -> [status : {"off", "added", "current"}, gen : Nat, sent : 0..now]],
           requests' \in Seq(Asked(now)), responses' \in Seq(Said(now)),
           resets' \in 0..MaxResets, rejections' \in 0..MaxRejections
    PROVE  TypeOK'
<1>1. now' = now
  BY DEF now
<1>2. /\ log' \in Seq([key : Targets, exists : BOOLEAN])
      /\ open' /\ open' \in BOOLEAN /\ listening' \subseteq Targets
      /\ stale' \subseteq Targets /\ leaked' \subseteq Targets /\ strayed' \in BOOLEAN
      /\ breaks' \in 0..MaxBreaks
  BY DEF TypeOK, client
<1>3. /\ state' \in [Targets -> [outstanding : Int, current : BOOLEAN] \cup {Absent}]
      /\ updates' \in [Targets -> [at : 0..now, exists : BOOLEAN] \cup {Nothing}]
      /\ cache' \in [Targets -> [at : 0..now, exists : BOOLEAN] \cup {Nothing}]
      /\ synced' \in [Targets -> BOOLEAN]
      /\ gen' \in [Targets -> 0..MaxListens]
      /\ since' \in [Targets -> 0..now]
  BY DEF TypeOK, client, aggregator
<1> QED
  BY <1>1, <1>2, <1>3 DEF TypeOK, Asked, Said

LEMMA Telling ==
    ASSUME Inv, NEW m \in Said(now), Say(m), open,
           UNCHANGED <<log, open, requests, client, breaks, rejections>>, resets' \in 0..MaxResets,
           serving' \in [Targets -> [status : {"off", "added", "current"}, gen : Nat, sent : 0..now]],
           \A k \in Targets : Tells(m, k, serving[k], serving'[k])
    PROVE  Inv'
<1>1. /\ TypeOK /\ responses \in Seq(Said(now)) /\ requests \in Seq(Asked(now)) /\ now \in Nat
      /\ responses' = Append(responses, m) /\ open' = open
      /\ UNCHANGED <<listening, state, updates, cache, synced, gen, since, stale, leaked, strayed>>
  BY Typed DEF Inv, Say, client, aggregator
<1>2. responses' \in Seq(Said(now))
  BY <1>1, Added
<1>3. TypeOK'
  <2>1. rejections' \in 0..MaxRejections
    BY <1>1 DEF TypeOK
  <2> QED
    BY <1>1, <1>2, <2>1, SayingTypes
<1>4. ASSUME NEW k \in Targets
      PROVE  Ensure(k)' = Ensure(k) /\ Held(k)' = Held(k) /\ Have(k)' = Have(k)
  BY <1>1 DEF Ensure, Fresh, Held, Have
<1>5. CountsUnlessRejected'
  <2>1. ASSUME NEW k \in Targets \ leaked'
        PROVE  Ensure(k)'.outstanding = Due(requests', responses', k)
    <3>1. Ensure(k).outstanding = Due(requests, responses, k)
      BY <1>1, Counting
    <3>2. ~IsAnswer(m, k)
      BY DEF Tells
    <3>3. /\ Due(requests, Append(responses, m), k) = Due(requests, responses, k) + 0
          /\ Due(requests, responses, k) \in Nat
      BY <1>1, <3>2, DueTold, DueTypes
    <3> QED
      BY <1>1, <1>4, <3>1, <3>3
  <2> QED
    BY <2>1, CountsNext
<1>6. ASSUME NEW k \in Targets PROVE Watching(k)'
  <2> DEFINE v == serving[k]
             w == serving'[k]
  <2>1. Tells(m, k, v, w) /\ Watching(k)
    BY DEF Inv
  <2>2. /\ updates[k] # Nothing => updates[k].at \in 0..now
        /\ since[k] \in 0..now /\ v.sent \in Nat /\ w.sent \in Nat /\ Held(k) \in Nat
    <3>1. w \in [status : {"off", "added", "current"}, gen : Nat, sent : 0..now]
      OBVIOUS
    <3>2. /\ updates[k] # Nothing => updates[k].at \in 0..now
          /\ since[k] \in 0..now /\ v.sent \in 0..now /\ Held(k) \in 0..now
      BY <1>1, Typed
    <3>3. w.sent \in 0..now
      BY <3>1
    <3> QED
      BY <1>1, <3>2, <3>3
  <2> HIDE DEF v, w
  <2>3. InOrder(responses', k, updates'[k]) /\ AllTrue(responses', k, updates'[k], log')
    <3>1. InOrder(responses, k, updates[k]) /\ AllTrue(responses, k, updates[k], log)
      BY <2>1 DEF Watching
    <3>2. CASE Says("document", m, k)
      BY <1>1, <2>1, <2>2, <3>1, <3>2, DocumentSent DEF Tells
    <3>3. CASE ~Says("document", m, k)
      BY <1>1, <3>1, <3>3, DocumentsMore
    <3> QED
      BY <3>2, <3>3
  <2>4. k \notin leaked' => Asking(requests', responses', k, gen'[k], listening', serving'[k])
    <3>1. ~Says("rejected", m, k) /\ (v.status = "off" => w.status = "off")
      BY <2>1 DEF Tells, Says, IsAnswer
    <3>2. k \notin leaked => Asking(requests, responses, k, gen[k], listening, v)
      BY <2>1 DEF Watching, v
    <3>3. k \notin leaked => Asking(requests, Append(responses, m), k, gen[k], listening, w)
      BY <1>1, <3>1, <3>2, AskingTold
    <3> QED
      BY <1>1, <3>3 DEF w
  <2>5. ASSUME k \in listening' \ leaked', Silent(requests', k)
        PROVE  SaidNow(responses', k, gen'[k], since'[k], serving'[k])
    <3>1. SaidNow(responses, k, gen[k], since[k], v)
      BY <1>1, <2>1, <2>5 DEF Watching, v
    <3>2. v.status # "off" => v.gen = gen[k]
      BY <3>1 DEF SaidNow
    <3>3. /\ ~IsAnswer(m, k) /\ (w.status # "off" => w.gen = gen[k])
          /\ About(m, k) => m.gen = gen[k]
      BY <2>1, <3>2 DEF Tells
    <3>4. m.type = "snapshot" => m.at >= since[k]
      <4>1. since[k] <= now
        BY <1>1, Times
      <4>2. m.type = "snapshot" => m.at = now
        BY <2>1 DEF Tells
      <4> QED
        BY <4>1, <4>2
    <3>5. SaidNow(Append(responses, m), k, gen[k], since[k], w)
      BY <1>1, <3>1, <3>3, <3>4, SaidMore
    <3> QED
      BY <1>1, <3>5 DEF w
  <2>6. ASSUME k \in listening' \ (leaked' \cup stale'), Silent(requests', k)
        PROVE  Showing(responses', k, Ensure(k)', Held(k)', serving'[k], log')
    <3>1. Showing(responses, k, Ensure(k), Held(k), v, log)
      BY <1>1, <2>1, <2>6 DEF Watching, v
    <3>2. /\ ~IsAnswer(m, k)
          /\ v.status = "current" /\ ~Says("reset", m, k) => w.status = "current"
          /\ Says("current", m, k) => w.status = "current"
          /\ w.status # "off" => \/ v.status # "off" /\ w.sent = v.sent
                                 \/ w.sent = 0
                                 \/ Says("document", m, k) /\ w.sent = m.at
          /\ m.type = "snapshot" /\ v.status = "current" => LastOf(log, k, m.at) <= v.sent
      BY <2>1 DEF Tells
    <3>3. Showing(Append(responses, m), k, Ensure(k), Held(k), w, log)
      BY <1>1, <2>2, <3>1, <3>2, ShowingMore
    <3> QED
      BY <1>1, <1>4, <3>3 DEF w
  <2> QED
    BY <2>3, <2>4, <2>5, <2>6 DEF Watching
<1>7. CacheIsTruthful' /\ SyncedIsFresh'
  BY <1>1, CacheKept
<1>8. Closed' /\ TokensOld' /\ NothingStrays' /\ IsFiniteSet(listening')
  BY <1>1, TokensKept DEF Inv, Closed, NothingStrays
<1> QED
  BY <1>3, <1>5, <1>6, <1>7, <1>8 DEF Inv

LEMMA TellingDocument == ASSUME Inv, NEW h \in Targets, ServerSendsDocument(h) PROVE Inv'
<1> DEFINE t == LastOf(log, h, now)
           m == Message("document", h, serving[h].gen, t, Existed(log, h, now))
<1>1. /\ serving' = [serving EXCEPT ![h].sent = t] /\ Say(m) /\ open /\ serving[h].status # "off"
      /\ UNCHANGED <<log, open, requests, client, breaks, resets, rejections>>
  BY SameTimes DEF ServerSendsDocument, Speaks, Served, bounds
<1>2. TypeOK /\ now \in Nat /\ t \in 0..now
  BY Typed, LastOfIs DEF Inv
<1>3. /\ serving \in [Targets -> [status : {"off", "added", "current"}, gen : Nat, sent : 0..now]]
      /\ resets' \in 0..MaxResets
  BY <1>1, <1>2 DEF TypeOK
<1>4. Existed(log, h, now) \in BOOLEAN /\ serving[h].gen \in Nat
  BY <1>3 DEF Existed
<1> HIDE DEF t
<1>5. m \in Said(now)
  BY <1>2, <1>4 DEF Said, Message
<1>6. /\ m.type = "document" /\ m.key = h /\ m.gen = serving[h].gen /\ m.at = t
      /\ m.exists = Existed(log, h, now)
  BY DEF Message
<1> HIDE DEF m
<1>7. /\ serving' \in [Targets -> [status : {"off", "added", "current"}, gen : Nat, sent : 0..now]]
      /\ serving'[h].status = serving[h].status /\ serving'[h].gen = serving[h].gen
      /\ serving'[h].sent = t
      /\ \A k \in Targets : k # h => serving'[k] = serving[k]
  BY <1>1, <1>2, <1>3
<1>8. ASSUME NEW k \in Targets PROVE Tells(m, k, serving[k], serving'[k])
  <2>1. ~IsAnswer(m, k) /\ ~Says("reset", m, k) /\ ~Says("current", m, k) /\ m.type # "snapshot"
    BY <1>6 DEF IsAnswer, Says
  <2>2. CASE k = h
    BY <1>1, <1>6, <1>7, <2>1, <2>2 DEF Tells, Says, About, t
  <2>3. CASE k # h
    BY <1>6, <1>7, <2>1, <2>3 DEF Tells, Says, About
  <2> QED
    BY <2>2, <2>3
<1> QED
  BY <1>1, <1>3, <1>5, <1>7, <1>8, Telling

LEMMA TellingCurrent == ASSUME Inv, NEW h \in Targets, ServerSaysCurrent(h) PROVE Inv'
<1> DEFINE m == Message("current", h, serving[h].gen, 0, FALSE)
<1>1. /\ serving' = [serving EXCEPT ![h].status = "current"] /\ Say(m) /\ open
      /\ serving[h].status = "added"
      /\ UNCHANGED <<log, open, requests, client, breaks, resets, rejections>>
  BY DEF ServerSaysCurrent, Speaks, bounds
<1>2. TypeOK /\ now \in Nat
  BY Typed DEF Inv
<1>3. /\ serving \in [Targets -> [status : {"off", "added", "current"}, gen : Nat, sent : 0..now]]
      /\ resets' \in 0..MaxResets
  BY <1>1, <1>2 DEF TypeOK
<1>4. serving[h].gen \in Nat
  BY <1>3
<1>5. m \in Said(now)
  BY <1>2, <1>4 DEF Said, Message
<1>6. m.type = "current" /\ m.key = h /\ m.gen = serving[h].gen
  BY DEF Message
<1> HIDE DEF m
<1>7. /\ serving' \in [Targets -> [status : {"off", "added", "current"}, gen : Nat, sent : 0..now]]
      /\ serving'[h].status = "current" /\ serving'[h].gen = serving[h].gen
      /\ serving'[h].sent = serving[h].sent
      /\ \A k \in Targets : k # h => serving'[k] = serving[k]
  BY <1>1, <1>3
<1>8. ASSUME NEW k \in Targets PROVE Tells(m, k, serving[k], serving'[k])
  <2>1. ~IsAnswer(m, k) /\ ~Says("reset", m, k) /\ ~Says("document", m, k) /\ m.type # "snapshot"
    BY <1>6 DEF IsAnswer, Says
  <2>2. CASE k = h
    BY <1>1, <1>6, <1>7, <2>1, <2>2 DEF Tells, Says, About
  <2>3. CASE k # h
    BY <1>6, <1>7, <2>1, <2>3 DEF Tells, Says, About
  <2> QED
    BY <2>2, <2>3
<1> QED
  BY <1>1, <1>3, <1>5, <1>7, <1>8, Telling

LEMMA TellingReset == ASSUME Inv, NEW h \in Targets, ServerResets(h) PROVE Inv'
<1> DEFINE m == Message("reset", h, serving[h].gen, 0, FALSE)
<1>1. /\ serving' = [serving EXCEPT ![h].status = "added", ![h].sent = 0] /\ Say(m) /\ open
      /\ serving[h].status # "off" /\ resets < MaxResets /\ resets' = resets + 1
      /\ UNCHANGED <<log, open, requests, client, breaks, rejections>>
  BY DEF ServerResets, Speaks, Served, bounds
<1>2. TypeOK /\ now \in Nat
  BY Typed DEF Inv
<1>3. /\ serving \in [Targets -> [status : {"off", "added", "current"}, gen : Nat, sent : 0..now]]
      /\ resets \in 0..MaxResets /\ MaxResets \in Nat
  BY <1>2 DEF TypeOK
<1>4. resets' \in 0..MaxResets
  BY <1>1, <1>3
<1>5. serving[h].gen \in Nat
  BY <1>3
<1>6. m \in Said(now)
  BY <1>2, <1>5 DEF Said, Message
<1>7. m.type = "reset" /\ m.key = h /\ m.gen = serving[h].gen
  BY DEF Message
<1> HIDE DEF m
<1>8. /\ serving' \in [Targets -> [status : {"off", "added", "current"}, gen : Nat, sent : 0..now]]
      /\ serving'[h].status = "added" /\ serving'[h].gen = serving[h].gen /\ serving'[h].sent = 0
      /\ \A k \in Targets : k # h => serving'[k] = serving[k]
  <2> DEFINE r == [serving EXCEPT ![h].status = "added"]
  <2>1. /\ r \in [Targets -> [status : {"off", "added", "current"}, gen : Nat, sent : 0..now]]
        /\ r[h].status = "added" /\ r[h].gen = serving[h].gen
        /\ \A k \in Targets : k # h => r[k] = serving[k]
    BY <1>3
  <2>2. serving' = [r EXCEPT ![h].sent = 0]
    BY <1>1
  <2>3. 0 \in 0..now
    BY <1>2
  <2> HIDE DEF r
  <2> QED
    BY <2>1, <2>2, <2>3
<1>9. ASSUME NEW k \in Targets PROVE Tells(m, k, serving[k], serving'[k])
  <2>1. ~IsAnswer(m, k) /\ ~Says("current", m, k) /\ ~Says("document", m, k) /\ m.type # "snapshot"
    BY <1>7 DEF IsAnswer, Says
  <2>2. CASE k = h
    BY <1>1, <1>7, <1>8, <2>1, <2>2 DEF Tells, Says, About
  <2>3. CASE k # h
    BY <1>7, <1>8, <2>1, <2>3 DEF Tells, Says, About
  <2> QED
    BY <2>2, <2>3
<1> QED
  BY <1>1, <1>4, <1>6, <1>8, <1>9, Telling

LEMMA TellingSnapshot == ASSUME Inv, ServerSnapshot PROVE Inv'
<1> DEFINE m == [type |-> "snapshot", at |-> now]
<1>1. /\ Say(m) /\ open /\ UNCHANGED <<log, serving, open, requests, client, breaks, resets, rejections>>
      /\ \A k \in Targets : serving[k].status = "current" => LastOf(log, k, now) <= serving[k].sent
  BY SameTimes DEF ServerSnapshot, Speaks, UpToDate, server, bounds
<1>2. TypeOK /\ now \in Nat
  BY Typed DEF Inv
<1>3. m \in Said(now) /\ m.type = "snapshot" /\ m.at = now
  BY <1>2 DEF Said
<1>4. /\ serving' \in [Targets -> [status : {"off", "added", "current"}, gen : Nat, sent : 0..now]]
      /\ resets' \in 0..MaxResets
  BY <1>1, <1>2 DEF TypeOK
<1> HIDE DEF m
<1>5. ASSUME NEW k \in Targets PROVE Tells(m, k, serving[k], serving'[k])
  BY <1>1, <1>3 DEF Tells, IsAnswer, Says, About
<1> QED
  BY <1>1, <1>3, <1>4, <1>5, Telling

-----------------------------------------------------------------------------
(* What the server answers *)

\* The request q is answered by m, and w is what the server then has.
Answering(q, m, v, w) ==
    /\ m.key = q.key /\ m.gen = q.gen
    /\ \/ /\ q.op = "watch" /\ m.type = "added"
          /\ w.status = "added" /\ w.gen = q.gen /\ w.sent = q.have
       \/ q.op = "watch" /\ m.type = "rejected" /\ w = v
       \/ q.op = "unwatch" /\ m.type = "removed" /\ w.status = "off"

LEMMA NextRequest ==
    ASSUME Inv, requests # <<>>
    PROVE  /\ open /\ requests \in Seq(Asked(now)) /\ Tail(requests) \in Seq(Asked(now))
           /\ Head(requests) \in Asked(now) /\ Head(requests).key \in Targets
           /\ Head(requests).gen \in Nat /\ Head(requests).have \in 0..now /\ now \in Nat
           /\ Head(requests).have <= Have(Head(requests).key)
           /\ \A i \in DOMAIN Tail(requests) : Tail(requests)[i].have <= Have(Tail(requests)[i].key)
<1>1. /\ open /\ requests \in Seq(Asked(now)) /\ now \in Nat
  <2>1. TypeOK
    BY DEF Inv
  <2> QED
    BY <2>1, Typed DEF TypeOK
<1>2. /\ Tail(requests) \in Seq(Asked(now)) /\ Head(requests) \in Asked(now)
      /\ 1 \in DOMAIN requests /\ Head(requests) = requests[1]
      /\ \A i \in DOMAIN Tail(requests) : i + 1 \in DOMAIN requests /\ Tail(requests)[i] = requests[i + 1]
  BY <1>1, Taken
<1>3. TokensOld
  BY DEF Inv
<1>4. Head(requests).key \in Targets /\ Head(requests).gen \in Nat /\ Head(requests).have \in 0..now
  BY <1>2 DEF Asked
<1>5. Head(requests).have <= Have(Head(requests).key)
  BY <1>2, <1>3 DEF TokensOld
<1>6. \A i \in DOMAIN Tail(requests) : Tail(requests)[i].have <= Have(Tail(requests)[i].key)
  BY <1>2, <1>3 DEF TokensOld
<1> QED
  BY <1>1, <1>2, <1>4, <1>5, <1>6

LEMMA AnsweringOne ==
    ASSUME Inv, requests # <<>>, requests' = Tail(requests),
           NEW m \in Said(now), Say(m), UNCHANGED <<log, open, client, breaks, resets>>,
           rejections' \in 0..MaxRejections,
           serving' \in [Targets -> [status : {"off", "added", "current"}, gen : Nat, sent : 0..now]],
           NEW h \in Targets, h = Head(requests).key,
           \A k \in Targets : k # h => serving'[k] = serving[k],
           Answering(Head(requests), m, serving[h], serving'[h])
    PROVE  Inv'
<1> DEFINE q == Head(requests)
<1>1. /\ TypeOK /\ responses \in Seq(Said(now)) /\ requests \in Seq(Asked(now)) /\ now \in Nat
      /\ responses' = Append(responses, m) /\ open' = open /\ open
      /\ UNCHANGED <<listening, state, updates, cache, synced, gen, since, stale, leaked, strayed>>
  BY Typed, NextRequest DEF Inv, Say, client, aggregator
<1>2. responses' \in Seq(Said(now)) /\ requests' \in Seq(Asked(now))
  BY <1>1, Added, NextRequest
<1>3. TypeOK'
  <2>1. resets' \in 0..MaxResets
    BY <1>1 DEF TypeOK
  <2> QED
    BY <1>1, <1>2, <2>1, SayingTypes
<1>4. ASSUME NEW k \in Targets
      PROVE  Ensure(k)' = Ensure(k) /\ Held(k)' = Held(k) /\ Have(k)' = Have(k)
  BY <1>1 DEF Ensure, Fresh, Held, Have
<1>5. /\ IsAnswer(m, h) /\ m.key = h /\ m.gen = q.gen /\ q.key = h /\ m.type # "snapshot"
      /\ \A k \in Targets : k # h => ~IsAnswer(m, k) /\ ~About(m, k)
      /\ \A k \in Targets : /\ ~Says("document", m, k) /\ ~Says("reset", m, k)
                            /\ ~Says("current", m, k)
  BY DEF Answering, IsAnswer, About, Says
<1> HIDE DEF q
<1>6. CountsUnlessRejected'
  <2>1. ASSUME NEW k \in Targets \ leaked'
        PROVE  Ensure(k)'.outstanding = Due(requests', responses', k)
    <3>1. Ensure(k).outstanding = Due(requests, responses, k)
      BY <1>1, Counting
    <3> DEFINE r == Tail(requests)
    <3> r \in Seq(Asked(now)) /\ responses \in Seq(Said(now)) /\ requests \in Seq(Asked(now))
      BY <1>1, NextRequest
    <3>2. /\ Due(requests, responses, k) \in Nat /\ Due(r, responses, k) \in Nat
          /\ Due(r, responses, k) = Due(requests, responses, k) - (IF q.key = k THEN 1 ELSE 0)
      <4>1. Due(r, responses, k) = Due(requests, responses, k) - (IF q.key = k THEN 1 ELSE 0)
        BY DueServed DEF q
      <4> HIDE DEF r
      <4> QED
        BY <4>1, DueTypes
    <3> HIDE DEF r
    <3>3. Due(r, Append(responses, m), k) = Due(r, responses, k) + (IF IsAnswer(m, k) THEN 1 ELSE 0)
      BY DueTold
    <3>4. IsAnswer(m, k) <=> q.key = k
      BY <1>5
    <3>5. Due(r, Append(responses, m), k) = Due(requests, responses, k)
      BY <3>2, <3>3, <3>4
    <3> QED
      BY <1>1, <1>4, <3>1, <3>5 DEF r
  <2> QED
    BY <2>1, CountsNext
<1>7. ASSUME NEW k \in Targets
      PROVE  InOrder(responses', k, updates'[k]) /\ AllTrue(responses', k, updates'[k], log')
  <2>1. InOrder(responses, k, updates[k]) /\ AllTrue(responses, k, updates[k], log)
    BY DEF Inv, Watching
  <2> QED
    BY <1>1, <1>5, <2>1, DocumentsMore
<1>8. ASSUME NEW k \in Targets, k # h PROVE Watching(k)'
  <2>1. Watching(k) /\ serving'[k] = serving[k]
    BY <1>8 DEF Inv
  <2>2. Silent(Tail(requests), k) <=> Silent(requests, k)
    BY <1>1, <1>5, <1>8, SilentLess DEF q
  <2>3. k \notin leaked => Asking(Tail(requests), Append(responses, m), k, gen[k], listening, serving[k])
    BY <1>1, <1>5, <1>8, <2>1, AskingPassed DEF Watching, q
  <2>4. k \notin leaked' => Asking(requests', responses', k, gen'[k], listening', serving'[k])
    BY <1>1, <2>1, <2>3
  <2>5. ASSUME k \in listening' \ leaked', Silent(requests', k)
        PROVE  SaidNow(responses', k, gen'[k], since'[k], serving'[k])
    <3>1. SaidNow(responses, k, gen[k], since[k], serving[k])
      BY <1>1, <2>1, <2>2, <2>5 DEF Watching
    <3>2. serving[k].status # "off" => serving[k].gen = gen[k]
      BY <3>1 DEF SaidNow
    <3>3. SaidNow(Append(responses, m), k, gen[k], since[k], serving[k])
      BY <1>1, <1>5, <1>8, <3>1, <3>2, SaidMore
    <3> QED
      BY <1>1, <2>1, <3>3
  <2>6. ASSUME k \in listening' \ (leaked' \cup stale'), Silent(requests', k)
        PROVE  Showing(responses', k, Ensure(k)', Held(k)', serving'[k], log')
    <3>1. Showing(responses, k, Ensure(k), Held(k), serving[k], log)
      BY <1>1, <2>1, <2>2, <2>6 DEF Watching
    <3>2. serving[k].sent \in Nat /\ Held(k) \in Nat
      BY <1>1, Times
    <3>3. Showing(Append(responses, m), k, Ensure(k), Held(k), serving[k], log)
      BY <1>1, <1>5, <1>8, <3>1, <3>2, ShowingMore
    <3> QED
      BY <1>1, <1>4, <2>1, <3>3
  <2> QED
    BY <1>7, <2>4, <2>5, <2>6 DEF Watching
<1>9. Watching(h)'
  <2> DEFINE v == serving[h]
             w == serving'[h]
  <2>1. Answering(q, m, v, w)
    BY DEF q
  <2> HIDE DEF v, w
  <2>2. ASSUME h \notin leaked
        PROVE  /\ Asking(Tail(requests), Append(responses, m), h, gen[h], listening, w)
               /\ Silent(Tail(requests), h) => (q.op = "watch" <=> h \in listening) /\ q.gen = gen[h]
               /\ q.op = "watch" => v.status = "off"
    <3>1. Asking(requests, responses, h, gen[h], listening, v)
      BY <2>2 DEF Inv, Watching, v
    <3>2. \/ q.op = "watch" /\ m.type = "added"
          \/ q.op = "watch" /\ m.type = "rejected" /\ w = v
          \/ q.op = "unwatch" /\ m.type = "removed" /\ w.status = "off"
      BY <2>1 DEF Answering
    <3> QED
      BY <1>1, <1>5, <3>1, <3>2, AskingServed DEF q
  <2>3. ASSUME h \in listening' \ leaked', Silent(requests', h)
        PROVE  SaidNow(responses', h, gen'[h], since'[h], serving'[h])
    <3>1. q.op = "watch" /\ q.gen = gen[h] /\ v.status = "off"
      BY <1>1, <2>2, <2>3
    <3>2. m.type # "removed" /\ m.gen = gen[h] /\ (w.status # "off" => w.gen = gen[h])
      BY <1>5, <2>1, <3>1 DEF Answering
    <3>3. SaidNow(Append(responses, m), h, gen[h], since[h], w)
      BY <1>1, <1>5, <3>2, SaidAnswered
    <3> QED
      BY <1>1, <3>3 DEF w
  <2>4. ASSUME h \in listening' \ (leaked' \cup stale'), Silent(requests', h)
        PROVE  Showing(responses', h, Ensure(h)', Held(h)', serving'[h], log')
    <3>1. q.op = "watch" /\ v.status = "off"
      BY <1>1, <2>2, <2>4
    <3>2. w.status # "off" => w.sent = q.have
      BY <2>1, <3>1 DEF Answering
    <3>3. q.have <= Have(h) /\ q.have \in 0..now
      BY NextRequest DEF q
    <3>4. Have(h) <= Held(h) /\ Have(h) \in Nat /\ Held(h) \in Nat
      BY <1>1, Times
    <3>5. w.status # "off" => w.sent <= Held(h)
      BY <1>1, <3>2, <3>3, <3>4
    <3>6. Showing(Append(responses, m), h, Ensure(h), Held(h), w, log)
      BY <1>1, <1>5, <3>4, <3>5, ShowingAnswered
    <3> QED
      BY <1>1, <1>4, <3>6 DEF w
  <2>5. h \notin leaked' => Asking(requests', responses', h, gen'[h], listening', serving'[h])
    BY <1>1, <2>2 DEF w
  <2> QED
    BY <1>7, <2>3, <2>4, <2>5 DEF Watching
<1>10. CacheIsTruthful' /\ SyncedIsFresh'
  BY <1>1, CacheKept
<1>11. TokensOld'
  <2>1. \A i \in DOMAIN Tail(requests) : Tail(requests)[i].have <= Have(Tail(requests)[i].key)
    BY NextRequest
  <2> QED
    BY <1>1, <2>1 DEF TokensOld, Have
<1>12. Closed' /\ NothingStrays' /\ IsFiniteSet(listening')
  BY <1>1 DEF Inv, Closed, NothingStrays
<1> QED
  BY <1>3, <1>6, <1>8, <1>9, <1>10, <1>11, <1>12 DEF Inv

LEMMA Adding == ASSUME Inv, ServerAdds PROVE Inv'
<1> DEFINE q == Head(requests)
           m == Message("added", q.key, q.gen, 0, FALSE)
           w == [status |-> "added", gen |-> q.gen, sent |-> q.have]
<1>1. /\ requests # <<>> /\ q.op = "watch" /\ requests' = Tail(requests)
      /\ serving' = [serving EXCEPT ![q.key] = w] /\ Say(m)
      /\ UNCHANGED <<log, open, client, breaks, resets, rejections>>
  BY DEF ServerAdds, TakeRequest, bounds
<1>2. /\ q.key \in Targets /\ q.gen \in Nat /\ q.have \in 0..now /\ now \in Nat /\ TypeOK
  BY <1>1, NextRequest DEF Inv
<1>3. m \in Said(now) /\ w \in [status : {"off", "added", "current"}, gen : Nat, sent : 0..now]
  BY <1>2 DEF Said, Message
<1>4. Answering(q, m, serving[q.key], w)
  BY <1>1 DEF Answering, Message
<1>5. /\ serving \in [Targets -> [status : {"off", "added", "current"}, gen : Nat, sent : 0..now]]
      /\ rejections' \in 0..MaxRejections
  BY <1>1, <1>2 DEF TypeOK
<1> PICK h \in Targets : h = q.key
  BY <1>2
<1> HIDE DEF m, w, q
<1>6. /\ serving' \in [Targets -> [status : {"off", "added", "current"}, gen : Nat, sent : 0..now]]
      /\ serving'[h] = w /\ \A k \in Targets : k # h => serving'[k] = serving[k]
  BY <1>1, <1>3, <1>5
<1>7. Answering(q, m, serving[h], serving'[h])
  BY <1>4, <1>6
<1> QED
  BY <1>1, <1>3, <1>5, <1>6, <1>7, AnsweringOne DEF q

LEMMA Rejecting == ASSUME Inv, ServerRejects PROVE Inv'
<1> DEFINE q == Head(requests)
           m == Message("rejected", q.key, q.gen, 0, FALSE)
<1>1. /\ requests # <<>> /\ q.op = "watch" /\ requests' = Tail(requests) /\ Say(m)
      /\ rejections < MaxRejections /\ rejections' = rejections + 1
      /\ UNCHANGED <<log, serving, open, client, breaks, resets>>
  BY DEF ServerRejects, TakeRequest, server
<1>2. /\ q.key \in Targets /\ q.gen \in Nat /\ now \in Nat /\ TypeOK
  BY <1>1, NextRequest DEF Inv
<1>3. m \in Said(now)
  BY <1>2 DEF Said, Message
<1>4. Answering(q, m, serving[q.key], serving[q.key])
  BY <1>1 DEF Answering, Message
<1>5. /\ serving' \in [Targets -> [status : {"off", "added", "current"}, gen : Nat, sent : 0..now]]
      /\ rejections \in 0..MaxRejections /\ MaxRejections \in Nat
  BY <1>1, <1>2 DEF TypeOK
<1>6. rejections' \in 0..MaxRejections
  BY <1>1, <1>5
<1> PICK h \in Targets : h = q.key
  BY <1>2
<1> HIDE DEF m, q
<1>7. Answering(q, m, serving[h], serving'[h]) /\ \A k \in Targets : k # h => serving'[k] = serving[k]
  BY <1>1, <1>4
<1> QED
  BY <1>1, <1>3, <1>5, <1>6, <1>7, AnsweringOne DEF q

LEMMA Removing == ASSUME Inv, ServerRemoves PROVE Inv'
<1> DEFINE q == Head(requests)
           m == Message("removed", q.key, q.gen, 0, FALSE)
<1>1. /\ requests # <<>> /\ q.op = "unwatch" /\ requests' = Tail(requests) /\ Say(m)
      /\ serving' = [serving EXCEPT ![q.key] = Off]
      /\ UNCHANGED <<log, open, client, breaks, resets, rejections>>
  BY DEF ServerRemoves, TakeRequest, bounds
<1>2. /\ q.key \in Targets /\ q.gen \in Nat /\ now \in Nat /\ TypeOK
  BY <1>1, NextRequest DEF Inv
<1>3. m \in Said(now) /\ Off \in [status : {"off", "added", "current"}, gen : Nat, sent : 0..now]
  BY <1>2 DEF Said, Message, Off
<1>4. Answering(q, m, serving[q.key], Off)
  BY <1>1 DEF Answering, Message, Off
<1>5. /\ serving \in [Targets -> [status : {"off", "added", "current"}, gen : Nat, sent : 0..now]]
      /\ rejections' \in 0..MaxRejections
  BY <1>1, <1>2 DEF TypeOK
<1> PICK h \in Targets : h = q.key
  BY <1>2
<1> HIDE DEF m, q
<1>6. /\ serving' \in [Targets -> [status : {"off", "added", "current"}, gen : Nat, sent : 0..now]]
      /\ serving'[h] = Off /\ \A k \in Targets : k # h => serving'[k] = serving[k]
  BY <1>1, <1>3, <1>5
<1>7. Answering(q, m, serving[h], serving'[h])
  BY <1>4, <1>6
<1> QED
  BY <1>1, <1>3, <1>5, <1>6, <1>7, AnsweringOne DEF q

-----------------------------------------------------------------------------
(* What the device listens to *)

\* Where nothing is under way nothing can be wrong.
LEMMA Quiet ==
    ASSUME NEW k \in Targets, Watching(k), log' = log, requests' = <<>>, responses' = <<>>,
           updates'[k] = updates[k] \/ updates'[k] = Nothing,
           serving'[k].status = "off", state'[k] = Absent
    PROVE  Watching(k)'
<1> DEFINE w == serving'[k]
           u == updates'[k]
           e == Ensure(k)'
<1>1. ~e.current
  BY DEF Ensure, Fresh
<1>2. u # Nothing => Truly(log, k, u)
  BY DEF Watching, AllTrue
<1> HIDE DEF u
<1>3. InOrder(<<>>, k, u) /\ AllTrue(<<>>, k, u, log)
  BY <1>2 DEF InOrder, AllTrue
<1>4. w.status = "off"
  OBVIOUS
<1> HIDE DEF w, e
<1>5. Asking(<<>>, <<>>, k, gen'[k], listening', w)
  BY <1>4, NothingAsked
<1>6. SaidNow(<<>>, k, gen'[k], since'[k], w)
  BY <1>4, SaidNothing
<1>7. Showing(<<>>, k, e, Held(k)', w, log)
  BY <1>1, <1>4, ShowingNothing
<1> QED
  BY <1>3, <1>5, <1>6, <1>7 DEF Watching, w, u, e

\* The device starts or stops to listen to a target.
Turns(h, op) ==
    /\ UNCHANGED <<server, open, responses, updates, cache, stale, leaked, strayed, bounds>>
    /\ listening' \subseteq Targets /\ IsFiniteSet(listening')
    /\ h \in listening' <=> op = "watch"
    /\ h \in listening <=> op = "unwatch"
    /\ \A k \in Targets : k # h => /\ k \in listening' <=> k \in listening
                                   /\ gen'[k] = gen[k] /\ since'[k] = since[k]
                                   /\ synced'[k] = synced[k]
    /\ gen' \in [Targets -> 0..MaxListens] /\ since' \in [Targets -> 0..now]
    /\ synced' \in [Targets -> BOOLEAN] /\ ~synced'[h]

\* Types after that, or when a stream opens or breaks.
LEMMA TurningTypes ==
    ASSUME TypeOK, UNCHANGED <<log, cache, strayed, resets, rejections>>,
           stale' \subseteq stale \cup leaked, leaked' \subseteq leaked,
           open' \in BOOLEAN, open' \/ (requests' = <<>> /\ responses' = <<>>),
           serving' \in [Targets -> [status : {"off", "added", "current"}, gen : Nat, sent : 0..now]],
           requests' \in Seq(Asked(now)), responses' \in Seq(Said(now)),
           listening' \subseteq Targets,
           state' \in [Targets -> [outstanding : Int, current : BOOLEAN] \cup {Absent}],
           updates' \in [Targets -> [at : 0..now, exists : BOOLEAN] \cup {Nothing}],
           synced' \in [Targets -> BOOLEAN], gen' \in [Targets -> 0..MaxListens],
           since' \in [Targets -> 0..now], breaks' \in 0..MaxBreaks
    PROVE  TypeOK'
<1>1. now' = now
  BY DEF now
<1>2. /\ log' \in Seq([key : Targets, exists : BOOLEAN])
      /\ stale' \subseteq Targets /\ leaked' \subseteq Targets /\ strayed' \in BOOLEAN
      /\ cache' \in [Targets -> [at : 0..now, exists : BOOLEAN] \cup {Nothing}]
      /\ resets' \in 0..MaxResets /\ rejections' \in 0..MaxRejections
  BY DEF TypeOK
<1> QED
  BY <1>1, <1>2 DEF TypeOK, Asked, Said

LEMMA TurningOpen ==
    ASSUME Inv, NEW h \in Targets, NEW op \in {"watch", "unwatch"}, Send(op, h), Turns(h, op), open
    PROVE  Inv'
<1> DEFINE r == [op |-> op, key |-> h, gen |-> gen'[h], have |-> Have(h)]
           f == [Ensure(h) EXCEPT !.outstanding = Ensure(h).outstanding + 1]
<1>1. /\ TypeOK /\ responses \in Seq(Said(now)) /\ requests \in Seq(Asked(now)) /\ now \in Nat
      /\ requests' = Append(requests, r) /\ state' = [state EXCEPT ![h] = f]
      /\ UNCHANGED <<log, serving, open, responses, updates, cache, stale, leaked, strayed, bounds>>
  BY Typed DEF Inv, Turns, Send, Request, Record, server
<1>2. /\ r \in Asked(now) /\ r.key = h /\ r.op = op /\ r.gen = gen'[h] /\ r.have = Have(h)
  <2>1. gen'[h] \in 0..MaxListens /\ MaxListens \in Nat
    BY DEF Turns
  <2>2. gen'[h] \in Nat
    BY <2>1
  <2>3. Have(h) \in 0..now
    BY <1>1, Typed
  <2> QED
    BY <2>2, <2>3 DEF Asked
<1> HIDE DEF r
<1>3. f \in [outstanding : Int, current : BOOLEAN] /\ f.outstanding = Ensure(h).outstanding + 1
  <2>1. Ensure(h) \in [outstanding : Int, current : BOOLEAN]
    BY <1>1, EnsureType
  <2> QED
    BY <2>1
<1> HIDE DEF f
<1>4. /\ state' \in [Targets -> [outstanding : Int, current : BOOLEAN] \cup {Absent}]
      /\ state'[h] = f /\ \A k \in Targets : k # h => state'[k] = state[k]
  <2>1. state \in [Targets -> [outstanding : Int, current : BOOLEAN] \cup {Absent}]
    BY <1>1 DEF TypeOK
  <2> QED
    BY <1>1, <1>3, <2>1
<1>5. Ensure(h)' = f
  BY <1>3, <1>4, EnsureNext
<1>6. ASSUME NEW k \in Targets
      PROVE  /\ Held(k)' = Held(k) /\ Have(k)' = Have(k)
             /\ k # h => Ensure(k)' = Ensure(k)
  BY <1>1, <1>4 DEF Ensure, Fresh, Held, Have
<1>7. TypeOK'
  <2>1. requests' \in Seq(Asked(now))
    BY <1>1, <1>2, Added
  <2>2. /\ open' \in BOOLEAN /\ open' /\ breaks' \in 0..MaxBreaks
        /\ serving' \in [Targets -> [status : {"off", "added", "current"}, gen : Nat, sent : 0..now]]
        /\ updates' \in [Targets -> [at : 0..now, exists : BOOLEAN] \cup {Nothing}]
    BY <1>1 DEF TypeOK, bounds
  <2>3. UNCHANGED <<resets, rejections>>
    BY <1>1 DEF bounds
  <2>4. /\ listening' \subseteq Targets /\ gen' \in [Targets -> 0..MaxListens]
        /\ since' \in [Targets -> 0..now] /\ synced' \in [Targets -> BOOLEAN]
    BY DEF Turns
  <2> QED
    BY <1>1, <1>4, <2>1, <2>2, <2>3, <2>4, TurningTypes
<1>8. CountsUnlessRejected'
  <2>1. ASSUME NEW k \in Targets \ leaked'
        PROVE  Ensure(k)'.outstanding = Due(requests', responses', k)
    <3>1. Ensure(k).outstanding = Due(requests, responses, k)
      BY <1>1, Counting
    <3>2. /\ Due(Append(requests, r), responses, k)
                = Due(requests, responses, k) + (IF r.key = k THEN 1 ELSE 0)
          /\ Due(requests, responses, k) \in Nat
      <4>1. Due(requests, responses, k) \in Nat
        BY <1>1, DueTypes
      <4> QED
        BY <1>1, <1>2, <4>1, DueAsked
    <3>3. CASE k = h
      BY <1>1, <1>2, <1>3, <1>5, <3>1, <3>2, <3>3
    <3>4. CASE k # h
      <4>1. Ensure(k)'.outstanding = Due(requests, responses, k)
        BY <1>6, <3>1, <3>4
      <4> QED
        BY <1>1, <1>2, <3>2, <3>4, <4>1
    <3> QED
      BY <3>3, <3>4
  <2> QED
    BY <2>1, CountsNext
<1>9. ASSUME NEW k \in Targets
      PROVE  InOrder(responses', k, updates'[k]) /\ AllTrue(responses', k, updates'[k], log')
  BY <1>1 DEF Inv, Watching
<1>10. Watching(h)'
  <2>1. ~Silent(Append(requests, r), h)
    BY <1>1, <1>2, SilentMore
  <2>2. h \notin leaked => Asking(Append(requests, r), responses, h, gen'[h], listening', serving[h])
    <3>1. h \notin leaked => Asking(requests, responses, h, gen[h], listening, serving[h])
      BY DEF Inv, Watching
    <3>2. (r.op = "watch" <=> h \in listening') /\ (h \in listening <=> h \notin listening')
      BY <1>2 DEF Turns
    <3> QED
      BY <1>1, <1>2, <3>1, <3>2, AskingMore
  <2>3. h \notin leaked' => Asking(requests', responses', h, gen'[h], listening', serving'[h])
    BY <1>1, <2>2
  <2>4. ~Silent(requests', h)
    BY <1>1, <2>1
  <2> QED
    BY <1>9, <2>3, <2>4 DEF Watching
<1>11. ASSUME NEW k \in Targets, k # h PROVE Watching(k)'
  <2>1. Watching(k) /\ gen'[k] = gen[k] /\ since'[k] = since[k] /\ (k \in listening' <=> k \in listening)
    BY <1>11 DEF Inv, Turns
  <2>2. Silent(requests', k) <=> Silent(requests, k)
    BY <1>1, <1>2, <1>11, SilentMore
  <2>3. k \notin leaked => Asking(Append(requests, r), responses, k, gen[k], listening', serving[k])
    BY <1>1, <1>2, <1>11, <2>1, AskingOther DEF Watching
  <2>4. k \notin leaked' => Asking(requests', responses', k, gen'[k], listening', serving'[k])
    BY <1>1, <2>1, <2>3
  <2>5. k \in listening' \ leaked' /\ Silent(requests', k)
           => SaidNow(responses', k, gen'[k], since'[k], serving'[k])
    BY <1>1, <2>1, <2>2 DEF Watching
  <2>6. k \in listening' \ (leaked' \cup stale') /\ Silent(requests', k)
           => Showing(responses', k, Ensure(k)', Held(k)', serving'[k], log')
    BY <1>1, <1>6, <1>11, <2>1, <2>2 DEF Watching
  <2> QED
    BY <1>9, <2>4, <2>5, <2>6 DEF Watching
<1>12. CacheIsTruthful' /\ SyncedIsFresh'
  <2>1. \A k \in listening' : synced'[k] => k \in listening /\ synced[k] /\ since'[k] = since[k]
    BY DEF Turns
  <2> QED
    BY <1>1, <2>1, CacheKept
<1>13. TokensOld'
  <2>1. TokensOld /\ Have(h) \in 0..now
    BY <1>1, Typed DEF Inv
  <2>2. ASSUME NEW i \in DOMAIN Append(requests, r)
        PROVE  Append(requests, r)[i].have <= Have(Append(requests, r)[i].key)
    <3>1. \/ i \in DOMAIN requests /\ Append(requests, r)[i] = requests[i]
          \/ Append(requests, r)[i] = r
      BY <1>1, <1>2, <2>2, Added
    <3> QED
      BY <1>1, <1>2, <2>1, <3>1 DEF TokensOld
  <2> QED
    BY <1>1, <2>2 DEF TokensOld, Have
<1>14. Closed' /\ NothingStrays' /\ IsFiniteSet(listening')
  BY <1>1 DEF Inv, Closed, NothingStrays, Turns
<1> QED
  BY <1>7, <1>8, <1>10, <1>11, <1>12, <1>13, <1>14 DEF Inv

LEMMA TurningClosed ==
    ASSUME Inv, NEW h \in Targets, NEW op \in {"watch", "unwatch"}, Send(op, h), Turns(h, op), ~open
    PROVE  Inv'
<1>1. /\ TypeOK /\ requests = <<>> /\ responses = <<>> /\ UNCHANGED <<state, requests>>
      /\ UNCHANGED <<log, serving, open, responses, updates, cache, stale, leaked, strayed, bounds>>
      /\ \A k \in Targets : state[k] = Absent /\ serving[k].status = "off"
  BY DEF Inv, TypeOK, Turns, Send, server, Closed
<1>2. TypeOK'
  <2>1. requests' \in Seq(Asked(now)) /\ responses' \in Seq(Said(now))
    BY <1>1
  <2>2. /\ open' \in BOOLEAN /\ requests' = <<>> /\ responses' = <<>> /\ breaks' \in 0..MaxBreaks
        /\ serving' \in [Targets -> [status : {"off", "added", "current"}, gen : Nat, sent : 0..now]]
        /\ state' \in [Targets -> [outstanding : Int, current : BOOLEAN] \cup {Absent}]
        /\ updates' \in [Targets -> [at : 0..now, exists : BOOLEAN] \cup {Nothing}]
    BY <1>1 DEF TypeOK, bounds
  <2>3. UNCHANGED <<resets, rejections>>
    BY <1>1 DEF bounds
  <2>4. /\ listening' \subseteq Targets /\ gen' \in [Targets -> 0..MaxListens]
        /\ since' \in [Targets -> 0..now] /\ synced' \in [Targets -> BOOLEAN]
    BY DEF Turns
  <2> QED
    BY <1>1, <2>1, <2>2, <2>3, <2>4, TurningTypes
<1>3. CountsUnlessRejected'
  BY <1>1 DEF Inv, CountsUnlessRejected, Ensure, Fresh, Requested, Answered
<1>4. ASSUME NEW k \in Targets PROVE Watching(k)'
  <2>1. Watching(k)
    BY DEF Inv
  <2> QED
    BY <1>1, <2>1, Quiet
<1>5. CacheIsTruthful' /\ SyncedIsFresh'
  <2>1. \A k \in listening' : synced'[k] => k \in listening /\ synced[k] /\ since'[k] = since[k]
    BY DEF Turns
  <2> QED
    BY <1>1, <2>1, CacheKept
<1>6. Closed' /\ TokensOld' /\ NothingStrays' /\ IsFiniteSet(listening')
  BY <1>1, TokensKept DEF Inv, Closed, NothingStrays, Turns
<1> QED
  BY <1>2, <1>3, <1>4, <1>5, <1>6 DEF Inv

LEMMA Listening == ASSUME Inv, NEW h \in Targets, Listen(h) PROVE Inv'
<1>1. /\ TypeOK /\ IsFiniteSet(listening) /\ now \in Nat /\ MaxListens \in Nat
  BY Typed DEF Inv
<1>2. /\ h \notin listening /\ listening' = listening \cup {h}
      /\ gen[h] < MaxListens /\ gen' = [gen EXCEPT ![h] = gen[h] + 1]
      /\ since' = [since EXCEPT ![h] = now] /\ synced' = [synced EXCEPT ![h] = FALSE]
      /\ Send("watch", h)
      /\ UNCHANGED <<server, open, responses, updates, cache, stale, leaked, strayed, bounds>>
  BY DEF Listen
<1>3. /\ listening \subseteq Targets /\ gen \in [Targets -> 0..MaxListens]
      /\ since \in [Targets -> 0..now] /\ synced \in [Targets -> BOOLEAN]
  BY <1>1 DEF TypeOK
<1>4. IsFiniteSet(listening')
  BY <1>1, <1>2, FS_AddElement
<1>5. gen[h] + 1 \in 0..MaxListens /\ now \in 0..now
  <2>1. gen[h] \in 0..MaxListens
    BY <1>3
  <2> QED
    BY <1>1, <1>2, <2>1
<1>6. /\ gen' \in [Targets -> 0..MaxListens] /\ since' \in [Targets -> 0..now]
      /\ synced' \in [Targets -> BOOLEAN] /\ ~synced'[h]
      /\ \A k \in Targets : k # h => /\ gen'[k] = gen[k] /\ since'[k] = since[k]
                                     /\ synced'[k] = synced[k]
  BY <1>2, <1>3, <1>5
<1>7. /\ h \in listening' /\ listening' \subseteq Targets
      /\ \A k \in Targets : k # h => (k \in listening' <=> k \in listening)
  BY <1>2, <1>3
<1>8. Turns(h, "watch")
  BY <1>2, <1>4, <1>6, <1>7 DEF Turns
<1> QED
  BY <1>2, <1>8, TurningOpen, TurningClosed

LEMMA Stopping == ASSUME Inv, NEW h \in Targets, StopListening(h) PROVE Inv'
<1>1. TypeOK /\ IsFiniteSet(listening)
  BY DEF Inv
<1>2. /\ h \in listening /\ listening' = listening \ {h}
      /\ synced' = [synced EXCEPT ![h] = FALSE] /\ UNCHANGED <<gen, since>>
      /\ Send("unwatch", h)
      /\ UNCHANGED <<server, open, responses, updates, cache, stale, leaked, strayed, bounds>>
  BY DEF StopListening
<1>3. /\ listening \subseteq Targets /\ gen \in [Targets -> 0..MaxListens]
      /\ since \in [Targets -> 0..now] /\ synced \in [Targets -> BOOLEAN]
  BY <1>1 DEF TypeOK
<1>4. IsFiniteSet(listening')
  BY <1>1, <1>2, FS_Subset
<1>5. /\ gen' \in [Targets -> 0..MaxListens] /\ since' \in [Targets -> 0..now]
      /\ synced' \in [Targets -> BOOLEAN] /\ ~synced'[h]
      /\ \A k \in Targets : k # h => /\ gen'[k] = gen[k] /\ since'[k] = since[k]
                                     /\ synced'[k] = synced[k]
  BY <1>2, <1>3
<1>6. /\ h \notin listening' /\ listening' \subseteq Targets
      /\ \A k \in Targets : k # h => (k \in listening' <=> k \in listening)
  BY <1>2, <1>3
<1>7. Turns(h, "unwatch")
  BY <1>2, <1>4, <1>5, <1>6 DEF Turns
<1> QED
  BY <1>2, <1>7, TurningOpen, TurningClosed

-----------------------------------------------------------------------------
(* Streams, and commits *)

LEMMA NoMessages == ASSUME NEW S PROVE <<>> \in Seq(S)
OBVIOUS

LEMMA Opening == ASSUME Inv, StreamOpens PROVE Inv'
<1> DEFINE ks == SetToSeq(listening)
           r == [i \in DOMAIN ks |-> [op |-> "watch", key |-> ks[i], gen |-> gen'[ks[i]],
                                      have |-> Have(ks[i])]]
           f == [Fresh EXCEPT !.outstanding = 1]
<1>1. /\ TypeOK /\ IsFiniteSet(listening) /\ now \in Nat /\ ~open /\ open'
      /\ requests' = r /\ responses = <<>> /\ responses' = <<>>
      /\ state' = [k \in Targets |-> IF k \in listening THEN f ELSE Absent]
      /\ UNCHANGED <<log, serving, listening, updates, cache, synced, gen, since, stale, leaked,
                     strayed, breaks, resets, rejections>>
      /\ \A k \in Targets : serving[k].status = "off"
  BY Typed DEF Inv, StreamOpens, Request, server, bounds, Closed, TypeOK
<1>2. /\ ks \in Seq(listening)
      /\ \A i, j \in DOMAIN ks : ks[i] = ks[j] => i = j
      /\ \A x \in listening : \E i \in DOMAIN ks : ks[i] = x
  BY <1>1, InSomeOrder
<1>3. listening \subseteq Targets
  BY <1>1 DEF TypeOK
<1> HIDE DEF ks
<1>4. ASSUME NEW k \in Targets PROVE Have(k) \in 0..now /\ gen[k] \in Nat
  BY <1>1, Typed
<1>5. /\ DOMAIN r = DOMAIN ks /\ r \in Seq(Asked(now))
      /\ \A i \in DOMAIN r : /\ r[i].key = ks[i] /\ r[i].key \in listening /\ r[i].op = "watch"
                             /\ r[i].gen = gen[ks[i]] /\ r[i].have = Have(ks[i])
  <2>1. \A i \in DOMAIN ks : ks[i] \in listening /\ ks[i] \in Targets
    BY <1>2, <1>3
  <2>2. \A i \in DOMAIN ks : r[i] \in Asked(now)
    BY <1>1, <1>4, <2>1 DEF Asked
  <2>3. Len(ks) \in Nat /\ DOMAIN ks = 1..Len(ks)
    BY <1>2
  <2>4. r \in [1..Len(ks) -> Asked(now)]
    BY <2>2, <2>3
  <2>5. r \in Seq(Asked(now))
    <3> HIDE DEF r
    <3> QED
      BY <2>3, <2>4
  <2> QED
    BY <1>1, <2>1, <2>5
<1> HIDE DEF r
<1>6. f \in [outstanding : Int, current : BOOLEAN] /\ f.outstanding = 1
  <2>1. Fresh \in [outstanding : Int, current : BOOLEAN]
    BY DEF Fresh
  <2> QED
    BY <2>1
<1>7. TypeOK'
  <2>1. responses' \in Seq(Said(now)) /\ requests' \in Seq(Asked(now)) /\ open' \in BOOLEAN
    <3>1. responses' \in Seq(Said(now)) /\ requests' \in Seq(Asked(now))
      BY <1>1, <1>5, NoMessages
    <3>2. open' \in BOOLEAN
      BY DEF StreamOpens
    <3> QED
      BY <3>1, <3>2
  <2>2. /\ breaks' \in 0..MaxBreaks /\ listening' \subseteq Targets
        /\ serving' \in [Targets -> [status : {"off", "added", "current"}, gen : Nat, sent : 0..now]]
        /\ updates' \in [Targets -> [at : 0..now, exists : BOOLEAN] \cup {Nothing}]
        /\ gen' \in [Targets -> 0..MaxListens] /\ since' \in [Targets -> 0..now]
        /\ synced' \in [Targets -> BOOLEAN]
    BY <1>1 DEF TypeOK
  <2>3. state' \in [Targets -> [outstanding : Int, current : BOOLEAN] \cup {Absent}]
    <3> HIDE DEF f
    <3> QED
      BY <1>1, <1>6
  <2> QED
    BY <1>1, <2>1, <2>2, <2>3, TurningTypes
<1> HIDE DEF f
<1>8. CountsUnlessRejected'
  <2>1. ASSUME NEW k \in Targets \ leaked'
        PROVE  Ensure(k)'.outstanding = Due(requests', responses', k)
    <3>1. Cardinality(Answers(<<>>, k)) = 0
      <4>1. Answers(<<>>, k) = {}
        BY DEF Answers
      <4> QED
        BY <4>1, FS_EmptySet
    <3>2. CASE k \in listening
      <4>1. PICK i \in DOMAIN ks : ks[i] = k
        BY <1>2, <3>2
      <4>2. Asks(r, k) = {i}
        BY <1>2, <1>5, <4>1 DEF Asks
      <4>3. Cardinality(Asks(r, k)) = 1
        BY <4>2, FS_Singleton
      <4>4. Ensure(k)'.outstanding = 1
        <5>1. state'[k] = f
          BY <1>1, <3>2
        <5>2. Ensure(k)' = f
          BY <1>6, <5>1, EnsureNext
        <5> QED
          BY <1>6, <5>2
      <4> QED
        BY <1>1, <3>1, <4>3, <4>4 DEF Due
    <3>3. CASE k \notin listening
      <4>1. Asks(r, k) = {}
        BY <1>5, <3>3 DEF Asks
      <4>2. Cardinality(Asks(r, k)) = 0
        BY <4>1, FS_EmptySet
      <4>3. Ensure(k)'.outstanding = 0
        BY <1>1, <3>3 DEF Ensure, Fresh
      <4> QED
        BY <1>1, <3>1, <4>2, <4>3 DEF Due
    <3> QED
      BY <3>2, <3>3
  <2> QED
    BY <2>1, CountsNext
<1>9. ASSUME NEW k \in Targets PROVE Watching(k)'
  <2>1. InOrder(responses', k, updates'[k]) /\ AllTrue(responses', k, updates'[k], log')
    BY <1>1 DEF Inv, Watching
  <2>2. k \in listening => ~Silent(r, k)
    BY <1>2, <1>5 DEF Silent
  <2>3. Asking(r, <<>>, k, gen[k], listening, serving[k])
    <3>1. \A i \in DOMAIN r : r[i].key = k => r[i].gen = gen[k]
      BY <1>5
    <3>2. \A i, j \in DOMAIN r : r[i].key = r[j].key => i = j
      BY <1>2, <1>5
    <3> QED
      BY <1>1, <1>5, <3>1, <3>2, AskingAnew
  <2>4. Asking(requests', responses', k, gen'[k], listening', serving'[k])
    BY <1>1, <2>3
  <2>5. k \in listening' => ~Silent(requests', k)
    BY <1>1, <2>2
  <2> QED
    BY <2>1, <2>4, <2>5 DEF Watching
<1>10. CacheIsTruthful' /\ SyncedIsFresh'
  BY <1>1, CacheKept
<1>11. TokensOld'
  <2>1. ASSUME NEW i \in DOMAIN r PROVE r[i].have <= Have(r[i].key)
    <3>1. r[i].have = Have(r[i].key) /\ r[i].key \in Targets
      BY <1>3, <1>5
    <3>2. Have(r[i].key) \in 0..now
      BY <1>4, <3>1
    <3> QED
      BY <1>1, <3>1, <3>2
  <2> QED
    BY <1>1, <2>1 DEF TokensOld, Have
<1>12. Closed' /\ NothingStrays' /\ IsFiniteSet(listening')
  BY <1>1 DEF Inv, Closed, NothingStrays
<1> QED
  BY <1>7, <1>8, <1>9, <1>10, <1>11, <1>12 DEF Inv

LEMMA Breaking == ASSUME Inv, StreamBreaks PROVE Inv'
<1>1. /\ TypeOK /\ breaks < MaxBreaks /\ breaks' = breaks + 1 /\ open' = FALSE
      /\ requests' = <<>> /\ responses' = <<>>
      /\ serving' = [k \in Targets |-> Off] /\ state' = [k \in Targets |-> Absent]
      /\ updates' = [k \in Targets |-> Nothing]
      /\ stale' = stale \cup leaked /\ leaked' = {}
      /\ UNCHANGED <<log, listening, cache, synced, gen, since, strayed, resets, rejections>>
  BY DEF Inv, StreamBreaks, Unheard
<1>2. TypeOK'
  <2>1. breaks' \in 0..MaxBreaks
    <3>1. breaks \in 0..MaxBreaks /\ MaxBreaks \in Nat
      BY <1>1 DEF TypeOK
    <3> QED
      BY <1>1, <3>1
  <2>2. /\ listening' \subseteq Targets
        /\ gen' \in [Targets -> 0..MaxListens] /\ since' \in [Targets -> 0..now]
        /\ synced' \in [Targets -> BOOLEAN]
    BY <1>1 DEF TypeOK
  <2>3. /\ state' \in [Targets -> [outstanding : Int, current : BOOLEAN] \cup {Absent}]
        /\ updates' \in [Targets -> [at : 0..now, exists : BOOLEAN] \cup {Nothing}]
    BY <1>1
  <2>4. serving' \in [Targets -> [status : {"off", "added", "current"}, gen : Nat, sent : 0..now]]
    <3>1. now \in Nat
      BY <1>1, Typed
    <3>2. Off \in [status : {"off", "added", "current"}, gen : Nat, sent : 0..now]
      BY <3>1 DEF Off
    <3> QED
      BY <1>1, <3>2
  <2>5. requests' \in Seq(Asked(now)) /\ responses' \in Seq(Said(now)) /\ open' \in BOOLEAN
    BY <1>1, NoMessages
  <2> QED
    BY <1>1, <2>1, <2>2, <2>3, <2>4, <2>5, TurningTypes
<1>3. CountsUnlessRejected'
  <2>1. ASSUME NEW k \in Targets \ leaked'
        PROVE  Ensure(k)'.outstanding = Due(requests', responses', k)
    <3>1. Answers(<<>>, k) = {} /\ Asks(<<>>, k) = {}
      BY DEF Answers, Asks
    <3>2. Due(<<>>, <<>>, k) = 0
      <4>1. Cardinality(Asks(<<>>, k)) = 0
        BY <3>1, FS_EmptySet
      <4>2. Cardinality(Answers(<<>>, k)) = 0
        BY <3>1, FS_EmptySet
      <4> QED
        BY <4>1, <4>2 DEF Due
    <3>3. Ensure(k)'.outstanding = 0
      BY <1>1 DEF Ensure, Fresh
    <3> QED
      BY <1>1, <3>2, <3>3
  <2> QED
    BY <2>1, CountsNext
<1>4. ASSUME NEW k \in Targets PROVE Watching(k)'
  <2>1. Watching(k)
    BY DEF Inv
  <2>2. serving'[k].status = "off"
    BY <1>1 DEF Off
  <2> QED
    BY <1>1, <2>1, <2>2, Quiet
<1>5. CacheIsTruthful' /\ SyncedIsFresh'
  BY <1>1, CacheKept
<1>6. Closed' /\ TokensOld' /\ NothingStrays' /\ IsFiniteSet(listening')
  BY <1>1 DEF Inv, Closed, TokensOld, NothingStrays, Off
<1> QED
  BY <1>2, <1>3, <1>4, <1>5, <1>6 DEF Inv

LEMMA Committing == ASSUME Inv, NEW h \in Targets, NEW exists \in BOOLEAN, Commit(h, exists) PROVE Inv'
<1> DEFINE c == [key |-> h, exists |-> exists]
<1>1. /\ TypeOK /\ now \in Nat /\ log \in Seq([key : Targets, exists : BOOLEAN])
      /\ responses \in Seq(Said(now)) /\ log' = Append(log, c)
      /\ UNCHANGED <<serving, open, requests, responses, listening, state, updates, cache, synced,
                     gen, since, stale, leaked, strayed, breaks, resets, rejections>>
  BY Typed DEF Inv, Commit, wire, client, aggregator, bounds
<1>2. c \in [key : Targets, exists : BOOLEAN]
  OBVIOUS
<1> HIDE DEF c
<1>3. /\ now' = now + 1 /\ log' \in Seq([key : Targets, exists : BOOLEAN])
      /\ \A i \in 1..now : log'[i] = log[i]
  BY <1>1, <1>2, Added DEF now
<1>4. 0..now \subseteq 0..now'
  BY <1>1, <1>3
<1>5. TypeOK'
  <2>1. serving' \in [Targets -> [status : {"off", "added", "current"}, gen : Nat, sent : 0..now']]
    BY <1>1, <1>4 DEF TypeOK
  <2>2. requests' \in Seq([op : {"watch", "unwatch"}, key : Targets, gen : Nat, have : 0..now'])
    <3>1. Asked(now) \subseteq Asked(now')
      BY <1>4 DEF Asked
    <3>2. requests \in Seq(Asked(now))
      BY <1>1, Typed
    <3>3. requests \in Seq(Asked(now'))
      BY <3>1, <3>2
    <3> QED
      BY <1>1, <3>3 DEF Asked
  <2>3. responses' \in Seq(Said(now'))
    <3>1. Said(now) \subseteq Said(now')
      BY <1>4 DEF Said
    <3> QED
      BY <1>1, <3>1
  <2>4. updates' \in [Targets -> [at : 0..now', exists : BOOLEAN] \cup {Nothing}]
    BY <1>1, <1>4 DEF TypeOK
  <2>5. cache' \in [Targets -> [at : 0..now', exists : BOOLEAN] \cup {Nothing}]
    BY <1>1, <1>4 DEF TypeOK
  <2>6. since' \in [Targets -> 0..now']
    BY <1>1, <1>4 DEF TypeOK
  <2>7. /\ open' \in BOOLEAN /\ (open' \/ (requests' = <<>> /\ responses' = <<>>))
        /\ listening' \subseteq Targets
        /\ state' \in [Targets -> [outstanding : Int, current : BOOLEAN] \cup {Absent}]
        /\ synced' \in [Targets -> BOOLEAN] /\ gen' \in [Targets -> 0..MaxListens]
        /\ stale' \subseteq Targets /\ leaked' \subseteq Targets /\ strayed' \in BOOLEAN
        /\ breaks' \in 0..MaxBreaks /\ resets' \in 0..MaxResets /\ rejections' \in 0..MaxRejections
    BY <1>1 DEF TypeOK
  <2> QED
    BY <1>3, <2>1, <2>2, <2>3, <2>4, <2>5, <2>6, <2>7 DEF TypeOK, Said
<1>6. CountsUnlessRejected'
  BY <1>1 DEF Inv, CountsUnlessRejected, Ensure, Fresh, Requested, Answered
<1>7. ASSUME NEW k \in Targets PROVE Watching(k)'
  <2>1. Watching(k) /\ (updates[k] # Nothing => updates[k].at \in 0..now)
    BY <1>1, Typed DEF Inv
  <2>2. InOrder(responses', k, updates'[k]) /\ AllTrue(responses', k, updates'[k], log')
    <3>1. InOrder(responses, k, updates[k]) /\ AllTrue(responses, k, updates[k], log)
      BY <2>1 DEF Watching
    <3> QED
      BY <1>1, <1>3, <2>1, <3>1, DocumentsKept
  <2>3. Ensure(k)' = Ensure(k) /\ Held(k)' = Held(k)
    BY <1>1 DEF Ensure, Fresh, Held, Have
  <2>4. ASSUME k \in listening' \ (leaked' \cup stale'), Silent(requests', k)
        PROVE  Showing(responses', k, Ensure(k)', Held(k)', serving'[k], log')
    <3>1. Showing(responses, k, Ensure(k), Held(k), serving[k], log)
      BY <1>1, <2>1, <2>4 DEF Watching
    <3>2. Showing(responses, k, Ensure(k), Held(k), serving[k], log')
      BY <1>1, <1>3, <3>1, ShowingKept
    <3> QED
      BY <1>1, <2>3, <3>2
  <2>5. /\ k \notin leaked' => Asking(requests', responses', k, gen'[k], listening', serving'[k])
        /\ k \in listening' \ leaked' /\ Silent(requests', k)
              => SaidNow(responses', k, gen'[k], since'[k], serving'[k])
    BY <1>1, <2>1 DEF Watching
  <2> QED
    BY <2>2, <2>4, <2>5 DEF Watching
<1>8. ASSUME NEW k \in Targets, NEW t \in 0..now
      PROVE  LastChange(k, t)' = LastOf(log, k, t) /\ ExistsAt(k, t)' = Existed(log, k, t)
  <2>1. LastOf(log', k, t) = LastOf(log, k, t) /\ Existed(log', k, t) = Existed(log, k, t)
    <3>1. t \in Nat /\ \A i \in 1..t : i \in 1..now
      BY <1>1
    <3> QED
      BY <1>3, <3>1, LastOfPast
  <2>2. LastChange(k, t)' = LastOf(log', k, t) /\ ExistsAt(k, t)' = Existed(log', k, t)
    BY DEF LastChange, Changed, LastOf, ExistsAt, Existed
  <2> QED
    BY <2>1, <2>2
<1>9. CacheIsTruthful'
  <2>1. ASSUME NEW k \in Targets \ (stale' \cup leaked'), cache'[k] # Nothing
        PROVE  /\ cache'[k].exists = ExistsAt(k, cache[k].at)'
               /\ cache'[k].exists => LastChange(k, cache[k].at)' = cache'[k].at
    <3>1. cache[k].at \in 0..now
      BY <1>1, <2>1, Typed
    <3> PICK t \in 0..now : t = cache[k].at
      BY <3>1
    <3>2. cache[k].exists = Existed(log, k, t) /\ (cache[k].exists => LastOf(log, k, t) = t)
      BY <1>1, <2>1, SameTimes DEF Inv, CacheIsTruthful
    <3>3. LastChange(k, t)' = LastOf(log, k, t) /\ ExistsAt(k, t)' = Existed(log, k, t)
      BY <1>8
    <3>4. LastChange(k, cache[k].at)' = LastChange(k, t)' /\ ExistsAt(k, cache[k].at)' = ExistsAt(k, t)'
      BY <1>1 DEF LastChange, Changed, ExistsAt
    <3> QED
      BY <1>1, <3>2, <3>3, <3>4
  <2> QED
    BY <2>1 DEF CacheIsTruthful
<1>10. SyncedIsFresh'
  <2>1. ASSUME NEW k \in listening' \ (stale' \cup leaked'), synced'[k]
        PROVE  cache'[k] # Nothing /\ cache'[k].at >= LastChange(k, since[k])'
    <3>1. k \in Targets /\ since[k] \in 0..now
      BY <1>1, <2>1, Typed DEF TypeOK
    <3> PICK t \in 0..now : t = since[k]
      BY <3>1
    <3>2. cache[k] # Nothing /\ cache[k].at >= LastOf(log, k, t)
      BY <1>1, <2>1, SameTimes DEF Inv, SyncedIsFresh
    <3>3. LastChange(k, t)' = LastOf(log, k, t)
      BY <1>8, <3>1
    <3>4. LastChange(k, since[k])' = LastChange(k, t)'
      BY <1>1 DEF LastChange, Changed
    <3> QED
      BY <1>1, <3>2, <3>3, <3>4
  <2> QED
    BY <2>1 DEF SyncedIsFresh
<1>11. Closed' /\ TokensOld' /\ NothingStrays' /\ IsFiniteSet(listening')
  BY <1>1, TokensKept DEF Inv, Closed, NothingStrays
<1> QED
  BY <1>5, <1>6, <1>7, <1>9, <1>10, <1>11 DEF Inv

-----------------------------------------------------------------------------
LEMMA Initially == ASSUME Init PROVE Inv
<1>1. /\ log \in Seq([key : Targets, exists : BOOLEAN]) /\ now \in Nat
  <2>1. PICK n \in {0, 1} \cap 0..MaxCommits : log \in [1..n -> [key : Targets, exists : {TRUE}]]
    BY DEF Init
  <2>2. n \in Nat
    OBVIOUS
  <2>3. log \in [1..n -> [key : Targets, exists : BOOLEAN]]
    BY <2>1
  <2>4. log \in Seq([key : Targets, exists : BOOLEAN])
    <3> DEFINE T == [key : Targets, exists : BOOLEAN]
    <3> HIDE DEF T
    <3>1. log \in [1..n -> T]
      BY <2>3 DEF T
    <3>2. log \in Seq(T)
      BY <2>2, <3>1, SeqDef
    <3> QED
      BY <3>2 DEF T
  <2> QED
    BY <2>4 DEF now
<1>2. /\ serving = [k \in Targets |-> Off] /\ open = FALSE /\ requests = <<>> /\ responses = <<>>
      /\ listening = {} /\ state = [k \in Targets |-> Absent]
      /\ updates = [k \in Targets |-> Nothing] /\ cache = [k \in Targets |-> Nothing]
      /\ synced = [k \in Targets |-> FALSE]
      /\ gen = [k \in Targets |-> 0] /\ since = [k \in Targets |-> 0]
      /\ stale = {} /\ leaked = {} /\ strayed = FALSE /\ breaks = 0 /\ resets = 0 /\ rejections = 0
  BY DEF Init
<1>3. TypeOK
  <2>1. /\ requests \in Seq([op : {"watch", "unwatch"}, key : Targets, gen : Nat, have : 0..now])
        /\ responses \in Seq(Said(now))
    BY <1>2, NoMessages
  <2>2. serving \in [Targets -> [status : {"off", "added", "current"}, gen : Nat, sent : 0..now]]
    <3>1. Off \in [status : {"off", "added", "current"}, gen : Nat, sent : 0..now]
      BY <1>1 DEF Off
    <3> QED
      BY <1>2, <3>1
  <2>3. /\ state \in [Targets -> [outstanding : Int, current : BOOLEAN] \cup {Absent}]
        /\ updates \in [Targets -> [at : 0..now, exists : BOOLEAN] \cup {Nothing}]
        /\ cache \in [Targets -> [at : 0..now, exists : BOOLEAN] \cup {Nothing}]
        /\ synced \in [Targets -> BOOLEAN]
    BY <1>2
  <2>4. gen \in [Targets -> 0..MaxListens] /\ since \in [Targets -> 0..now]
    BY <1>1, <1>2
  <2>5. breaks \in 0..MaxBreaks /\ resets \in 0..MaxResets /\ rejections \in 0..MaxRejections
    BY <1>2
  <2> QED
    BY <1>1, <1>2, <2>1, <2>2, <2>3, <2>4, <2>5 DEF TypeOK, Said
<1>4. CountsUnlessRejected
  <2>1. ASSUME NEW k \in Targets \ leaked PROVE Ensure(k).outstanding = Requested(k) + Answered(k)
    <3>1. {i \in DOMAIN requests : requests[i].key = k} = {}
      BY <1>2
    <3>2. {i \in DOMAIN responses : IsAnswer(responses[i], k)} = {}
      BY <1>2
    <3>3. Requested(k) = 0
      BY <3>1, FS_EmptySet DEF Requested
    <3>4. Answered(k) = 0
      BY <3>2, FS_EmptySet DEF Answered
    <3>5. Ensure(k).outstanding = 0
      BY <1>2 DEF Ensure, Fresh
    <3> QED
      BY <3>3, <3>4, <3>5
  <2> QED
    BY <2>1 DEF CountsUnlessRejected
<1>5. ASSUME NEW k \in Targets PROVE Watching(k)
  <2>1. serving[k].status = "off" /\ ~Ensure(k).current
    BY <1>2 DEF Off, Ensure, Fresh
  <2>2. InOrder(<<>>, k, updates[k]) /\ AllTrue(<<>>, k, updates[k], log)
    BY <1>2 DEF InOrder, AllTrue
  <2>3. Asking(<<>>, <<>>, k, gen[k], listening, serving[k])
    BY <2>1, NothingAsked
  <2> QED
    BY <1>2, <2>2, <2>3 DEF Watching
<1>6. IsFiniteSet(listening)
  BY <1>2, FS_EmptySet
<1> QED
  BY <1>2, <1>3, <1>4, <1>5, <1>6
  DEF Inv, Closed, TokensOld, NothingStrays, CacheIsTruthful, SyncedIsFresh, Off

LEMMA Stepping == ASSUME Inv, [Next]_vars PROVE Inv'
<1>1. ASSUME NEW k \in Targets,
             \/ Listen(k)
             \/ StopListening(k)
             \/ \E exists \in BOOLEAN : Commit(k, exists)
             \/ ServerSendsDocument(k)
             \/ ServerSaysCurrent(k)
             \/ ServerResets(k)
      PROVE  Inv'
  BY <1>1, Listening, Stopping, Committing, TellingDocument, TellingCurrent, TellingReset
<1>2. CASE StreamOpens
  BY <1>2, Opening
<1>3. CASE StreamBreaks
  BY <1>3, Breaking
<1>4. CASE ServerAdds
  BY <1>4, Adding
<1>5. CASE ServerRejects
  BY <1>5, Rejecting
<1>6. CASE ServerRemoves
  BY <1>6, Removing
<1>7. CASE ServerSnapshot
  BY <1>7, TellingSnapshot
<1>8. CASE Receives
  BY <1>8, HearingAdded, HearingRemoved, HearingCurrent, HearingReset, HearingDocument,
     HearingSnapshot, HearingRejected DEF Receives
<1>9. CASE UNCHANGED vars
  <2>1. UNCHANGED <<log, serving, open, requests, responses, listening, state, updates, cache, synced,
                    gen, since, stale, leaked, strayed, breaks, resets, rejections>>
    BY <1>9 DEF vars, server, wire, aggregator, history, bounds
  <2>2. TypeOK'
    BY <2>1 DEF Inv, TypeOK, now
  <2>3. CountsUnlessRejected'
    BY <2>1 DEF Inv, CountsUnlessRejected, Ensure, Fresh, Requested, Answered
  <2>4. ASSUME NEW k \in Targets PROVE Watching(k)'
    <3>1. Watching(k) /\ Ensure(k)' = Ensure(k) /\ Held(k)' = Held(k)
      BY <2>1 DEF Inv, Ensure, Fresh, Held, Have
    <3> QED
      BY <2>1, <3>1 DEF Watching
  <2>5. CacheIsTruthful' /\ SyncedIsFresh'
    BY <2>1, CacheKept
  <2>6. Closed' /\ TokensOld' /\ NothingStrays' /\ IsFiniteSet(listening')
    BY <2>1, TokensKept DEF Inv, Closed, NothingStrays
  <2> QED
    BY <2>2, <2>3, <2>4, <2>5, <2>6 DEF Inv
<1> QED
  BY <1>1, <1>2, <1>3, <1>4, <1>5, <1>6, <1>7, <1>8, <1>9 DEF Next

LEMMA Invariance == Spec => []Inv
BY Initially, Stepping, PTL DEF Spec

-----------------------------------------------------------------------------
(* What the aggregator promises *)

\* Requests, answers, the aggregator's states and documents have their types.
THEOREM TypeCorrect == Spec => []TypeOK
<1>1. Inv => TypeOK
  BY DEF Inv
<1> QED
  BY <1>1, Invariance, PTL

\* The aggregator waits for exactly the answers that are still to come, however
\* often targets are given up and listened to again, until a refusal meets one
\* that is not wanted as it was asked for.
THEOREM CountsAreRight == Spec => []CountsUnlessRejected
<1>1. Inv => CountsUnlessRejected
  BY DEF Inv
<1> QED
  BY <1>1, Invariance, PTL

\* Nothing said about an earlier listen of a target is taken for the present one.
THEOREM NoStraying == Spec => []NothingStrays
<1>1. Inv => NothingStrays
  BY DEF Inv
<1> QED
  BY <1>1, Invariance, PTL

\* What the cache says of a document is what the server had at that time, also
\* where the device concluded from silence that there is no document.
THEOREM TruthfulCache == Spec => []CacheIsTruthful
<1>1. Inv => CacheIsTruthful
  BY DEF Inv
<1> QED
  BY <1>1, Invariance, PTL

\* A view that is called current shows a document no older than the listen.
THEOREM FreshViews == Spec => []SyncedIsFresh
<1>1. Inv => SyncedIsFresh
  BY DEF Inv
<1> QED
  BY <1>1, Invariance, PTL

=============================================================================
