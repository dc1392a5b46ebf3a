------------------------- MODULE OneShotReadProofs -------------------------
(***************************************************************************)
(* OneShotRead, for any documents, calls and bounds.                       *)
(***************************************************************************)
EXTENDS OneShotRead, FiniteSetTheorems, SequenceTheorems, TLAPS

USE OneShotReadAssumption

-----------------------------------------------------------------------------
(* The inductive invariant *)

\* Only so many calls were made; events are put in some order.
FewCalls == IsFiniteSet({r \in Reads : phase[r] # "idle"})

\* A call is added once, and removed after that.
Tasks ==
    /\ \A i \in DOMAIN worker :
          phase[worker[i].read] \in (IF worker[i].kind = "add" THEN {"adding"}
                                     ELSE {"listening", "gone"})
    /\ \A i, j \in DOMAIN worker : worker[i] = worker[j] /\ worker[i].kind = "add" => i = j

\* Events are of listeners that were added; an error is the last one.
Events ==
    /\ \A i \in DOMAIN main :
          phase[main[i].read] \in (IF main[i].ok THEN {"listening", "gone"} ELSE {"gone"})
    /\ \A i, j \in DOMAIN main : i < j /\ main[i].read = main[j].read => main[i].ok

\* Who was answered is muted, or was told of an error and will hear no more.
Answers ==
    \A r \in Reads :
       \/ completions[r] = 0
       \/ /\ completions[r] = 1
          /\ r \in muted \/ (phase[r] = "gone" /\ \A i \in DOMAIN main : main[i].read # r)

\* The timer runs while a stream is being started or is waited for.
Ticking ==
    /\ timer => IsStarted /\ onlineState = "Unknown"
    /\ onlineState = "Online" => failures = 0

IdlesUnneeded == idle => targets = {}

\* A view in sync is no older than the calls it was made for, and so are
\* the events of it.
AskedBefore == \A r \in Reads : asked[r] <= version[KeyOf[r]]

ViewsFresh ==
    \A r \in Reads \ shared :
       phase[r] = "listening" /\ current[KeyOf[r]] => cache[KeyOf[r]] >= asked[r]

EventsFresh ==
    \A i \in DOMAIN main :
       main[i].ok /\ ~main[i].cached /\ main[i].read \notin shared
          => main[i].ver >= asked[main[i].read]

InSync == AskedBefore /\ ViewsFresh /\ EventsFresh

Answering == FewCalls /\ Tasks /\ Events /\ Answers
Tracking == NoTargetLeaks /\ Ticking /\ IdlesUnneeded /\ AssertionsHold
Inv == TypeOK /\ Answering /\ Tracking /\ InSync

-----------------------------------------------------------------------------
(* Putting sets in order *)

LEMMA InSomeOrder ==
    ASSUME NEW S, IsFiniteSet(S)
    PROVE  /\ SetToSeq(S) \in Seq(S)
           /\ \A i, j \in DOMAIN SetToSeq(S) : SetToSeq(S)[i] = SetToSeq(S)[j] => i = j
<1> DEFINE n == Cardinality(S)
           q == SetToSeq(S)
<1>1. n \in Nat /\ ExistsBijection(1..n, S)
  BY FS_CardinalityType
<1> HIDE DEF n
<1>2. \E f \in [1..n -> S] : IsInjective(f)
  BY <1>1 DEF ExistsBijection, Bijection, Injection
<1>3. q \in [1..n -> S] /\ IsInjective(q)
  BY <1>2 DEF SetToSeq, n
<1> HIDE DEF q
<1>4. q \in Seq(S)
  BY <1>1, <1>3
<1>5. \A i, j \in DOMAIN q : q[i] = q[j] => i = j
  BY <1>3 DEF IsInjective
<1> QED
  BY <1>4, <1>5 DEF q

\* What is said of the calls of a finite set is a finite set.
LEMMA FewEvents ==
    ASSUME NEW R, IsFiniteSet(R), NEW f, f = [r \in R |-> f[r]]
    PROVE  IsFiniteSet({f[r] : r \in R})
<1> DEFINE T == {f[r] : r \in R}
<1>1. f \in Surjection(R, T)
  <2>1. f \in [R -> T]
    OBVIOUS
  <2>2. \A t \in T : \E r \in R : f[r] = t
    OBVIOUS
  <2> QED
    BY <2>1, <2>2 DEF Surjection
<1> HIDE DEF T
<1>2. IsFiniteSet(T)
  BY <1>1, FS_Surjection
<1> QED
  BY <1>2 DEF T

-----------------------------------------------------------------------------
(* Types of tasks and events *)

Task == [kind : {"add", "remove"}, read : Reads]
Told == [read : Reads, ok : BOOLEAN, ver : Unknown..MaxVersion, cached : BOOLEAN]

LEMMA Listening ==
    ASSUME FewCalls, NEW R, \A r \in R : r \in Reads /\ phase[r] = "listening"
    PROVE  IsFiniteSet(R)
<1>1. R \in SUBSET {r \in Reads : phase[r] # "idle"}
  OBVIOUS
<1> QED
  BY <1>1, FS_Subset DEF FewCalls

\* Events of listeners with what their views show.
Shows(q, synced, docs) ==
    \A i \in DOMAIN q :
       /\ q[i].ok /\ phase[q[i].read] = "listening"
       /\ q[i].ver = docs[KeyOf[q[i].read]]
       /\ q[i].cached = ~synced[KeyOf[q[i].read]]

\* RaiseSnapshotsEvent appends events of such listeners to what main is told.
LEMMA Raising ==
    ASSUME FewCalls, raised \subseteq Reads,
           NEW synced \in [Keys -> BOOLEAN], NEW docs \in [Keys -> Unknown..MaxVersion],
           NEW state, NEW changed, Raise(synced, state, docs, changed)
    PROVE  /\ raised' \subseteq Reads
           /\ \E q \in Seq(Told) : main' = main \o q /\ Shows(q, synced, docs)
<1> DEFINE first == {r \in Reads : /\ phase[r] = "listening" /\ r \notin raised
                                  /\ ShouldRaise(synced[KeyOf[r]], state)}
           again == {r \in raised : phase[r] = "listening" /\ KeyOf[r] \in changed}
           R == first \cup again
           f == [r \in R |-> Event(r, docs[KeyOf[r]], ~synced[KeyOf[r]])]
           E == {f[r] : r \in R}
           q == SetToSeq(E)
<1>1. \A r \in R : f[r] = Event(r, docs[KeyOf[r]], ~synced[KeyOf[r]])
  BY Zenon
<1>2. \A r \in R : r \in Reads /\ phase[r] = "listening" /\ KeyOf[r] \in Keys
  OBVIOUS
<1>3. f = [r \in R |-> f[r]] /\ raised \cup first \subseteq Reads
  OBVIOUS
<1> HIDE DEF f
<1>4. raised' = raised \cup first /\ main' = main \o q
  <2>1. E = {Event(r, docs[KeyOf[r]], ~synced[KeyOf[r]]) : r \in first \cup again}
    BY <1>1
  <2> HIDE DEF E
  <2> QED
    BY <2>1 DEF Raise
<1> HIDE DEF R
<1>5. \A e \in E : /\ e \in Told /\ e.ok /\ phase[e.read] = "listening"
                   /\ e.ver = docs[KeyOf[e.read]] /\ e.cached = ~synced[KeyOf[e.read]]
  <2> SUFFICES ASSUME NEW r \in R
               PROVE  LET e == f[r]
                      IN  /\ e \in Told /\ e.ok /\ phase[e.read] = "listening"
                          /\ e.ver = docs[KeyOf[e.read]] /\ e.cached = ~synced[KeyOf[e.read]]
    OBVIOUS
  <2>1. r \in Reads /\ phase[r] = "listening" /\ KeyOf[r] \in Keys
    BY <1>2
  <2>2. docs[KeyOf[r]] \in Unknown..MaxVersion /\ synced[KeyOf[r]] \in BOOLEAN
    BY <2>1
  <2>3. (~synced[KeyOf[r]]) \in BOOLEAN
    BY Zenon
  <2>4. \A v \in Unknown..MaxVersion, c \in BOOLEAN :
           LET e == Event(r, v, c)
           IN  e \in Told /\ e.ok /\ e.read = r /\ e.ver = v /\ e.cached = c
    BY <2>1 DEF Event, Told
  <2> DEFINE v == docs[KeyOf[r]]
             c == ~synced[KeyOf[r]]
  <2>5. v \in Unknown..MaxVersion /\ c \in BOOLEAN /\ f[r] = Event(r, v, c)
    BY <1>1, <2>2, <2>3
  <2> HIDE DEF v, c
  <2>6. /\ f[r] \in Told /\ f[r].ok /\ f[r].read = r /\ f[r].ver = v /\ f[r].cached = c
    BY <2>4, <2>5
  <2> QED
    BY <2>1, <2>6, Zenon DEF v, c
<1>6. IsFiniteSet(R)
  BY <1>2, Listening
<1>7. IsFiniteSet(E)
  BY <1>3, <1>6, FewEvents
<1> HIDE DEF E
<1>8. q \in Seq(E)
  BY <1>7, InSomeOrder
<1> HIDE DEF q
<1>9. \A i \in DOMAIN q : q[i] \in E
  BY <1>8
<1>10. q \in Seq(Told)
  BY <1>5, <1>8
<1>11. Shows(q, synced, docs)
  BY <1>5, <1>9 DEF Shows
<1> QED
  BY <1>3, <1>4, <1>10, <1>11

-----------------------------------------------------------------------------
(* Queues *)

LEMMA Taken ==
    ASSUME NEW S, NEW s \in Seq(S), s # <<>>
    PROVE  /\ Head(s) = s[1] /\ 1 \in DOMAIN s /\ Head(s) \in S
           /\ Tail(s) \in Seq(S)
           /\ \A i \in DOMAIN Tail(s) : i \in Nat /\ i > 0 /\ i + 1 \in DOMAIN s /\ Tail(s)[i] = s[i + 1]
<1>1. Len(s) \in Nat /\ Len(s) # 0 /\ DOMAIN s = 1..Len(s)
  BY EmptySeq
<1>2. /\ Head(s) \in S /\ Tail(s) \in Seq(S) /\ Len(Tail(s)) = Len(s) - 1
      /\ \A i \in 1 .. Len(Tail(s)) : Tail(s)[i] = s[i+1]
  BY HeadTailProperties
<1>3. Head(s) = s[1] /\ DOMAIN Tail(s) = 1..(Len(s) - 1)
  BY <1>1, <1>2
<1> QED
  BY <1>1, <1>2, <1>3

LEMMA Joined ==
    ASSUME NEW S, NEW s \in Seq(S), NEW t \in Seq(S)
    PROVE  /\ s \o t \in Seq(S)
           /\ \A i \in DOMAIN (s \o t) :
                 \/ i \in DOMAIN s /\ (s \o t)[i] = s[i]
                 \/ /\ i \notin DOMAIN s /\ i - Len(s) \in DOMAIN t
                    /\ i \in Nat /\ i > Len(s) /\ (s \o t)[i] = t[i - Len(s)]
<1>1. /\ s \o t \in Seq(S) /\ Len(s \o t) = Len(s) + Len(t)
      /\ \A i \in 1..(Len(s) + Len(t)) : (s \o t)[i] = IF i <= Len(s) THEN s[i] ELSE t[i - Len(s)]
  BY ConcatProperties
<1>2. /\ Len(s) \in Nat /\ Len(t) \in Nat /\ DOMAIN s = 1..Len(s) /\ DOMAIN t = 1..Len(t)
      /\ DOMAIN (s \o t) = 1..(Len(s) + Len(t))
  BY <1>1
<1>3. ASSUME NEW i \in 1..(Len(s) + Len(t))
      PROVE  \/ i \in DOMAIN s /\ (s \o t)[i] = s[i]
             \/ /\ i \notin DOMAIN s /\ i - Len(s) \in DOMAIN t
                /\ i \in Nat /\ i > Len(s) /\ (s \o t)[i] = t[i - Len(s)]
  <2>1. CASE i <= Len(s)
    BY <1>1, <1>2, <2>1
  <2>2. CASE i > Len(s)
    BY <1>1, <1>2, <2>2
  <2> QED
    BY <1>2, <2>1, <2>2
<1> QED
  BY <1>1, <1>2, <1>3

LEMMA AppendedIsJoined ==
    ASSUME NEW S, NEW s \in Seq(S), NEW e \in S
    PROVE  Append(s, e) = s \o <<e>> /\ <<e>> \in Seq(S)
<1>1. Append(s, e) = s \o <<e>>
  BY AppendIsConcat
<1>2. <<e>> \in Seq(S)
  OBVIOUS
<1> QED
  BY <1>1, <1>2

LEMMA NothingJoined == ASSUME NEW S, NEW s \in Seq(S) PROVE s \o <<>> = s /\ <<>> \in Seq(S)
BY ConcatEmptySeq, EmptySeq

\* The tasks and the events of a call, by their types.
LEMMA Types ==
    ASSUME TypeOK
    PROVE  /\ worker \in Seq(Task) /\ main \in Seq(Told)
           /\ \A i \in DOMAIN worker : worker[i] \in Task /\ worker[i].read \in Reads
           /\ \A i \in DOMAIN main : main[i] \in Told /\ main[i].read \in Reads
<1>1. worker \in Seq(Task) /\ main \in Seq(Told)
  BY DEF TypeOK, Task, Told
<1>2. (\A i \in DOMAIN worker : worker[i] \in Task) /\ (\A i \in DOMAIN main : main[i] \in Told)
  BY <1>1
<1>3. (\A t \in Task : t.read \in Reads) /\ (\A e \in Told : e.read \in Reads)
  BY DEF Task, Told
<1> QED
  BY <1>1, <1>2, <1>3

LEMMA FewMore ==
    ASSUME FewCalls, NEW r, \A x \in Reads : x = r \/ phase'[x] = "idle" \/ phase[x] # "idle"
    PROVE  FewCalls'
<1> DEFINE S == {x \in Reads : phase[x] # "idle"}
<1>1. IsFiniteSet(S \cup {r})
  BY FS_AddElement DEF FewCalls
<1>2. {x \in Reads : phase'[x] # "idle"} \in SUBSET (S \cup {r})
  OBVIOUS
<1> HIDE DEF S
<1>3. IsFiniteSet({x \in Reads : phase'[x] # "idle"})
  BY <1>1, <1>2, FS_Subset
<1> QED
  BY <1>3 DEF FewCalls

\* Events join the main queue, each of a call that had not gone; an error
\* comes alone and leaves its call gone.
LEMMA Appending ==
    ASSUME TypeOK, Events, Answers, NEW q \in Seq(Told), main' = main \o q,
           UNCHANGED <<completions, muted>>,
           \A r \in Reads : /\ phase[r] = "gone" => phase'[r] = "gone"
                            /\ phase[r] = "listening" => phase'[r] \in {"listening", "gone"},
           \A i \in DOMAIN q :
              /\ phase[q[i].read] # "gone"
              /\ phase'[q[i].read] \in (IF q[i].ok THEN {"listening"} ELSE {"gone"}),
           \A i, j \in DOMAIN q : i < j /\ q[i].read = q[j].read => q[i].ok
    PROVE  main' \in Seq(Told) /\ Events' /\ Answers'
<1>1. /\ main \in Seq(Told) /\ \A i \in DOMAIN main : main[i] \in Told /\ main[i].read \in Reads
      /\ Len(main) \in Nat /\ DOMAIN main = 1..Len(main)
  BY Types
<1>2. /\ \A i \in DOMAIN q : q[i] \in Told /\ q[i].read \in Reads /\ i \in Nat
      /\ Len(q) \in Nat
  <2>1. \A e \in Told : e.read \in Reads
    BY DEF Told
  <2> QED
    BY <2>1
<1>3. /\ main' \in Seq(Told)
      /\ \A i \in DOMAIN main' :
            \/ i \in DOMAIN main /\ main'[i] = main[i]
            \/ /\ i \notin DOMAIN main /\ i - Len(main) \in DOMAIN q
               /\ i \in Nat /\ i > Len(main) /\ main'[i] = q[i - Len(main)]
  BY <1>1, Joined
<1>4. \A i \in DOMAIN main :
         phase[main[i].read] \in (IF main[i].ok THEN {"listening", "gone"} ELSE {"gone"})
  BY DEF Events
<1>5. \A i \in DOMAIN main' :
         phase'[main'[i].read] \in (IF main'[i].ok THEN {"listening", "gone"} ELSE {"gone"})
  <2> TAKE i \in DOMAIN main'
  <2>1. CASE i \in DOMAIN main
    <3>1. main'[i] = main[i] /\ main[i].read \in Reads
      BY <1>1, <1>3, <2>1
    <3>2. phase[main[i].read] \in (IF main[i].ok THEN {"listening", "gone"} ELSE {"gone"})
      BY <1>4, <2>1
    <3> QED
      BY <3>1, <3>2
  <2>2. CASE i \notin DOMAIN main
    <3>1. i - Len(main) \in DOMAIN q /\ main'[i] = q[i - Len(main)]
      BY <1>3, <2>2
    <3> QED
      BY <3>1
  <2> QED
    BY <2>1, <2>2
<1>6. ASSUME NEW i \in DOMAIN main', NEW j \in DOMAIN main', i < j,
             main'[i].read = main'[j].read
      PROVE  main'[i].ok
  <2>1. CASE i \in DOMAIN main /\ j \in DOMAIN main
    BY <1>3, <1>6, <2>1 DEF Events
  <2>2. CASE i \in DOMAIN main /\ j \notin DOMAIN main
    <3>1. main'[i] = main[i] /\ j - Len(main) \in DOMAIN q /\ main'[j] = q[j - Len(main)]
      BY <1>3, <2>2
    <3>2. phase[main[i].read] # "gone"
      BY <1>6, <3>1
    <3> QED
      BY <1>4, <2>2, <3>1, <3>2
  <2>3. CASE i \notin DOMAIN main
    <3>1. /\ i - Len(main) \in DOMAIN q /\ main'[i] = q[i - Len(main)]
          /\ j - Len(main) \in DOMAIN q /\ main'[j] = q[j - Len(main)]
          /\ i \in Nat /\ j \in Nat
      BY <1>1, <1>3, <1>6, <2>3
    <3>2. i - Len(main) < j - Len(main)
      BY <1>1, <1>6, <3>1
    <3> QED
      BY <1>6, <3>1, <3>2
  <2> QED
    BY <2>1, <2>2, <2>3
<1>7. ASSUME NEW r \in Reads, phase[r] = "gone", \A i \in DOMAIN main : main[i].read # r
      PROVE  \A i \in DOMAIN main' : main'[i].read # r
  BY <1>3, <1>7
<1> QED
  BY <1>3, <1>5, <1>6, <1>7 DEF Events, Answers

\* ... and tell of documents as new as they were when they were asked for.
LEMMA TellingFresh ==
    ASSUME TypeOK, EventsFresh, NEW q \in Seq(Told), main' = main \o q,
           asked' = asked, shared \subseteq shared',
           \A i \in DOMAIN q : q[i].ok /\ ~q[i].cached /\ q[i].read \notin shared'
                                 => q[i].ver >= asked[q[i].read]
    PROVE  EventsFresh'
<1>1. \A i \in DOMAIN main' :
         \/ i \in DOMAIN main /\ main'[i] = main[i]
         \/ i - Len(main) \in DOMAIN q /\ main'[i] = q[i - Len(main)]
  BY Types, Joined
<1> QED
  BY <1>1 DEF EventsFresh

\* The first task is taken, and only its call moves on.
LEMMA TaskTaken ==
    ASSUME TypeOK, Tasks, worker # <<>>, worker' = Tail(worker),
           \A r \in Reads : r # Head(worker).read => phase'[r] = phase[r],
           phase'[Head(worker).read] = (IF Head(worker).kind = "add" THEN "listening" ELSE "gone")
    PROVE  worker' \in Seq(Task) /\ Tasks'
<1>1. worker \in Seq(Task) /\ \A i \in DOMAIN worker : worker[i] \in Task /\ worker[i].read \in Reads
  BY Types
<1>2. /\ Head(worker) = worker[1] /\ 1 \in DOMAIN worker
      /\ worker' \in Seq(Task)
      /\ \A i \in DOMAIN worker' : /\ i \in Nat /\ i > 0 /\ i + 1 \in DOMAIN worker
                                   /\ worker'[i] = worker[i + 1]
  BY <1>1, Taken
<1>3. ASSUME NEW i \in DOMAIN worker'
      PROVE  phase'[worker'[i].read] \in (IF worker'[i].kind = "add" THEN {"adding"}
                                          ELSE {"listening", "gone"})
  <2> DEFINE t == worker[i + 1]
             h == worker[1]
  <2>1. /\ worker'[i] = t /\ t \in Task /\ h \in Task /\ i + 1 # 1
        /\ t.kind \in {"add", "remove"} /\ h.kind \in {"add", "remove"}
        /\ t.read \in Reads
    BY <1>1, <1>2 DEF Task
  <2>2. /\ phase[t.read] \in (IF t.kind = "add" THEN {"adding"} ELSE {"listening", "gone"})
        /\ phase[h.read] \in (IF h.kind = "add" THEN {"adding"} ELSE {"listening", "gone"})
        /\ t = h /\ h.kind = "add" => i + 1 = 1
    BY <1>2, <1>3 DEF Tasks
  <2>3. phase'[h.read] = (IF h.kind = "add" THEN "listening" ELSE "gone")
    BY <1>2
  <2>4. t.read # h.read => phase'[t.read] = phase[t.read]
    BY <1>2, <2>1
  <2>5. t.read = h.read /\ t.kind = h.kind => t = h
    BY <2>1 DEF Task
  <2> HIDE DEF t, h
  <2>6. CASE t.read # h.read
    BY <2>1, <2>2, <2>4, <2>6
  <2>7. CASE t.read = h.read /\ h.kind = "add"
    BY <2>1, <2>2, <2>5, <2>7
  <2>8. CASE t.read = h.read /\ h.kind = "remove"
    BY <2>1, <2>2, <2>3, <2>8
  <2> QED
    BY <2>1, <2>6, <2>7, <2>8
<1>4. ASSUME NEW i \in DOMAIN worker', NEW j \in DOMAIN worker',
             worker'[i] = worker'[j], worker'[i].kind = "add"
      PROVE  i = j
  <2>1. i + 1 = j + 1
    BY <1>2, <1>4 DEF Tasks
  <2> QED
    BY <1>2, <2>1
<1> QED
  BY <1>2, <1>3, <1>4 DEF Tasks

\* A task is added of a call that waits for no task of its kind.
LEMMA TaskAdded ==
    ASSUME TypeOK, Tasks, NEW t \in Task, worker' = Append(worker, t),
           \A r \in Reads : phase[r] # "idle" => phase'[r] = phase[r],
           phase'[t.read] \in (IF t.kind = "add" THEN {"adding"} ELSE {"listening", "gone"}),
           t.kind = "add" => phase[t.read] = "idle"
    PROVE  worker' \in Seq(Task) /\ Tasks'
<1>1. /\ worker \in Seq(Task) /\ Len(worker) \in Nat
      /\ \A i \in DOMAIN worker : worker[i] \in Task /\ worker[i].read \in Reads
  BY Types
<1>2. Append(worker, t) = worker \o <<t>> /\ <<t>> \in Seq(Task)
  BY <1>1, AppendedIsJoined
<1>3. /\ worker' \in Seq(Task)
      /\ \A i \in DOMAIN worker' :
            \/ i \in DOMAIN worker /\ worker'[i] = worker[i]
            \/ i \notin DOMAIN worker /\ i = Len(worker) + 1 /\ worker'[i] = t
  <2>1. /\ worker' \in Seq(Task)
        /\ \A i \in DOMAIN worker' :
              \/ i \in DOMAIN worker /\ worker'[i] = worker[i]
              \/ /\ i \notin DOMAIN worker /\ i - Len(worker) \in DOMAIN <<t>>
                 /\ i \in Nat /\ i > Len(worker) /\ worker'[i] = <<t>>[i - Len(worker)]
    BY <1>1, <1>2, Joined
  <2> QED
    BY <1>1, <2>1
<1>4. \A i \in DOMAIN worker :
         /\ phase[worker[i].read] \in (IF worker[i].kind = "add" THEN {"adding"}
                                       ELSE {"listening", "gone"})
         /\ phase'[worker[i].read] = phase[worker[i].read]
         /\ worker[i] = t => worker[i].kind # "add"
  BY <1>1 DEF Tasks
<1>5. \A i \in DOMAIN worker' :
         phase'[worker'[i].read] \in (IF worker'[i].kind = "add" THEN {"adding"}
                                      ELSE {"listening", "gone"})
  <2> TAKE i \in DOMAIN worker'
  <2>1. CASE i \in DOMAIN worker /\ worker'[i] = worker[i]
    BY <1>4, <2>1
  <2>2. CASE worker'[i] = t
    BY <2>2
  <2> QED
    BY <1>3, <2>1, <2>2
<1>6. \A i, j \in DOMAIN worker' : worker'[i] = worker'[j] /\ worker'[i].kind = "add" => i = j
  BY <1>3, <1>4 DEF Tasks
<1> QED
  BY <1>3, <1>5, <1>6 DEF Tasks

-----------------------------------------------------------------------------
(* One lemma per action *)

LEMMA Initially == Init => Inv
<1> SUFFICES ASSUME Init PROVE Inv
  OBVIOUS
<1>1. TypeOK
  <2>1. worker \in Seq([kind : {"add", "remove"}, read : Reads])
    BY EmptySeq DEF Init
  <2>2. main \in Seq([read : Reads, ok : BOOLEAN, ver : Unknown..MaxVersion, cached : BOOLEAN])
    BY EmptySeq DEF Init
  <2>3. version \in [Keys -> 0..MaxVersion] /\ cache \in [Keys -> Unknown..MaxVersion]
    <3>1. {0, 1} \cap 0..MaxVersion \subseteq 0..MaxVersion
      OBVIOUS
    <3>2. {Unknown} \cup (0..MaxVersion) \subseteq Unknown..MaxVersion
      BY DEF Unknown
    <3> QED
      BY <3>1, <3>2 DEF Init
  <2>4. /\ phase \in [Reads -> {"idle", "adding", "listening", "gone"}]
        /\ completions \in [Reads -> Nat]
        /\ asked \in [Reads -> Unknown..MaxVersion]
    BY DEF Init, Unknown
  <2>5. /\ current \in [Keys -> BOOLEAN]
        /\ request \in [Keys -> {"none", "sent", "served", "withdrawn"}]
    BY DEF Init
  <2>6. breaks \in 0..MaxBreaks /\ restarts \in 0..MaxRestarts /\ rejections \in 0..MaxRejections
    <3>1. 0 \in 0..MaxBreaks /\ 0 \in 0..MaxRestarts /\ 0 \in 0..MaxRejections
      OBVIOUS
    <3> QED
      BY <3>1 DEF Init
  <2>7. /\ raised \subseteq Reads /\ muted \subseteq Reads /\ shared \subseteq Reads
        /\ targets \subseteq Keys /\ failures \in 0..1
    BY DEF Init
  <2>8. /\ idle \in BOOLEAN /\ (idle => IsOpen) /\ timer \in BOOLEAN /\ broken \in BOOLEAN
        /\ stream \in {"initial", "starting", "backoff", "open", "error"}
        /\ onlineState \in {"Unknown", "Online", "Offline"}
    BY DEF Init
  <2> QED
    BY <2>1, <2>2, <2>3, <2>4, <2>5, <2>6, <2>7, <2>8 DEF TypeOK
<1>2. Answering
  <2>1. {r \in Reads : phase[r] # "idle"} = {}
    BY DEF Init
  <2>2. FewCalls
    BY <2>1, FS_EmptySet DEF FewCalls
  <2> QED
    BY <2>2 DEF Init, Answering, Tasks, Events, Answers
<1>3. Tracking
  BY DEF Init, Tracking, NoTargetLeaks, Listeners, Ticking, IdlesUnneeded, AssertionsHold
<1>4. InSync
  <2>1. \A r \in Reads : version[KeyOf[r]] \in Nat
    BY DEF Init
  <2> QED
    BY <2>1 DEF Init, InSync, AskedBefore, ViewsFresh, EventsFresh, Unknown
<1> QED
  BY <1>1, <1>2, <1>3, <1>4 DEF Inv

LEMMA SameCalls == ASSUME Answering, UNCHANGED calls PROVE Answering'
BY DEF Answering, FewCalls, Tasks, Events, Answers, calls

LEMMA SameSync ==
    ASSUME InSync, UNCHANGED <<version, cache, calls, current, asked, shared>>
    PROVE  InSync'
BY DEF InSync, AskedBefore, ViewsFresh, EventsFresh, calls

LEMMA SameTargets ==
    ASSUME NoTargetLeaks, UNCHANGED <<targets, phase>>
    PROVE  NoTargetLeaks'
BY DEF NoTargetLeaks, Listeners

LEMMA Getting == ASSUME Inv, NEW r \in Reads, Get(r) PROVE Inv'
<1>1. TypeOK /\ Answering /\ Tracking /\ InSync
  BY DEF Inv
<1>2. /\ phase[r] = "idle" /\ phase' = [phase EXCEPT ![r] = "adding"]
      /\ phase \in [Reads -> {"idle", "adding", "listening", "gone"}]
      /\ worker' = Append(worker, AddTask(r))
      /\ UNCHANGED <<main, raised, muted, completions>>
  BY <1>1 DEF Get, TypeOK
<1>3. AddTask(r) \in Task /\ AddTask(r).read = r /\ AddTask(r).kind = "add"
  BY DEF AddTask, Task
<1>4. worker' \in Seq(Task) /\ Tasks'
  BY <1>1, <1>2, <1>3, TaskAdded DEF Answering
<1>5. FewCalls'
  BY <1>1, <1>2, FewMore DEF Answering
<1>6. main' = main \o <<>> /\ <<>> \in Seq(Told)
  BY <1>1, <1>2, Types, NothingJoined
<1>7. Events' /\ Answers'
  <2>1. DOMAIN <<>> = {}
    OBVIOUS
  <2>2. \A x \in Reads : /\ phase[x] = "gone" => phase'[x] = "gone"
                         /\ phase[x] = "listening" => phase'[x] \in {"listening", "gone"}
    BY <1>2
  <2> QED
    BY <1>1, <1>2, <1>6, <2>1, <2>2, Appending DEF Answering
<1>8. TypeOK'
  <2>1. asked' \in [Reads -> Unknown..MaxVersion]
    <3>1. version[KeyOf[r]] \in Unknown..MaxVersion /\ asked \in [Reads -> Unknown..MaxVersion]
      BY <1>1 DEF TypeOK, Unknown
    <3>2. asked' = [asked EXCEPT ![r] = version[KeyOf[r]]]
      BY DEF Get
    <3> QED
      BY <3>1, <3>2
  <2>2. phase' \in [Reads -> {"idle", "adding", "listening", "gone"}]
    BY <1>2
  <2> QED
    BY <1>1, <1>4, <2>1, <2>2
       DEF TypeOK, Get, net, tracker, bounds, Task, IsOpen
<1>9. Tracking'
  <2>1. \A k \in Keys : Listeners(k)' = Listeners(k)
    BY <1>2 DEF Listeners
  <2> QED
    BY <1>1, <2>1 DEF Tracking, NoTargetLeaks, Ticking, IdlesUnneeded, AssertionsHold, Get, net,
                      tracker, IsStarted
<1>10. InSync'
  <2>1. /\ asked' = [asked EXCEPT ![r] = version[KeyOf[r]]] /\ asked \in [Reads -> Unknown..MaxVersion]
        /\ UNCHANGED <<version, cache, shared, current>> /\ version[KeyOf[r]] \in 0..MaxVersion
    BY <1>1 DEF Get, TypeOK, net
  <2>2. AskedBefore'
    BY <1>1, <2>1 DEF InSync, AskedBefore
  <2>3. ViewsFresh'
    BY <1>1, <1>2, <2>1 DEF InSync, ViewsFresh
  <2>4. \A i \in DOMAIN main : main[i].read \in Reads /\ main[i].read # r
    BY <1>1, <1>2, Types DEF Answering, Events
  <2>5. EventsFresh'
    BY <1>1, <1>2, <2>1, <2>4 DEF InSync, EventsFresh
  <2> QED
    BY <2>2, <2>3, <2>5 DEF InSync
<1> QED
  BY <1>1, <1>4, <1>5, <1>7, <1>8, <1>9, <1>10 DEF Inv, Answering

LEMMA Delivering == ASSUME Inv, Deliver PROVE Inv'
<1> DEFINE e == Head(main)
           r == e.read
<1>1. TypeOK /\ Answering /\ Tracking /\ InSync
  BY DEF Inv
<1>2. /\ main # <<>> /\ main' = Tail(main) /\ phase' = phase
      /\ phase \in [Reads -> {"idle", "adding", "listening", "gone"}]
      /\ completions \in [Reads -> Nat] /\ muted \subseteq Reads
  BY <1>1 DEF Deliver, TypeOK
<1>3. /\ e = main[1] /\ 1 \in DOMAIN main /\ r \in Reads /\ main' \in Seq(Told)
      /\ \A i \in DOMAIN main' : i \in Nat /\ i > 0 /\ i + 1 \in DOMAIN main /\ main'[i] = main[i + 1]
  BY <1>1, <1>2, Types, Taken
<1>4. \/ r \in muted /\ UNCHANGED <<worker, muted, completions>>
      \/ /\ r \notin muted /\ e.ok /\ completions' = [completions EXCEPT ![r] = completions[r] + 1]
         /\ muted' = muted \cup {r} /\ worker' = Append(worker, RemoveTask(r))
      \/ /\ r \notin muted /\ ~e.ok /\ completions' = [completions EXCEPT ![r] = completions[r] + 1]
         /\ UNCHANGED <<worker, muted>>
  BY DEF Deliver, Mute
<1> HIDE DEF e
<1>5. phase[r] \in (IF e.ok THEN {"listening", "gone"} ELSE {"gone"})
  BY <1>1, <1>3 DEF Answering, Events
<1> HIDE DEF r
<1>6. worker' \in Seq(Task) /\ Tasks'
  <2>1. CASE worker' = worker
    BY <1>1, <1>2, <2>1, Types DEF Answering, Tasks
  <2>2. CASE worker' = Append(worker, RemoveTask(r)) /\ e.ok
    <3>1. RemoveTask(r) \in Task /\ RemoveTask(r).read = r /\ RemoveTask(r).kind = "remove"
      BY <1>3 DEF RemoveTask, Task
    <3> QED
      BY <1>1, <1>2, <1>5, <2>2, <3>1, TaskAdded DEF Answering
  <2> QED
    BY <1>4, <2>1, <2>2
<1>7. Events'
  <2>1. \A i \in DOMAIN main' :
           phase'[main'[i].read] \in (IF main'[i].ok THEN {"listening", "gone"} ELSE {"gone"})
    BY <1>1, <1>2, <1>3 DEF Answering, Events
  <2>2. ASSUME NEW i \in DOMAIN main', NEW j \in DOMAIN main', i < j,
               main'[i].read = main'[j].read
        PROVE  main'[i].ok
    <3>1. i + 1 < j + 1
      BY <1>3, <2>2
    <3> QED
      BY <1>1, <1>3, <2>2, <3>1 DEF Answering, Events
  <2> QED
    BY <2>1, <2>2 DEF Events
<1>8. ASSUME NEW x \in Reads
      PROVE  \/ completions'[x] = 0
             \/ /\ completions'[x] = 1
                /\ x \in muted' \/ (phase'[x] = "gone" /\ \A i \in DOMAIN main' : main'[i].read # x)
  <2>1. \/ completions[x] = 0
        \/ /\ completions[x] = 1
           /\ x \in muted \/ (phase[x] = "gone" /\ \A i \in DOMAIN main : main[i].read # x)
    BY <1>1 DEF Answering, Answers
  <2>2. CASE completions'[x] = completions[x] /\ muted \subseteq muted'
    BY <1>2, <1>3, <2>1, <2>2
  <2>3. CASE x = r /\ r \notin muted
    <3>1. completions[x] = 0
      BY <1>3, <2>1, <2>3 DEF r
    <3>2. completions'[x] = 1
      BY <1>2, <1>4, <2>3, <3>1
    <3>3. CASE e.ok
      BY <1>4, <2>3, <3>2, <3>3
    <3>4. CASE ~e.ok
      <4>1. phase'[x] = "gone"
        BY <1>2, <1>5, <2>3, <3>4
      <4>2. \A i \in DOMAIN main' : main'[i].read # x
        <5> SUFFICES ASSUME NEW i \in DOMAIN main', main'[i].read = x PROVE FALSE
          OBVIOUS
        <5>1. i + 1 \in DOMAIN main /\ 1 < i + 1 /\ main[1].read = main[i + 1].read
          BY <1>3, <2>3 DEF r
        <5>2. main[1].ok
          BY <1>1, <1>3, <5>1 DEF Answering, Events
        <5> QED
          BY <1>3, <3>4, <5>2
      <4> QED
        BY <3>2, <4>1, <4>2
    <3> QED
      BY <3>3, <3>4
  <2> QED
    BY <1>2, <1>4, <2>2, <2>3
<1>9. TypeOK'
  <2>1. muted' \subseteq Reads
    BY <1>2, <1>3, <1>4
  <2>2. completions' \in [Reads -> Nat]
    <3>1. completions[r] + 1 \in Nat
      BY <1>2, <1>3
    <3>2. completions' = completions \/ completions' = [completions EXCEPT ![r] = completions[r] + 1]
      BY <1>4
    <3> QED
      BY <1>2, <3>1, <3>2
  <2> QED
    BY <1>1, <1>3, <1>6, <2>1, <2>2 DEF TypeOK, Deliver, net, tracker, bounds, Task, Told, IsOpen
<1>10. Tracking'
  <2>1. NoTargetLeaks'
    BY <1>1, SameTargets DEF Tracking, Deliver, net
  <2> QED
    BY <1>1, <2>1 DEF Tracking, Ticking, IdlesUnneeded, AssertionsHold, Deliver, net, tracker,
                      IsStarted
<1>11. InSync'
  <2>1. UNCHANGED <<version, cache, phase, current, asked, shared>>
    BY DEF Deliver, net
  <2> QED
    BY <1>1, <1>3, <2>1 DEF InSync, AskedBefore, ViewsFresh, EventsFresh
<1>12. FewCalls'
  BY <1>1, <1>2 DEF Answering, FewCalls
<1> QED
  BY <1>6, <1>7, <1>8, <1>9, <1>10, <1>11, <1>12 DEF Inv, Answering, Answers

LEMMA SameCallTypes ==
    ASSUME TypeOK, UNCHANGED calls
    PROVE  /\ worker' \in Seq(Task) /\ main' \in Seq(Told)
           /\ phase' \in [Reads -> {"idle", "adding", "listening", "gone"}]
           /\ raised' \subseteq Reads /\ muted' \subseteq Reads
           /\ completions' \in [Reads -> Nat]
BY DEF TypeOK, calls, Task, Told

\* What the net and the tracker keep.
Connected ==
    /\ request \in [Keys -> {"none", "sent", "served", "withdrawn"}]
    /\ stream \in {"initial", "starting", "backoff", "open", "error"}
    /\ idle \in BOOLEAN /\ (idle => IsOpen)
    /\ onlineState \in {"Unknown", "Online", "Offline"}
    /\ failures \in 0..1
    /\ timer \in BOOLEAN

LEMMA SameCallsType ==
    ASSUME TypeOK, UNCHANGED calls, UNCHANGED <<cache, targets, current, asked, shared>>,
           version' \in [Keys -> 0..MaxVersion], Connected', broken' \in BOOLEAN,
           breaks' \in 0..MaxBreaks, restarts' \in 0..MaxRestarts, rejections' \in 0..MaxRejections
    PROVE  TypeOK'
<1>1. /\ worker' \in Seq(Task) /\ main' \in Seq(Told)
      /\ phase' \in [Reads -> {"idle", "adding", "listening", "gone"}]
      /\ raised' \subseteq Reads /\ muted' \subseteq Reads
      /\ completions' \in [Reads -> Nat]
  BY SameCallTypes
<1>2. /\ cache' \in [Keys -> Unknown..MaxVersion] /\ targets' \subseteq Keys
      /\ current' \in [Keys -> BOOLEAN] /\ asked' \in [Reads -> Unknown..MaxVersion]
      /\ shared' \subseteq Reads
  BY DEF TypeOK
<1> QED
  BY <1>1, <1>2 DEF TypeOK, Connected, Task, Told

\* The tracker's variables are set anew: the timer is off.
LEMMA TrackerReset ==
    ASSUME NEW s \in {"Unknown", "Online"}, UpdateState(s)
    PROVE  /\ onlineState' = s /\ failures' = 0 /\ timer' \in BOOLEAN /\ ~timer'
           /\ Ticking'
<1>1. onlineState' = s /\ failures' = 0
  BY DEF UpdateState
<1>2. timer' \in BOOLEAN /\ ~timer'
  BY Zenon DEF UpdateState
<1> QED
  BY <1>1, <1>2 DEF Ticking

LEMMA Switched == ASSUME idle' = FALSE PROVE idle' \in BOOLEAN /\ ~idle' /\ IdlesUnneeded'
BY Zenon DEF IdlesUnneeded

LEMMA StillUnbroken ==
    ASSUME AssertionsHold, TypeOK, NEW ok, (broken' = broken) \/ Breaks(ok), ok
    PROVE  broken' \in BOOLEAN /\ AssertionsHold'
<1>1. CASE broken' = broken
  BY <1>1 DEF TypeOK, AssertionsHold
<1>2. CASE Breaks(ok)
  <2>1. broken' \in BOOLEAN
    BY <1>2, Zenon DEF Breaks
  <2>2. ~broken'
    BY <1>2, Zenon DEF Breaks, AssertionsHold
  <2> QED
    BY <2>1, <2>2 DEF AssertionsHold
<1> QED
  BY <1>1, <1>2

LEMMA Adding == ASSUME Inv, NEW r \in Reads, AddQueryListener(r) PROVE Inv'
<1> DEFINE k == KeyOf[r]
           synced == k \in targets /\ current[k]
           q == IF ShouldRaise(synced, onlineState) THEN <<Event(r, cache[k], ~synced)>> ELSE <<>>
<1>1. TypeOK /\ Answering /\ Tracking /\ InSync /\ k \in Keys
  BY DEF Inv
<1>2. /\ worker # <<>> /\ Head(worker) = AddTask(r) /\ worker' = Tail(worker)
      /\ phase' = [phase EXCEPT ![r] = "listening"]
      /\ phase \in [Reads -> {"idle", "adding", "listening", "gone"}]
      /\ UNCHANGED <<version, cache, muted, completions, asked, bounds>>
      /\ shared' = IF Listeners(k) = {} THEN shared ELSE shared \cup {r}
      /\ targets' = targets \cup {k}
      /\ current' = [current EXCEPT ![k] = synced]
      /\ current \in [Keys -> BOOLEAN] /\ targets \subseteq Keys
  BY <1>1 DEF AddQueryListener, TypeOK
<1>3. AddTask(r).read = r /\ AddTask(r).kind = "add"
  BY DEF AddTask
<1>4. phase[r] = "adding"
  <2>1. worker[1] = AddTask(r) /\ 1 \in DOMAIN worker
    BY <1>1, <1>2, Types, Taken
  <2> QED
    BY <1>1, <1>3, <2>1 DEF Answering, Tasks
<1>5. worker' \in Seq(Task) /\ Tasks'
  BY <1>1, <1>2, <1>3, TaskTaken DEF Answering
<1>6. FewCalls'
  BY <1>1, <1>2, FewMore DEF Answering
<1>7. synced \in BOOLEAN /\ (~synced) \in BOOLEAN
  BY Zenon
<1>8. /\ UNCHANGED <<raised, main>> /\ ~ShouldRaise(synced, onlineState)
      \/ /\ raised' = raised \cup {r} /\ main' = Append(main, Event(r, cache[k], ~synced))
         /\ ShouldRaise(synced, onlineState)
  BY DEF AddQueryListener
<1> HIDE DEF synced
<1>9. /\ Event(r, cache[k], ~synced) \in Told
      /\ Event(r, cache[k], ~synced).read = r /\ Event(r, cache[k], ~synced).ok
      /\ Event(r, cache[k], ~synced).cached = ~synced
  <2>1. cache[k] \in Unknown..MaxVersion
    BY <1>1 DEF TypeOK
  <2> DEFINE c == ~synced
             v == cache[k]
  <2>2. c \in BOOLEAN /\ v \in Unknown..MaxVersion
    BY <1>7, <2>1
  <2> HIDE DEF c, v
  <2>3. Event(r, v, c) \in Told /\ Event(r, v, c).read = r /\ Event(r, v, c).ok
        /\ Event(r, v, c).cached = c
    BY <2>2 DEF Event, Told
  <2> QED
    BY <2>3 DEF c, v
<1>10. /\ main' = main \o q /\ q \in Seq(Told)
       /\ \A i \in DOMAIN q : i = 1 /\ q[i] = Event(r, cache[k], ~synced)
  <2>1. CASE ~ShouldRaise(synced, onlineState)
    <3>1. q = <<>> /\ main' = main
      BY <1>8, <2>1
    <3>2. main \o <<>> = main /\ <<>> \in Seq(Told) /\ DOMAIN <<>> = {}
      BY <1>1, Types, NothingJoined
    <3> QED
      BY <3>1, <3>2
  <2>2. CASE ShouldRaise(synced, onlineState)
    <3> DEFINE e == Event(r, cache[k], ~synced)
    <3>1. q = <<e>> /\ main' = Append(main, e)
      BY <1>8, <2>2
    <3>2. e \in Told
      BY <1>9
    <3> HIDE DEF e
    <3>3. Append(main, e) = main \o <<e>> /\ <<e>> \in Seq(Told)
      BY <1>1, <3>2, Types, AppendedIsJoined
    <3>4. \A i \in DOMAIN <<e>> : i = 1 /\ <<e>>[i] = e
      OBVIOUS
    <3> QED
      BY <3>1, <3>3, <3>4 DEF e
  <2> QED
    BY <2>1, <2>2
<1> HIDE DEF q
<1>11. main' \in Seq(Told) /\ Events' /\ Answers'
  <2>1. \A x \in Reads : /\ phase[x] = "gone" => phase'[x] = "gone"
                         /\ phase[x] = "listening" => phase'[x] \in {"listening", "gone"}
    BY <1>2, <1>4
  <2>2. \A i \in DOMAIN q : /\ phase[q[i].read] # "gone" /\ q[i].ok
                            /\ phase'[q[i].read] \in (IF q[i].ok THEN {"listening"} ELSE {"gone"})
    BY <1>2, <1>4, <1>9, <1>10
  <2> QED
    BY <1>1, <1>2, <1>10, <2>1, <2>2, Appending DEF Answering
<1>12. InSync'
  <2>1. shared \subseteq shared' /\ (k \in targets => r \in shared')
    <3>1. k \in targets => Listeners(k) # {}
      BY <1>1 DEF Tracking, NoTargetLeaks
    <3> QED
      BY <1>2, <3>1
  <2>2. synced => r \in shared'
    BY <2>1 DEF synced
  <2>3. EventsFresh'
    <3>1. \A i \in DOMAIN q : q[i].ok /\ ~q[i].cached /\ q[i].read \notin shared'
                                 => q[i].ver >= asked[q[i].read]
      BY <1>9, <1>10, <2>2
    <3> QED
      BY <1>1, <1>2, <1>10, <2>1, <3>1, TellingFresh DEF InSync
  <2>4. AskedBefore'
    BY <1>1, <1>2 DEF InSync, AskedBefore
  <2>5. ASSUME NEW x \in Reads \ shared', phase'[x] = "listening", current'[KeyOf[x]]
        PROVE  cache[KeyOf[x]] >= asked[x]
    <3>1. KeyOf[x] \in Keys /\ x \notin shared
      BY <2>1
    <3>2. CASE x = r
      BY <1>2, <2>2, <2>5, <3>2
    <3>3. CASE x # r
      <4>1. phase[x] = "listening" /\ current[KeyOf[x]]
        <5>1. current'[k] => current[k]
          BY <1>2 DEF synced
        <5> QED
          BY <1>2, <2>5, <3>1, <3>3, <5>1
      <4> QED
        BY <1>1, <2>5, <3>1, <4>1 DEF InSync, ViewsFresh
    <3> QED
      BY <3>2, <3>3
  <2>6. ViewsFresh'
    BY <1>2, <2>5 DEF ViewsFresh
  <2> QED
    BY <2>3, <2>4, <2>6 DEF InSync
<1>13. \/ UNCHANGED <<request, stream, idle, tracker, broken>> /\ (k \in targets \/ ~idle)
       \/ /\ ~IsStarted /\ stream' \in {"backoff", "starting"}
          /\ WatchStreamStarts /\ Breaks(StartAsserts) /\ UNCHANGED <<request, idle>>
       \/ /\ IsOpen /\ SendWatchRequest(k) /\ UNCHANGED <<stream, tracker, broken>>
  <2>1. idle => IsOpen
    BY <1>1 DEF TypeOK
  <2> QED
    BY <2>1 DEF AddQueryListener
<1>14. /\ request' \in [Keys -> {"none", "sent", "served", "withdrawn"}]
       /\ stream' \in {"initial", "starting", "backoff", "open", "error"}
       /\ idle' \in BOOLEAN /\ (idle' => stream' = "open")
       /\ onlineState' \in {"Unknown", "Online", "Offline"} /\ failures' \in 0..1
       /\ timer' \in BOOLEAN
       /\ Ticking' /\ IdlesUnneeded' /\ AssertionsHold'
  <2>1. CASE UNCHANGED <<request, stream, idle, tracker, broken>> /\ (k \in targets \/ ~idle)
    BY <1>1, <1>2, <2>1 DEF TypeOK, Tracking, Ticking, IdlesUnneeded, AssertionsHold, tracker,
                            IsStarted, IsOpen
  <2>2. CASE /\ ~IsStarted /\ stream' \in {"backoff", "starting"}
             /\ WatchStreamStarts /\ Breaks(StartAsserts) /\ UNCHANGED <<request, idle>>
    <3>1. ~timer /\ ~idle
      BY <1>1, <2>2 DEF Tracking, Ticking, TypeOK, IsStarted, IsOpen
    <3>2. AssertionsHold'
      BY <1>1, <2>2, <3>1 DEF Tracking, AssertionsHold, Breaks, StartAsserts
    <3>3. /\ onlineState' \in {"Unknown", "Online", "Offline"} /\ failures' \in 0..1
          /\ timer' \in BOOLEAN /\ Ticking'
      BY <1>1, <2>2, <3>1 DEF TypeOK, Tracking, Ticking, WatchStreamStarts, IsStarted
    <3> QED
      BY <1>1, <2>2, <3>1, <3>2, <3>3 DEF TypeOK, IdlesUnneeded
  <2>3. CASE /\ IsOpen /\ SendWatchRequest(k) /\ UNCHANGED <<stream, tracker, broken>>
    BY <1>1, <2>3 DEF TypeOK, Tracking, Ticking, IdlesUnneeded, AssertionsHold, tracker,
                      SendWatchRequest, IsStarted, IsOpen
  <2> QED
    BY <1>13, <2>1, <2>2, <2>3
<1>15. NoTargetLeaks'
  <2>1. \A x \in Keys : Listeners(x)' = (IF x = k THEN Listeners(x) \cup {r} ELSE Listeners(x))
    BY <1>2 DEF Listeners
  <2>2. \A x \in Keys : Listeners(x)' # {} <=> (x = k \/ Listeners(x) # {})
    BY <2>1
  <2>3. targets = {x \in Keys : Listeners(x) # {}}
    BY <1>1 DEF Tracking, NoTargetLeaks
  <2>4. targets' = {x \in Keys : Listeners(x)' # {}}
    BY <1>1, <1>2, <2>2, <2>3
  <2> QED
    BY <2>4 DEF NoTargetLeaks
<1>16. TypeOK'
  <2>1. raised' \subseteq Reads /\ shared' \subseteq Reads
    BY <1>1, <1>2, <1>8 DEF TypeOK
  <2>2. phase' \in [Reads -> {"idle", "adding", "listening", "gone"}]
    BY <1>2
  <2>3. targets' \subseteq Keys /\ current' \in [Keys -> BOOLEAN]
    BY <1>1, <1>2, <1>7
  <2>4. broken' \in BOOLEAN
    <3>1. ~IsStarted => StartAsserts
      BY <1>1 DEF Tracking, Ticking, StartAsserts
    <3> QED
      BY <1>1, <1>13, <3>1, StillUnbroken DEF Tracking
  <2> QED
    BY <1>1, <1>2, <1>5, <1>11, <1>14, <2>1, <2>2, <2>3, <2>4
       DEF TypeOK, bounds, Task, Told, IsOpen
<1> QED
  BY <1>5, <1>6, <1>11, <1>12, <1>14, <1>15, <1>16 DEF Inv, Answering, Tracking

LEMMA Removing == ASSUME Inv, NEW r \in Reads, RemoveQueryListener(r) PROVE Inv'
<1> DEFINE k == KeyOf[r]
           last == targets = {k}
<1>1. TypeOK /\ Answering /\ Tracking /\ InSync /\ k \in Keys
  BY DEF Inv
<1>2. /\ worker # <<>> /\ Head(worker) = RemoveTask(r) /\ worker' = Tail(worker)
      /\ phase' = [phase EXCEPT ![r] = "gone"]
      /\ phase \in [Reads -> {"idle", "adding", "listening", "gone"}]
      /\ UNCHANGED <<version, cache, main, raised, muted, completions, stream, asked, shared,
                     bounds>>
  BY <1>1 DEF RemoveQueryListener, TypeOK
<1>3. RemoveTask(r).read = r /\ RemoveTask(r).kind = "remove"
  BY DEF RemoveTask
<1>4. phase[r] \in {"listening", "gone"}
  <2>1. worker[1] = RemoveTask(r) /\ 1 \in DOMAIN worker
    BY <1>1, <1>2, Types, Taken
  <2> QED
    BY <1>1, <1>3, <2>1 DEF Answering, Tasks
<1>5. worker' \in Seq(Task) /\ Tasks'
  BY <1>1, <1>2, <1>3, TaskTaken DEF Answering
<1>6. FewCalls'
  BY <1>1, <1>2, FewMore, <1>4 DEF Answering
<1>7. main' = main \o <<>> /\ <<>> \in Seq(Told)
  BY <1>1, <1>2, Types, NothingJoined
<1>8. Events' /\ Answers'
  <2>1. DOMAIN <<>> = {}
    OBVIOUS
  <2>2. \A x \in Reads : /\ phase[x] = "gone" => phase'[x] = "gone"
                         /\ phase[x] = "listening" => phase'[x] \in {"listening", "gone"}
    BY <1>2
  <2> QED
    BY <1>1, <1>2, <1>7, <2>1, <2>2, Appending DEF Answering
<1>9. /\ Stops(r) => /\ targets' = targets \ {k} /\ current' = [current EXCEPT ![k] = FALSE]
                     /\ request' = Withdrawn(k) /\ idle' = MarksIdle(last)
                     /\ IF last /\ ~IsOpen THEN UpdateState("Unknown") ELSE UNCHANGED tracker
      /\ ~Stops(r) => UNCHANGED <<targets, current, request, idle, tracker>>
      /\ Breaks(Stops(r) => k \in targets)
  BY DEF RemoveQueryListener
<1>10. targets = {x \in Keys : Listeners(x) # {}}
  BY <1>1 DEF Tracking, NoTargetLeaks
<1>11. Stops(r) <=> phase[r] = "listening" /\ Listeners(k) = {r}
  BY DEF Stops
<1>12. broken' \in BOOLEAN /\ AssertionsHold'
  <2>1. Stops(r) => k \in targets
    BY <1>1, <1>10, <1>11
  <2> QED
    BY <1>1, <1>9, <2>1, StillUnbroken DEF Tracking
<1>13. NoTargetLeaks'
  <2>1. \A x \in Keys : Listeners(x)' = Listeners(x) \ {r}
    BY <1>2 DEF Listeners
  <2>2. \A x \in Keys : x # k => r \notin Listeners(x)
    BY DEF Listeners
  <2>3. r \in Listeners(k) <=> phase[r] = "listening"
    BY DEF Listeners
  <2>4. \A x \in Keys : Listeners(x)' # {} <=> (Listeners(x) # {} /\ ~(x = k /\ Stops(r)))
    <3> TAKE x \in Keys
    <3>1. CASE x # k
      BY <2>1, <2>2, <3>1
    <3>2. CASE x = k
      BY <1>11, <2>1, <2>3, <3>2
    <3> QED
      BY <3>1, <3>2
  <2>5. targets' = {x \in Keys : Listeners(x)' # {}}
    <3>1. CASE Stops(r)
      BY <1>9, <1>10, <2>4, <3>1
    <3>2. CASE ~Stops(r)
      BY <1>9, <1>10, <2>4, <3>2
    <3> QED
      BY <3>1, <3>2
  <2> QED
    BY <2>5 DEF NoTargetLeaks
<1>14. /\ request' \in [Keys -> {"none", "sent", "served", "withdrawn"}]
       /\ current' \in [Keys -> BOOLEAN] /\ targets' \subseteq Keys
       /\ \A x \in Keys : current'[x] => current[x]
  <2>1. CASE Stops(r)
    <3>1. /\ request' \in [Keys -> {"none", "sent", "served", "withdrawn"}]
          /\ targets' \subseteq Keys
      BY <1>1, <1>9, <2>1 DEF TypeOK, Withdrawn
    <3>2. current' = [current EXCEPT ![k] = FALSE] /\ current \in [Keys -> BOOLEAN]
      BY <1>1, <1>9, <2>1 DEF TypeOK
    <3> QED
      BY <3>1, <3>2
  <2>2. CASE ~Stops(r)
    BY <1>1, <1>9, <2>2 DEF TypeOK
  <2> QED
    BY <2>1, <2>2
<1>15. idle' \in BOOLEAN /\ (idle' => IsOpen') /\ IdlesUnneeded'
  <2>1. CASE Stops(r)
    <3>1. idle' \in BOOLEAN
      BY <1>9, <2>1, Zenon DEF MarksIdle
    <3>2. idle' => IsOpen /\ last
      BY <1>9, <2>1, Zenon DEF MarksIdle
    <3>3. last => targets' = {}
      BY <1>9, <2>1
    <3> QED
      BY <1>2, <3>1, <3>2, <3>3 DEF IdlesUnneeded, IsOpen
  <2>2. CASE ~Stops(r)
    BY <1>1, <1>2, <1>9, <2>2 DEF TypeOK, Tracking, IdlesUnneeded, IsOpen
  <2> QED
    BY <2>1, <2>2
<1>16. /\ onlineState' \in {"Unknown", "Online", "Offline"} /\ failures' \in 0..1
       /\ timer' \in BOOLEAN /\ Ticking'
  <2>1. UNCHANGED tracker \/ UpdateState("Unknown")
    BY <1>9
  <2>2. CASE UNCHANGED tracker
    BY <1>1, <1>2, <2>2 DEF TypeOK, Tracking, Ticking, tracker, IsStarted
  <2>3. CASE UpdateState("Unknown")
    BY <2>3, TrackerReset
  <2> QED
    BY <2>1, <2>2, <2>3
<1>17. TypeOK'
  <2>1. phase' \in [Reads -> {"idle", "adding", "listening", "gone"}]
    BY <1>2
  <2> QED
    BY <1>1, <1>2, <1>5, <1>12, <1>14, <1>15, <1>16, <2>1 DEF TypeOK, bounds, Task, IsOpen
<1>18. InSync'
  <2>1. AskedBefore' /\ EventsFresh'
    BY <1>1, <1>2 DEF InSync, AskedBefore, EventsFresh
  <2>2. ViewsFresh'
    BY <1>1, <1>2, <1>14 DEF InSync, ViewsFresh
  <2> QED
    BY <2>1, <2>2 DEF InSync
<1> QED
  BY <1>5, <1>6, <1>8, <1>12, <1>13, <1>15, <1>16, <1>17, <1>18 DEF Inv, Answering, Tracking

LEMMA Opening == ASSUME Inv, StreamOpens \/ BackoffEnds PROVE Inv'
<1>1. TypeOK /\ Answering /\ Tracking /\ InSync
  BY DEF Inv
<1>2. /\ UNCHANGED <<version, cache, calls, targets, current, idle, tracker, history, bounds>>
      /\ ~idle /\ IsStarted /\ IsStarted'
  BY <1>1 DEF StreamOpens, BackoffEnds, TypeOK, IsOpen, IsStarted
<1>3. request' \in [Keys -> {"none", "sent", "served", "withdrawn"}]
  BY <1>1 DEF StreamOpens, BackoffEnds, TypeOK
<1>4. stream' \in {"initial", "starting", "backoff", "open", "error"}
  BY DEF StreamOpens, BackoffEnds
<1>5. TypeOK'
  <2>1. Connected'
    BY <1>1, <1>2, <1>3, <1>4 DEF Connected, TypeOK, tracker
  <2>2. version' \in [Keys -> 0..MaxVersion] /\ breaks' \in 0..MaxBreaks
        /\ restarts' \in 0..MaxRestarts /\ rejections' \in 0..MaxRejections
        /\ broken' \in BOOLEAN /\ UNCHANGED <<cache, targets, current, asked, shared>>
    BY <1>1, <1>2 DEF TypeOK, history, bounds
  <2> QED
    BY <1>1, <1>2, <2>1, <2>2, SameCallsType
<1>6. Tracking'
  <2>1. NoTargetLeaks'
    BY <1>1, <1>2, SameTargets DEF Tracking, calls
  <2> QED
    BY <1>1, <1>2, <2>1 DEF Tracking, Ticking, IdlesUnneeded, AssertionsHold, tracker, history
<1> QED
  BY <1>1, <1>2, <1>5, <1>6, SameCalls, SameSync DEF Inv, calls, history

LEMMA Idling == ASSUME Inv, IdleTimeout PROVE Inv'
<1>1. TypeOK /\ Answering /\ Tracking /\ InSync
  BY DEF Inv
<1>2. /\ UNCHANGED <<version, cache, calls, targets, current, asked, shared, bounds>>
      /\ onlineState' = "Unknown" /\ failures' = 0 /\ timer' \in BOOLEAN /\ ~timer'
      /\ idle' \in BOOLEAN /\ ~idle' /\ IdlesUnneeded'
      /\ stream' = "initial" /\ Ticking'
  BY TrackerReset, Switched DEF IdleTimeout
<1>3. request' \in [Keys -> {"none", "sent", "served", "withdrawn"}]
  BY DEF IdleTimeout
<1>4. broken' \in BOOLEAN /\ AssertionsHold'
  <2>1. targets = {} /\ Breaks(targets = {})
    BY <1>1 DEF Tracking, IdlesUnneeded, IdleTimeout
  <2> QED
    BY <1>1, <2>1, StillUnbroken DEF Tracking
<1>5. TypeOK'
  <2>1. Connected'
    BY <1>2, <1>3 DEF Connected
  <2>2. version' \in [Keys -> 0..MaxVersion] /\ breaks' \in 0..MaxBreaks
        /\ restarts' \in 0..MaxRestarts /\ rejections' \in 0..MaxRejections
    BY <1>1, <1>2 DEF TypeOK, bounds
  <2> QED
    BY <1>1, <1>2, <1>4, <2>1, <2>2, SameCallsType
<1>6. Tracking'
  <2>1. NoTargetLeaks'
    BY <1>1, <1>2, SameTargets DEF Tracking, calls
  <2> QED
    BY <1>2, <1>4, <2>1 DEF Tracking
<1> QED
  BY <1>1, <1>2, <1>5, <1>6, SameCalls, SameSync DEF Inv, calls

LEMMA Restarting == ASSUME Inv, RestartNetwork PROVE Inv'
<1>1. TypeOK /\ Answering /\ Tracking /\ InSync
  BY DEF Inv
<1>2. /\ UNCHANGED <<version, cache, calls, targets, current, history, breaks, rejections>>
      /\ idle' \in BOOLEAN /\ ~idle' /\ IdlesUnneeded'
      /\ onlineState' = "Unknown" /\ failures' = 0 /\ timer' \in BOOLEAN
      /\ stream' \in {"initial", "starting"} /\ Ticking'
  <2>1. /\ UNCHANGED <<version, cache, calls, targets, current, history, breaks, rejections>>
        /\ idle' \in BOOLEAN /\ ~idle' /\ IdlesUnneeded'
    BY Switched DEF RestartNetwork
  <2>2. CASE targets # {}
    <3>1. stream' = "starting" /\ onlineState' = "Unknown" /\ failures' = 0
      BY <2>2 DEF RestartNetwork
    <3>2. timer' \in BOOLEAN
      BY <2>2, Zenon DEF RestartNetwork
    <3> QED
      BY <2>1, <3>1, <3>2 DEF Ticking, IsStarted
  <2>3. CASE targets = {}
    BY <2>1, <2>3, TrackerReset DEF RestartNetwork
  <2> QED
    BY <2>2, <2>3
<1>3. request' \in [Keys -> {"none", "sent", "served", "withdrawn"}]
  BY DEF RestartNetwork
<1>4. restarts' \in 0..MaxRestarts
  BY <1>1 DEF RestartNetwork, TypeOK
<1>5. TypeOK'
  <2>1. Connected'
    BY <1>2, <1>3 DEF Connected
  <2>2. version' \in [Keys -> 0..MaxVersion] /\ breaks' \in 0..MaxBreaks
        /\ rejections' \in 0..MaxRejections /\ broken' \in BOOLEAN
        /\ UNCHANGED <<cache, targets, current, asked, shared>>
    BY <1>1, <1>2 DEF TypeOK, history
  <2> QED
    BY <1>1, <1>2, <1>4, <2>1, <2>2, SameCallsType
<1>6. Tracking'
  <2>1. NoTargetLeaks'
    BY <1>1, <1>2, SameTargets DEF Tracking, calls
  <2> QED
    BY <1>1, <1>2, <2>1 DEF Tracking, AssertionsHold, history
<1> QED
  BY <1>1, <1>2, <1>5, <1>6, SameCalls, SameSync DEF Inv, calls, history

LEMMA Confirming == ASSUME Inv, NEW k \in Keys, ServerConfirms(k) \/ ServerWrite(k) PROVE Inv'
<1>1. TypeOK /\ Answering /\ Tracking /\ InSync
  BY DEF Inv
<1>2. /\ UNCHANGED <<cache, calls, net, history, bounds>>
      /\ UNCHANGED tracker \/ UpdateState("Online")
  BY DEF ServerConfirms, ServerWrite
<1>3. /\ version' \in [Keys -> 0..MaxVersion]
      /\ \A x \in Keys : version'[x] >= version[x]
  <2>1. version \in [Keys -> 0..MaxVersion]
    BY <1>1 DEF TypeOK
  <2>2. \/ version' = version
        \/ version[k] < MaxVersion /\ version' = [version EXCEPT ![k] = version[k] + 1]
    BY DEF ServerConfirms, ServerWrite
  <2> QED
    BY <2>1, <2>2
<1>4. TypeOK'
  <2>1. CASE UNCHANGED tracker
    <3>1. Connected'
      BY <1>1, <1>2, <2>1 DEF Connected, TypeOK, tracker, net, IsOpen
    <3> QED
      BY <1>1, <1>2, <1>3, <3>1, SameCallsType DEF TypeOK, net, history, bounds
  <2>2. CASE UpdateState("Online")
    <3>1. Connected'
      <4>1. onlineState' = "Online" /\ failures' = 0 /\ timer' \in BOOLEAN
        BY <2>2, TrackerReset
      <4> QED
        BY <1>1, <1>2, <4>1 DEF Connected, TypeOK, net, IsOpen
    <3> QED
      BY <1>1, <1>2, <1>3, <3>1, SameCallsType DEF TypeOK, net, history, bounds
  <2> QED
    BY <1>2, <2>1, <2>2
<1>5. Tracking'
  <2>1. NoTargetLeaks'
    BY <1>1, <1>2, SameTargets DEF Tracking, calls, net
  <2>2. Ticking'
    <3>1. CASE UNCHANGED tracker
      BY <1>1, <1>2, <3>1 DEF Tracking, Ticking, tracker, IsStarted, net
    <3> QED
      BY <1>2, <3>1, TrackerReset
  <2> QED
    BY <1>1, <1>2, <2>1, <2>2 DEF Tracking, IdlesUnneeded, AssertionsHold, net, history
<1>6. InSync'
  <2>1. AskedBefore'
    <3>1. \A r \in Reads : /\ KeyOf[r] \in Keys /\ asked[r] \in Int /\ asked'[r] = asked[r]
                           /\ version[KeyOf[r]] \in Int /\ version'[KeyOf[r]] \in Int
      BY <1>1, <1>2, <1>3 DEF TypeOK, Unknown, history
    <3> QED
      BY <1>1, <1>3, <3>1 DEF InSync, AskedBefore
  <2> QED
    BY <1>1, <1>2, <2>1 DEF InSync, ViewsFresh, EventsFresh, calls, net, history
<1> QED
  BY <1>1, <1>2, <1>4, <1>5, <1>6, SameCalls DEF Inv

\* The listeners are shown views that are as fresh as they ask for.
LEMMA Showing ==
    ASSUME Inv, NEW synced \in [Keys -> BOOLEAN], NEW docs \in [Keys -> Unknown..MaxVersion],
           NEW state, NEW changed, Raise(synced, state, docs, changed),
           UNCHANGED <<worker, phase, muted, completions, asked, shared>>,
           \A r \in Reads \ shared :
              phase[r] = "listening" /\ synced[KeyOf[r]] => docs[KeyOf[r]] >= asked[r]
    PROVE  raised' \subseteq Reads /\ main' \in Seq(Told) /\ Answering' /\ EventsFresh'
<1>1. TypeOK /\ Answering /\ InSync
  BY DEF Inv
<1>2. /\ raised' \subseteq Reads
      /\ \E q \in Seq(Told) : main' = main \o q /\ Shows(q, synced, docs)
  <2>1. FewCalls /\ raised \subseteq Reads
    BY <1>1 DEF Answering, TypeOK
  <2> QED
    BY <2>1, Raising
<1>3. PICK q \in Seq(Told) :
         /\ main' = main \o q
         /\ \A i \in DOMAIN q :
               /\ q[i].ok /\ phase[q[i].read] = "listening"
               /\ q[i].ver = docs[KeyOf[q[i].read]]
               /\ q[i].cached = ~synced[KeyOf[q[i].read]]
  BY <1>2 DEF Shows
<1>4. \A i \in DOMAIN q : q[i].read \in Reads /\ KeyOf[q[i].read] \in Keys
  <2>1. \A e \in Told : e.read \in Reads
    BY DEF Told
  <2> QED
    BY <2>1
<1>5. main' \in Seq(Told) /\ Events' /\ Answers'
  BY <1>1, <1>3, Appending DEF Answering
<1>6. Tasks' /\ FewCalls'
  BY <1>1 DEF Answering, Tasks, FewCalls
<1>7. ASSUME NEW i \in DOMAIN q, ~q[i].cached, q[i].read \notin shared
      PROVE  q[i].ver >= asked[q[i].read]
  <2>1. q[i].cached = ~synced[KeyOf[q[i].read]]
    BY <1>3
  <2>2. synced[KeyOf[q[i].read]]
    BY <1>7, <2>1, Zenon
  <2> QED
    BY <1>3, <1>4, <1>7, <2>2
<1>8. EventsFresh'
  BY <1>1, <1>3, <1>7, TellingFresh DEF InSync
<1> QED
  BY <1>2, <1>5, <1>6, <1>8 DEF Answering

LEMMA Viewing ==
    ASSUME Inv, Views
    PROVE  /\ current' \in [Keys -> BOOLEAN] /\ raised' \subseteq Reads /\ main' \in Seq(Told)
           /\ Answering' /\ InSync'
           /\ UNCHANGED <<version, cache, worker, phase, muted, completions, asked, shared>>
<1>1. TypeOK /\ InSync /\ current \in [Keys -> BOOLEAN] /\ cache \in [Keys -> Unknown..MaxVersion]
  BY DEF Inv, TypeOK
<1> DEFINE synced == Synced(onlineState')
<1>2. /\ current' = synced /\ UNCHANGED <<version, cache, worker, phase, muted, completions, asked, shared>>
      /\ Raise(synced, onlineState', cache, Desynced(onlineState'))
  BY DEF Views
<1>3. synced \in [Keys -> BOOLEAN] /\ \A k \in Keys : synced[k] => current[k]
  <2>1. CASE onlineState' = "Offline"
    <3>1. synced = [k \in Keys |-> FALSE]
      BY <2>1 DEF Synced
    <3> HIDE DEF synced
    <3> QED
      BY <3>1
  <2>2. CASE onlineState' # "Offline"
    BY <1>1, <2>2 DEF Synced
  <2> QED
    BY <2>1, <2>2
<1> HIDE DEF synced
<1>4. \A r \in Reads \ shared :
         phase[r] = "listening" /\ synced[KeyOf[r]] => cache[KeyOf[r]] >= asked[r]
  BY <1>1, <1>3 DEF InSync, ViewsFresh
<1>5. raised' \subseteq Reads /\ main' \in Seq(Told) /\ Answering' /\ EventsFresh'
  BY <1>1, <1>2, <1>3, <1>4, Showing
<1>6. AskedBefore' /\ ViewsFresh'
  BY <1>1, <1>2, <1>4 DEF InSync, AskedBefore, ViewsFresh
<1> QED
  BY <1>2, <1>3, <1>5, <1>6 DEF InSync

LEMMA Closing == ASSUME Inv, AttemptFails \/ StreamBreaks PROVE Inv'
<1>1. TypeOK /\ Answering /\ Tracking
  BY DEF Inv
<1>2. /\ CloseWithError /\ breaks' \in 0..MaxBreaks
      /\ restarts' \in 0..MaxRestarts /\ rejections' \in 0..MaxRejections
  BY <1>1 DEF AttemptFails, StreamBreaks, TypeOK, bounds
<1>3. /\ current' \in [Keys -> BOOLEAN] /\ raised' \subseteq Reads /\ main' \in Seq(Told)
      /\ Answering' /\ InSync'
      /\ UNCHANGED <<version, cache, worker, phase, muted, completions, asked, shared>>
  BY <1>2, Viewing DEF CloseWithError
<1>4. /\ targets' = targets /\ request' \in [Keys -> {"none", "sent", "served", "withdrawn"}]
      /\ idle' \in BOOLEAN /\ ~idle' /\ IdlesUnneeded'
  BY <1>2, Switched DEF CloseWithError
<1>5. /\ stream' \in {"backoff", "error"}
      /\ onlineState' \in {"Unknown", "Offline"} /\ failures' \in 0..1 /\ timer' \in BOOLEAN
      /\ Ticking'
      /\ (broken' = broken) \/ Breaks(FailAsserts)
  <2>1. CASE targets # {}
    <3>1. stream' = "backoff" /\ WatchStreamFails /\ Breaks(FailAsserts)
      BY <1>2, <2>1 DEF CloseWithError
    <3>2. onlineState' \in {"Unknown", "Offline"} /\ failures' \in 0..1
      BY <3>1 DEF WatchStreamFails
    <3>3. timer' \in BOOLEAN /\ (timer' => onlineState' = "Unknown")
      BY <3>1, Zenon DEF WatchStreamFails
    <3> QED
      BY <3>1, <3>2, <3>3 DEF Ticking, IsStarted
  <2>2. CASE targets = {}
    <3>1. stream' = "error" /\ UpdateState("Unknown") /\ UNCHANGED broken
      BY <1>2, <2>2 DEF CloseWithError
    <3> QED
      BY <3>1, TrackerReset
  <2> QED
    BY <2>1, <2>2
<1>6. broken' \in BOOLEAN /\ AssertionsHold'
  <2>1. FailAsserts
    BY <1>1 DEF Tracking, Ticking, FailAsserts
  <2> QED
    BY <1>1, <1>5, <2>1, StillUnbroken DEF Tracking
<1>7. NoTargetLeaks'
  BY <1>1, <1>3, <1>4, SameTargets DEF Tracking
<1>8. TypeOK'
  BY <1>1, <1>2, <1>3, <1>4, <1>5, <1>6 DEF TypeOK, Task, Told
<1> QED
  BY <1>3, <1>4, <1>5, <1>6, <1>7, <1>8 DEF Inv, Tracking

LEMMA TimingOut == ASSUME Inv, OnlineStateTimeout PROVE Inv'
<1>1. TypeOK /\ Answering /\ Tracking
  BY DEF Inv
<1>2. /\ current' \in [Keys -> BOOLEAN] /\ raised' \subseteq Reads /\ main' \in Seq(Told)
      /\ Answering' /\ InSync'
      /\ UNCHANGED <<version, cache, worker, phase, muted, completions, asked, shared>>
  BY Viewing DEF OnlineStateTimeout
<1>3. /\ UNCHANGED <<targets, request, stream, idle, bounds>>
      /\ onlineState' = "Offline" /\ failures' = failures
  BY DEF OnlineStateTimeout
<1>4. timer' \in BOOLEAN /\ ~timer'
  BY Zenon DEF OnlineStateTimeout
<1>5. broken' \in BOOLEAN /\ AssertionsHold'
  <2>1. onlineState = "Unknown" /\ Breaks(onlineState = "Unknown")
    BY <1>1 DEF Tracking, Ticking, OnlineStateTimeout
  <2> QED
    BY <1>1, <2>1, StillUnbroken DEF Tracking
<1>6. Tracking'
  <2>1. NoTargetLeaks'
    BY <1>1, <1>2, <1>3, SameTargets DEF Tracking
  <2>2. Ticking' /\ IdlesUnneeded'
    BY <1>1, <1>3, <1>4 DEF Tracking, Ticking, IdlesUnneeded
  <2> QED
    BY <1>5, <2>1, <2>2 DEF Tracking
<1>7. TypeOK'
  BY <1>1, <1>2, <1>3, <1>4, <1>5 DEF TypeOK, Task, Told, bounds, IsOpen
<1> QED
  BY <1>2, <1>6, <1>7 DEF Inv

LEMMA Snapshotting == ASSUME Inv, NEW k \in Keys, Snapshot(k) PROVE Inv'
<1>1. TypeOK /\ Answering /\ Tracking /\ InSync
  BY DEF Inv
<1>2. /\ UNCHANGED <<version, worker, phase, muted, completions, targets, stream, idle, history,
                     bounds>>
      /\ cache' = [cache EXCEPT ![k] = version[k]]
      /\ current' = [current EXCEPT ![k] = TRUE]
      /\ request' = [request EXCEPT ![k] = "served"]
      /\ UpdateState("Online")
      /\ \E changed : Raise(current', "Online", cache', changed)
  BY DEF Snapshot
<1>3. /\ cache' \in [Keys -> Unknown..MaxVersion] /\ current' \in [Keys -> BOOLEAN]
      /\ request' \in [Keys -> {"none", "sent", "served", "withdrawn"}]
      /\ version[k] \in 0..MaxVersion
  BY <1>1, <1>2 DEF TypeOK, Unknown
<1>4. UNCHANGED <<asked, shared, broken>>
  BY <1>2 DEF history
<1>5. ASSUME NEW r \in Reads \ shared, phase[r] = "listening", current'[KeyOf[r]]
      PROVE  cache'[KeyOf[r]] >= asked[r]
  <2>1. KeyOf[r] \in Keys /\ asked[r] <= version[KeyOf[r]]
    BY <1>1 DEF InSync, AskedBefore
  <2>2. asked[r] \in Int /\ version[KeyOf[r]] \in Int
    BY <1>1, <2>1 DEF TypeOK, Unknown
  <2>3. CASE KeyOf[r] = k
    <3>1. cache'[k] = version[k]
      BY <1>1, <1>2 DEF TypeOK
    <3> QED
      BY <2>1, <2>2, <2>3, <3>1
  <2>4. CASE KeyOf[r] # k
    <3>1. cache'[KeyOf[r]] = cache[KeyOf[r]] /\ current'[KeyOf[r]] = current[KeyOf[r]]
      BY <1>1, <1>2, <2>1, <2>4 DEF TypeOK
    <3> QED
      BY <1>1, <1>5, <3>1 DEF InSync, ViewsFresh
  <2> QED
    BY <2>3, <2>4
<1>6. raised' \subseteq Reads /\ main' \in Seq(Told) /\ Answering' /\ EventsFresh'
  BY <1>2, <1>3, <1>4, <1>5, Showing
<1>7. InSync'
  <2>1. AskedBefore' /\ ViewsFresh'
    BY <1>1, <1>2, <1>4, <1>5 DEF InSync, AskedBefore, ViewsFresh
  <2> QED
    BY <1>6, <2>1 DEF InSync
<1>8. /\ onlineState' = "Online" /\ failures' = 0 /\ timer' \in BOOLEAN /\ Ticking'
  BY <1>2, TrackerReset
<1>9. Tracking'
  <2>1. NoTargetLeaks'
    BY <1>1, <1>2, SameTargets DEF Tracking
  <2> QED
    BY <1>1, <1>2, <1>4, <1>8, <2>1 DEF Tracking, IdlesUnneeded, AssertionsHold
<1>10. TypeOK'
  <2>1. UNCHANGED <<version, worker, phase, muted, completions, targets, stream, idle, asked,
                    shared, broken, breaks, restarts, rejections>>
    BY <1>2, <1>4 DEF bounds
  <2>2. idle' \in BOOLEAN /\ (idle' => IsOpen')
    BY <1>1, <2>1 DEF TypeOK, IsOpen
  <2>3. /\ breaks' \in 0..MaxBreaks /\ restarts' \in 0..MaxRestarts
        /\ rejections' \in 0..MaxRejections
    BY <1>1, <2>1 DEF TypeOK
  <2>4. failures' \in 0..1
    BY <1>8
  <2> QED
    BY <1>1, <1>3, <1>6, <1>8, <2>1, <2>2, <2>3, <2>4 DEF TypeOK, Told
<1> QED
  BY <1>6, <1>7, <1>9, <1>10 DEF Inv

LEMMA Rejecting == ASSUME Inv, NEW k \in Keys, TargetRejected(k) PROVE Inv'
<1> DEFINE R == Listeners(k)
           f == [r \in R |-> Failure(r)]
           E == {f[r] : r \in R}
           q == SetToSeq(E)
<1>1. TypeOK /\ Answering /\ Tracking /\ InSync
  BY DEF Inv
<1>2. /\ UNCHANGED <<version, cache, worker, raised, muted, completions, stream, idle, history,
                     breaks, restarts>>
      /\ rejections' \in 0..MaxRejections
      /\ targets' = targets \ {k} /\ current' = [current EXCEPT ![k] = FALSE]
      /\ request' = Withdrawn(k)
      /\ phase' = [r \in Reads |-> IF r \in R THEN "gone" ELSE phase[r]]
      /\ UpdateState("Online")
  BY <1>1 DEF TargetRejected, TypeOK
<1>3. main' = main \o q
  <2>1. \A r \in R : f[r] = Failure(r)
    BY Zenon
  <2> HIDE DEF f
  <2>2. E = {Failure(r) : r \in Listeners(k)}
    BY <2>1
  <2> HIDE DEF E
  <2> QED
    BY <2>2 DEF TargetRejected
<1>4. \A r \in R : r \in Reads /\ phase[r] = "listening" /\ KeyOf[r] = k
  BY DEF Listeners
<1>5. /\ f = [r \in R |-> f[r]]
      /\ \A r \in R : f[r] \in Told /\ f[r].read = r /\ ~f[r].ok
  <2>1. \A r \in R : f[r] = Failure(r)
    BY Zenon
  <2>2. f = [r \in R |-> f[r]]
    OBVIOUS
  <2>3. Unknown \in Unknown..MaxVersion
    BY DEF Unknown
  <2>4. \A r \in Reads : Failure(r) \in Told /\ Failure(r).read = r /\ ~Failure(r).ok
    BY <2>3 DEF Failure, Told
  <2> HIDE DEF f, R
  <2> QED
    BY <1>4, <2>1, <2>2, <2>4
<1> HIDE DEF f, R
<1>6. IsFiniteSet(E)
  <2>1. IsFiniteSet(R)
    BY <1>1, <1>4, Listening DEF Answering
  <2> QED
    BY <1>5, <2>1, FewEvents
<1>7. \A e \in E : e.read \in R /\ e \in Told /\ ~e.ok /\ e = f[e.read]
  BY <1>5
<1> HIDE DEF E
<1>8. /\ q \in Seq(E) /\ \A i, j \in DOMAIN q : q[i] = q[j] => i = j
  BY <1>6, InSomeOrder
<1> HIDE DEF q
<1>9. /\ q \in Seq(Told)
      /\ \A i \in DOMAIN q : i \in Nat /\ q[i].read \in R /\ ~q[i].ok
      /\ \A i, j \in DOMAIN q : q[i].read = q[j].read => i = j
  BY <1>7, <1>8
<1>10. main' \in Seq(Told) /\ Events' /\ Answers'
  <2>1. \A x \in Reads : /\ phase[x] = "gone" => phase'[x] = "gone"
                         /\ phase[x] = "listening" => phase'[x] \in {"listening", "gone"}
    BY <1>2
  <2>2. \A i \in DOMAIN q : /\ phase[q[i].read] # "gone"
                            /\ phase'[q[i].read] \in (IF q[i].ok THEN {"listening"} ELSE {"gone"})
    <3> TAKE i \in DOMAIN q
    <3>1. q[i].read \in R /\ q[i].read \in Reads /\ ~q[i].ok /\ phase[q[i].read] = "listening"
      BY <1>4, <1>9
    <3>2. phase'[q[i].read] = "gone"
      BY <1>2, <3>1
    <3> QED
      BY <3>1, <3>2
  <2>3. \A i, j \in DOMAIN q : i < j /\ q[i].read = q[j].read => q[i].ok
    BY <1>9
  <2> QED
    BY <1>1, <1>2, <1>3, <1>9, <2>1, <2>2, <2>3, Appending DEF Answering
<1>11. Tasks'
  <2>1. \A i \in DOMAIN worker :
           /\ worker[i].read \in Reads
           /\ phase[worker[i].read] \in (IF worker[i].kind = "add" THEN {"adding"}
                                         ELSE {"listening", "gone"})
    BY <1>1, Types DEF Answering, Tasks
  <2>2. \A r \in Reads : phase'[r] = phase[r] \/ (phase[r] = "listening" /\ phase'[r] = "gone")
    BY <1>2, <1>4
  <2>3. \A i \in DOMAIN worker :
           phase'[worker[i].read] \in (IF worker[i].kind = "add" THEN {"adding"}
                                       ELSE {"listening", "gone"})
    <3> TAKE i \in DOMAIN worker
    <3>1. CASE worker[i].kind = "add"
      BY <2>1, <2>2, <3>1
    <3>2. CASE worker[i].kind # "add"
      BY <2>1, <2>2, <3>2
    <3> QED
      BY <3>1, <3>2
  <2> QED
    BY <1>1, <1>2, <2>3 DEF Answering, Tasks
<1>12. FewCalls'
  <2>1. \A x \in Reads : phase'[x] = "idle" \/ phase[x] # "idle"
    BY <1>2, <1>4
  <2> QED
    BY <1>1, <2>1, FewMore DEF Answering
<1>13. InSync'
  <2>1. UNCHANGED <<version, cache, asked, shared>>
    BY <1>2 DEF history
  <2>2. EventsFresh'
    BY <1>1, <1>3, <1>9, <2>1, TellingFresh DEF InSync
  <2>3. AskedBefore'
    BY <1>1, <2>1 DEF InSync, AskedBefore
  <2>4. \A r \in Reads : phase'[r] = "listening" => phase[r] = "listening" /\ r \notin R
    BY <1>2
  <2>5. \A r \in Reads : current'[KeyOf[r]] => current[KeyOf[r]]
    BY <1>1, <1>2 DEF TypeOK
  <2>6. ViewsFresh'
    BY <1>1, <2>1, <2>4, <2>5 DEF InSync, ViewsFresh
  <2> QED
    BY <2>2, <2>3, <2>6 DEF InSync
<1>14. /\ onlineState' = "Online" /\ failures' = 0 /\ timer' \in BOOLEAN /\ Ticking'
  BY <1>2, TrackerReset
<1>15. Tracking'
  <2>1. \A x \in Keys : Listeners(x)' = (IF x = k THEN {} ELSE Listeners(x))
    BY <1>2, <1>4 DEF Listeners, R
  <2>2. targets = {x \in Keys : Listeners(x) # {}}
    BY <1>1 DEF Tracking, NoTargetLeaks
  <2>3. targets' = {x \in Keys : Listeners(x)' # {}}
    BY <1>2, <2>1, <2>2
  <2>4. NoTargetLeaks'
    BY <2>3 DEF NoTargetLeaks
  <2>5. IdlesUnneeded' /\ AssertionsHold'
    BY <1>1, <1>2 DEF Tracking, IdlesUnneeded, AssertionsHold, history
  <2> QED
    BY <1>14, <2>4, <2>5 DEF Tracking
<1>16. TypeOK'
  <2>1. request' \in [Keys -> {"none", "sent", "served", "withdrawn"}]
    BY <1>1, <1>2 DEF TypeOK, Withdrawn
  <2>2. /\ phase' \in [Reads -> {"idle", "adding", "listening", "gone"}]
        /\ current' \in [Keys -> BOOLEAN] /\ targets' \subseteq Keys
    BY <1>1, <1>2 DEF TypeOK
  <2>3. UNCHANGED <<version, cache, worker, muted, completions, asked, shared, broken>>
        /\ stream' = stream /\ idle' = idle
    BY <1>2 DEF history
  <2>4. idle' \in BOOLEAN /\ (idle' => IsOpen')
    BY <1>1, <2>3 DEF TypeOK, IsOpen
  <2>5. /\ breaks' \in 0..MaxBreaks /\ restarts' \in 0..MaxRestarts
        /\ rejections' \in 0..MaxRejections
    BY <1>1, <1>2 DEF TypeOK
  <2>6. raised' \subseteq Reads /\ failures' \in 0..1
    BY <1>1, <1>2, <1>14 DEF TypeOK
  <2> QED
    BY <1>1, <1>10, <1>14, <2>1, <2>2, <2>3, <2>4, <2>5, <2>6 DEF TypeOK, Told
<1> QED
  BY <1>10, <1>11, <1>12, <1>13, <1>15, <1>16 DEF Inv, Answering

LEMMA Stepping == Inv /\ [Next]_vars => Inv'
<1> SUFFICES ASSUME Inv, [Next]_vars PROVE Inv'
  OBVIOUS
<1>1. ASSUME NEW r \in Reads, Get(r) \/ AddQueryListener(r) \/ RemoveQueryListener(r) PROVE Inv'
  BY <1>1, Getting, Adding, Removing
<1>2. CASE Deliver
  BY <1>2, Delivering
<1>3. CASE StreamOpens \/ BackoffEnds
  BY <1>3, Opening
<1>4. CASE AttemptFails \/ StreamBreaks
  BY <1>4, Closing
<1>5. CASE IdleTimeout
  BY <1>5, Idling
<1>6. CASE RestartNetwork
  BY <1>6, Restarting
<1>7. CASE OnlineStateTimeout
  BY <1>7, TimingOut
<1>8. ASSUME NEW k \in Keys, ServerConfirms(k) \/ ServerWrite(k) PROVE Inv'
  BY <1>8, Confirming
<1>9. ASSUME NEW k \in Keys, Snapshot(k) PROVE Inv'
  BY <1>9, Snapshotting
<1>10. ASSUME NEW k \in Keys, TargetRejected(k) PROVE Inv'
  BY <1>10, Rejecting
<1>11. CASE UNCHANGED vars
  <2>1. TypeOK /\ Answering /\ Tracking /\ InSync
    BY DEF Inv
  <2>2. /\ UNCHANGED calls /\ UNCHANGED <<version, cache, targets, current, asked, shared, phase>>
        /\ UNCHANGED <<request, stream, idle, onlineState, failures, timer, broken>>
        /\ UNCHANGED <<breaks, restarts, rejections>>
    BY <1>11 DEF vars, calls, net, tracker, history, bounds
  <2>3. TypeOK'
    <3>1. Connected'
      BY <2>1, <2>2 DEF TypeOK, Connected, IsOpen
    <3> QED
      BY <2>1, <2>2, <3>1, SameCallsType DEF TypeOK
  <2>4. Answering' /\ InSync' /\ NoTargetLeaks'
    BY <2>1, <2>2, SameCalls, SameSync, SameTargets DEF Tracking
  <2>5. Tracking'
    BY <2>1, <2>2, <2>4 DEF Tracking, Ticking, IdlesUnneeded, AssertionsHold, IsStarted
  <2> QED
    BY <2>3, <2>4, <2>5 DEF Inv
<1> QED
  BY <1>1, <1>2, <1>3, <1>4, <1>5, <1>6, <1>7, <1>8, <1>9, <1>10, <1>11 DEF Next

LEMMA Invariance == Spec => []Inv
<1> QED
  BY Initially, Stepping, PTL DEF Spec

-----------------------------------------------------------------------------
(* Queues, views, targets, stream and tracker keep their types; the idle   *)
(* timer runs on an open stream only.                                      *)
THEOREM TypeCorrect == Spec => []TypeOK
<1>1. Inv => TypeOK
  BY DEF Inv
<1> QED
  BY <1>1, Invariance, PTL

(* GetDocument calls back at most once: ListenOnce mutes the listener with *)
(* its first event, and after an error nothing of it is left to be heard.  *)
THEOREM OneAnswer == Spec => []AnsweredOnce
<1>1. Inv => AnsweredOnce
  BY DEF Inv, Answering, Answers, AnsweredOnce
<1> QED
  BY <1>1, Invariance, PTL

(* The event manager listens to exactly the queries that some call waits   *)
(* for.                                                                    *)
THEOREM TargetsAreListeners == Spec => []NoTargetLeaks
<1>1. Inv => NoTargetLeaks
  BY DEF Inv, Tracking
<1> QED
  BY <1>1, Invariance, PTL

(* The assertions of OnlineStateTracker, of RemoteStore's closing and of   *)
(* StopListening hold: the timer runs only while the state is unknown and  *)
(* a stream is wanted, and the stream idles only without targets.          *)
THEOREM NeverAsserts == Spec => []AssertionsHold
<1>1. Inv => AssertionsHold
  BY DEF Inv, Tracking
<1> QED
  BY <1>1, Invariance, PTL

(* An answer that is not from the cache is as new as the document was when *)
(* GetDocument was called, unless the call found another listening.        *)
THEOREM FreshAnswers == Spec => FreshUnlessShared
<1> DEFINE Fresh == \A r \in Reads \ shared :
                       completions'[r] > completions[r] /\ main[1].ok /\ ~main[1].cached
                          => main[1].ver >= asked[r]
<1>1. Inv /\ [Next]_vars => [Fresh]_vars
  <2> SUFFICES ASSUME Inv, Next, NEW r \in Reads \ shared,
                      completions'[r] > completions[r], main[1].ok, ~main[1].cached
               PROVE  main[1].ver >= asked[r]
    BY Zenon
  <2>1. completions \in [Reads -> Nat]
    BY DEF Inv, TypeOK
  <2>2. ~(completions' = completions)
    BY <2>1
  <2>3. Deliver
    BY <2>2 DEF Next, Get, AddQueryListener, RemoveQueryListener, StreamOpens, BackoffEnds,
                AttemptFails, StreamBreaks, CloseWithError, IdleTimeout, RestartNetwork,
                OnlineStateTimeout, Views, ServerConfirms, Snapshot, TargetRejected, ServerWrite,
                calls
  <2>4. main # <<>> /\ main \in Seq(Told)
    BY <2>3, Types DEF Deliver, Inv
  <2>5. Head(main) = main[1] /\ 1 \in DOMAIN main
    BY <2>4, Taken
  <2>6. main[1].read = r
    <3>1. \/ completions' = completions
          \/ completions' = [completions EXCEPT ![main[1].read] = completions[main[1].read] + 1]
      BY <2>3, <2>5 DEF Deliver
    <3> QED
      BY <2>1, <2>2, <3>1
  <2> QED
    BY <2>5, <2>6 DEF Inv, InSync, EventsFresh
<1> QED
  BY <1>1, Invariance, PTL DEF Spec, FreshUnlessShared
=============================================================================
