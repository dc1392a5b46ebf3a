------------------------ MODULE WritePipelineProofs ------------------------
(***************************************************************************)
(* The safety of the write path, for any accounts and bounds.              *)
(***************************************************************************)
EXTENDS WritePipeline, SequenceTheorems, FiniteSetTheorems, WellFoundedInduction, TLAPS

(* Least and largest numbers *)

LEMMA LeastIs == ASSUME NEW S \in SUBSET Nat, NEW k \in S, \A i \in S : k <= i PROVE Min(S) = k
<1> DEFINE P(x) == \A y \in S : x <= y
<1>1. \E x \in S : P(x) OBVIOUS
<1>2. (CHOOSE x \in S : P(x)) \in S /\ P(CHOOSE x \in S : P(x))
  <2> HIDE DEF P
  <2> QED BY <1>1
<1>3. Min(S) \in S /\ \A y \in S : Min(S) <= y
  BY <1>2 DEF Min
<1>4. Min(S) \in Nat /\ k \in Nat
  BY <1>3
<1> QED
  BY <1>3, <1>4

LEMMA LeastIn == ASSUME NEW S, S \subseteq Nat, S # {} PROVE \E x \in S : \A y \in S : x <= y
<1> DEFINE R == {ss \in Nat \X Nat : ss[1] < ss[2]}
<1>1. IsWellFoundedOn(R, Nat)
  BY NatLessThanWellFounded DEF OpToRel
<1>2. \E x \in S : \A y \in S : <<y, x>> \notin R
  <2> HIDE DEF R
  <2> QED BY <1>1, WFMin
<1>3. \A x, y \in Nat : <<y, x>> \notin R => x <= y
  OBVIOUS
<1> HIDE DEF R
<1> QED
  BY <1>2, <1>3

LEMMA LargestIn ==
    ASSUME NEW S \in SUBSET Nat, S # {}, NEW b \in Nat, \A x \in S : x <= b
    PROVE  Max(S) \in S /\ \A x \in S : x <= Max(S)
<1> DEFINE U == {n \in Nat : \A x \in S : x <= n}
           P(x) == \A y \in S : x >= y
<1>1. PICK u \in U : \A n \in U : u <= n
  <2>1. U \subseteq Nat /\ b \in U
    OBVIOUS
  <2> QED
    BY <2>1, LeastIn
<1>2. u \in S
  <2> SUFFICES ASSUME u \notin S PROVE FALSE
    OBVIOUS
  <2>1. \A x \in S : x < u
    BY <1>1
  <2>2. u \in Nat /\ u - 1 \in Nat /\ u - 1 < u
    <3>1. PICK x \in S : TRUE
      OBVIOUS
    <3>2. x \in Nat /\ u \in Nat /\ x < u
      BY <2>1
    <3> QED
      BY <3>2
  <2>3. u - 1 \in U
    BY <2>1, <2>2
  <2> QED
    BY <2>2, <2>3, <1>1
<1>3. P(u)
  BY <1>1
<1>4. (CHOOSE x \in S : P(x)) \in S /\ P(CHOOSE x \in S : P(x))
  <2> HIDE DEF P
  <2> QED BY <1>2, <1>3
<1>5. Max(S) \in S /\ \A y \in S : Max(S) >= y
  BY <1>4 DEF Max
<1> HIDE DEF P
<1> QED BY <1>5
-----------------------------------------------------------------------------
(* Queues *)

Sorted(q) == /\ \A i \in DOMAIN q : q[i].id \in Nat \ {0}
             /\ \A i, j \in DOMAIN q : i < j => q[i].id < q[j].id

Limit(q) == Min({MaxPending, Len(q)})

LEMMA Limited ==
    ASSUME NEW q \in Seq(Batch)
    PROVE  /\ Limit(q) \in 0..Len(q) /\ Limit(q) <= MaxPending
           /\ Limit(q) \in {MaxPending, Len(q)}
<1>1. MaxPending \in Nat /\ Len(q) \in Nat
  BY PipelineAssumption
<1>2. CASE MaxPending <= Len(q)
  BY <1>1, <1>2, LeastIs DEF Limit
<1>3. CASE Len(q) < MaxPending
  BY <1>1, <1>3, LeastIs DEF Limit
<1> QED
  BY <1>1, <1>2, <1>3

\* What follows the first k batches is found by the id of the k-th.
LEMMA Seeking ==
    ASSUME NEW q \in Seq(Batch), Sorted(q), NEW k \in 0..Len(q),
           NEW last \in Nat, last = IF k = 0 THEN 0 ELSE q[k].id
    PROVE  BatchesAfter(q, last) = SubSeq(q, k + 1, Len(q))
<1> DEFINE S == {i \in DOMAIN q : q[i].id > last} \cup {Len(q) + 1}
<1>1. Len(q) \in Nat /\ DOMAIN q = 1..Len(q) /\ \A i \in 1..Len(q) : q[i].id \in Nat \ {0}
  BY DEF Sorted
<1>2. S \in SUBSET Nat
  BY <1>1
<1>3. k + 1 \in S
  BY <1>1 DEF Sorted
<1>4. \A i \in S : k + 1 <= i
  BY <1>1 DEF Sorted
<1>5. Min(S) = k + 1
  <2> HIDE DEF S
  <2> QED
    BY <1>2, <1>3, <1>4, LeastIs
<1> QED
  BY <1>5 DEF BatchesAfter, RowsAfter

\* The oldest batch leaves by its id.
LEMMA Heading ==
    ASSUME NEW q \in Seq(Batch), Sorted(q), q # <<>>
    PROVE  /\ Row(q, q[1]) = 1
           /\ RemoveAt(q, 1) = Tail(q)
           /\ Tail(q) \in Seq(Batch) /\ Len(Tail(q)) = Len(q) - 1
           /\ \A i \in 1..Len(q) - 1 : Tail(q)[i] = q[i + 1]
           /\ Sorted(Tail(q))
<1>1. /\ Len(q) \in Nat /\ Len(q) > 0 /\ DOMAIN q = 1..Len(q)
      /\ \A i \in 1..Len(q) : q[i].id \in Nat \ {0}
  BY DEF Sorted
<1>2. \A i \in DOMAIN q : q[i].id = q[1].id <=> i = 1
  BY <1>1 DEF Sorted
<1>3. Row(q, q[1]) = 1
  BY <1>1, <1>2 DEF Row
<1>4. /\ Tail(q) \in Seq(Batch) /\ Len(Tail(q)) = Len(q) - 1
      /\ \A i \in 1..Len(q) - 1 : Tail(q)[i] = q[i + 1]
  BY <1>1
<1>5. RemoveAt(q, 1) = Tail(q)
  BY <1>1 DEF RemoveAt
<1>6. Sorted(Tail(q))
  BY <1>1, <1>4 DEF Sorted
<1> QED
  BY <1>3, <1>4, <1>5, <1>6

-----------------------------------------------------------------------------
(* FillWritePipeline *)

Ready(n) == n.stream = "Open" /\ n.handshake

\* The pipeline holds the first k batches of the queue.
Holds(n, q, k) == /\ n \in Net
                  /\ k \in 0..Len(q) /\ k <= MaxPending
                  /\ n.pipeline = SubSeq(q, 1, k)

\* What is added to it.
New(q, k) == SubSeq(q, k + 1, Limit(q))

\* The first entries of a rest are the entries that follow.
LEMMA Window ==
    ASSUME NEW q \in Seq(Batch), NEW k \in 0..Len(q), NEW l \in k..Len(q)
    PROVE  SubSeq(SubSeq(q, k + 1, Len(q)), 1, l - k) = SubSeq(q, k + 1, l)
<1>1. Len(q) \in Nat /\ k \in Nat /\ l \in Nat /\ k <= l /\ l <= Len(q)
  OBVIOUS
<1> DEFINE r == SubSeq(q, k + 1, Len(q))
           s == SubSeq(r, 1, l - k)
           t == SubSeq(q, k + 1, l)
<1>2. /\ r \in Seq(Batch) /\ Len(r) = Len(q) - k
      /\ \A i \in 1..Len(q) - k : r[i] = q[k + i]
  BY <1>1
<1>3. /\ t \in Seq(Batch) /\ Len(t) = l - k
      /\ \A i \in 1..l - k : t[i] = q[k + i]
  BY <1>1
<1> HIDE DEF r
<1>4. l - k \in 0..Len(r)
  BY <1>1, <1>2
<1>5. /\ s \in Seq(Batch) /\ Len(s) = l - k
      /\ \A i \in 1..l - k : s[i] = r[i]
  BY <1>2, <1>4
<1> HIDE DEF s, t
<1>6. \A i \in 1..l - k : s[i] = t[i]
  BY <1>1, <1>2, <1>3, <1>5
<1>7. s = t
  BY <1>3, <1>5, <1>6, SeqEqual
<1> QED
  BY <1>7 DEF r, s, t

LEMMA Adding ==
    ASSUME NEW q \in Seq(Batch), Sorted(q), NEW n, NEW k, Holds(n, q, k)
    PROVE  LET last == IF n.pipeline = <<>> THEN 0 ELSE Last(n.pipeline).id
               later == BatchesAfter(q, last)
           IN  /\ SubSeq(later, 1, Min({Len(later), MaxPending - Len(n.pipeline)})) = New(q, k)
               /\ New(q, k) \in Seq(Batch)
               /\ n.pipeline \o New(q, k) = SubSeq(q, 1, Limit(q))
<1> DEFINE last == IF n.pipeline = <<>> THEN 0 ELSE Last(n.pipeline).id
           later == BatchesAfter(q, last)
<1>1. /\ Len(q) \in Nat /\ k \in 0..Len(q) /\ MaxPending \in Nat /\ k <= MaxPending
      /\ \A i \in 1..Len(q) : q[i].id \in Nat \ {0}
  BY PipelineAssumption DEF Holds, Sorted
<1>2. /\ n.pipeline \in Seq(Batch) /\ Len(n.pipeline) = k
      /\ \A i \in 1..k : n.pipeline[i] = q[i]
  BY <1>1, SubSeqProperties DEF Holds
<1>3. last = IF k = 0 THEN 0 ELSE q[k].id
  <2>1. CASE k = 0
    BY <1>2, <2>1
  <2>2. CASE k # 0
    <3>1. n.pipeline # <<>> /\ Last(n.pipeline) = q[k]
      BY <1>1, <1>2, <2>2 DEF Last
    <3> QED
      BY <2>2, <3>1
  <2> QED
    BY <2>1, <2>2
<1>4. last \in Nat
  BY <1>1, <1>3
<1>5. later = SubSeq(q, k + 1, Len(q))
  <2> HIDE DEF last
  <2> QED
    BY <1>1, <1>3, <1>4, Seeking DEF later
<1>6. /\ later \in Seq(Batch) /\ Len(later) = Len(q) - k
      /\ \A i \in 1..Len(q) - k : later[i] = q[k + i]
  <2> HIDE DEF later
  <2> QED
    BY <1>1, <1>5
<1>7. Limit(q) \in 0..Len(q) /\ k <= Limit(q) /\ Limit(q) \in {MaxPending, Len(q)} /\ Limit(q) <= MaxPending
  BY <1>1, Limited
<1>8. Min({Len(later), MaxPending - Len(n.pipeline)}) = Limit(q) - k
  <2> HIDE DEF later
  <2>1. {Len(later), MaxPending - Len(n.pipeline)} = {Len(q) - k, MaxPending - k}
    BY <1>2, <1>6
  <2>2. {Len(q) - k, MaxPending - k} \in SUBSET Nat
    BY <1>1
  <2>3. Limit(q) - k \in {Len(q) - k, MaxPending - k}
    BY <1>7
  <2>4. \A i \in {Len(q) - k, MaxPending - k} : Limit(q) - k <= i
    BY <1>1, <1>7
  <2> QED
    BY <2>1, <2>2, <2>3, <2>4, LeastIs
<1>9. SubSeq(later, 1, Limit(q) - k) = New(q, k)
  <2> HIDE DEF later
  <2>1. Limit(q) \in k..Len(q)
    BY <1>1, <1>7
  <2> QED
    BY <1>1, <1>5, <2>1, Window DEF New
<1>10. New(q, k) \in Seq(Batch) /\ n.pipeline \o New(q, k) = SubSeq(q, 1, Limit(q))
  <2>1. /\ 1 \in 1..Len(q) + 1 /\ k \in 1 - 1..Len(q) /\ Limit(q) \in k..Len(q)
    BY <1>1, <1>7
  <2>2. SubSeq(q, 1, k) \o SubSeq(q, k + 1, Limit(q)) = SubSeq(q, 1, Limit(q))
    BY <2>1, ConcatAdjacentSubSeq
  <2>3. New(q, k) \in Seq(Batch)
    BY <1>1, <1>7 DEF New
  <2> QED
    BY <2>2, <2>3 DEF New, Holds
<1> QED
  BY <1>8, <1>9, <1>10

LEMMA Filling ==
    ASSUME NEW q \in Seq(Batch), Sorted(q), NEW n, NEW k, Holds(n, q, k)
    PROVE  LET f == FillWritePipeline(n, q)
           IN  /\ f \in Net
               /\ f.pipeline = SubSeq(q, 1, Limit(q))
               /\ f.pipeline = n.pipeline \o New(q, k) /\ New(q, k) \in Seq(Batch)
               /\ f.pipeline # <<>> => IsStarted(f)
               /\ f.handshake = n.handshake /\ f.replies = n.replies /\ f.refusal = n.refusal
               /\ f.wire = IF Ready(n) THEN n.wire \o New(q, k) ELSE n.wire
               /\ f.stream = "Open" <=> n.stream = "Open"
               /\ f.idle => \/ n.idle /\ (Ready(n) => New(q, k) = <<>>)
                            \/ f.pipeline = <<>> /\ n.stream = "Open"
<1> DEFINE new == New(q, k)
           filled == [n EXCEPT !.pipeline = @ \o new,
                               !.wire = IF Ready(n) THEN @ \o new ELSE @]
           g == IF new # <<>> THEN [filled EXCEPT !.idle = @ /\ ~Ready(n)]
                ELSE [filled EXCEPT !.idle = @ \/ (filled.pipeline = <<>> /\ n.stream = "Open")]
<1>1. /\ new \in Seq(Batch) /\ n.pipeline \o new = SubSeq(q, 1, Limit(q))
      /\ FillWritePipeline(n, q) = StartIfNeeded(g)
  <2>1. /\ new \in Seq(Batch) /\ n.pipeline \o new = SubSeq(q, 1, Limit(q))
        /\ LET last == IF n.pipeline = <<>> THEN 0 ELSE Last(n.pipeline).id
               later == BatchesAfter(q, last)
           IN  SubSeq(later, 1, Min({Len(later), MaxPending - Len(n.pipeline)})) = new
    BY Adding
  <2> HIDE DEF new
  <2>2. FillWritePipeline(n, q) = StartIfNeeded(g)
    BY <2>1, Zenon DEF FillWritePipeline, Ready
  <2> QED
    BY <2>1, <2>2
<1>2. /\ n \in Net /\ n.pipeline \in Seq(Batch) /\ n.pipeline \o new \in Seq(Batch)
      /\ n.wire \in Seq(Batch \cup {Hello}) /\ n.wire \o new \in Seq(Batch \cup {Hello})
  <2>1. new \in Seq(Batch \cup {Hello})
    BY <1>1
  <2> HIDE DEF new
  <2> QED
    BY <1>1, <2>1 DEF Holds, Net
<1> HIDE DEF new
<1>3. /\ g \in Net
      /\ g.pipeline = n.pipeline \o new
      /\ g.handshake = n.handshake /\ g.replies = n.replies /\ g.refusal = n.refusal
      /\ g.wire = IF Ready(n) THEN n.wire \o new ELSE n.wire
      /\ g.stream = n.stream
      /\ g.idle => \/ n.idle /\ (Ready(n) => new = <<>>)
                   \/ n.pipeline \o new = <<>> /\ n.stream = "Open"
  BY <1>2 DEF Net, Ready
<1>4. LET f == StartIfNeeded(g)
      IN  /\ f \in Net
          /\ f.pipeline = g.pipeline /\ f.handshake = g.handshake /\ f.replies = g.replies
          /\ f.refusal = g.refusal /\ f.wire = g.wire /\ f.idle = g.idle
          /\ f.pipeline # <<>> => IsStarted(f)
          /\ f.stream = "Open" <=> g.stream = "Open"
  <2> HIDE DEF g
  <2> QED
    BY <1>3 DEF StartIfNeeded, ShouldStartWriteStream, IsStarted, Start, Net
<1> HIDE DEF g
<1> QED
  BY <1>1, <1>3, <1>4 DEF new

-----------------------------------------------------------------------------
(* Streams *)

Prefix(n, q) == /\ n.pipeline = SubSeq(q, 1, Limit(q))
                /\ n.pipeline # <<>> => IsStarted(n)

(* StreamCarriesPipeline, and a refusal comes after the handshake only.    *)
Carries(n) == /\ n.handshake => n.stream = "Open" /\ n.replies \o n.wire = n.pipeline
              /\ ~n.handshake => n.replies \o n.wire \in {<<>>, <<Hello>>}
              /\ n.stream # "Open" => n.replies \o n.wire = <<>>
              /\ n.idle => n.handshake /\ n.pipeline = <<>>
              /\ n.refusal => n.wire # <<>> /\ n.handshake

Message == Batch \cup {Hello}

LEMMA Associative ==
    ASSUME NEW s \in Seq(Message), NEW t \in Seq(Message), NEW u \in Seq(Message)
    PROVE  (s \o t) \o u = s \o (t \o u)
  BY ConcatAssociative

LEMMA Concatenated ==
    ASSUME NEW s \in Seq(Message), NEW t \in Seq(Message)
    PROVE  /\ s \o t \in Seq(Message) /\ Len(s \o t) = Len(s) + Len(t)
           /\ \A i \in 1..Len(s) : (s \o t)[i] = s[i]
           /\ \A i \in 1..Len(t) : (s \o t)[Len(s) + i] = t[i]
  BY SMT

\* The parts of a sequence of batches are sequences of batches.
LEMMA Parts ==
    ASSUME NEW s \in Seq(Message), NEW t \in Seq(Message), s \o t \in Seq(Batch)
    PROVE  s \in Seq(Batch) /\ t \in Seq(Batch)
<1> DEFINE p == s \o t  m == Len(s)  n == Len(t)
<1>1. /\ m \in Nat /\ n \in Nat /\ Len(p) = m + n
      /\ \A i \in 1..m : p[i] = s[i]
      /\ \A i \in 1..n : p[m + i] = t[i]
  BY Concatenated, LenProperties
<1>2. \A i \in 1..Len(p) : p[i] \in Batch
  OBVIOUS
<1> HIDE DEF p, m, n
<1>3. \A i \in 1..m : s[i] \in Batch
  BY <1>1, <1>2
<1>4. \A i \in 1..n : t[i] \in Batch
  <2> TAKE i \in 1..n
  <2>1. m + i \in 1..Len(p)
    BY <1>1
  <2> QED
    BY <1>1, <1>2, <2>1
<1> QED
  BY <1>3, <1>4 DEF m, n

LEMMA BothEmpty ==
    ASSUME NEW S, NEW s \in Seq(S), NEW t \in Seq(S)
    PROVE  s \o t = <<>> <=> s = <<>> /\ t = <<>>
  BY ConcatEqualIffEmpty

\* When the reply to the handshake is there, nothing else is.
LEMMA HelloAlone ==
    ASSUME NEW s \in Seq(Message), NEW t \in Seq(Message), s # <<>>, s \o t = <<Hello>>
    PROVE  t = <<>> /\ Tail(s) = <<>>
<1> DEFINE m == Len(s)  n == Len(t)
<1>1. m \in Nat /\ n \in Nat /\ m # 0
  BY LenProperties
<1>2. m + n = 1
  <2>1. Len(s \o t) = m + n
    BY Concatenated
  <2>2. Len(<<Hello>>) = 1
    OBVIOUS
  <2> QED
    BY <2>1, <2>2
<1>3. m = 1 /\ n = 0
  <2> HIDE DEF m, n
  <2> QED
    BY <1>1, <1>2
<1> QED
  BY <1>3

\* A stream that carries nothing.
Silent(n) == /\ ~n.handshake /\ ~n.idle /\ ~n.refusal
             /\ n.replies = <<>> /\ n.wire = <<>>

LEMMA SilentCarries == ASSUME NEW n, Silent(n) PROVE Carries(n)
<1>1. n.replies \o n.wire = <<>>
  BY DEF Silent
<1> QED
  BY <1>1 DEF Silent, Carries

\* A stream that is not open carries nothing.
LEMMA ClosedIsSilent == ASSUME NEW n \in Net, Carries(n), n.stream # "Open" PROVE Silent(n)
<1>1. n.replies = <<>> /\ n.wire = <<>>
  BY BothEmpty DEF Carries, Net
<1> QED
  BY <1>1 DEF Carries, Silent, Net

LEMMA FillingCarries ==
    ASSUME NEW q \in Seq(Batch), Sorted(q), NEW n, NEW k, Holds(n, q, k), Carries(n),
           n.stream = "Open" /\ ~n.handshake => Limit(q) # 0
    PROVE  Carries(FillWritePipeline(n, q))
<1> DEFINE f == FillWritePipeline(n, q)
           new == New(q, k)
<1>1. /\ f \in Net
      /\ f.pipeline = SubSeq(q, 1, Limit(q))
      /\ f.pipeline = n.pipeline \o new /\ new \in Seq(Batch)
      /\ f.handshake = n.handshake /\ f.replies = n.replies /\ f.refusal = n.refusal
      /\ f.wire = IF Ready(n) THEN n.wire \o new ELSE n.wire
      /\ f.stream = "Open" <=> n.stream = "Open"
      /\ f.idle => \/ n.idle /\ (Ready(n) => new = <<>>)
                   \/ f.pipeline = <<>> /\ n.stream = "Open"
  BY Filling
<1>2. /\ n \in Net /\ n.pipeline \in Seq(Batch) /\ n.replies \in Seq(Batch \cup {Hello})
      /\ n.wire \in Seq(Batch \cup {Hello}) /\ new \in Seq(Batch \cup {Hello})
      /\ {n.handshake, n.idle, n.refusal, f.handshake, f.idle, f.refusal} \subseteq BOOLEAN
  <2> HIDE DEF f, new
  <2>1. n \in Net
    BY DEF Holds
  <2>2. new \in Seq(Batch \cup {Hello})
    BY <1>1
  <2>3. /\ n.pipeline \in Seq(Batch) /\ n.replies \in Seq(Batch \cup {Hello})
        /\ n.wire \in Seq(Batch \cup {Hello})
        /\ {n.handshake, n.idle, n.refusal} \subseteq BOOLEAN
    BY <2>1 DEF Net
  <2>4. f.idle \in BOOLEAN
    BY <1>1 DEF Net
  <2> QED
    BY <1>1, <2>1, <2>2, <2>3, <2>4
<1> HIDE DEF f, new
<1>3. CASE Ready(n)
  <2>1. f.replies \o f.wire = (n.replies \o n.wire) \o new
    <3>1. n.replies \in Seq(Message) /\ n.wire \in Seq(Message) /\ new \in Seq(Message)
      BY <1>2 DEF Message
    <3>2. (n.replies \o n.wire) \o new = n.replies \o (n.wire \o new)
      BY <3>1, Associative
    <3> QED
      BY <1>1, <1>3, <3>2
  <2>2. n.wire # <<>> => f.wire # <<>>
    BY <1>1, <1>2, <1>3, BothEmpty
  <2>3. f.idle => f.pipeline = <<>>
    BY <1>1, <1>2, <1>3, BothEmpty DEF Carries
  <2>4. f.handshake /\ f.stream = "Open" /\ f.replies \o f.wire = f.pipeline
    BY <1>1, <1>2, <1>3, <2>1 DEF Carries, Ready
  <2>5. f.refusal => f.wire # <<>>
    BY <1>1, <1>2, <2>2 DEF Carries
  <2> QED
    BY <2>3, <2>4, <2>5 DEF Carries, f
<1>4. CASE ~Ready(n)
  <2>1. n.stream = "Open" => f.pipeline # <<>>
    <3>1. Limit(q) \in 0..Len(q)
      BY Limited
    <3>2. Len(SubSeq(q, 1, Limit(q))) = Limit(q)
      BY <3>1
    <3> QED
      BY <1>1, <1>4, <3>1, <3>2 DEF Ready
  <2>2. ~f.idle /\ ~n.handshake
    BY <1>1, <1>4, <2>1 DEF Carries, Ready
  <2>3. ~f.handshake /\ ~f.refusal
    BY <1>1, <1>2, <2>2 DEF Carries
  <2>4. /\ f.replies \o f.wire \in {<<>>, <<Hello>>}
        /\ f.stream # "Open" => f.replies \o f.wire = <<>>
    BY <1>1, <1>4, <2>2 DEF Carries
  <2> QED
    BY <2>2, <2>3, <2>4 DEF Carries, f
<1> QED
  BY <1>3, <1>4

\* Filled from a queue, a stream that carries nothing is fit for use.
LEMMA FillingSilent ==
    ASSUME NEW q \in Seq(Batch), Sorted(q), NEW n \in Net, Silent(n), n.stream # "Open",
           NEW k \in 0..Len(q), k <= MaxPending, n.pipeline = SubSeq(q, 1, k)
    PROVE  LET f == FillWritePipeline(n, q)
           IN  f \in Net /\ Prefix(f, q) /\ Silent(f)
<1> DEFINE f == FillWritePipeline(n, q)
<1>1. Holds(n, q, k)
  BY DEF Holds
<1>2. /\ f \in Net /\ f.pipeline = SubSeq(q, 1, Limit(q))
      /\ f.pipeline # <<>> => IsStarted(f)
      /\ f.handshake = n.handshake /\ f.replies = n.replies /\ f.refusal = n.refusal
      /\ f.wire = IF Ready(n) THEN n.wire \o New(q, k) ELSE n.wire
      /\ f.idle => \/ n.idle /\ (Ready(n) => New(q, k) = <<>>)
                   \/ f.pipeline = <<>> /\ n.stream = "Open"
  BY <1>1, Filling
<1> HIDE DEF f
<1>3. Silent(f)
  BY <1>2 DEF Silent, Ready
<1> QED
  BY <1>2, <1>3 DEF Prefix, f

LEMMA Stopping ==
    ASSUME NEW n \in Net, Carries(n)
    PROVE  /\ Stop(n) \in Net /\ Stop(n).pipeline = n.pipeline
           /\ Silent(Stop(n)) /\ ~IsStarted(Stop(n))
<1>1. CASE IsStarted(n)
  <2>1. Stop(n) = [Close(n, "Initial") EXCEPT !.handshake = FALSE]
    BY <1>1 DEF Stop
  <2>2. <<>> \in Seq(Batch \cup {Hello})
    BY EmptySeq
  <2> QED
    BY <2>1, <2>2 DEF Close, Silent, IsStarted, Net
<1>2. CASE ~IsStarted(n)
  <2>1. Stop(n) = n
    BY <1>2 DEF Stop
  <2>2. Silent(n)
    BY <1>2, ClosedIsSilent DEF IsStarted
  <2> QED
    BY <1>2, <2>1, <2>2
<1> QED
  BY <1>1, <1>2

LEMMA Restarting ==
    ASSUME NEW n \in Net, Carries(n), NEW q \in Seq(Batch), Sorted(q)
    PROVE  LET r == RestartNetwork(n, q)
           IN  r \in Net /\ Prefix(r, q) /\ Silent(r)
<1> DEFINE m == InhibitBackoff([Stop(n) EXCEPT !.pipeline = <<>>])
<1>1. Stop(n) \in Net /\ Silent(Stop(n))
  BY Stopping
<1>2. <<>> \in Seq(Batch)
  BY EmptySeq
<1>3. m \in Net /\ Silent(m) /\ m.stream # "Open" /\ m.pipeline = <<>>
  BY <1>1, <1>2 DEF InhibitBackoff, Silent, Net
<1>4. SubSeq(q, 1, 0) = <<>> /\ 0 \in 0..Len(q) /\ 0 <= MaxPending
  BY PipelineAssumption
<1>5. RestartNetwork(n, q) = FillWritePipeline(m, q)
  BY DEF RestartNetwork
<1> HIDE DEF m
<1> QED
  BY <1>3, <1>4, <1>5, FillingSilent

LEMMA Reopening ==
    ASSUME NEW n \in Net, NEW q \in Seq(Batch), Prefix(n, q)
    PROVE  LET c == CloseTransient(n)
           IN  c \in Net /\ Prefix(c, q) /\ Silent(c)
<1> DEFINE m == Close(n, "Error")
           c == [StartIfNeeded(m) EXCEPT !.handshake = FALSE]
<1>1. <<>> \in Seq(Batch \cup {Hello})
  BY EmptySeq
<1>2. /\ m \in Net /\ m.pipeline = n.pipeline /\ ~m.idle /\ ~m.refusal /\ ~IsStarted(m)
      /\ m.replies = <<>> /\ m.wire = <<>>
  BY <1>1 DEF Close, Net, IsStarted
<1> HIDE DEF m
<1>3. /\ c \in Net /\ c.pipeline = n.pipeline /\ Silent(c)
      /\ c.pipeline # <<>> => IsStarted(c)
  BY <1>2 DEF StartIfNeeded, ShouldStartWriteStream, Start, IsStarted, Silent, Net
<1>4. CloseTransient(n) = c
  BY DEF CloseTransient, m
<1> HIDE DEF c
<1> QED
  BY <1>3, <1>4 DEF Prefix

\* After a refusal the first write has left both the pipeline and the queue.
LEMMA Refusing ==
    ASSUME NEW n \in Net, NEW q \in Seq(Batch), Sorted(q), Prefix(n, q), q # <<>>
    PROVE  LET c == CloseRefused(n, Tail(q))
           IN  c \in Net /\ Prefix(c, Tail(q)) /\ Silent(c)
<1> DEFINE m == InhibitBackoff([Close(n, "Error") EXCEPT !.pipeline = Tail(@)])
           f == FillWritePipeline(m, Tail(q))
           c == [StartIfNeeded(f) EXCEPT !.handshake = FALSE]
           k == Limit(q) - 1
<1>1. /\ Tail(q) \in Seq(Batch) /\ Len(Tail(q)) = Len(q) - 1 /\ Sorted(Tail(q))
      /\ Len(q) \in Nat /\ Len(q) > 0
  BY Heading
<1>2. /\ Limit(q) \in 1..Len(q) /\ Limit(q) <= MaxPending /\ MaxPending \in Nat
  BY <1>1, Limited, PipelineAssumption
<1>3. /\ Tail(n.pipeline) = SubSeq(Tail(q), 1, k)
      /\ Tail(n.pipeline) \in Seq(Batch)
      /\ k \in 0..Len(Tail(q)) /\ k <= MaxPending
  BY <1>1, <1>2 DEF Prefix
<1>4. <<>> \in Seq(Batch \cup {Hello})
  BY EmptySeq
<1>5. /\ m \in Net /\ m.pipeline = Tail(n.pipeline) /\ m.stream = "Initial"
      /\ ~m.idle /\ ~m.refusal /\ m.replies = <<>> /\ m.wire = <<>>
  BY <1>3, <1>4 DEF InhibitBackoff, Close, Net
<1>6. Holds(m, Tail(q), k)
  BY <1>3, <1>5 DEF Holds
<1>7. CloseRefused(n, Tail(q)) = c
  BY DEF CloseRefused
<1> HIDE DEF m, k
<1>8. /\ f \in Net /\ f.pipeline = SubSeq(Tail(q), 1, Limit(Tail(q)))
      /\ f.pipeline # <<>> => IsStarted(f)
      /\ f.replies = <<>> /\ f.wire = <<>> /\ ~f.refusal /\ ~f.idle
  <2>1. /\ f \in Net /\ f.pipeline = SubSeq(Tail(q), 1, Limit(Tail(q)))
        /\ f.pipeline # <<>> => IsStarted(f)
        /\ f.replies = m.replies /\ f.refusal = m.refusal
        /\ f.wire = IF Ready(m) THEN m.wire \o New(Tail(q), k) ELSE m.wire
        /\ f.idle => \/ m.idle /\ (Ready(m) => New(Tail(q), k) = <<>>)
                     \/ f.pipeline = <<>> /\ m.stream = "Open"
    BY <1>1, <1>6, Filling
  <2> HIDE DEF f
  <2> QED
    BY <1>5, <2>1 DEF Ready
<1> HIDE DEF f
<1>9. /\ c \in Net /\ c.pipeline = f.pipeline /\ Silent(c)
      /\ c.pipeline # <<>> => IsStarted(c)
  BY <1>8 DEF StartIfNeeded, ShouldStartWriteStream, Start, IsStarted, Silent, Net
<1> HIDE DEF c
<1> QED
  BY <1>7, <1>8, <1>9 DEF Prefix

-----------------------------------------------------------------------------
(* The invariant *)

(* The accounts of the tasks on the worker queue: a write has that of the  *)
(* task before it, and the app's is that of the last.                      *)
Follows == /\ worker = <<>> => auth = user
           /\ worker # <<>> => auth = worker[Len(worker)].owner
           /\ \A i \in DOMAIN worker : worker[i].task = "write" =>
                 worker[i].owner = IF i = 1 THEN user ELSE worker[i - 1].owner

Numbered == /\ nextBatchId # 0
            /\ \A i \in DOMAIN worker : worker[i].task = "write" => worker[i].write \in 1..issued
            /\ \A u \in Users : \A i \in DOMAIN queue[u] : queue[u][i].write \in 1..issued

(* What the device reads on a stream was decided by the server.            *)
Decided == /\ net.handshake => \A i \in DOMAIN net.replies : net.replies[i].write \in committed
           /\ net.refusal => net.wire[1].write \in rejected

Queues == BatchIdsUnique /\ RightAccount /\ Follows /\ Numbered
Streams == Prefix(net, queue[user]) /\ Carries(net) /\ Decided
Inv == TypeOK /\ Queues /\ Streams

LEMMA SortedQueues ==
    ASSUME TypeOK, BatchIdsUnique, NEW u \in Users
    PROVE  queue[u] \in Seq(Batch) /\ Sorted(queue[u])
<1>1. queue[u] \in Seq(Batch)
  BY DEF TypeOK
<1>2. \A i \in DOMAIN queue[u] : queue[u][i].id \in Ids(queue[u])
  BY DEF Ids
<1>3. Ids(queue[u]) \subseteq 1..nextBatchId - 1 /\ nextBatchId \in Nat
  BY DEF BatchIdsUnique, TypeOK
<1>4. \A i \in DOMAIN queue[u] : queue[u][i].id \in Nat \ {0}
  BY <1>2, <1>3
<1>5. \A i, j \in DOMAIN queue[u] : i < j => queue[u][i].id < queue[u][j].id
  BY DEF BatchIdsUnique
<1> QED
  BY <1>1, <1>4, <1>5 DEF Sorted

LEMMA DecidedSilent == ASSUME Silent(net) PROVE Decided
BY DEF Silent, Decided

\* What a stream past its handshake carries.
LEMMA Carrying ==
    ASSUME Inv, net.handshake
    PROVE  /\ net.stream = "Open" /\ net.pipeline = net.replies \o net.wire
           /\ net.pipeline = SubSeq(queue[user], 1, Limit(queue[user]))
           /\ net.pipeline \in Seq(Batch) /\ net.replies \in Seq(Batch) /\ net.wire \in Seq(Batch)
           /\ \A i \in DOMAIN net.pipeline : net.pipeline[i] = queue[user][i] /\ i \in DOMAIN queue[user]
<1>1. /\ net.stream = "Open" /\ net.pipeline = net.replies \o net.wire
      /\ net.pipeline = SubSeq(queue[user], 1, Limit(queue[user]))
  BY DEF Inv, Streams, Carries, Prefix
<1>2. queue[user] \in Seq(Batch) /\ Limit(queue[user]) \in 0..Len(queue[user])
  BY Limited DEF Inv, TypeOK
<1>3. /\ net.pipeline \in Seq(Batch) /\ Len(net.pipeline) = Limit(queue[user])
      /\ \A i \in 1..Limit(queue[user]) : net.pipeline[i] = queue[user][i]
  BY <1>1, <1>2
<1>4. net.replies \in Seq(Message) /\ net.wire \in Seq(Message)
  BY DEF Inv, TypeOK, Net, Message
<1>5. net.replies \in Seq(Batch) /\ net.wire \in Seq(Batch)
  BY <1>1, <1>3, <1>4, Parts
<1> QED
  BY <1>1, <1>2, <1>3, <1>5

-----------------------------------------------------------------------------
(* Steps that change no queue *)

Counts == /\ committed \subseteq 1..issued /\ rejected \subseteq 1..issued
          /\ issued \in 0..MaxWrites /\ switches \in 0..MaxSwitches
          /\ faults \in 0..MaxFaults /\ rejects \in 0..MaxRejects

LEMMA Initially == Init => Inv
<1> SUFFICES ASSUME Init PROVE Inv
  OBVIOUS
<1>1. <<>> \in Seq(Batch) /\ <<>> \in Seq(Batch \cup {Hello}) /\ <<>> \in Seq(Task)
  BY EmptySeq
<1>2. TypeOK
  <2>1. /\ 0 \in 0..MaxWrites /\ 0 \in 0..MaxSwitches /\ 0 \in 0..MaxFaults /\ 0 \in 0..MaxRejects
    BY PipelineAssumption
  <2>2. net \in Net
    BY <1>1 DEF Init, EmptyNet, Net
  <2>3. queue \in [Users -> Seq(Batch)] /\ callbacks \in [Users -> SUBSET (1..nextBatchId)]
    BY <1>1 DEF Init
  <2> QED
    BY <1>1, <2>1, <2>2, <2>3 DEF Init, TypeOK
<1>3. Queues
  <2>1. \A u \in Users : queue[u] = <<>> /\ Ids(queue[u]) = {} /\ callbacks[u] = {}
    BY DEF Init, Ids
  <2> QED
    BY <2>1 DEF Init, Queues, BatchIdsUnique, RightAccount, Follows, Numbered
<1>4. Silent(net) /\ net.pipeline = <<>>
  BY DEF Init, EmptyNet, Silent
<1>5. Prefix(net, queue[user])
  <2>1. user \in Users /\ queue[user] = <<>> /\ queue[user] \in Seq(Batch)
    BY <1>1 DEF Init
  <2>2. Limit(queue[user]) = 0
    <3>1. Limit(queue[user]) \in 0..Len(queue[user])
      BY <2>1, Limited
    <3> QED
      BY <2>1, <3>1
  <2>3. SubSeq(queue[user], 1, 0) = <<>>
    BY <2>1
  <2> QED
    BY <1>4, <2>2, <2>3 DEF Prefix
<1> QED
  BY <1>2, <1>3, <1>4, <1>5, SilentCarries, DecidedSilent DEF Inv, Streams

\* A step of the stream alone.
LEMMA Streaming ==
    ASSUME Inv, UNCHANGED local, net' \in Net, Counts', issued' = issued, Streams'
    PROVE  Inv'
<1>1. TypeOK'
  BY DEF Inv, TypeOK, Counts, local
<1>2. Queues'
  BY DEF Inv, Queues, BatchIdsUnique, RightAccount, Follows, Numbered, local
<1> QED
  BY <1>1, <1>2 DEF Inv

LEMMA CountsNow == ASSUME TypeOK PROVE Counts
BY DEF TypeOK, Counts

LEMMA Quiet ==
    ASSUME Inv, UNCHANGED vars
    PROVE  Inv'
<1>1. Streams'
  BY DEF Inv, Streams, Prefix, Limit, Carries, Decided, IsStarted, vars, local
<1> QED
  BY <1>1, CountsNow, Streaming DEF Inv, TypeOK, Counts, vars, local, bounds

LEMMA Opening == ASSUME Inv, OnStreamOpen PROVE Inv'
<1>1. Silent(net) /\ net \in Net
  BY ClosedIsSilent DEF Inv, TypeOK, Streams, OnStreamOpen
<1>2. <<Hello>> \in Seq(Batch \cup {Hello}) /\ <<>> \o <<Hello>> = <<Hello>> /\ <<Hello>> # <<>>
  OBVIOUS
<1>3. net' \in Net
  BY <1>1, <1>2 DEF OnStreamOpen, Net
<1>4. /\ ~net'.handshake /\ ~net'.idle /\ ~net'.refusal /\ net'.stream = "Open"
      /\ net'.replies = <<>> /\ net'.wire = <<Hello>> /\ net'.pipeline = net.pipeline
  BY <1>1 DEF OnStreamOpen, Silent, Net
<1>5. Carries(net') /\ Decided'
  BY <1>2, <1>4 DEF Carries, Decided
<1>6. Prefix(net', queue[user])
  BY <1>4 DEF Inv, Streams, Prefix, IsStarted
<1>7. Streams'
  BY <1>5, <1>6 DEF Streams, OnStreamOpen, local, Prefix, Limit, Carries
<1> QED
  BY <1>3, <1>7, CountsNow, Streaming DEF Inv, OnStreamOpen, Counts, bounds

\* A step after which the stream carries nothing.
LEMMA Silencing ==
    ASSUME Inv, UNCHANGED local, net' \in Net, Counts', issued' = issued,
           Prefix(net', queue[user]), Silent(net')
    PROVE  Inv'
<1>1. Carries(net') /\ Decided'
  BY SilentCarries DEF Silent, Decided
<1>2. Streams'
  BY <1>1 DEF Streams, Prefix, Limit, Carries, local
<1> QED
  BY <1>2, Streaming

LEMMA Shaking == ASSUME Inv, OnHandshakeComplete PROVE Inv'
<1>1. /\ net \in Net /\ net.pipeline \in Seq(Batch) /\ net.pipeline \in Seq(Message)
      /\ net.replies \in Seq(Message) /\ net.wire \in Seq(Message)
      /\ net.replies # <<>> /\ ~net.handshake
  BY DEF Inv, TypeOK, Net, OnHandshakeComplete, Message
<1>2. net.replies \o net.wire \in {<<>>, <<Hello>>} /\ net.stream = "Open" /\ ~net.idle /\ ~net.refusal
  <2>1. net.replies \o net.wire # <<>>
    BY <1>1, BothEmpty
  <2> QED
    BY <1>1, <2>1 DEF Inv, Streams, Carries
<1>3. net.replies \o net.wire = <<Hello>>
  BY <1>1, <1>2, BothEmpty
<1>4. /\ Tail(net.replies) = <<>> /\ net.wire \o net.pipeline = net.pipeline
      /\ <<>> \o net.pipeline = net.pipeline /\ <<>> \in Seq(Message)
  <2>1. Tail(net.replies) = <<>> /\ net.wire = <<>>
    BY <1>1, <1>3, HelloAlone
  <2>2. <<>> \o net.pipeline = net.pipeline /\ <<>> \in Seq(Message)
    BY <1>1
  <2> QED
    BY <2>1, <2>2
<1>5. net' = [net EXCEPT !.handshake = TRUE, !.replies = <<>>,
                         !.wire = net.pipeline, !.idle = FALSE]
  BY <1>1, <1>2, <1>4 DEF OnHandshakeComplete
<1>6. /\ net' \in Net
      /\ net'.handshake /\ ~net'.idle /\ ~net'.refusal /\ net'.stream = "Open"
      /\ net'.replies = <<>> /\ net'.wire = net.pipeline /\ net'.pipeline = net.pipeline
  BY <1>1, <1>2, <1>4, <1>5 DEF Net, Message
<1>7. Carries(net') /\ Decided'
  BY <1>4, <1>6 DEF Carries, Decided
<1>8. Streams'
  BY <1>6, <1>7 DEF Inv, Streams, Prefix, Limit, IsStarted, Carries, OnHandshakeComplete, local
<1> QED
  BY <1>6, <1>8, CountsNow, Streaming DEF Inv, OnHandshakeComplete, Counts, bounds

LEMMA Breaking == ASSUME Inv, OnStreamBroken PROVE Inv'
<1>1. user \in Users /\ queue[user] \in Seq(Batch) /\ net \in Net
  BY DEF Inv, TypeOK
<1>2. Prefix(net, queue[user])
  BY DEF Inv, Streams
<1>3. net' \in Net /\ Prefix(net', queue[user]) /\ Silent(net')
  BY <1>1, <1>2, Reopening DEF OnStreamBroken
<1>4. Counts' /\ issued' = issued
  BY PipelineAssumption DEF Inv, TypeOK, Counts, OnStreamBroken
<1> QED
  BY <1>3, <1>4, Silencing DEF OnStreamBroken

LEMMA BackingOff == ASSUME Inv, BackoffElapsed PROVE Inv'
<1>1. Silent(net) /\ net \in Net
  BY ClosedIsSilent DEF Inv, TypeOK, Streams, BackoffElapsed
<1>2. net' \in Net /\ Silent(net') /\ net'.stream = "Starting" /\ net'.pipeline = net.pipeline
  BY <1>1 DEF BackoffElapsed, Silent, Net
<1>3. Prefix(net', queue[user])
  BY <1>2 DEF Inv, Streams, Prefix, IsStarted
<1>4. Counts' /\ issued' = issued
  BY DEF Inv, TypeOK, Counts, BackoffElapsed, bounds
<1> QED
  BY <1>2, <1>3, <1>4, Silencing DEF BackoffElapsed

LEMMA Idling == ASSUME Inv, IdleTimeout PROVE Inv'
<1>1. net \in Net /\ Carries(net) /\ net.pipeline = <<>>
  BY DEF Inv, TypeOK, Streams, Carries, IdleTimeout
<1>2. net' \in Net /\ Silent(net') /\ net'.pipeline = net.pipeline
  BY <1>1, Stopping DEF IdleTimeout
<1>3. Prefix(net', queue[user])
  BY <1>1, <1>2 DEF Inv, Streams, Prefix
<1>4. Counts' /\ issued' = issued
  BY DEF Inv, TypeOK, Counts, IdleTimeout, bounds
<1> QED
  BY <1>2, <1>3, <1>4, Silencing DEF IdleTimeout

LEMMA Reconnecting == ASSUME Inv, ConnectivityChange PROVE Inv'
<1>1. net \in Net /\ Carries(net) /\ user \in Users
  BY DEF Inv, TypeOK, Streams
<1>2. queue[user] \in Seq(Batch) /\ Sorted(queue[user])
  BY <1>1, SortedQueues DEF Inv, Queues
<1>3. net' \in Net /\ Prefix(net', queue[user]) /\ Silent(net')
  BY <1>1, <1>2, Restarting DEF ConnectivityChange
<1>4. Counts' /\ issued' = issued
  BY PipelineAssumption DEF Inv, TypeOK, Counts, ConnectivityChange
<1> QED
  BY <1>3, <1>4, Silencing DEF ConnectivityChange

-----------------------------------------------------------------------------
(* Steps of the server *)

LEMMA HelloIsNoBatch == Hello \notin Batch
<1>1. Hello.write = 0 /\ 0 \notin 1..MaxWrites
  BY PipelineAssumption DEF Hello
<1> QED
  BY <1>1 DEF Batch

\* A message answered is one message further.
LEMMA Moved ==
    ASSUME NEW s \in Seq(Message), NEW t \in Seq(Message), t # <<>>
    PROVE  /\ Append(s, Head(t)) \o Tail(t) = s \o t
           /\ Append(s, Head(t)) \in Seq(Message) /\ Tail(t) \in Seq(Message)
           /\ Head(t) = t[1] /\ Head(t) \in Message
           /\ Len(s) + 1 \in DOMAIN (s \o t) /\ (s \o t)[Len(s) + 1] = t[1]
           /\ \A i \in DOMAIN Append(s, Head(t)) :
                 Append(s, Head(t))[i] = IF i = Len(s) + 1 THEN t[1] ELSE s[i]
           /\ DOMAIN Append(s, Head(t)) = 1..Len(s) + 1 /\ DOMAIN s = 1..Len(s) /\ Len(s) \in Nat
  BY SMT

LEMMA HelloWaits ==
    ASSUME NEW s \in Seq(Message), NEW t \in Seq(Message), t # <<>>, s \o t = <<Hello>>
    PROVE  Head(t) = Hello
<1> DEFINE m == Len(s)  n == Len(t)
<1>1. m \in Nat /\ n \in Nat /\ n # 0
  BY LenProperties
<1>2. m + n = 1
  <2>1. Len(s \o t) = m + n
    BY Concatenated
  <2>2. Len(<<Hello>>) = 1
    OBVIOUS
  <2> QED
    BY <2>1, <2>2
<1>3. m = 0 /\ n = 1
  <2> HIDE DEF m, n
  <2> QED
    BY <1>1, <1>2
<1>4. s = <<>>
  BY <1>3
<1> QED
  BY <1>4

\* What waits for the server past the handshake is a batch of the queue.
LEMMA Waiting ==
    ASSUME Inv, net.wire # <<>>, Head(net.wire) # Hello
    PROVE  net.handshake /\ Head(net.wire).write \in 1..issued
<1>1. net.replies \in Seq(Message) /\ net.wire \in Seq(Message) /\ net.handshake \in BOOLEAN
  BY DEF Inv, TypeOK, Net, Message
<1>2. net.handshake
  <2> SUFFICES ASSUME ~net.handshake PROVE FALSE
    BY <1>1
  <2>1. net.replies \o net.wire = <<Hello>>
    <3>1. net.replies \o net.wire # <<>>
      BY <1>1, BothEmpty
    <3> QED
      BY <3>1 DEF Inv, Streams, Carries
  <2> QED
    BY <1>1, <2>1, HelloWaits
<1>3. \E i \in DOMAIN queue[user] : Head(net.wire) = queue[user][i]
  <2> DEFINE i == Len(net.replies) + 1
  <2>1. i \in DOMAIN (net.replies \o net.wire) /\ (net.replies \o net.wire)[i] = Head(net.wire)
    BY <1>1, Moved
  <2>2. i \in DOMAIN net.pipeline /\ net.pipeline[i] = Head(net.wire)
    BY <1>2, <2>1, Carrying
  <2> HIDE DEF i
  <2> QED
    BY <1>2, <2>2, Carrying
<1> QED
  BY <1>2, <1>3 DEF Inv, TypeOK, Queues, Numbered

LEMMA Greeting == ASSUME Inv, ServerHello PROVE Inv'
<1>1. /\ net \in Net /\ net.replies \in Seq(Message) /\ net.wire \in Seq(Message)
      /\ net.wire # <<>> /\ Head(net.wire) = Hello /\ net.handshake \in BOOLEAN
  BY DEF Inv, TypeOK, Net, ServerHello, Message
<1>2. ~net.handshake
  <2> SUFFICES ASSUME net.handshake PROVE FALSE
    BY <1>1
  <2>1. net.wire \in Seq(Batch)
    BY Carrying
  <2>2. Head(net.wire) \in Batch
    BY <1>1, <2>1
  <2> QED
    BY <1>1, <2>2, HelloIsNoBatch
<1>3. /\ net'.replies \o net'.wire = net.replies \o net.wire
      /\ net'.replies \in Seq(Message) /\ net'.wire \in Seq(Message)
  <2>1. net'.replies = Append(net.replies, Head(net.wire)) /\ net'.wire = Tail(net.wire)
    BY <1>1 DEF ServerHello, Net
  <2>2. LET s == Append(net.replies, Head(net.wire))
            t == Tail(net.wire)
        IN  s \o t = net.replies \o net.wire /\ s \in Seq(Message) /\ t \in Seq(Message)
    BY <1>1, Moved
  <2> QED
    BY <2>1, <2>2, Zenon
<1>4. /\ net' \in Net /\ net'.handshake = net.handshake /\ net'.pipeline = net.pipeline
      /\ net'.stream = net.stream /\ net'.idle = net.idle /\ net'.refusal = net.refusal
  BY <1>1, <1>3 DEF ServerHello, Net, Message
<1>5. ~net.refusal
  BY <1>1, <1>2 DEF Inv, Streams, Carries, Net
<1>6. Carries(net') /\ Decided'
  BY <1>2, <1>3, <1>4, <1>5 DEF Inv, Streams, Carries, Decided
<1>7. Streams'
  BY <1>4, <1>6 DEF Inv, Streams, Prefix, Limit, IsStarted, Carries, ServerHello, local
<1> QED
  BY <1>4, <1>7, CountsNow, Streaming DEF Inv, ServerHello, Counts, bounds

LEMMA Committing == ASSUME Inv, ServerCommit PROVE Inv'
<1>1. /\ net \in Net /\ net.replies \in Seq(Message) /\ net.wire \in Seq(Message)
      /\ net.wire # <<>> /\ ~net.refusal /\ net.handshake
      /\ Head(net.wire).write \in 1..issued
  BY Waiting DEF Inv, TypeOK, Net, ServerCommit, Message
<1>2. net'.replies = Append(net.replies, Head(net.wire)) /\ net'.wire = Tail(net.wire)
  BY <1>1 DEF ServerCommit, Net
<1>3. /\ net'.replies \o net'.wire = net.replies \o net.wire
      /\ net'.replies \in Seq(Message) /\ net'.wire \in Seq(Message)
  <2>1. LET s == Append(net.replies, Head(net.wire))
            t == Tail(net.wire)
        IN  s \o t = net.replies \o net.wire /\ s \in Seq(Message) /\ t \in Seq(Message)
    BY <1>1, Moved
  <2> QED
    BY <1>2, <2>1, Zenon
<1>4. /\ net' \in Net /\ net'.handshake = net.handshake /\ net'.pipeline = net.pipeline
      /\ net'.stream = net.stream /\ net'.idle = net.idle /\ net'.refusal = net.refusal
  BY <1>1, <1>3 DEF ServerCommit, Net, Message
<1>5. Carries(net')
  BY <1>1, <1>3, <1>4 DEF Inv, Streams, Carries
<1>6. \A i \in DOMAIN net'.replies : net'.replies[i].write \in committed'
  <2>1. \A i \in DOMAIN net.replies : net.replies[i].write \in committed'
    BY <1>1 DEF Inv, Streams, Decided, ServerCommit
  <2>2. net.wire[1].write \in committed'
    BY <1>1 DEF ServerCommit
  <2>3. /\ DOMAIN net'.replies = 1..Len(net.replies) + 1 /\ DOMAIN net.replies = 1..Len(net.replies)
        /\ \A i \in DOMAIN net'.replies :
              net'.replies[i] = IF i = Len(net.replies) + 1 THEN net.wire[1] ELSE net.replies[i]
        /\ Len(net.replies) \in Nat
    BY <1>1, <1>2, Moved
  <2> QED
    BY <2>1, <2>2, <2>3
<1>7. Streams'
  BY <1>1, <1>4, <1>5, <1>6
     DEF Inv, Streams, Prefix, Limit, IsStarted, Carries, Decided, ServerCommit, local
<1>8. Counts' /\ issued' = issued
  BY <1>1 DEF Inv, TypeOK, Counts, ServerCommit, bounds
<1> QED
  BY <1>4, <1>7, <1>8, Streaming DEF ServerCommit

LEMMA Rejecting == ASSUME Inv, ServerReject PROVE Inv'
<1>1. /\ net \in Net /\ net.wire # <<>> /\ net.handshake /\ net.wire \in Seq(Message)
      /\ Head(net.wire).write \in 1..issued
  BY Waiting DEF Inv, TypeOK, Net, ServerReject, Message
<1>2. /\ net' \in Net /\ net'.handshake = net.handshake /\ net'.pipeline = net.pipeline
      /\ net'.stream = net.stream /\ net'.idle = net.idle
      /\ net'.replies = net.replies /\ net'.wire = net.wire
  BY <1>1 DEF ServerReject, Net
<1>3. Carries(net')
  BY <1>1, <1>2 DEF Inv, Streams, Carries
<1>4. Decided'
  <2>1. net.wire[1].write \in rejected'
    BY <1>1 DEF ServerReject
  <2> QED
    BY <1>1, <1>2, <2>1 DEF Inv, Streams, Decided, ServerReject
<1>5. Streams'
  BY <1>2, <1>3, <1>4 DEF Inv, Streams, Prefix, Limit, IsStarted, Carries, ServerReject, local
<1>6. Counts' /\ issued' = issued
  <2>1. rejects' \in 0..MaxRejects
    BY PipelineAssumption DEF Inv, TypeOK, ServerReject
  <2>2. rejected' \subseteq 1..issued
    BY <1>1 DEF Inv, TypeOK, ServerReject
  <2> QED
    BY <2>1, <2>2 DEF Inv, TypeOK, Counts, ServerReject
<1> QED
  BY <1>2, <1>5, <1>6, Streaming DEF ServerReject

-----------------------------------------------------------------------------
(* Steps that take the first batch out of the current queue *)

\* The first batch of the pipeline is that of the queue.
LEMMA First ==
    ASSUME Inv, net.pipeline # <<>>
    PROVE  /\ queue[user] \in Seq(Batch) /\ Sorted(queue[user]) /\ queue[user] # <<>>
           /\ Head(net.pipeline) = queue[user][1] /\ 1 \in DOMAIN queue[user]
           /\ Limit(queue[user]) \in 1..Len(queue[user]) /\ Limit(queue[user]) <= MaxPending
           /\ net.pipeline = SubSeq(queue[user], 1, Limit(queue[user]))
<1> DEFINE q == queue[user]
<1>1. q \in Seq(Batch) /\ Sorted(q) /\ net.pipeline = SubSeq(q, 1, Limit(q))
  BY SortedQueues DEF Inv, TypeOK, Queues, Streams, Prefix
<1> HIDE DEF q
<1>2. Limit(q) \in 0..Len(q) /\ Limit(q) <= MaxPending /\ Len(q) \in Nat
  BY <1>1, Limited
<1>3. Limit(q) # 0
  BY <1>1, <1>2
<1>4. Limit(q) \in 1..Len(q) /\ q # <<>> /\ 1 \in DOMAIN q
  BY <1>1, <1>2, <1>3
<1>5. Head(net.pipeline) = q[1]
  BY <1>1, <1>4
<1> QED
  BY <1>1, <1>2, <1>4, <1>5 DEF q

LEMMA Removing ==
    ASSUME Inv, net.pipeline # <<>>, RemoveBatch(Head(net.pipeline)), issued' = issued
    PROVE  /\ queue' = [queue EXCEPT ![user] = Tail(@)]
           /\ queue'[user] = Tail(queue[user])
           /\ queue' \in [Users -> Seq(Batch)]
           /\ callbacks' \in [Users -> SUBSET (1..nextBatchId)]
           /\ Queues'
<1> DEFINE q == queue[user]
           b == q[1]
<1>1. /\ user \in Users /\ queue \in [Users -> Seq(Batch)] /\ nextBatchId \in Nat
      /\ callbacks \in [Users -> SUBSET (1..nextBatchId)]
  BY DEF Inv, TypeOK
<1>2. q \in Seq(Batch) /\ Sorted(q) /\ q # <<>> /\ Head(net.pipeline) = b
  BY First
<1>3. /\ Row(q, b) = 1 /\ RemoveAt(q, 1) = Tail(q)
      /\ Tail(q) \in Seq(Batch) /\ Len(Tail(q)) = Len(q) - 1 /\ Len(q) \in Nat
      /\ \A i \in 1..Len(q) - 1 : Tail(q)[i] = q[i + 1]
      /\ Len(q) > 0
  <2> HIDE DEF q
  <2>1. Len(q) \in Nat /\ Len(q) > 0
    BY <1>2
  <2> QED
    BY <1>2, <2>1, Heading DEF b
<1>4. /\ queue' = [queue EXCEPT ![user] = Tail(q)]
      /\ callbacks' = [callbacks EXCEPT ![user] = @ \ {b.id}]
      /\ UNCHANGED <<auth, worker, user, nextBatchId>>
  BY <1>1, <1>2, <1>3 DEF RemoveBatch
<1>5. /\ queue' \in [Users -> Seq(Batch)] /\ queue'[user] = Tail(q)
      /\ \A u \in Users \ {user} : queue'[u] = queue[u]
  BY <1>1, <1>3, <1>4
<1>6. /\ callbacks' \in [Users -> SUBSET (1..nextBatchId)]
      /\ callbacks'[user] = callbacks[user] \ {b.id}
      /\ \A u \in Users \ {user} : callbacks'[u] = callbacks[u]
  BY <1>1, <1>4
\* Each batch that is left is a batch that was there, of the same queue.
<1>7. \A u \in Users : \A i \in DOMAIN queue'[u] :
         LET j == IF u = user THEN i + 1 ELSE i
         IN  j \in DOMAIN queue[u] /\ queue'[u][i] = queue[u][j] /\ i \in Nat
  <2> TAKE u \in Users
  <2>1. CASE u = user
    <3>1. queue'[u] = Tail(q) /\ queue[u] = q /\ q \in Seq(Batch)
      BY <1>2, <1>5, <2>1
    <3> HIDE DEF q
    <3> QED
      BY <1>3, <2>1, <3>1
  <2>2. CASE u # user
    BY <1>1, <1>5, <2>2
  <2> QED
    BY <2>1, <2>2
<1>8. Ids(queue'[user]) = Ids(q) \ {b.id}
  <2>1. DOMAIN queue'[user] = 1..Len(q) - 1 /\ DOMAIN q = 1..Len(q)
    BY <1>2, <1>3, <1>5
  <2>2. \A i \in DOMAIN q : q[i].id = b.id => i = 1
    BY <1>2, <1>3, <2>1 DEF Sorted
  <2>3. \A i \in DOMAIN q : i # 1 => i - 1 \in DOMAIN queue'[user] /\ queue'[user][i - 1] = q[i]
    BY <1>3, <1>5, <2>1
  <2>4. \A i \in DOMAIN queue'[user] : i + 1 \in DOMAIN q /\ i + 1 # 1 /\ queue'[user][i] = q[i + 1]
    BY <1>3, <1>5, <2>1
  <2> QED
    BY <2>2, <2>3, <2>4 DEF Ids
<1> HIDE DEF q, b
<1>9. BatchIdsUnique'
  <2>1. ASSUME NEW u \in Users, NEW v \in Users, NEW i \in DOMAIN queue'[u], NEW j \in DOMAIN queue'[v]
        PROVE  /\ queue'[u][i].id = queue'[v][j].id => u = v /\ i = j
               /\ u = v /\ i < j => queue'[u][i].id < queue'[v][j].id
    <3> DEFINE k == IF u = user THEN i + 1 ELSE i
               l == IF v = user THEN j + 1 ELSE j
    <3>1. /\ k \in DOMAIN queue[u] /\ queue'[u][i] = queue[u][k] /\ i \in Nat
          /\ l \in DOMAIN queue[v] /\ queue'[v][j] = queue[v][l] /\ j \in Nat
      BY <1>7
    <3>2. /\ queue[u][k].id = queue[v][l].id => u = v /\ k = l
          /\ u = v /\ k < l => queue[u][k].id < queue[v][l].id
      BY <3>1 DEF Inv, Queues, BatchIdsUnique
    <3>3. u = v => (k = l <=> i = j) /\ (k < l <=> i < j)
      BY <3>1
    <3> HIDE DEF k, l
    <3> QED
      BY <3>1, <3>2, <3>3
  <2>2. \A u \in Users : Ids(queue'[u]) \subseteq 1..(nextBatchId - 1) /\ callbacks'[u] \subseteq Ids(queue'[u])
    <3> TAKE u \in Users
    <3>1. Ids(queue[u]) \subseteq 1..(nextBatchId - 1) /\ callbacks[u] \subseteq Ids(queue[u])
      BY DEF Inv, Queues, BatchIdsUnique
    <3>2. CASE u = user
      BY <1>6, <1>8, <3>1, <3>2 DEF q
    <3>3. CASE u # user
      BY <1>5, <1>6, <3>1, <3>3
    <3> QED
      BY <3>2, <3>3
  <2> QED
    BY <1>4, <2>1, <2>2 DEF BatchIdsUnique, Ids
<1>10. RightAccount' /\ Numbered' /\ Follows'
  <2>1. RightAccount'
    BY <1>7 DEF Inv, Queues, RightAccount
  <2>2. Numbered'
    BY <1>4, <1>7 DEF Inv, Queues, Numbered
  <2>3. Follows'
    BY <1>4 DEF Inv, Queues, Follows
  <2> QED
    BY <2>1, <2>2, <2>3
<1> QED
  BY <1>4, <1>5, <1>6, <1>9, <1>10 DEF Queues, q

\* What is left of a step of the device once its parts are known.
LEMMA Assembling ==
    ASSUME Inv, user' \in Users, auth' \in Users, worker' \in Seq(Task),
           queue' \in [Users -> Seq(Batch)], nextBatchId' \in Nat,
           callbacks' \in [Users -> SUBSET (1..nextBatchId')], net' \in Net, Counts',
           Queues', Prefix(net', queue'[user']), Carries(net'), Decided'
    PROVE  Inv'
<1>1. TypeOK'
  BY DEF TypeOK, Counts
<1>2. Streams'
  BY DEF Streams, Prefix, Limit, Carries
<1> QED
  BY <1>1, <1>2 DEF Inv

LEMMA TailOfConcat ==
    ASSUME NEW S, NEW s \in Seq(S), NEW t \in Seq(S), s # <<>>
    PROVE  Tail(s \o t) = Tail(s) \o t /\ Tail(s) \in Seq(S)
<1>1. Tail(s) \in Seq(S) /\ Len(Tail(s)) = Len(s) - 1 /\ Len(s) \in Nat /\ Len(s) > 0
      /\ \A i \in 1..Len(s) - 1 : Tail(s)[i] = s[i + 1]
  OBVIOUS
<1>2. /\ s \o t \in Seq(S) /\ Len(s \o t) = Len(s) + Len(t) /\ Len(t) \in Nat
      /\ \A i \in 1..Len(s) : (s \o t)[i] = s[i]
      /\ \A i \in 1..Len(t) : (s \o t)[Len(s) + i] = t[i]
  BY SMT
<1>3. /\ Tail(s) \o t \in Seq(S) /\ Len(Tail(s) \o t) = Len(s) - 1 + Len(t)
      /\ \A i \in 1..Len(s) - 1 : (Tail(s) \o t)[i] = s[i + 1]
      /\ \A i \in 1..Len(t) : (Tail(s) \o t)[Len(s) - 1 + i] = t[i]
  BY <1>1, SMT
<1> DEFINE p == s \o t  r == Tail(s) \o t
<1>4. /\ Tail(p) \in Seq(S) /\ Len(Tail(p)) = Len(p) - 1
      /\ \A i \in 1..Len(p) - 1 : Tail(p)[i] = p[i + 1]
  <2> HIDE DEF p
  <2>1. p \in Seq(S) /\ Len(p) > 0
    BY <1>1, <1>2 DEF p
  <2> QED
    BY <2>1
<1> HIDE DEF p, r
<1>5. \A i \in 1..Len(r) : Tail(p)[i] = r[i]
  <2> TAKE i \in 1..Len(r)
  <2>1. CASE i < Len(s)
    BY <1>1, <1>2, <1>3, <1>4, <2>1 DEF p, r
  <2>2. CASE i >= Len(s)
    <3> DEFINE j == i - (Len(s) - 1)
    <3>1. j \in 1..Len(t) /\ Len(s) - 1 + j = i /\ Len(s) + j = i + 1
      BY <1>1, <1>2, <1>3, <2>2 DEF r
    <3>2. r[i] = t[j] /\ p[i + 1] = t[j]
      BY <1>2, <1>3, <3>1 DEF p, r
    <3>3. Tail(p)[i] = p[i + 1]
      BY <1>1, <1>2, <1>3, <1>4 DEF p, r
    <3> QED
      BY <3>2, <3>3
  <2>3. i \in Nat /\ Len(s) \in Nat
    BY <1>1
  <2>4. i < Len(s) \/ i >= Len(s)
    BY <2>3
  <2> QED
    BY <2>1, <2>2, <2>4
<1>6. Len(Tail(p)) = Len(r) /\ r \in Seq(S) /\ Tail(p) \in Seq(S)
  BY <1>1, <1>2, <1>3, <1>4 DEF p, r
<1>7. Tail(p) = r
  BY <1>5, <1>6, SeqEqual
<1> QED
  BY <1>1, <1>7 DEF p, r


LEMMA TailConcat ==
    ASSUME NEW s \in Seq(Message), NEW t \in Seq(Message), s # <<>>
    PROVE  Tail(s \o t) = Tail(s) \o t /\ Tail(s) \in Seq(Message)
  BY TailOfConcat

LEMMA Acknowledging == ASSUME Inv, OnMutationResult PROVE Inv'
<1> DEFINE q == queue[user]
           t == Tail(q)
           k == Limit(q) - 1
           m == [net EXCEPT !.pipeline = Tail(@), !.replies = Tail(@)]
           f == FillWritePipeline(m, t)
<1>1. /\ net.replies # <<>> /\ net.handshake /\ RemoveBatch(Head(net.pipeline))
      /\ net' = FillWritePipeline(m, queue'[user]) /\ UNCHANGED <<committed, rejected, bounds>>
  BY DEF OnMutationResult
<1>2. /\ net \in Net /\ net.stream = "Open" /\ net.pipeline = net.replies \o net.wire
      /\ net.pipeline \in Seq(Batch) /\ net.replies \in Seq(Batch) /\ net.wire \in Seq(Batch)
  BY <1>1, Carrying DEF Inv, TypeOK
<1>3. net.pipeline # <<>>
  BY <1>1, <1>2, BothEmpty
<1>4. /\ q \in Seq(Batch) /\ Sorted(q) /\ q # <<>>
      /\ Limit(q) \in 1..Len(q) /\ Limit(q) <= MaxPending
      /\ net.pipeline = SubSeq(q, 1, Limit(q))
  BY <1>3, First
<1>5. /\ queue'[user] = t /\ queue' \in [Users -> Seq(Batch)]
      /\ callbacks' \in [Users -> SUBSET (1..nextBatchId)] /\ Queues'
  BY <1>1, <1>3, Removing DEF bounds
<1> HIDE DEF q
<1>6. t \in Seq(Batch) /\ Sorted(t) /\ Len(t) = Len(q) - 1 /\ Len(q) \in Nat
  BY <1>4, Heading
<1>7. Tail(net.pipeline) = SubSeq(t, 1, k) /\ k \in 0..Len(t) /\ k <= MaxPending
  BY <1>4, <1>6, PipelineAssumption
<1>8. Tail(net.pipeline) = Tail(net.replies) \o net.wire
  <2>1. net.replies \in Seq(Message) /\ net.wire \in Seq(Message)
    BY <1>2 DEF Inv, TypeOK, Net, Message
  <2> QED
    BY <1>1, <1>2, <2>1, TailConcat
<1>9. /\ m \in Net /\ m.pipeline = Tail(net.pipeline) /\ m.replies = Tail(net.replies)
      /\ m.wire = net.wire /\ m.handshake /\ m.stream = "Open"
      /\ m.idle = net.idle /\ m.refusal = net.refusal
  <2>1. Tail(net.replies) \in Seq(Batch \cup {Hello}) /\ Tail(net.pipeline) \in Seq(Batch)
    BY <1>1, <1>2, <1>3
  <2> QED
    BY <1>1, <1>2, <2>1 DEF Net
<1> HIDE DEF m, t, k
<1>10. Holds(m, t, k)
  BY <1>6, <1>7, <1>9 DEF Holds
<1>11. Carries(m)
  <2>1. ~net.idle /\ (net.refusal => net.wire # <<>>)
    BY <1>1, <1>3 DEF Inv, Streams, Carries
  <2> QED
    BY <1>8, <1>9, <2>1 DEF Carries
<1>12. Carries(f)
  BY <1>6, <1>9, <1>10, <1>11, FillingCarries
<1>13. /\ f \in Net /\ Prefix(f, t)
       /\ f.handshake /\ f.replies = Tail(net.replies) /\ f.refusal = net.refusal
       /\ New(t, k) \in Seq(Batch) /\ f.wire = net.wire \o New(t, k)
  <2>1. Ready(m)
    BY <1>9 DEF Ready
  <2> QED
    <3>1. /\ f \in Net /\ f.pipeline = SubSeq(t, 1, Limit(t))
          /\ New(t, k) \in Seq(Batch)
          /\ f.pipeline # <<>> => IsStarted(f)
          /\ f.handshake = m.handshake /\ f.replies = m.replies /\ f.refusal = m.refusal
          /\ f.wire = IF Ready(m) THEN m.wire \o New(t, k) ELSE m.wire
      BY <1>6, <1>10, Filling
    <3> HIDE DEF f
    <3> QED
      BY <1>9, <2>1, <3>1 DEF Prefix
<1>14. net' = f
  BY <1>1, <1>5
<1> HIDE DEF f
<1>15. Decided'
  <2>1. \A i \in DOMAIN Tail(net.replies) : Tail(net.replies)[i].write \in committed
    <3>1. \A i \in DOMAIN net.replies : net.replies[i].write \in committed
      BY <1>1 DEF Inv, Streams, Decided
    <3>2. \A i \in DOMAIN Tail(net.replies) :
             i + 1 \in DOMAIN net.replies /\ Tail(net.replies)[i] = net.replies[i + 1]
      BY <1>1, <1>2
    <3> QED
      BY <3>1, <3>2
  <2>2. net.refusal => f.wire[1].write \in rejected
    <3> SUFFICES ASSUME net.refusal PROVE f.wire[1].write \in rejected
      OBVIOUS
    <3>1. net.wire # <<>> /\ net.wire[1].write \in rejected
      BY DEF Inv, Streams, Decided, Carries
    <3>2. f.wire[1] = net.wire[1]
      BY <1>2, <1>13, <3>1
    <3> QED
      BY <3>1, <3>2
  <2>3. UNCHANGED <<committed, rejected>>
    BY <1>1
  <2> QED
    BY <1>13, <1>14, <2>1, <2>2, <2>3 DEF Decided
<1>16. Counts' /\ UNCHANGED <<auth, worker, user, nextBatchId>>
  BY <1>1 DEF Inv, TypeOK, Counts, bounds, RemoveBatch
<1>17. Prefix(net', queue'[user'])
  BY <1>5, <1>13, <1>14, <1>16
<1> QED
  BY <1>5, <1>12, <1>13, <1>14, <1>15, <1>16, <1>17, Assembling DEF Inv, TypeOK

LEMMA Refused == ASSUME Inv, OnRefusal PROVE Inv'
<1>1. /\ net.refusal /\ RemoveBatch(Head(net.pipeline)) /\ net.replies = <<>>
      /\ net' = CloseRefused(net, queue'[user]) /\ UNCHANGED <<committed, rejected, bounds>>
  BY DEF OnRefusal
<1>2. net \in Net /\ net.handshake /\ net.wire # <<>>
  BY <1>1 DEF Inv, TypeOK, Streams, Carries
<1>3. net.pipeline # <<>>
  <2>1. net.pipeline = net.replies \o net.wire /\ net.wire \in Seq(Batch) /\ net.replies \in Seq(Batch)
    BY <1>2, Carrying
  <2> QED
    BY <1>2, <2>1, BothEmpty
<1>4. queue[user] \in Seq(Batch) /\ Sorted(queue[user]) /\ queue[user] # <<>>
  BY <1>3, First
<1>5. /\ queue'[user] = Tail(queue[user]) /\ queue' \in [Users -> Seq(Batch)]
      /\ callbacks' \in [Users -> SUBSET (1..nextBatchId)] /\ Queues'
  BY <1>1, <1>3, Removing DEF bounds
<1>6. net' \in Net /\ Prefix(net', Tail(queue[user])) /\ Silent(net')
  BY <1>1, <1>2, <1>4, <1>5, Refusing DEF Inv, Streams
<1>7. Carries(net') /\ Decided'
  BY <1>6, SilentCarries DEF Silent, Decided
<1>8. Counts' /\ UNCHANGED <<auth, worker, user, nextBatchId>>
  BY <1>1 DEF Inv, TypeOK, Counts, bounds, RemoveBatch
<1>9. Prefix(net', queue'[user'])
  BY <1>5, <1>6, <1>8
<1> QED
  BY <1>5, <1>6, <1>7, <1>8, <1>9, Assembling DEF Inv, TypeOK

-----------------------------------------------------------------------------
(* Steps of the app and of the worker queue *)

\* A task put on the worker queue, and the tasks left when the first has run.
LEMMA TaskAdded ==
    ASSUME NEW s \in Seq(Task), NEW t \in Task
    PROVE  /\ Append(s, t) \in Seq(Task) /\ Append(s, t) # <<>>
           /\ Len(s) \in Nat /\ Len(Append(s, t)) = Len(s) + 1
           /\ DOMAIN s = 1..Len(s) /\ DOMAIN Append(s, t) = 1..Len(s) + 1
           /\ \A i \in 1..Len(s) : Append(s, t)[i] = s[i]
           /\ Append(s, t)[Len(s) + 1] = t
           /\ s = <<>> <=> Len(s) = 0
<1>1. /\ Append(s, t) \in Seq(Task) /\ Append(s, t) # <<>>
      /\ Len(s) \in Nat /\ Len(Append(s, t)) = Len(s) + 1
      /\ DOMAIN s = 1..Len(s) /\ DOMAIN Append(s, t) = 1..Len(s) + 1
  OBVIOUS
<1>2. /\ \A i \in 1..Len(s) : Append(s, t)[i] = s[i]
      /\ Append(s, t)[Len(s) + 1] = t
  OBVIOUS
<1>3. s = <<>> <=> Len(s) = 0
  OBVIOUS
<1> QED
  BY <1>1, <1>2, <1>3

LEMMA TaskDone ==
    ASSUME NEW s \in Seq(Task), s # <<>>
    PROVE  /\ Head(s) = s[1] /\ Head(s) \in Task
           /\ Tail(s) \in Seq(Task) /\ Len(s) \in Nat /\ Len(s) > 0
           /\ DOMAIN s = 1..Len(s) /\ DOMAIN Tail(s) = 1..Len(s) - 1
           /\ Len(Tail(s)) = Len(s) - 1
           /\ \A i \in 1..Len(s) - 1 : Tail(s)[i] = s[i + 1]
           /\ Tail(s) = <<>> <=> Len(s) = 1
<1>1. /\ Head(s) = s[1] /\ Head(s) \in Task
      /\ Tail(s) \in Seq(Task) /\ Len(s) \in Nat /\ Len(s) > 0
      /\ DOMAIN s = 1..Len(s) /\ DOMAIN Tail(s) = 1..Len(s) - 1
      /\ Len(Tail(s)) = Len(s) - 1
  OBVIOUS
<1>2. \A i \in 1..Len(s) - 1 : Tail(s)[i] = s[i + 1]
  OBVIOUS
<1>3. Tail(s) = <<>> <=> Len(s) = 1
  <2>1. Tail(s) = <<>> <=> Len(Tail(s)) = 0
    BY <1>1, EmptySeq
  <2> QED
    BY <1>1, <2>1
<1> QED
  BY <1>1, <1>2, <1>3

LEMMA Enqueuing ==
    ASSUME Inv, NEW t \in Task, worker' = Append(worker, t), auth' = t.owner,
           UNCHANGED <<user, queue, nextBatchId, callbacks, net, committed, rejected>>,
           t.task = "write" => t.owner = auth /\ t.write \in 1..issued',
           issued' \in Nat, issued <= issued', Counts'
    PROVE  Inv'
<1>1. worker \in Seq(Task) /\ issued \in Nat
  BY PipelineAssumption DEF Inv, TypeOK
<1>2. /\ worker' \in Seq(Task) /\ worker' # <<>>
      /\ Len(worker) \in Nat /\ Len(worker') = Len(worker) + 1
      /\ DOMAIN worker = 1..Len(worker) /\ DOMAIN worker' = 1..Len(worker) + 1
      /\ \A i \in 1..Len(worker) : worker'[i] = worker[i]
      /\ worker'[Len(worker) + 1] = t
      /\ worker = <<>> <=> Len(worker) = 0
  BY <1>1, TaskAdded
<1>3. Follows'
  <2>1. auth' = worker'[Len(worker')].owner
    BY <1>2
  <2>2. ASSUME NEW i \in DOMAIN worker', worker'[i].task = "write"
        PROVE  worker'[i].owner = IF i = 1 THEN user ELSE worker'[i - 1].owner
    <3>1. CASE i \in 1..Len(worker)
      <4>1. i # 1 => i - 1 \in 1..Len(worker)
        BY <1>2, <3>1
      <4> QED
        BY <1>2, <2>2, <3>1, <4>1 DEF Inv, Queues, Follows
    <3>2. CASE i = Len(worker) + 1
      <4>1. worker'[i] = t /\ t.owner = auth
        BY <1>2, <2>2, <3>2
      <4>2. CASE i = 1
        <5>1. worker = <<>>
          BY <1>2, <3>2, <4>2
        <5>2. auth = user
          BY <5>1 DEF Inv, Queues, Follows
        <5> QED
          BY <4>1, <4>2, <5>2
      <4>3. CASE i # 1
        <5>1. worker # <<>> /\ i - 1 = Len(worker) /\ i - 1 \in 1..Len(worker)
          BY <1>2, <3>2, <4>3
        <5>2. auth = worker[i - 1].owner
          BY <5>1 DEF Inv, Queues, Follows
        <5> QED
          BY <1>2, <4>1, <4>3, <5>1, <5>2
      <4> QED
        BY <4>2, <4>3
    <3> QED
      BY <1>2, <3>1, <3>2
  <2> QED
    BY <1>2, <2>1, <2>2 DEF Follows
<1>4. Numbered'
  <2>1. ASSUME NEW i \in DOMAIN worker', worker'[i].task = "write" PROVE worker'[i].write \in 1..issued'
    <3>1. CASE i \in 1..Len(worker)
      <4>1. worker'[i].write \in 1..issued
        BY <1>2, <2>1, <3>1 DEF Inv, Queues, Numbered
      <4> QED
        BY <1>1, <4>1
    <3>2. CASE i = Len(worker) + 1
      BY <1>2, <2>1, <3>2
    <3> QED
      BY <1>2, <3>1, <3>2
  <2>2. \A u \in Users : \A i \in DOMAIN queue[u] : queue[u][i].write \in 1..issued'
    BY <1>1 DEF Inv, Queues, Numbered
  <2> QED
    BY <2>1, <2>2 DEF Inv, Queues, Numbered
<1>5. BatchIdsUnique' /\ RightAccount'
  BY DEF Inv, Queues, BatchIdsUnique, RightAccount
<1>6. Streams'
  BY DEF Inv, Streams, Prefix, Limit, Carries, Decided, IsStarted
<1>7. auth' \in Users
  BY DEF Task
<1>8. TypeOK'
  BY <1>2, <1>7 DEF Inv, TypeOK, Counts
<1> QED
  BY <1>3, <1>4, <1>5, <1>6, <1>8 DEF Inv, Queues

LEMMA Writing == ASSUME Inv, WriteMutations PROVE Inv'
<1> DEFINE t == [task |-> "write", write |-> issued + 1, owner |-> auth]
<1>1. issued \in 0..MaxWrites /\ issued < MaxWrites /\ MaxWrites \in Nat /\ auth \in Users
  BY PipelineAssumption DEF Inv, TypeOK, WriteMutations
<1>2. /\ issued' = issued + 1 /\ issued' \in 0..MaxWrites /\ issued' \in Nat /\ issued <= issued'
      /\ issued + 1 \in 1..MaxWrites /\ issued + 1 \in 1..issued' /\ 1..issued \subseteq 1..issued'
  BY <1>1 DEF WriteMutations
<1>3. t \in Task /\ t.owner = auth /\ t.write = issued + 1
  BY <1>1, <1>2 DEF Task
<1>4. Counts'
  BY <1>2 DEF Inv, TypeOK, Counts, WriteMutations
<1>5. worker' = Append(worker, t) /\ auth' = t.owner
  BY <1>3 DEF WriteMutations
<1> HIDE DEF t
<1> QED
  BY <1>2, <1>3, <1>4, <1>5, Enqueuing DEF WriteMutations

LEMMA SigningIn == ASSUME Inv, NEW u \in Users, CredentialChange(u) PROVE Inv'
<1> DEFINE t == [task |-> "user", owner |-> u]
<1>1. t \in Task /\ t.owner = u /\ t.task # "write"
  BY DEF Task
<1>2. Counts' /\ issued' \in Nat /\ issued <= issued'
  BY PipelineAssumption DEF Inv, TypeOK, Counts, CredentialChange
<1>3. worker' = Append(worker, t) /\ auth' = t.owner
  BY <1>1 DEF CredentialChange
<1> HIDE DEF t
<1> QED
  BY <1>1, <1>2, <1>3, Enqueuing DEF CredentialChange

\* When a task has run, the next one follows the account it left.
LEMMA Proceeding ==
    ASSUME Inv, worker # <<>>, worker' = Tail(worker), UNCHANGED <<auth, issued>>,
           user' = Head(worker).owner
    PROVE  /\ worker' \in Seq(Task) /\ Follows'
           /\ \A i \in DOMAIN worker' : worker'[i].task = "write" => worker'[i].write \in 1..issued
<1>1. worker \in Seq(Task)
  BY DEF Inv, TypeOK
<1>2. /\ Head(worker) = worker[1] /\ worker' \in Seq(Task) /\ Len(worker) \in Nat /\ Len(worker) > 0
      /\ DOMAIN worker = 1..Len(worker) /\ DOMAIN worker' = 1..Len(worker) - 1
      /\ Len(worker') = Len(worker) - 1
      /\ \A i \in 1..Len(worker) - 1 : worker'[i] = worker[i + 1]
      /\ worker' = <<>> <=> Len(worker) = 1
  BY <1>1, TaskDone
<1>3. \A i \in DOMAIN worker' : i \in Nat \ {0} /\ i + 1 \in DOMAIN worker /\ worker'[i] = worker[i + 1]
  BY <1>2
<1>4. auth = worker[Len(worker)].owner
  BY DEF Inv, Queues, Follows
<1>5. worker' = <<>> => auth' = user'
  BY <1>2, <1>4
<1>6. worker' # <<>> => auth' = worker'[Len(worker')].owner
  <2> SUFFICES ASSUME worker' # <<>> PROVE auth' = worker'[Len(worker')].owner
    OBVIOUS
  <2>1. Len(worker') \in DOMAIN worker' /\ Len(worker') + 1 = Len(worker)
    BY <1>2
  <2> QED
    BY <1>3, <1>4, <2>1
<1>7. ASSUME NEW i \in DOMAIN worker', worker'[i].task = "write"
      PROVE  worker'[i].owner = IF i = 1 THEN user' ELSE worker'[i - 1].owner
  <2>1. i \in Nat \ {0} /\ i + 1 \in DOMAIN worker /\ worker'[i] = worker[i + 1]
    BY <1>3
  <2>2. worker[i + 1].owner = worker[i].owner
    <3>1. i + 1 # 1 /\ (i + 1) - 1 = i
      BY <2>1
    <3> QED
      BY <1>7, <2>1, <3>1 DEF Inv, Queues, Follows
  <2>3. CASE i = 1
    BY <1>2, <2>1, <2>2, <2>3
  <2>4. CASE i # 1
    <3>1. i - 1 \in DOMAIN worker' /\ (i - 1) + 1 = i
      BY <1>2, <2>1, <2>4
    <3>2. worker'[i - 1] = worker[i]
      BY <1>3, <3>1
    <3> QED
      BY <2>1, <2>2, <2>4, <3>2
  <2> QED
    BY <2>3, <2>4
<1>8. Follows'
  BY <1>5, <1>6, <1>7 DEF Follows
<1> QED
  BY <1>2, <1>3, <1>8 DEF Inv, Queues, Numbered

\* A new batch, numbered after all the others of the device.
LEMMA Queueing ==
    ASSUME TypeOK, Queues, NEW b \in Batch, b.id = nextBatchId, nextBatchId # 0,
           b.owner = user, b.write \in 1..issued,
           queue' = [queue EXCEPT ![user] = Append(@, b)],
           callbacks' = [callbacks EXCEPT ![user] = @ \cup {b.id}],
           nextBatchId' = nextBatchId + 1, issued' = issued
    PROVE  /\ queue' \in [Users -> Seq(Batch)] /\ queue'[user] = Append(queue[user], b)
           /\ callbacks' \in [Users -> SUBSET (1..nextBatchId')]
           /\ BatchIdsUnique' /\ RightAccount'
           /\ \A u \in Users : \A i \in DOMAIN queue'[u] : queue'[u][i].write \in 1..issued
<1> DEFINE q == queue[user]
<1>1. /\ user \in Users /\ q \in Seq(Batch) /\ queue \in [Users -> Seq(Batch)]
      /\ nextBatchId \in Nat /\ callbacks \in [Users -> SUBSET (1..nextBatchId)]
  BY DEF TypeOK
<1>2. /\ Append(q, b) \in Seq(Batch) /\ Len(q) \in Nat
      /\ DOMAIN q = 1..Len(q) /\ DOMAIN Append(q, b) = 1..Len(q) + 1
      /\ \A i \in 1..Len(q) : Append(q, b)[i] = q[i]
      /\ Append(q, b)[Len(q) + 1] = b
  <2> HIDE DEF q
  <2> QED
    BY <1>1
<1>3. /\ queue' \in [Users -> Seq(Batch)] /\ queue'[user] = Append(q, b)
      /\ \A u \in Users \ {user} : queue'[u] = queue[u]
  BY <1>1, <1>2
<1>4. /\ callbacks'[user] = callbacks[user] \cup {b.id}
      /\ \A u \in Users \ {user} : callbacks'[u] = callbacks[u]
      /\ callbacks' \in [Users -> SUBSET (1..nextBatchId')]
  <2>1. 1..nextBatchId \subseteq 1..nextBatchId' /\ b.id \in 1..nextBatchId'
    BY <1>1
  <2> QED
    BY <1>1, <2>1
\* Each batch is one that was there, or the new one at the end.
<1>5. \A u \in Users : \A i \in DOMAIN queue'[u] :
         \/ i \in DOMAIN queue[u] /\ queue'[u][i] = queue[u][i]
         \/ u = user /\ i = Len(q) + 1 /\ queue'[u][i] = b
  <2> TAKE u \in Users
  <2>1. CASE u = user
    <3>1. queue'[u] = Append(q, b) /\ queue[u] = q
      BY <1>3, <2>1
    <3> HIDE DEF q
    <3>2. \A i \in 1..Len(q) + 1 : i \in 1..Len(q) \/ i = Len(q) + 1
      BY <1>2
    <3> QED
      BY <1>2, <2>1, <3>1, <3>2
  <2>2. CASE u # user
    BY <1>3, <2>2
  <2> QED
    BY <2>1, <2>2
<1>6. \A u \in Users : \A i \in DOMAIN queue[u] :
         /\ queue[u][i].id \in Nat /\ queue[u][i].id < nextBatchId
         /\ i \in Nat /\ (u = user => i < Len(q) + 1)
  <2> TAKE u \in Users
  <2> TAKE i \in DOMAIN queue[u]
  <2>1. queue[u][i].id \in Ids(queue[u]) /\ Ids(queue[u]) \subseteq 1..(nextBatchId - 1)
    BY DEF Ids, Queues, BatchIdsUnique
  <2>2. queue[u] \in Seq(Batch)
    BY <1>1
  <2>3. i \in 1..Len(queue[u]) /\ Len(queue[u]) \in Nat
    BY <2>2
  <2> QED
    BY <1>1, <2>1, <2>3
<1> HIDE DEF q
<1>7. ASSUME NEW u \in Users, NEW v \in Users, NEW i \in DOMAIN queue'[u], NEW j \in DOMAIN queue'[v]
      PROVE  /\ queue'[u][i].id = queue'[v][j].id => u = v /\ i = j
             /\ u = v /\ i < j => queue'[u][i].id < queue'[v][j].id
  <2>1. CASE /\ i \in DOMAIN queue[u] /\ queue'[u][i] = queue[u][i]
             /\ j \in DOMAIN queue[v] /\ queue'[v][j] = queue[v][j]
    BY <2>1 DEF Queues, BatchIdsUnique
  <2>2. CASE /\ i \in DOMAIN queue[u] /\ queue'[u][i] = queue[u][i]
             /\ v = user /\ j = Len(q) + 1 /\ queue'[v][j] = b
    BY <1>1, <1>6, <2>2
  <2>3. CASE /\ u = user /\ i = Len(q) + 1 /\ queue'[u][i] = b
             /\ j \in DOMAIN queue[v] /\ queue'[v][j] = queue[v][j]
    BY <1>1, <1>2, <1>6, <2>3
  <2>4. CASE /\ u = user /\ i = Len(q) + 1
             /\ v = user /\ j = Len(q) + 1
    BY <1>2, <2>4
  <2> QED
    BY <1>5, <2>1, <2>2, <2>3, <2>4
<1>8. \A u \in Users : Ids(queue'[u]) \subseteq Ids(queue[u]) \cup {nextBatchId}
  BY <1>5 DEF Ids
<1>9. \A u \in Users : Ids(queue'[u]) \subseteq 1..(nextBatchId' - 1) /\ callbacks'[u] \subseteq Ids(queue'[u])
  <2> TAKE u \in Users
  <2>1. /\ Ids(queue[u]) \subseteq 1..(nextBatchId - 1) /\ callbacks[u] \subseteq Ids(queue[u])
    BY DEF Queues, BatchIdsUnique
  <2>2. nextBatchId' - 1 = nextBatchId /\ 1..(nextBatchId - 1) \subseteq 1..nextBatchId
        /\ nextBatchId \in 1..nextBatchId
    BY <1>1
  <2>3. Ids(queue'[u]) \subseteq 1..(nextBatchId' - 1)
    BY <1>8, <2>1, <2>2
  <2>4. Ids(queue[u]) \subseteq Ids(queue'[u])
    <3>1. CASE u = user
      <4>1. \A i \in DOMAIN q : i \in DOMAIN Append(q, b) /\ Append(q, b)[i] = q[i]
        BY <1>2
      <4> QED
        BY <1>3, <3>1, <4>1 DEF Ids, q
    <3>2. CASE u # user
      BY <1>3, <3>2
    <3> QED
      BY <3>1, <3>2
  <2>5. CASE u = user
    <3>1. b.id \in Ids(queue'[u])
      <4>1. Len(q) + 1 \in DOMAIN Append(q, b)
        BY <1>2
      <4> QED
        BY <1>2, <1>3, <2>5, <4>1 DEF Ids
    <3> QED
      BY <1>4, <2>1, <2>3, <2>4, <2>5, <3>1
  <2>6. CASE u # user
    BY <1>4, <2>1, <2>3, <2>4, <2>6
  <2> QED
    BY <2>5, <2>6
<1>10. BatchIdsUnique'
  BY <1>7, <1>9 DEF BatchIdsUnique, Ids
<1>11. RightAccount' /\ \A u \in Users : \A i \in DOMAIN queue'[u] : queue'[u][i].write \in 1..issued
  BY <1>5 DEF Queues, RightAccount, Numbered
<1> QED
  BY <1>3, <1>4, <1>10, <1>11 DEF q

\* A queue as long as its limit is a bit longer: the pipeline still heads it.
LEMMA Longer ==
    ASSUME NEW q \in Seq(Batch), NEW b \in Batch, NEW n \in Net, Prefix(n, q)
    PROVE  /\ Append(q, b) \in Seq(Batch) /\ Holds(n, Append(q, b), Limit(q))
           /\ Limit(Append(q, b)) # 0
<1>1. Limit(q) \in 0..Len(q) /\ Limit(q) <= MaxPending /\ Len(q) \in Nat
  BY Limited
<1>2. /\ Append(q, b) \in Seq(Batch) /\ Len(Append(q, b)) = Len(q) + 1
      /\ \A i \in 1..Len(q) : Append(q, b)[i] = q[i]
  BY AppendProperties
<1>3. SubSeq(Append(q, b), 1, Limit(q)) = SubSeq(q, 1, Limit(q))
  BY <1>1, <1>2
<1>4. Limit(q) \in 0..Len(Append(q, b))
  BY <1>1, <1>2
<1>5. Limit(Append(q, b)) # 0
  <2>1. Limit(Append(q, b)) \in {MaxPending, Len(Append(q, b))}
    BY <1>2, Limited
  <2> QED
    BY <1>1, <1>2, <2>1, PipelineAssumption
<1> QED
  BY <1>1, <1>2, <1>3, <1>4, <1>5 DEF Holds, Prefix

LEMMA Sorting ==
    ASSUME NEW q \in Seq(Batch), NEW m \in Nat, Ids(q) \subseteq 1..(m - 1),
           \A i, j \in DOMAIN q : i < j => q[i].id < q[j].id
    PROVE  Sorted(q)
<1>1. \A i \in DOMAIN q : q[i].id \in Ids(q)
  BY DEF Ids
<1>2. \A i \in DOMAIN q : q[i].id \in Nat \ {0}
  BY <1>1
<1> QED
  BY <1>2 DEF Sorted

LEMMA RunningWrite == ASSUME Inv, RunWrite PROVE Inv'
<1> DEFINE b == [id |-> nextBatchId, write |-> Head(worker).write, owner |-> Head(worker).owner]
           q == queue[user]
           l == Append(q, b)
           k == Limit(q)
           f == FillWritePipeline(net, l)
<1>1. /\ worker # <<>> /\ Head(worker).task = "write" /\ worker' = Tail(worker)
      /\ queue' = [queue EXCEPT ![user] = Append(@, b)]
      /\ callbacks' = [callbacks EXCEPT ![user] = @ \cup {b.id}]
      /\ nextBatchId' = nextBatchId + 1
      /\ net' = FillWritePipeline(net, queue'[user])
      /\ UNCHANGED <<auth, user, committed, rejected, bounds>>
  BY DEF RunWrite
<1>2. /\ worker \in Seq(Task) /\ nextBatchId \in Nat /\ user \in Users /\ net \in Net
      /\ queue \in [Users -> Seq(Batch)] /\ q \in Seq(Batch)
      /\ issued \in 0..MaxWrites /\ MaxWrites \in Nat
  BY PipelineAssumption DEF Inv, TypeOK
<1>3. Head(worker) = worker[1] /\ 1 \in DOMAIN worker
  BY <1>1, <1>2
<1>4. Head(worker).write \in 1..issued /\ Head(worker).owner = user
  BY <1>1, <1>3 DEF Inv, Queues, Numbered, Follows
<1>5. /\ b \in Batch /\ b.id = nextBatchId /\ b.owner = user /\ b.write \in 1..issued
  <2>1. Head(worker).write \in 1..MaxWrites
    BY <1>2, <1>4
  <2> QED
    BY <1>2, <1>4, <2>1 DEF Batch
<1>6. nextBatchId # 0
  BY DEF Inv, Queues, Numbered
<1> HIDE DEF b
<1>7. /\ queue' \in [Users -> Seq(Batch)] /\ queue'[user] = Append(queue[user], b)
      /\ callbacks' \in [Users -> SUBSET (1..nextBatchId')]
      /\ BatchIdsUnique' /\ RightAccount'
      /\ \A u \in Users : \A i \in DOMAIN queue'[u] : queue'[u][i].write \in 1..issued
  BY <1>1, <1>5, <1>6, Queueing DEF Inv, bounds
<1>8. /\ worker' \in Seq(Task) /\ Follows'
      /\ \A i \in DOMAIN worker' : worker'[i].task = "write" => worker'[i].write \in 1..issued
  BY <1>1, <1>4, Proceeding DEF bounds
<1>9. Queues'
  <2>1. nextBatchId' # 0
    BY <1>1, <1>2
  <2> QED
    BY <1>1, <1>7, <1>8, <2>1 DEF Queues, Numbered, bounds
<1>10. l \in Seq(Batch) /\ Sorted(l) /\ queue'[user] = l
  <2>1. l \in Seq(Batch)
    BY <1>2, <1>5, AppendProperties
  <2>2. Ids(queue'[user]) \subseteq 1..(nextBatchId' - 1)
    BY <1>2, <1>7 DEF BatchIdsUnique, Ids
  <2>3. \A i, j \in DOMAIN queue'[user] : i < j => queue'[user][i].id < queue'[user][j].id
    BY <1>2, <1>7 DEF BatchIdsUnique
  <2>4. queue'[user] = l
    BY <1>7
  <2>5. nextBatchId' \in Nat
    BY <1>1, <1>2
  <2> HIDE DEF l
  <2>6. Sorted(l)
    BY <2>1, <2>2, <2>3, <2>4, <2>5, Sorting
  <2> QED
    BY <2>1, <2>4, <2>6
<1>11. Prefix(net, q) /\ Carries(net)
  BY DEF Inv, Streams
<1> HIDE DEF q
<1>12. Holds(net, l, k) /\ Limit(l) # 0
  BY <1>2, <1>5, <1>11, Longer
<1> HIDE DEF l, k
<1>13. Carries(f)
  BY <1>10, <1>11, <1>12, FillingCarries
<1>14. /\ f \in Net /\ Prefix(f, l)
       /\ f.handshake = net.handshake /\ f.replies = net.replies /\ f.refusal = net.refusal
       /\ New(l, k) \in Seq(Batch)
       /\ f.wire = IF Ready(net) THEN net.wire \o New(l, k) ELSE net.wire
  <2>1. /\ f \in Net /\ f.pipeline = SubSeq(l, 1, Limit(l))
        /\ New(l, k) \in Seq(Batch)
        /\ f.pipeline # <<>> => IsStarted(f)
        /\ f.handshake = net.handshake /\ f.replies = net.replies /\ f.refusal = net.refusal
        /\ f.wire = IF Ready(net) THEN net.wire \o New(l, k) ELSE net.wire
    BY <1>10, <1>12, Filling
  <2> HIDE DEF f
  <2> QED
    BY <2>1 DEF Prefix
<1>15. net' = f
  BY <1>1, <1>10
<1> HIDE DEF f
<1>16. Decided'
  <2>1. net.handshake => \A i \in DOMAIN net.replies : net.replies[i].write \in committed
    BY DEF Inv, Streams, Decided
  <2>2. net.refusal => f.wire[1].write \in rejected
    <3> SUFFICES ASSUME net.refusal PROVE f.wire[1].write \in rejected
      OBVIOUS
    <3>1. net.wire # <<>> /\ net.wire[1].write \in rejected
      BY DEF Inv, Streams, Decided, Carries
    <3>2. net.wire \in Seq(Message) /\ New(l, k) \in Seq(Message)
      BY <1>2, <1>14 DEF Net, Message
    <3>3. (net.wire \o New(l, k))[1] = net.wire[1]
      <4>1. 1 \in 1..Len(net.wire)
        BY <3>1, <3>2
      <4> QED
        BY <3>2, <4>1, Concatenated
    <3> QED
      BY <1>14, <3>1, <3>3
  <2> QED
    BY <1>1, <1>14, <1>15, <2>1, <2>2 DEF Decided
<1>17. Counts' /\ nextBatchId' \in Nat
  BY <1>1, <1>2 DEF Inv, TypeOK, Counts, bounds
<1>18. Prefix(net', queue'[user']) /\ Carries(net')
  BY <1>1, <1>10, <1>13, <1>14, <1>15
<1> QED
  BY <1>1, <1>7, <1>8, <1>9, <1>14, <1>15, <1>16, <1>17, <1>18, Assembling DEF Inv, TypeOK

-----------------------------------------------------------------------------
(* Another account, another process *)

\* The counter read from the disk is past every batch, and it is what the
\* ids on the disk allow.
LEMMA Recounting ==
    ASSUME TypeOK, BatchIdsUnique
    PROVE  /\ NextIdFromDb \in Nat \ {0}
           /\ \A u \in Users : Ids(queue[u]) \subseteq 1..(NextIdFromDb - 1)
<1> DEFINE S == {0} \cup UNION {Ids(queue[u]) : u \in Users}
<1>1. \A u \in Users : Ids(queue[u]) \subseteq 1..(nextBatchId - 1)
  BY DEF BatchIdsUnique
<1>2. nextBatchId \in Nat
  BY DEF TypeOK
<1>3. S \subseteq 0..nextBatchId /\ 0 \in S
  BY <1>1, <1>2
<1>4. \A u \in Users : Ids(queue[u]) \subseteq S
  OBVIOUS
<1>5. NextIdFromDb = 1 + Max(S)
  BY DEF NextIdFromDb
<1> HIDE DEF S
<1>6. Max(S) \in S /\ \A x \in S : x <= Max(S)
  BY <1>2, <1>3, LargestIn
<1>7. Max(S) \in Nat
  <2>1. Max(S) \in 0..nextBatchId
    BY <1>3, <1>6
  <2> QED
    BY <1>2, <2>1
<1>8. ASSUME NEW u \in Users, NEW x \in Ids(queue[u]) PROVE x \in 1..(NextIdFromDb - 1)
  <2>1. x \in 1..(nextBatchId - 1) /\ x \in S
    BY <1>1, <1>4
  <2>2. x \in Nat /\ x >= 1
    BY <1>2, <2>1
  <2> QED
    BY <1>5, <1>6, <1>7, <2>1, <2>2
<1> QED
  BY <1>5, <1>7, <1>8

LEMMA Renumbering ==
    ASSUME Inv, nextBatchId' \in {NextIdFromDb, nextBatchId}, UNCHANGED queue,
           \A u \in Users : callbacks'[u] \subseteq callbacks[u],
           callbacks' \in [Users -> SUBSET Nat]
    PROVE  /\ nextBatchId' \in Nat \ {0} /\ callbacks' \in [Users -> SUBSET (1..nextBatchId')]
           /\ BatchIdsUnique' /\ RightAccount'
<1>1. /\ NextIdFromDb \in Nat \ {0} /\ nextBatchId \in Nat
      /\ \A u \in Users : Ids(queue[u]) \subseteq 1..(NextIdFromDb - 1)
  BY Recounting DEF Inv, Queues, TypeOK
<1>2. \A u \in Users : Ids(queue[u]) \subseteq 1..(nextBatchId - 1) /\ callbacks[u] \subseteq Ids(queue[u])
  BY DEF Inv, Queues, BatchIdsUnique
<1>3. nextBatchId' \in Nat \ {0} /\ \A u \in Users : Ids(queue[u]) \subseteq 1..(nextBatchId' - 1)
  BY <1>1, <1>2 DEF Inv, Queues, Numbered
<1>4. \A u \in Users : callbacks'[u] \subseteq Ids(queue[u])
  BY <1>2
<1>5. 1..(nextBatchId' - 1) \subseteq 1..nextBatchId'
  <2> DEFINE n == nextBatchId'
  <2>1. n \in Nat
    BY <1>3
  <2> HIDE DEF n
  <2>2. \A x \in 1..(n - 1) : x \in 1..n
    BY <2>1
  <2>3. 1..(n - 1) \subseteq 1..n
    BY <2>2, Zenon
  <2> QED
    BY <2>3 DEF n
<1>6. callbacks' \in [Users -> SUBSET (1..nextBatchId')]
  BY <1>3, <1>4, <1>5
<1>7. BatchIdsUnique' /\ RightAccount'
  BY <1>3, <1>4 DEF Inv, Queues, BatchIdsUnique, RightAccount, Ids
<1> QED
  BY <1>3, <1>6, <1>7

LEMMA Switching == ASSUME Inv, RunCredentialChange PROVE Inv'
<1>1. /\ worker # <<>> /\ user' = Head(worker).owner /\ worker' = Tail(worker)
      /\ nextBatchId' \in {NextIdFromDb, nextBatchId}
      /\ net' = RestartNetwork(net, queue[user'])
      /\ UNCHANGED <<auth, queue, callbacks, committed, rejected, bounds>>
  BY DEF RunCredentialChange
<1>2. worker \in Seq(Task) /\ net \in Net /\ Carries(net)
  BY DEF Inv, TypeOK, Streams
<1>3. user' \in Users
  <2>1. Head(worker) \in Task
    BY <1>1, <1>2
  <2> QED
    BY <1>1, <2>1 DEF Task
<1>4. callbacks' \in [Users -> SUBSET Nat]
  <2>1. nextBatchId \in Nat /\ callbacks \in [Users -> SUBSET (1..nextBatchId)]
    BY DEF Inv, TypeOK
  <2>2. 1..nextBatchId \subseteq Nat
    BY <2>1
  <2> QED
    BY <1>1, <2>1, <2>2
<1>5. /\ nextBatchId' \in Nat \ {0} /\ callbacks' \in [Users -> SUBSET (1..nextBatchId')]
      /\ BatchIdsUnique' /\ RightAccount'
  BY <1>1, <1>4, Renumbering
<1>6. /\ worker' \in Seq(Task) /\ Follows'
      /\ \A i \in DOMAIN worker' : worker'[i].task = "write" => worker'[i].write \in 1..issued
  BY <1>1, Proceeding DEF bounds
<1>7. Queues'
  BY <1>1, <1>5, <1>6 DEF Inv, Queues, Numbered, bounds
<1>8. queue[user'] \in Seq(Batch) /\ Sorted(queue[user'])
  BY <1>3, SortedQueues DEF Inv, Queues
<1>9. net' \in Net /\ Prefix(net', queue[user']) /\ Silent(net')
  BY <1>1, <1>2, <1>8, Restarting
<1>10. Carries(net') /\ Decided' /\ Prefix(net', queue'[user'])
  BY <1>1, <1>9, SilentCarries DEF Silent, Decided
<1>11. Counts'
  BY <1>1 DEF Inv, TypeOK, Counts, bounds
<1>12. auth' \in Users /\ queue' \in [Users -> Seq(Batch)]
  BY <1>1 DEF Inv, TypeOK
<1> QED
  BY <1>3, <1>5, <1>6, <1>7, <1>9, <1>10, <1>11, <1>12, Assembling

LEMMA Dying == ASSUME Inv, ProcessRestart PROVE Inv'
<1>1. /\ worker' = <<>> /\ user' = auth /\ nextBatchId' = NextIdFromDb
      /\ callbacks' = [u \in Users |-> {}]
      /\ net' = FillWritePipeline(EmptyNet, queue[auth])
      /\ UNCHANGED <<auth, queue, committed, rejected, issued, switches, rejects>>
  BY DEF ProcessRestart
<1>2. auth \in Users /\ queue \in [Users -> Seq(Batch)] /\ <<>> \in Seq(Task)
  BY EmptySeq DEF Inv, TypeOK
<1>3. /\ nextBatchId' \in Nat \ {0} /\ callbacks' \in [Users -> SUBSET (1..nextBatchId')]
      /\ BatchIdsUnique' /\ RightAccount'
  BY <1>1, Renumbering
<1>4. Queues'
  BY <1>1, <1>3 DEF Inv, Queues, Follows, Numbered
<1>5. queue[auth] \in Seq(Batch) /\ Sorted(queue[auth])
  BY <1>2, SortedQueues DEF Inv, Queues
<1>6. EmptyNet \in Net /\ Silent(EmptyNet) /\ EmptyNet.stream # "Open" /\ EmptyNet.pipeline = <<>>
  BY EmptySeq DEF EmptyNet, Net, Silent
<1>7. SubSeq(queue[auth], 1, 0) = <<>> /\ 0 \in 0..Len(queue[auth]) /\ 0 <= MaxPending
  BY <1>5, PipelineAssumption
<1>8. net' \in Net /\ Prefix(net', queue[auth]) /\ Silent(net')
  BY <1>1, <1>5, <1>6, <1>7, FillingSilent
<1>9. Carries(net') /\ Decided' /\ Prefix(net', queue'[user'])
  BY <1>1, <1>8, SilentCarries DEF Silent, Decided
<1>10. Counts'
  BY PipelineAssumption DEF Inv, TypeOK, Counts, ProcessRestart
<1> QED
  BY <1>1, <1>2, <1>3, <1>4, <1>8, <1>9, <1>10, Assembling

-----------------------------------------------------------------------------
(* The invariant holds *)

LEMMA Stepping == Inv /\ [Next]_vars => Inv'
<1> SUFFICES ASSUME Inv, [Next]_vars PROVE Inv'
  OBVIOUS
<1> QED
  BY Writing, SigningIn, RunningWrite, Switching, Opening, Shaking, Acknowledging, Refused,
     Breaking, BackingOff, Idling, Reconnecting, Dying, Greeting, Committing, Rejecting, Quiet
     DEF Next

LEMMA Invariance == Spec => []Inv
  BY Initially, Stepping, PTL DEF Spec

-----------------------------------------------------------------------------
(* Theorems *)

(* Everything the SDK keeps has its type: in particular the counter of     *)
(* batch ids, recomputed after a sign-in or a restart, stays above every   *)
(* completion that is registered, for any accounts and bounds.             *)
THEOREM TypeCorrect == Spec => []TypeOK
<1>1. Inv => TypeOK
  BY DEF Inv
<1> QED
  BY <1>1, Invariance, PTL

(* FillWritePipeline, HandleCredentialChange, RestartNetwork and the       *)
(* removals of acknowledged and refused writes leave no gap: the pipeline  *)
(* is a prefix of the current account's queue, as long as its limit lets   *)
(* it be, and a stream is up or on its way whenever something is in it.    *)
THEOREM InOrder == Spec => []PipelineIsPrefix
<1>1. Inv => PipelineIsPrefix
  BY DEF Inv, Streams, Prefix, PipelineIsPrefix, Limit
<1> QED
  BY <1>1, Invariance, PTL

(* OnMutationResult takes a reply for the first write of the pipeline      *)
(* without looking: it may, because past the handshake what is read and    *)
(* what is still to be answered is the pipeline, and before it there is    *)
(* only the handshake, whatever breaks and whoever signs in.               *)
THEOREM StreamCarries == Spec => []StreamCarriesPipeline
<1>1. Inv => StreamCarriesPipeline
  BY DEF Inv, Streams, Carries, StreamCarriesPipeline
<1> QED
  BY <1>1, Invariance, PTL

(* LoadNextBatchIdFromDb never hands out the id of a batch that is still   *)
(* on disk, of any account, and no completion outlives its batch.          *)
THEOREM UniqueIds == Spec => []BatchIdsUnique
<1>1. Inv => BatchIdsUnique
  BY DEF Inv, Queues
<1> QED
  BY <1>1, Invariance, PTL

(* A write issued before a credential change runs before it on the worker  *)
(* queue: it lands in the queue of the account it was issued under.        *)
THEOREM RightAccounts == Spec => []RightAccount
<1>1. Inv => RightAccount
  BY DEF Inv, Queues
<1> QED
  BY <1>1, Invariance, PTL

\* Of what an account has queued only the first batch of the current one
\* can go, and no other batch is lost with it.
LEMMA OnlyFirstLeaves ==
    ASSUME Inv, net.pipeline # <<>>, RemoveBatch(Head(net.pipeline)), issued' = issued,
           NEW u \in Users, NEW b \in ToSet(queue[u]) \ ToSet(queue'[u])
    PROVE  b = Head(net.pipeline)
<1>1. /\ queue' = [queue EXCEPT ![user] = Tail(@)] /\ queue'[user] = Tail(queue[user])
      /\ queue \in [Users -> Seq(Batch)]
  BY Removing DEF Inv, TypeOK
<1>2. u = user
  BY <1>1
<1>3. /\ queue[user] \in Seq(Batch) /\ queue[user] # <<>> /\ Sorted(queue[user])
      /\ Head(net.pipeline) = queue[user][1]
  BY First
<1>4. /\ Len(Tail(queue[user])) = Len(queue[user]) - 1 /\ Tail(queue[user]) \in Seq(Batch)
      /\ \A i \in 1..Len(queue[user]) - 1 : Tail(queue[user])[i] = queue[user][i + 1]
  BY <1>3, Heading
<1>5. PICK i \in DOMAIN queue[user] : b = queue[user][i]
  BY <1>2 DEF ToSet
<1>6. i = 1
  <2> SUFFICES ASSUME i # 1 PROVE FALSE
    OBVIOUS
  <2>1. i - 1 \in DOMAIN Tail(queue[user]) /\ Tail(queue[user])[i - 1] = queue[user][i]
    BY <1>3, <1>4
  <2>2. b \in ToSet(Tail(queue[user]))
    BY <1>5, <2>1 DEF ToSet
  <2> QED
    BY <1>1, <1>2, <2>2
<1> QED
  BY <1>3, <1>5, <1>6

(* RemoveMutationBatch is reached only for a write the server has          *)
(* committed or refused: a reply is never credited to a batch it is not    *)
(* about, and broken streams, restarts and sign-ins drop nothing.          *)
THEOREM OnlySettledLeave == Spec => LeavesOnlySettled
<1> DEFINE A == \A u \in Users : \A b \in ToSet(queue[u]) \ ToSet(queue'[u]) :
                   b.write \in committed \cup rejected
<1>1. Inv /\ [Next]_vars => A
  <2> SUFFICES ASSUME Inv, [Next]_vars PROVE A
    OBVIOUS
  <2>1. CASE OnMutationResult
    <3>1. /\ net.replies # <<>> /\ net.handshake /\ RemoveBatch(Head(net.pipeline))
          /\ issued' = issued
      BY <2>1 DEF OnMutationResult, bounds
    <3>2. /\ net.pipeline = net.replies \o net.wire
          /\ net.replies \in Seq(Batch) /\ net.wire \in Seq(Batch)
      BY <3>1, Carrying
    <3>3. net.pipeline # <<>> /\ Head(net.pipeline) = net.replies[1] /\ 1 \in DOMAIN net.replies
      <4>1. net.pipeline # <<>> /\ net.pipeline \in Seq(Batch) /\ net.replies # <<>>
        BY <3>1, <3>2, BothEmpty, Carrying
      <4>2. net.replies \in Seq(Message) /\ net.wire \in Seq(Message)
        BY DEF Inv, TypeOK, Net, Message
      <4>3. 1 \in 1..Len(net.replies) /\ DOMAIN net.replies = 1..Len(net.replies)
        BY <4>1, <4>2
      <4>4. (net.replies \o net.wire)[1] = net.replies[1]
        BY <4>2, <4>3, Concatenated
      <4>5. Head(net.pipeline) = net.pipeline[1]
        BY <4>1
      <4> QED
        BY <3>2, <4>1, <4>3, <4>4, <4>5
    <3>4. net.replies[1].write \in committed
      BY <3>1, <3>3 DEF Inv, Streams, Decided
    <3> QED
      BY <3>1, <3>3, <3>4, OnlyFirstLeaves
  <2>2. CASE OnRefusal
    <3>1. /\ net.replies = <<>> /\ net.refusal /\ RemoveBatch(Head(net.pipeline))
          /\ issued' = issued
      BY <2>2 DEF OnRefusal, bounds
    <3>2. /\ net.wire # <<>> /\ net.handshake /\ net.wire[1].write \in rejected
      BY <3>1 DEF Inv, Streams, Carries, Decided
    <3>3. /\ net.pipeline = net.replies \o net.wire /\ net.wire \in Seq(Batch)
      BY <3>2, Carrying
    <3>4. net.pipeline = net.wire
      BY <3>1, <3>3
    <3>5. net.pipeline # <<>> /\ Head(net.pipeline) = net.wire[1]
      BY <3>2, <3>3, <3>4
    <3> QED
      BY <3>1, <3>2, <3>5, OnlyFirstLeaves
  <2>3. CASE RunWrite
    <3>1. \A u \in Users : ToSet(queue[u]) \subseteq ToSet(queue'[u])
      <4> TAKE u \in Users
      <4> DEFINE b == [id |-> nextBatchId, write |-> Head(worker).write, owner |-> Head(worker).owner]
                 q == queue[user]
      <4>1. /\ queue' = [queue EXCEPT ![user] = Append(@, b)] /\ user \in Users
            /\ queue \in [Users -> Seq(Batch)] /\ q \in Seq(Batch)
        BY <2>3 DEF RunWrite, Inv, TypeOK
      <4> HIDE DEF b
      <4>2. CASE u = user
        <5>1. queue'[u] = Append(q, b) /\ queue[u] = q
          BY <4>1, <4>2
        <5> HIDE DEF q
        <5>2. \A i \in DOMAIN q : i \in DOMAIN Append(q, b) /\ Append(q, b)[i] = q[i]
          BY <4>1
        <5> QED
          BY <5>1, <5>2 DEF ToSet
      <4>3. CASE u # user
        BY <4>1, <4>3
      <4> QED
        BY <4>2, <4>3
    <3> QED
      BY <3>1
  <2>4. CASE UNCHANGED queue
    BY <2>4
  <2> QED
    BY <2>1, <2>2, <2>3, <2>4
       DEF Next, vars, local, WriteMutations, CredentialChange, RunCredentialChange,
           OnStreamOpen, OnHandshakeComplete, OnStreamBroken, BackoffElapsed, IdleTimeout,
           ConnectivityChange, ProcessRestart, ServerHello, ServerCommit, ServerReject
<1>2. Inv /\ [Next]_vars => [A]_vars
  BY <1>1
<1> HIDE DEF A
<1>3. Spec => [][A]_vars
  BY <1>2, Invariance, PTL DEF Spec
<1> QED
  BY <1>3 DEF LeavesOnlySettled, A


(* Numbers in ascending order *)

LEMMA OnlyList ==
    ASSUME NEW S \in SUBSET Nat, Cardinality(S) \in Nat, NEW s, Lists(s, S)
    PROVE  Ascending(S) = s
<1> DEFINE t == Ascending(S)
           n == Cardinality(S)
<1>1. Lists(t, S)
  <2>1. s \in [1..n -> S]
    BY DEF Lists
  <2> QED
    BY <2>1, Zenon DEF Ascending
<1> HIDE DEF t
<1>2. /\ s \in [1..n -> S] /\ t \in [1..n -> S]
      /\ \A i, j \in 1..n : i < j => s[i] < s[j] /\ t[i] < t[j]
      /\ \A x \in S : \E i \in 1..n : s[i] = x
      /\ \A x \in S : \E i \in 1..n : t[i] = x
  BY <1>1 DEF Lists
<1> DEFINE K == {i \in 1..n : s[i] # t[i]}
<1>3. K = {}
  <2> SUFFICES ASSUME K # {} PROVE FALSE
    OBVIOUS
  <2>1. PICK k \in K : \A i \in K : k <= i
    <3>1. K \subseteq Nat
      OBVIOUS
    <3> HIDE DEF K
    <3> QED
      BY <3>1, LeastIn
  <2>2. k \in 1..n /\ s[k] # t[k] /\ \A i \in 1..n : i < k => s[i] = t[i]
    BY <2>1
  <2> HIDE DEF n
  <2>3. s[k] \in Nat /\ t[k] \in Nat /\ n \in Nat
    BY <1>2, <2>2 DEF n
  <2>4. CASE s[k] < t[k]
    <3>1. PICK j \in 1..n : t[j] = s[k]
      BY <1>2, <2>2
    <3>2. CASE j < k
      BY <1>2, <2>2, <2>3, <3>1, <3>2
    <3>3. CASE j >= k
      BY <1>2, <2>2, <2>3, <2>4, <3>1, <3>3
    <3> QED
      BY <2>2, <2>3, <3>2, <3>3
  <2>5. CASE t[k] < s[k]
    <3>1. PICK j \in 1..n : s[j] = t[k]
      BY <1>2, <2>2
    <3>2. CASE j < k
      BY <1>2, <2>2, <2>3, <3>1, <3>2
    <3>3. CASE j >= k
      BY <1>2, <2>2, <2>3, <2>5, <3>1, <3>3
    <3> QED
      BY <2>2, <2>3, <3>2, <3>3
  <2> QED
    BY <2>2, <2>3, <2>4, <2>5
<1>4. \A i \in 1..n : s[i] = t[i]
  BY <1>3
<1> HIDE DEF K, n
<1>5. s = [i \in 1..n |-> s[i]] /\ t = [i \in 1..n |-> t[i]]
  BY <1>2
<1>6. s = t
  BY <1>4, <1>5, Zenon
<1> QED
  BY <1>6 DEF t

LEMMA ListGrows ==
    ASSUME NEW S \in SUBSET Nat, IsFiniteSet(S), NEW s, Lists(s, S),
           NEW m \in Nat, \A x \in S : x < m
    PROVE  Lists(Append(s, m), S \cup {m})
<1> DEFINE n == Cardinality(S)  T == S \cup {m}
<1>1. n \in Nat /\ Cardinality(T) = n + 1
  BY FS_AddElement, FS_CardinalityType
<1>2. /\ s \in [1..n -> S] /\ \A i, j \in 1..n : i < j => s[i] < s[j]
      /\ \A x \in S : \E i \in 1..n : s[i] = x
  BY DEF Lists
<1> HIDE DEF n, T
<1>3. s \in Seq(S) /\ Len(s) = n
  BY <1>1, <1>2
<1>4. /\ Append(s, m) \in [1..n + 1 -> Nat]
      /\ \A i \in 1..n : Append(s, m)[i] = s[i]
      /\ Append(s, m)[n + 1] = m
  <2>1. s \in Seq(Nat)
    BY <1>3, SeqMonotonic
  <2>2. /\ Append(s, m) \in Seq(Nat) /\ Len(Append(s, m)) = n + 1
        /\ \A i \in 1..n : Append(s, m)[i] = s[i]
        /\ Append(s, m)[n + 1] = m
    BY <1>3, <2>1
  <2>3. Append(s, m) \in [1..Len(Append(s, m)) -> Nat]
    BY <2>2, LenProperties
  <2> QED
    BY <2>2, <2>3
<1>5. \A i \in 1..n + 1 : i = n + 1 \/ (i \in 1..n /\ s[i] \in S)
  BY <1>1, <1>2
<1> DEFINE a == Append(s, m)
<1> HIDE DEF a
<1>6. a \in [1..n + 1 -> T]
  BY <1>4, <1>5 DEF a, T
<1>7. \A i, j \in 1..n + 1 : i < j => a[i] < a[j]
  <2> TAKE i, j \in 1..n + 1
  <2> HAVE i < j
  <2>1. i \in 1..n /\ s[i] \in S /\ a[i] = s[i]
    BY <1>1, <1>4, <1>5 DEF a
  <2>2. CASE j = n + 1
    BY <1>4, <2>1, <2>2 DEF a
  <2>3. CASE j # n + 1
    BY <1>2, <1>4, <1>5, <2>1, <2>3 DEF a
  <2> QED
    BY <2>2, <2>3
<1>8. \A x \in T : \E i \in 1..n + 1 : a[i] = x
  <2>1. 1..n \subseteq 1..n + 1 /\ n + 1 \in 1..n + 1
    BY <1>1
  <2> QED
    BY <1>2, <1>4, <2>1 DEF a, T
<1> QED
  BY <1>1, <1>6, <1>7, <1>8 DEF Lists, a, T

LEMMA ListShrinks ==
    ASSUME NEW S \in SUBSET Nat, IsFiniteSet(S), NEW s, Lists(s, S),
           NEW m \in S, \A x \in S : m <= x
    PROVE  /\ Lists(Tail(s), S \ {m})
           /\ s = <<m>> \o Tail(s)
<1> DEFINE n == Cardinality(S)  T == S \ {m}
<1>1. n \in Nat /\ Cardinality(T) = n - 1
  BY FS_RemoveElement, FS_CardinalityType
<1>2. /\ s \in [1..n -> S] /\ \A i, j \in 1..n : i < j => s[i] < s[j]
      /\ \A x \in S : \E i \in 1..n : s[i] = x
  BY DEF Lists
<1> HIDE DEF n, T
<1>3. s \in Seq(S) /\ Len(s) = n
  BY <1>1, <1>2
<1>4. n \in Nat \ {0} /\ s[1] = m
  <2>1. PICK i \in 1..n : s[i] = m
    BY <1>2
  <2>2. n \in Nat \ {0} /\ 1 \in 1..n /\ s[1] \in S
    BY <1>1, <1>2, <2>1
  <2>3. i = 1
    <3> SUFFICES ASSUME i # 1 PROVE FALSE
      OBVIOUS
    <3>1. s[1] < s[i]
      BY <1>1, <1>2, <2>1, <2>2
    <3>2. m \in Nat /\ s[1] \in Nat /\ m <= s[1]
      BY <2>2
    <3> QED
      BY <2>1, <3>1, <3>2
  <2> QED
    BY <2>1, <2>2, <2>3
<1>5. s # <<>> /\ Head(s) = m
  BY <1>3, <1>4
<1> DEFINE r == Tail(s)
<1>6. /\ r \in Seq(S) /\ Len(r) = n - 1 /\ \A i \in 1..n - 1 : r[i] = s[i + 1]
  BY <1>3, <1>4, <1>5
<1>7. s = <<m>> \o r
  BY <1>3, <1>4, <1>5, <1>6
<1> HIDE DEF r
<1>8. r \in [1..n - 1 -> T]
  <2>1. \A i \in 1..n - 1 : i + 1 \in 1..n /\ 1 \in 1..n /\ 1 < i + 1
    BY <1>1, <1>4
  <2>2. \A i \in 1..n - 1 : r[i] \in S /\ r[i] # m
    BY <1>2, <1>4, <1>6, <2>1
  <2>3. DOMAIN r = 1..n - 1 /\ r = [i \in 1..n - 1 |-> r[i]]
    BY <1>4, <1>6
  <2> QED
    BY <2>2, <2>3 DEF T
<1>9. \A i, j \in 1..n - 1 : i < j => r[i] < r[j]
  <2>1. \A i \in 1..n - 1 : i + 1 \in 1..n
    BY <1>1
  <2> QED
    BY <1>2, <1>6, <2>1
<1>10. \A x \in T : \E i \in 1..n - 1 : r[i] = x
  <2> TAKE x \in T
  <2>1. PICK i \in 1..n : s[i] = x
    BY <1>2 DEF T
  <2>2. i # 1
    BY <1>4, <2>1 DEF T
  <2>3. i - 1 \in 1..n - 1 /\ r[i - 1] = x
    BY <1>1, <1>6, <2>1, <2>2
  <2> QED
    BY <2>3
<1>11. DOMAIN r = 1..n - 1
  BY <1>8
<1> QED
  BY <1>1, <1>7, <1>8, <1>9, <1>10, <1>11 DEF Lists, r, T

LEMMA ListOfNone == Lists(<<>>, {})
<1>1. Cardinality({}) = 0
  BY FS_EmptySet
<1>2. <<>> \in [1..0 -> {}] /\ DOMAIN <<>> = {}
  OBVIOUS
<1> QED
  BY <1>1, <1>2 DEF Lists

-----------------------------------------------------------------------------
(* The writes the worker queue has still to run *)

\* They are in the order of their numbers, and so there is a list of them.
InTurn == \A i, j \in DOMAIN worker :
             i < j /\ worker[i].task = "write" /\ worker[j].task = "write" =>
                worker[i].write < worker[j].write
Listed == \A u \in Users : Lists(Ascending(Unrun(u)), Unrun(u))

LEMMA UnrunIssued ==
    ASSUME Inv, NEW u \in Users
    PROVE  /\ Unrun(u) \subseteq 1..issued /\ Unrun(u) \in SUBSET Nat /\ IsFiniteSet(Unrun(u))
           /\ Unrun(u) \subseteq 1..MaxWrites /\ Cardinality(Unrun(u)) \in Nat
<1>1. Unrun(u) \subseteq 1..issued
  BY DEF Inv, Queues, Numbered, Unrun, WritesOf
<1>2. issued \in Nat /\ MaxWrites \in Nat /\ issued <= MaxWrites
  BY PipelineAssumption DEF Inv, TypeOK
<1>3. IsFiniteSet(1..issued)
  BY <1>2, FS_Interval
<1>4. IsFiniteSet(Unrun(u))
  BY <1>1, <1>3, FS_Subset
<1>5. 1..issued \subseteq 1..MaxWrites /\ 1..issued \subseteq Nat
  BY <1>2
<1> QED
  BY <1>1, <1>4, <1>5, FS_CardinalityType

LEMMA UnrunGrows ==
    ASSUME Inv, NEW t \in Task, worker' = Append(worker, t), NEW u \in Users
    PROVE  Unrun(u)' = IF t.task = "write" /\ t.owner = u THEN Unrun(u) \cup {t.write} ELSE Unrun(u)
<1>1. worker \in Seq(Task)
  BY DEF Inv, TypeOK
<1>2. /\ DOMAIN worker = 1..Len(worker) /\ DOMAIN worker' = 1..Len(worker) + 1 /\ Len(worker) \in Nat
      /\ \A i \in 1..Len(worker) : worker'[i] = worker[i]
      /\ worker'[Len(worker) + 1] = t
  BY <1>1, TaskAdded
<1>3. \A i \in DOMAIN worker' : i \in DOMAIN worker \/ i = Len(worker) + 1
  BY <1>2
<1>4. DOMAIN worker \subseteq DOMAIN worker' /\ Len(worker) + 1 \in DOMAIN worker'
  BY <1>2
<1>5. WritesOf(u)' = WritesOf(u) \cup IF t.task = "write" /\ t.owner = u THEN {Len(worker) + 1} ELSE {}
  BY <1>2, <1>3, <1>4 DEF WritesOf
<1>6. \A i \in WritesOf(u) : worker'[i] = worker[i]
  BY <1>2 DEF WritesOf
<1>7. Unrun(u)' = {worker'[i].write : i \in WritesOf(u)'}
  BY DEF Unrun
<1>8. CASE t.task = "write" /\ t.owner = u
  <2>1. WritesOf(u)' = WritesOf(u) \cup {Len(worker) + 1}
    BY <1>5, <1>8
  <2>2. {worker'[i].write : i \in WritesOf(u)'} = {worker'[i].write : i \in WritesOf(u)} \cup {t.write}
    BY <1>2, <2>1
  <2>3. {worker'[i].write : i \in WritesOf(u)} = {worker[i].write : i \in WritesOf(u)}
    BY <1>6
  <2> QED
    BY <1>7, <1>8, <2>2, <2>3 DEF Unrun
<1>9. CASE ~(t.task = "write" /\ t.owner = u)
  <2>1. WritesOf(u)' = WritesOf(u)
    BY <1>5, <1>9
  <2> QED
    BY <1>6, <1>7, <1>9, <2>1 DEF Unrun
<1> QED
  BY <1>8, <1>9

LEMMA UnrunShrinks ==
    ASSUME Inv, InTurn, worker # <<>>, worker' = Tail(worker), NEW u \in Users
    PROVE  LET t == Head(worker)
           IN  IF t.task = "write" /\ t.owner = u
               THEN /\ Unrun(u)' = Unrun(u) \ {t.write}
                    /\ t.write \in Unrun(u) /\ \A x \in Unrun(u) : t.write <= x
               ELSE Unrun(u)' = Unrun(u)
<1> DEFINE t == Head(worker)
<1>1. worker \in Seq(Task)
  BY DEF Inv, TypeOK
<1>2. /\ t = worker[1] /\ DOMAIN worker = 1..Len(worker) /\ DOMAIN worker' = 1..Len(worker) - 1
      /\ Len(worker) \in Nat /\ Len(worker) > 0
      /\ \A i \in 1..Len(worker) - 1 : worker'[i] = worker[i + 1]
  BY <1>1, TaskDone
<1>3. \A i \in DOMAIN worker' : i + 1 \in DOMAIN worker /\ i + 1 # 1 /\ worker'[i] = worker[i + 1]
  BY <1>2
<1>4. \A i \in DOMAIN worker : i = 1 \/ (i - 1 \in DOMAIN worker' /\ worker'[i - 1] = worker[i])
  BY <1>2
<1>5. Unrun(u)' = {worker[i].write : i \in WritesOf(u) \ {1}}
  <2>1. \A i \in WritesOf(u)' : i + 1 \in WritesOf(u) \ {1} /\ worker'[i].write = worker[i + 1].write
    BY <1>3 DEF WritesOf
  <2>2. \A i \in WritesOf(u) \ {1} : i - 1 \in WritesOf(u)' /\ worker'[i - 1].write = worker[i].write
    BY <1>4 DEF WritesOf
  <2>3. Unrun(u)' = {worker'[i].write : i \in WritesOf(u)'}
    BY DEF Unrun
  <2>4. {worker'[i].write : i \in WritesOf(u)'} \subseteq {worker[i].write : i \in WritesOf(u) \ {1}}
    BY <2>1
  <2>5. {worker[i].write : i \in WritesOf(u) \ {1}} \subseteq {worker'[i].write : i \in WritesOf(u)'}
    BY <2>2
  <2> QED
    BY <2>3, <2>4, <2>5
<1> HIDE DEF t
<1>6. CASE t.task = "write" /\ t.owner = u
  <2>1. 1 \in WritesOf(u)
    BY <1>2, <1>6 DEF WritesOf
  <2>2. \A i \in WritesOf(u) \ {1} : t.write < worker[i].write
    BY <1>2, <1>6 DEF InTurn, WritesOf
  <2>3. \A i \in WritesOf(u) : worker[i].write \in Nat
    BY UnrunIssued DEF Unrun
  <2>4. Unrun(u)' = Unrun(u) \ {t.write}
    <3>1. \A i \in WritesOf(u) : worker[i].write = t.write <=> i = 1
      BY <1>2, <2>1, <2>2, <2>3
    <3>2. {worker[i].write : i \in WritesOf(u) \ {1}} = {worker[i].write : i \in WritesOf(u)} \ {t.write}
      BY <3>1
    <3> QED
      BY <1>5, <3>2 DEF Unrun
  <2>5. t.write \in Unrun(u) /\ \A x \in Unrun(u) : t.write <= x
    BY <1>2, <2>1, <2>2, <2>3 DEF Unrun
  <2> QED
    BY <1>6, <2>4, <2>5 DEF t
<1>7. CASE ~(t.task = "write" /\ t.owner = u)
  <2>1. 1 \notin WritesOf(u)
    BY <1>2, <1>7 DEF WritesOf
  <2> QED
    BY <1>5, <1>7, <2>1 DEF Unrun, t
<1> QED
  BY <1>6, <1>7

\* A new write comes last.
LEMMA TurnGrows ==
    ASSUME Inv, InTurn, NEW t \in Task, worker' = Append(worker, t),
           t.task = "write" => t.write = issued + 1
    PROVE  InTurn'
<1>1. worker \in Seq(Task)
  BY DEF Inv, TypeOK
<1>2. /\ DOMAIN worker = 1..Len(worker) /\ DOMAIN worker' = 1..Len(worker) + 1 /\ Len(worker) \in Nat
      /\ \A i \in 1..Len(worker) : worker'[i] = worker[i]
      /\ worker'[Len(worker) + 1] = t
  BY <1>1, TaskAdded
<1>3. \A i \in DOMAIN worker : worker[i].task = "write" => worker[i].write < issued + 1
  BY DEF Inv, TypeOK, Queues, Numbered
<1> QED
  BY <1>2, <1>3 DEF InTurn

LEMMA TurnShrinks ==
    ASSUME Inv, InTurn, worker # <<>>, worker' = Tail(worker)
    PROVE  InTurn'
<1>1. worker \in Seq(Task)
  BY DEF Inv, TypeOK
<1>2. \A i \in DOMAIN worker' : i \in Nat /\ i + 1 \in DOMAIN worker /\ worker'[i] = worker[i + 1]
  BY <1>1, TaskDone
<1>3. \A i, j \in DOMAIN worker' : i < j => i + 1 < j + 1
  BY <1>2
<1> QED
  BY <1>2, <1>3 DEF InTurn

\* What becomes of the list.
LEMMA ListStays ==
    ASSUME Listed, NEW u \in Users, Unrun(u)' = Unrun(u)
    PROVE  /\ Ascending(Unrun(u))' = Ascending(Unrun(u))
           /\ Lists(Ascending(Unrun(u)), Unrun(u))'
<1> DEFINE S == Unrun(u)
<1>1. Ascending(S) = Ascending(Unrun(u)')
  OBVIOUS
<1>2. Lists(Ascending(S), S)
  BY DEF Listed
<1> QED
  BY <1>1, <1>2 DEF Ascending, Lists

LEMMA ListGains ==
    ASSUME Inv, Listed, NEW u \in Users, NEW m \in Nat, Unrun(u)' = Unrun(u) \cup {m},
           \A x \in Unrun(u) : x < m
    PROVE  /\ Ascending(Unrun(u))' = Append(Ascending(Unrun(u)), m)
           /\ Lists(Ascending(Unrun(u)), Unrun(u))'
<1> DEFINE S == Unrun(u)  T == Unrun(u)'  s == Ascending(S)
<1>1. S \in SUBSET Nat /\ IsFiniteSet(S) /\ Lists(s, S)
  BY UnrunIssued DEF Listed
<1>2. T \in SUBSET Nat /\ Cardinality(T) \in Nat
  BY <1>1, FS_AddElement, FS_CardinalityType
<1>3. Lists(Append(s, m), T)
  BY <1>1, ListGrows
<1>4. Ascending(T) = Append(s, m)
  BY <1>2, <1>3, OnlyList
<1>5. Ascending(Unrun(u))' = Ascending(T)
  BY DEF Ascending, Lists
<1>6. Lists(Ascending(Unrun(u)), Unrun(u))' <=> Lists(Ascending(T), T)
  BY DEF Ascending, Lists
<1> QED
  BY <1>3, <1>4, <1>5, <1>6

LEMMA ListLoses ==
    ASSUME Inv, Listed, NEW u \in Users, NEW m \in Unrun(u), Unrun(u)' = Unrun(u) \ {m},
           \A x \in Unrun(u) : m <= x
    PROVE  /\ Ascending(Unrun(u)) = <<m>> \o Ascending(Unrun(u))'
           /\ Lists(Ascending(Unrun(u)), Unrun(u))'
<1> DEFINE S == Unrun(u)  T == Unrun(u)'  s == Ascending(S)
<1>1. S \in SUBSET Nat /\ IsFiniteSet(S) /\ Lists(s, S)
  BY UnrunIssued DEF Listed
<1>2. T \in SUBSET Nat /\ Cardinality(T) \in Nat
  BY <1>1, FS_RemoveElement, FS_CardinalityType
<1>3. Lists(Tail(s), T) /\ s = <<m>> \o Tail(s)
  BY <1>1, ListShrinks
<1>4. Ascending(T) = Tail(s)
  BY <1>2, <1>3, OnlyList
<1>5. Ascending(Unrun(u))' = Ascending(T)
  BY DEF Ascending, Lists
<1>6. Lists(Ascending(Unrun(u)), Unrun(u))' <=> Lists(Ascending(T), T)
  BY DEF Ascending, Lists
<1> QED
  BY <1>3, <1>4, <1>5, <1>6

-----------------------------------------------------------------------------
(* What Delivery sees of the write path *)

Out == [u \in Users |-> Numbers(queue[u]) \o Ascending(Unrun(u))]
Stored == [u \in Users |-> Len(queue[u])]
Sent == [u \in Users |-> IF u = user /\ net.handshake THEN Len(net.replies) ELSE 0]

Number == 1..MaxWrites

\* The sequences the steps are about.
LEMMA NumbersOf ==
    ASSUME NEW q \in Seq(Batch)
    PROVE  /\ Numbers(q) \in Seq(Number) /\ Len(Numbers(q)) = Len(q) /\ Len(q) \in Nat
           /\ \A i \in 1..Len(q) : Numbers(q)[i] = q[i].write
<1>1. Len(q) \in Nat /\ DOMAIN q = 1..Len(q) /\ \A i \in 1..Len(q) : q[i] \in Batch
  OBVIOUS
<1>2. \A b \in Batch : b.write \in Number
  BY DEF Batch, Number
<1> QED
  BY <1>1, <1>2 DEF Numbers

LEMMA NumbersAppend ==
    ASSUME NEW q \in Seq(Batch), NEW b \in Batch
    PROVE  Numbers(Append(q, b)) = Append(Numbers(q), b.write)
<1>1. /\ Append(q, b) \in Seq(Batch) /\ Len(Append(q, b)) = Len(q) + 1 /\ Len(q) \in Nat
      /\ \A i \in 1..Len(q) : Append(q, b)[i] = q[i]
      /\ Append(q, b)[Len(q) + 1] = b
  OBVIOUS
<1>2. b.write \in Number
  BY DEF Batch, Number
<1> DEFINE s == Numbers(Append(q, b))  t == Append(Numbers(q), b.write)
<1>3. /\ s \in Seq(Number) /\ Len(s) = Len(q) + 1
      /\ \A i \in 1..Len(q) + 1 : s[i] = Append(q, b)[i].write
  BY <1>1, NumbersOf
<1>4. Numbers(q) \in Seq(Number) /\ Len(Numbers(q)) = Len(q) /\ \A i \in 1..Len(q) : Numbers(q)[i] = q[i].write
  BY NumbersOf
<1>5. /\ t \in Seq(Number) /\ Len(t) = Len(q) + 1
      /\ \A i \in 1..Len(q) : t[i] = Numbers(q)[i]
      /\ t[Len(q) + 1] = b.write
  BY <1>2, <1>4
<1> HIDE DEF s, t
<1>6. \A i \in 1..Len(q) + 1 : s[i] = t[i]
  <2> TAKE i \in 1..Len(q) + 1
  <2>1. i = Len(q) + 1 \/ i \in 1..Len(q)
    BY <1>1
  <2> QED
    BY <1>1, <1>3, <1>4, <1>5, <2>1
<1>7. s = t
  BY <1>3, <1>5, <1>6, SeqEqual
<1> QED
  BY <1>7 DEF s, t

LEMMA NumbersTail ==
    ASSUME NEW q \in Seq(Batch), Sorted(q), q # <<>>
    PROVE  Numbers(Tail(q)) = Tail(Numbers(q)) /\ Numbers(q) # <<>>
<1>1. /\ Tail(q) \in Seq(Batch) /\ Len(Tail(q)) = Len(q) - 1 /\ Len(q) \in Nat /\ Len(q) > 0
      /\ \A i \in 1..Len(q) - 1 : Tail(q)[i] = q[i + 1]
  BY Heading
<1> DEFINE s == Numbers(Tail(q))  t == Tail(Numbers(q))
<1>2. /\ s \in Seq(Number) /\ Len(s) = Len(q) - 1
      /\ \A i \in 1..Len(q) - 1 : s[i] = Tail(q)[i].write
  BY <1>1, NumbersOf
<1>3. /\ Numbers(q) \in Seq(Number) /\ Len(Numbers(q)) = Len(q)
      /\ \A i \in 1..Len(q) : Numbers(q)[i] = q[i].write
  BY NumbersOf
<1>4. Numbers(q) # <<>>
  BY <1>1, <1>3
<1>5. /\ t \in Seq(Number) /\ Len(t) = Len(q) - 1
      /\ \A i \in 1..Len(q) - 1 : t[i] = Numbers(q)[i + 1]
  BY <1>1, <1>3, <1>4, HeadTailProperties
<1> HIDE DEF s, t
<1>6. \A i \in 1..Len(q) - 1 : i + 1 \in 1..Len(q)
  BY <1>1
<1>7. \A i \in 1..Len(s) : s[i] = t[i]
  BY <1>1, <1>2, <1>3, <1>5, <1>6
<1>8. s = t
  BY <1>2, <1>5, <1>7, SeqEqual
<1> QED
  BY <1>4, <1>8 DEF s, t

LEMMA ListedNumbers ==
    ASSUME Inv, Listed, NEW u \in Users
    PROVE  Ascending(Unrun(u)) \in Seq(Number)
<1> DEFINE n == Cardinality(Unrun(u))
<1>1. n \in Nat /\ Unrun(u) \subseteq Number
  BY UnrunIssued DEF Number
<1>2. Ascending(Unrun(u)) \in [1..n -> Unrun(u)]
  BY DEF Listed, Lists
<1> HIDE DEF n
<1>3. Ascending(Unrun(u)) \in [1..n -> Number]
  BY <1>1, <1>2
<1> QED
  BY <1>1, <1>3

LEMMA Seen ==
    ASSUME Inv, Listed, NEW u \in Users
    PROVE  /\ queue[u] \in Seq(Batch) /\ Sorted(queue[u])
           /\ Numbers(queue[u]) \in Seq(Number) /\ Ascending(Unrun(u)) \in Seq(Number)
           /\ Len(Numbers(queue[u])) = Len(queue[u]) /\ Len(queue[u]) \in Nat
           /\ Out[u] = Numbers(queue[u]) \o Ascending(Unrun(u))
           /\ Stored[u] = Len(queue[u])
           /\ Out[u] \in Seq(Number) /\ Len(Out[u]) = Stored[u] + Len(Ascending(Unrun(u)))
           /\ Sent[u] = IF u = user /\ net.handshake THEN Len(net.replies) ELSE 0
           /\ Sent[u] \in 0..Stored[u]
<1>1. queue[u] \in Seq(Batch) /\ Sorted(queue[u])
  BY SortedQueues DEF Inv, Queues
<1>2. /\ Numbers(queue[u]) \in Seq(Number) /\ Len(Numbers(queue[u])) = Len(queue[u])
      /\ Len(queue[u]) \in Nat
  BY <1>1, NumbersOf
<1>3. Ascending(Unrun(u)) \in Seq(Number)
  BY ListedNumbers
<1>4. Out[u] = Numbers(queue[u]) \o Ascending(Unrun(u)) /\ Stored[u] = Len(queue[u])
  BY DEF Out, Stored
<1>5. Out[u] \in Seq(Number) /\ Len(Out[u]) = Stored[u] + Len(Ascending(Unrun(u)))
  <2>1. LET o == Numbers(queue[u]) \o Ascending(Unrun(u))
        IN  o \in Seq(Number) /\ Len(o) = Len(Numbers(queue[u])) + Len(Ascending(Unrun(u)))
    BY <1>2, <1>3, ConcatProperties, Zenon
  <2> QED
    BY <1>2, <1>4, <2>1
<1>6. Sent[u] = IF u = user /\ net.handshake THEN Len(net.replies) ELSE 0
  BY DEF Sent
<1>7. u = user /\ net.handshake => Len(net.replies) \in 0..Len(queue[u])
  <2> SUFFICES ASSUME u = user, net.handshake PROVE Len(net.replies) \in 0..Len(queue[u])
    OBVIOUS
  <2>1. /\ net.pipeline = net.replies \o net.wire
        /\ net.pipeline = SubSeq(queue[user], 1, Limit(queue[user]))
        /\ net.replies \in Seq(Message) /\ net.wire \in Seq(Message)
    BY Carrying DEF Inv, TypeOK, Net, Message
  <2>2. Limit(queue[user]) \in 0..Len(queue[user])
    BY <1>1, Limited
  <2>3. Len(net.pipeline) = Limit(queue[user])
    BY <1>1, <2>1, <2>2
  <2>4. Len(net.replies \o net.wire) = Len(net.replies) + Len(net.wire)
    BY <2>1, Concatenated
  <2>5. Len(net.replies) \in Nat /\ Len(net.wire) \in Nat
    BY <2>1, LenProperties
  <2>6. Len(net.replies) + Len(net.wire) = Limit(queue[u])
    BY <2>1, <2>3, <2>4
  <2> DEFINE r == Len(net.replies)  w == Len(net.wire)  l == Limit(queue[u])  n == Len(queue[u])
  <2>7. r \in Nat /\ w \in Nat /\ n \in Nat /\ l \in 0..n /\ r + w = l
    BY <1>2, <2>2, <2>5, <2>6
  <2> HIDE DEF r, w, l, n
  <2>8. r \in 0..n
    BY <2>7
  <2> QED
    BY <2>8 DEF r, n
<1> QED
  BY <1>1, <1>2, <1>3, <1>4, <1>5, <1>6, <1>7

-----------------------------------------------------------------------------
(* The steps of Delivery in these terms *)

LEMMA AsStutter == ASSUME Out' = Out, Stored' = Stored, Sent' = Sent PROVE UNCHANGED D!vars
  BY DEF D!vars, Out, Stored, Sent

LEMMA AsDispatch ==
    ASSUME NEW u \in Users, NEW w \in Number,
           Out' = [Out EXCEPT ![u] = @ \o <<w>>], Stored' = Stored, Sent' = Sent
    PROVE  D!Next
<1> DEFINE ws == <<w>>
<1>1. D!Dispatch(u, ws)
  BY DEF D!Dispatch, Out, Stored, Sent
<1>2. ws \in [1..1 -> Number]
  OBVIOUS
<1> HIDE DEF ws
<1>3. D!DispatchAny(u)
  BY <1>1, <1>2 DEF D!DispatchAny, Number
<1> QED
  BY <1>3 DEF D!Next

LEMMA AsStore ==
    ASSUME NEW u \in Users, Stored[u] < Len(Out[u]),
           Out' = Out, Stored' = [Stored EXCEPT ![u] = @ + 1], Sent' = Sent
    PROVE  D!Next
<1>1. D!Store(u)
  BY DEF D!Store, Out, Stored, Sent
<1> QED
  BY <1>1 DEF D!Next

LEMMA AsCommit ==
    ASSUME NEW u \in Users, Sent[u] < Stored[u],
           Out' = Out, Stored' = Stored, Sent' = [Sent EXCEPT ![u] = @ + 1]
    PROVE  D!Next
<1>1. D!Commit(u)
  BY DEF D!Commit, Out, Stored, Sent
<1> QED
  BY <1>1 DEF D!Next

LEMMA AsAck ==
    ASSUME NEW u \in Users, Sent[u] > 0, Out' = [Out EXCEPT ![u] = Tail(@)],
           Stored' = [Stored EXCEPT ![u] = @ - 1], Sent' = [Sent EXCEPT ![u] = @ - 1]
    PROVE  D!Next
<1>1. D!Ack(u)
  BY DEF D!Ack, D!DropHead, Out, Stored, Sent
<1> QED
  BY <1>1 DEF D!Next

LEMMA AsRefuse ==
    ASSUME NEW u \in Users, Sent[u] = 0, Stored[u] > 0, Out' = [Out EXCEPT ![u] = Tail(@)],
           Stored' = [Stored EXCEPT ![u] = @ - 1], Sent' = Sent
    PROVE  D!Next
<1>1. D!Refuse(u)
  BY DEF D!Refuse, D!DropHead, Out, Stored, Sent
<1> QED
  BY <1>1 DEF D!Next

LEMMA AsBreak ==
    ASSUME NEW u \in Users, Sent[u] > 0,
           Out' = Out, Stored' = Stored, Sent' = [Sent EXCEPT ![u] = 0]
    PROVE  D!Next
<1>1. D!Break(u)
  BY DEF D!Break, Out, Stored, Sent
<1> QED
  BY <1>1 DEF D!Next

LEMMA AsCrash ==
    ASSUME Out' = [u \in Users |-> SubSeq(Out[u], 1, Stored[u])], Stored' = Stored,
           Sent' = [u \in Users |-> 0]
    PROVE  D!Next
<1>1. D!Crash(Users)
  BY DEF D!Crash, Out, Stored, Sent
<1> QED
  BY <1>1 DEF D!Next

-----------------------------------------------------------------------------
(* Each step is one of Delivery, or none *)

Mapped == D!Next \/ UNCHANGED D!vars

\* Nothing to write has come or gone.
LEMMA SameWrites ==
    ASSUME Listed, UNCHANGED queue, \A u \in Users : Unrun(u)' = Unrun(u)
    PROVE  Listed' /\ Out' = Out /\ Stored' = Stored
<1>1. \A u \in Users : /\ Ascending(Unrun(u))' = Ascending(Unrun(u))
                       /\ Lists(Ascending(Unrun(u)), Unrun(u))'
  BY ListStays
<1>2. Listed'
  BY <1>1 DEF Listed
<1>3. Out' = Out
  BY <1>1 DEF Out, Numbers
<1> QED
  BY <1>2, <1>3 DEF Stored

LEMMA SameWorker ==
    ASSUME InTurn, UNCHANGED worker
    PROVE  InTurn' /\ \A u \in Users : Unrun(u)' = Unrun(u)
  BY DEF InTurn, Unrun, WritesOf

LEMMA SameReplies ==
    ASSUME InTurn, Listed, UNCHANGED <<worker, queue>>, Sent' = Sent
    PROVE  InTurn' /\ Listed' /\ Mapped
  BY SameWorker, SameWrites, AsStutter DEF Mapped

\* A stream whose handshake is undone has lost the replies it carried.
LEMMA LostReplies ==
    ASSUME Inv, Listed, ~net'.handshake, Out' = Out, Stored' = Stored
    PROVE  Mapped
<1>1. Sent' = [u \in Users |-> 0]
  BY DEF Sent
<1>2. user \in Users /\ \A u \in Users : Sent[u] \in Nat /\ (u # user => Sent[u] = 0)
  BY Seen DEF Inv, TypeOK
<1>3. Sent = [u \in Users |-> Sent[u]]
  BY DEF Sent
<1>4. CASE Sent[user] > 0
  <2>1. Sent' = [Sent EXCEPT ![user] = 0]
    BY <1>1, <1>2, <1>3
  <2> QED
    BY <1>2, <1>4, <2>1, AsBreak DEF Mapped
<1>5. CASE ~(Sent[user] > 0)
  <2>1. \A u \in Users : Sent[u] = 0
    BY <1>2, <1>5
  <2>2. Sent' = Sent
    BY <1>1, <1>3, <2>1
  <2> QED
    BY <2>2, AsStutter DEF Mapped
<1> QED
  BY <1>4, <1>5

LEMMA MapOpening ==
    ASSUME Inv, InTurn, Listed, OnStreamOpen \/ BackoffElapsed \/ ServerReject \/ UNCHANGED vars
    PROVE  InTurn' /\ Listed' /\ Mapped
<1>1. UNCHANGED <<worker, queue, user>> /\ net'.handshake = net.handshake /\ net'.replies = net.replies
  BY DEF Inv, TypeOK, Net, OnStreamOpen, BackoffElapsed, ServerReject, vars, local
<1>2. Sent' = Sent
  BY <1>1 DEF Sent
<1> QED
  BY <1>1, <1>2, SameReplies

LEMMA MapShaking ==
    ASSUME Inv, InTurn, Listed, OnHandshakeComplete
    PROVE  InTurn' /\ Listed' /\ Mapped
<1>1. /\ net \in Net /\ net.replies \in Seq(Message) /\ net.wire \in Seq(Message)
      /\ net.replies # <<>> /\ ~net.handshake /\ UNCHANGED <<worker, queue, user>>
      /\ net'.replies = Tail(net.replies)
  BY DEF Inv, TypeOK, Net, OnHandshakeComplete, Message, local
<1>2. net.replies \o net.wire = <<Hello>>
  <2>1. net.replies \o net.wire # <<>>
    BY <1>1, BothEmpty
  <2> QED
    BY <1>1, <2>1 DEF Inv, Streams, Carries
<1>3. net'.replies = <<>>
  BY <1>1, <1>2, HelloAlone
<1>4. Len(net'.replies) = 0
  BY <1>3
<1>5. Sent' = Sent
  BY <1>1, <1>4 DEF Sent
<1> QED
  BY <1>1, <1>5, SameReplies

LEMMA MapGreeting ==
    ASSUME Inv, InTurn, Listed, ServerHello
    PROVE  InTurn' /\ Listed' /\ Mapped
<1>1. /\ net \in Net /\ net.wire # <<>> /\ Head(net.wire) = Hello /\ net.handshake \in BOOLEAN
      /\ net'.handshake = net.handshake /\ UNCHANGED <<worker, queue, user>>
  BY DEF Inv, TypeOK, Net, ServerHello, local
<1>2. ~net.handshake
  <2> SUFFICES ASSUME net.handshake PROVE FALSE
    BY <1>1
  <2>1. net.wire \in Seq(Batch)
    BY Carrying
  <2>2. Head(net.wire) \in Batch
    BY <1>1, <2>1
  <2> QED
    BY <1>1, <2>2, HelloIsNoBatch
<1>3. Sent' = Sent
  BY <1>1, <1>2 DEF Sent
<1> QED
  BY <1>1, <1>3, SameReplies

LEMMA MapClosing ==
    ASSUME Inv, InTurn, Listed, OnStreamBroken \/ IdleTimeout \/ ConnectivityChange
    PROVE  InTurn' /\ Listed' /\ Mapped
<1>1. net \in Net /\ Carries(net) /\ Prefix(net, queue[user])
  BY DEF Inv, TypeOK, Streams
<1>2. queue[user] \in Seq(Batch) /\ Sorted(queue[user])
  BY SortedQueues DEF Inv, TypeOK, Queues
<1>3. UNCHANGED <<worker, queue>>
  BY DEF OnStreamBroken, IdleTimeout, ConnectivityChange, local
<1>4. ~net'.handshake
  BY <1>1, <1>2, Reopening, Stopping, Restarting
     DEF OnStreamBroken, IdleTimeout, ConnectivityChange, Silent
<1> QED
  BY <1>3, <1>4, SameWorker, SameWrites, LostReplies

LEMMA MapWriting ==
    ASSUME Inv, InTurn, Listed, WriteMutations
    PROVE  InTurn' /\ Listed' /\ Mapped
<1> DEFINE t == [task |-> "write", write |-> issued + 1, owner |-> auth]
           m == issued + 1
<1>1. issued \in 0..MaxWrites /\ issued < MaxWrites /\ MaxWrites \in Nat /\ auth \in Users
  BY PipelineAssumption DEF Inv, TypeOK, WriteMutations
<1>2. m \in Number /\ m \in Nat
  BY <1>1 DEF Number
<1>3. t \in Task /\ t.task = "write" /\ t.owner = auth /\ t.write = m
  BY <1>1, <1>2 DEF Task, Number
<1>4. worker' = Append(worker, t) /\ UNCHANGED <<queue, user, net>>
  BY DEF WriteMutations
<1> HIDE DEF t
<1>5. InTurn'
  BY <1>3, <1>4, TurnGrows
<1>6. \A u \in Users : Unrun(u)' = IF u = auth THEN Unrun(u) \cup {m} ELSE Unrun(u)
  BY <1>3, <1>4, UnrunGrows
<1>7. \A x \in Unrun(auth) : x < m
  BY <1>1, UnrunIssued
<1> HIDE DEF m
<1>8. ASSUME NEW u \in Users
      PROVE  /\ Ascending(Unrun(u))' = IF u = auth THEN Append(Ascending(Unrun(u)), m)
                                                   ELSE Ascending(Unrun(u))
             /\ Lists(Ascending(Unrun(u)), Unrun(u))'
  <2>1. CASE u = auth
    <3>1. Unrun(u)' = Unrun(u) \cup {m} /\ \A x \in Unrun(u) : x < m
      BY <1>6, <1>7, <2>1
    <3> QED
      BY <1>2, <2>1, <3>1, ListGains
  <2>2. CASE u # auth
    BY <1>6, <2>2, ListStays
  <2> QED
    BY <2>1, <2>2
<1>10. Listed'
  BY <1>8 DEF Listed
<1>11. Numbers(queue[auth]) \o Append(Ascending(Unrun(auth)), m) = Out[auth] \o <<m>>
  <2> DEFINE a == Numbers(queue[auth])  b == Ascending(Unrun(auth))
  <2>1. a \in Seq(Number) /\ b \in Seq(Number) /\ Out[auth] = a \o b
    BY <1>1, Seen
  <2> HIDE DEF a, b
  <2>2. Append(b, m) = b \o <<m>> /\ <<m>> \in Seq(Number)
    BY <1>2, <2>1
  <2>3. (a \o b) \o <<m>> = a \o (b \o <<m>>)
    BY <2>1, <2>2, ConcatAssociative
  <2> QED
    BY <2>1, <2>2, <2>3 DEF a, b
<1>12. Out' = [Out EXCEPT ![auth] = Out[auth] \o <<m>>]
  <2>1. Out' = [u \in Users |-> Numbers(queue[u]) \o Ascending(Unrun(u))']
    BY <1>4 DEF Out, Numbers
  <2> QED
    BY <1>8, <1>11, <2>1 DEF Out
<1>13. Stored' = Stored /\ Sent' = Sent
  BY <1>4 DEF Stored, Sent
<1>14. D!Next
  BY <1>1, <1>2, <1>12, <1>13, AsDispatch
<1> QED
  BY <1>5, <1>10, <1>14 DEF Mapped

LEMMA MapSigningIn ==
    ASSUME Inv, InTurn, Listed, NEW v \in Users, CredentialChange(v)
    PROVE  InTurn' /\ Listed' /\ Mapped
<1> DEFINE t == [task |-> "user", owner |-> v]
<1>1. t \in Task /\ t.task # "write"
  BY DEF Task
<1>2. worker' = Append(worker, t) /\ UNCHANGED <<queue, user, net>>
  BY DEF CredentialChange
<1> HIDE DEF t
<1>3. InTurn' /\ \A u \in Users : Unrun(u)' = Unrun(u)
  BY <1>1, <1>2, TurnGrows, UnrunGrows
<1>4. Sent' = Sent
  BY <1>2 DEF Sent
<1> QED
  BY <1>2, <1>3, <1>4, SameWrites, AsStutter DEF Mapped

LEMMA MapSwitching ==
    ASSUME Inv, InTurn, Listed, RunCredentialChange
    PROVE  InTurn' /\ Listed' /\ Mapped
<1>1. /\ worker # <<>> /\ Head(worker).task = "user" /\ worker' = Tail(worker) /\ UNCHANGED queue
      /\ user' = Head(worker).owner /\ net' = RestartNetwork(net, queue[user'])
  BY DEF RunCredentialChange
<1>2. user' \in Users
  <2>1. worker \in Seq(Task)
    BY DEF Inv, TypeOK
  <2>2. Head(worker) \in Task
    BY <1>1, <2>1
  <2> QED
    BY <1>1, <2>2 DEF Task
<1>3. queue[user'] \in Seq(Batch) /\ Sorted(queue[user'])
  BY <1>2, SortedQueues DEF Inv, Queues
<1>4. ~net'.handshake
  BY <1>1, <1>3, Restarting DEF Inv, TypeOK, Streams, Silent
<1>5. InTurn' /\ \A u \in Users : Unrun(u)' = Unrun(u)
  BY <1>1, TurnShrinks, UnrunShrinks
<1> QED
  BY <1>1, <1>4, <1>5, SameWrites, LostReplies

\* The write moves from the worker queue to the mutation queue.
LEMMA MapRunning ==
    ASSUME Inv, InTurn, Listed, RunWrite
    PROVE  InTurn' /\ Listed' /\ Mapped
<1> DEFINE b == [id |-> nextBatchId, write |-> Head(worker).write, owner |-> Head(worker).owner]
           m == Head(worker).write
<1>1. /\ worker # <<>> /\ Head(worker).task = "write" /\ worker' = Tail(worker)
      /\ queue' = [queue EXCEPT ![user] = Append(@, b)]
      /\ net' = FillWritePipeline(net, queue'[user]) /\ user' = user
      /\ b.write = m
  BY DEF RunWrite
<1>2. worker \in Seq(Task) /\ user \in Users /\ queue \in [Users -> Seq(Batch)] /\ nextBatchId \in Nat
  BY DEF Inv, TypeOK
<1>3. Head(worker) = worker[1] /\ 1 \in DOMAIN worker
  BY <1>1, <1>2
<1>4. m \in 1..issued /\ Head(worker).owner = user
  BY <1>1, <1>3 DEF Inv, Queues, Numbered, Follows
<1>5. m \in Number /\ b \in Batch
  <2>1. issued \in 0..MaxWrites /\ MaxWrites \in Nat
    BY PipelineAssumption DEF Inv, TypeOK
  <2>2. m \in Number
    BY <1>4, <2>1 DEF Number
  <2> QED
    BY <1>2, <1>4, <2>2 DEF Batch, Number
<1>6. InTurn'
  BY <1>1, TurnShrinks
<1>7. \A u \in Users :
         IF u = user
         THEN /\ Unrun(u)' = Unrun(u) \ {m}
              /\ m \in Unrun(u) /\ \A x \in Unrun(u) : m <= x
         ELSE Unrun(u)' = Unrun(u)
  BY <1>1, <1>4, UnrunShrinks
<1> HIDE DEF b, m
<1>8. ASSUME NEW u \in Users
      PROVE  /\ Lists(Ascending(Unrun(u)), Unrun(u))'
             /\ IF u = user THEN Ascending(Unrun(u)) = <<m>> \o Ascending(Unrun(u))'
                            ELSE Ascending(Unrun(u))' = Ascending(Unrun(u))
  <2>1. CASE u = user
    <3>1. m \in Unrun(u) /\ Unrun(u)' = Unrun(u) \ {m} /\ \A x \in Unrun(u) : m <= x
      BY <1>7, <2>1
    <3> QED
      BY <2>1, <3>1, ListLoses
  <2>2. CASE u # user
    BY <1>7, <2>2, ListStays
  <2> QED
    BY <2>1, <2>2
<1>9. Listed'
  BY <1>8 DEF Listed
<1>10. ASSUME NEW u \in Users
       PROVE  /\ Numbers(queue[u])' \o Ascending(Unrun(u))' = Out[u]
              /\ Len(queue[u])' = IF u = user THEN Stored[u] + 1 ELSE Stored[u]
              /\ u = user => Stored[u] < Len(Out[u])
  <2> DEFINE a == Numbers(queue[u])  c == Ascending(Unrun(u))  r == Ascending(Unrun(u))'
  <2>1. /\ a \in Seq(Number) /\ c \in Seq(Number) /\ Out[u] = a \o c /\ queue[u] \in Seq(Batch)
        /\ Stored[u] = Len(queue[u]) /\ Len(Out[u]) = Stored[u] + Len(c) /\ Stored[u] \in Nat
    BY Seen
  <2>2. r \in Seq(Number)
    <3>1. Unrun(u)' \in SUBSET Unrun(u)
      BY <1>7
    <3>2. Unrun(u)' \subseteq Number /\ Cardinality(Unrun(u)') \in Nat
      BY <3>1, UnrunIssued, FS_Subset, FS_CardinalityType DEF Number
    <3>3. r \in [1..Cardinality(Unrun(u)') -> Unrun(u)']
      BY <1>8 DEF Lists
    <3>4. r \in [1..Cardinality(Unrun(u)') -> Number]
      BY <3>2, <3>3
    <3> QED
      BY <3>2, <3>4
  <2>3. CASE u = user
    <3>1. queue'[u] = Append(queue[u], b)
      BY <1>1, <1>2, <2>3
    <3>2. Numbers(queue'[u]) = Append(a, m)
      BY <1>1, <1>5, <2>1, <3>1, NumbersAppend
    <3>3. Numbers(queue[u])' = Numbers(queue'[u])
      BY DEF Numbers
    <3>4. c = <<m>> \o r
      BY <1>8, <2>3
    <3>5. Len(queue'[u]) = Len(queue[u]) + 1
      BY <2>1, <3>1
    <3> HIDE DEF a, c, r
    <3>6. Append(a, m) = a \o <<m>> /\ <<m>> \in Seq(Number)
      BY <1>5, <2>1
    <3>7. (a \o <<m>>) \o r = a \o (<<m>> \o r)
      BY <2>1, <2>2, <3>6, ConcatAssociative
    <3>8. Len(c) > 0 /\ Len(c) \in Nat
      BY <1>5, <2>1, <2>2, <3>4
    <3>9. Numbers(queue[u])' \o r = Out[u]
      BY <2>1, <3>2, <3>3, <3>4, <3>6, <3>7
    <3>10. Stored[u] < Len(Out[u])
      BY <2>1, <3>8
    <3> QED
      BY <2>1, <2>3, <3>5, <3>9, <3>10 DEF r
  <2>4. CASE u # user
    <3>1. queue'[u] = queue[u]
      BY <1>1, <1>2, <2>4
    <3> QED
      BY <1>8, <2>1, <2>4, <3>1 DEF Numbers
  <2> QED
    BY <2>3, <2>4
<1>11. Out' = Out /\ Stored' = [Stored EXCEPT ![user] = Stored[user] + 1]
  <2>1. /\ Out' = [u \in Users |-> Numbers(queue[u])' \o Ascending(Unrun(u))']
        /\ Stored' = [u \in Users |-> Len(queue[u])']
    BY DEF Out, Stored
  <2>2. Out = [u \in Users |-> Out[u]] /\ Stored = [u \in Users |-> Stored[u]]
    BY DEF Out, Stored
  <2>3. Out' = Out
    BY <1>10, <2>1, <2>2
  <2> QED
    BY <1>2, <1>10, <2>1, <2>2, <2>3
<1>12. Sent' = Sent
  <2>1. net'.handshake = net.handshake /\ net'.replies = net.replies
    <3>1. \A q : LET f == FillWritePipeline(net, q)
                 IN  f.handshake = net.handshake /\ f.replies = net.replies
      <4>1. net \in Net
        BY DEF Inv, TypeOK
      <4> QED
        BY <4>1 DEF FillWritePipeline, StartIfNeeded, Start, Net
    <3> QED
      BY <1>1, <3>1
  <2> QED
    BY <1>1, <2>1 DEF Sent
<1>13. D!Next
  BY <1>2, <1>10, <1>11, <1>12, AsStore
<1> QED
  BY <1>6, <1>9, <1>13 DEF Mapped

\* The oldest batch of the current account leaves.
LEMMA HeadLeaves ==
    ASSUME Inv, InTurn, Listed, net.pipeline # <<>>, RemoveBatch(Head(net.pipeline)),
           issued' = issued
    PROVE  /\ InTurn' /\ Listed' /\ user \in Users /\ user' = user /\ Stored[user] > 0
           /\ Out' = [Out EXCEPT ![user] = Tail(Out[user])]
           /\ Stored' = [Stored EXCEPT ![user] = Stored[user] - 1]
<1>1. /\ queue' = [queue EXCEPT ![user] = Tail(@)] /\ UNCHANGED <<worker, user>>
      /\ user \in Users /\ queue \in [Users -> Seq(Batch)]
  BY Removing DEF Inv, TypeOK, RemoveBatch
<1>2. InTurn' /\ \A u \in Users : Unrun(u)' = Unrun(u)
  BY <1>1, SameWorker
<1>3. \A u \in Users : /\ Ascending(Unrun(u))' = Ascending(Unrun(u))
                       /\ Lists(Ascending(Unrun(u)), Unrun(u))'
  BY <1>2, ListStays
<1>4. Listed'
  BY <1>3 DEF Listed
<1>5. queue[user] # <<>>
  BY First
<1>6. ASSUME NEW u \in Users
      PROVE  /\ Numbers(queue[u])' \o Ascending(Unrun(u)) = IF u = user THEN Tail(Out[u]) ELSE Out[u]
             /\ Len(queue[u])' = IF u = user THEN Stored[u] - 1 ELSE Stored[u]
             /\ u = user => Stored[u] > 0
  <2> DEFINE a == Numbers(queue[u])  c == Ascending(Unrun(u))
  <2>1. /\ a \in Seq(Number) /\ c \in Seq(Number) /\ Out[u] = a \o c
        /\ queue[u] \in Seq(Batch) /\ Sorted(queue[u])
        /\ Stored[u] = Len(queue[u]) /\ Stored[u] \in Nat
    BY Seen
  <2>2. CASE u = user
    <3>1. queue'[u] = Tail(queue[u]) /\ queue[u] # <<>>
      BY <1>1, <1>5, <2>2
    <3>2. Numbers(Tail(queue[u])) = Tail(a) /\ a # <<>>
      BY <2>1, <3>1, NumbersTail
    <3>3. Numbers(queue[u])' = Numbers(queue'[u])
      BY DEF Numbers
    <3>4. Len(Tail(queue[u])) = Len(queue[u]) - 1 /\ Len(queue[u]) > 0
      BY <2>1, <3>1
    <3> HIDE DEF a, c
    <3>5. Tail(a \o c) = Tail(a) \o c
      BY <2>1, <3>2, TailOfConcat
    <3> QED
      BY <2>1, <2>2, <3>1, <3>2, <3>3, <3>4, <3>5 DEF c
  <2>3. CASE u # user
    <3>1. queue'[u] = queue[u]
      BY <1>1, <2>3
    <3> QED
      BY <2>1, <2>3, <3>1 DEF Numbers
  <2> QED
    BY <2>2, <2>3
<1>7. /\ Out' = [u \in Users |-> Numbers(queue[u])' \o Ascending(Unrun(u))]
      /\ Stored' = [u \in Users |-> Len(queue[u])']
  BY <1>3 DEF Out, Stored
<1>8. Out = [u \in Users |-> Out[u]] /\ Stored = [u \in Users |-> Stored[u]]
  BY DEF Out, Stored
<1>9. Out' = [Out EXCEPT ![user] = Tail(Out[user])]
  BY <1>6, <1>7, <1>8
<1>10. Stored' = [Stored EXCEPT ![user] = Stored[user] - 1]
  BY <1>6, <1>7, <1>8
<1> QED
  BY <1>1, <1>2, <1>4, <1>6, <1>9, <1>10

LEMMA PartOfConcat ==
    ASSUME NEW S, NEW s \in Seq(S), NEW t \in Seq(S)
    PROVE  SubSeq(s \o t, 1, Len(s)) = s
<1> DEFINE p == s \o t  r == SubSeq(p, 1, Len(s))
<1>1. /\ p \in Seq(S) /\ Len(p) = Len(s) + Len(t) /\ Len(s) \in Nat /\ Len(t) \in Nat
      /\ \A i \in 1..Len(s) : p[i] = s[i]
  BY SMT
<1> HIDE DEF p
<1>2. /\ r \in Seq(S) /\ Len(r) = Len(s)
      /\ \A i \in 1..Len(s) : r[i] = p[i]
  BY <1>1
<1> HIDE DEF r
<1>3. r = s
  BY <1>1, <1>2, SeqEqual
<1> QED
  BY <1>3 DEF r, p

\* Filling the pipeline leaves what has been read alone.
LEMMA FillingKeeps ==
    ASSUME NEW n \in Net, NEW q
    PROVE  LET f == FillWritePipeline(n, q)
           IN  f.handshake = n.handshake /\ f.replies = n.replies
  BY DEF FillWritePipeline, StartIfNeeded, Start, Net

LEMMA MapAcknowledging ==
    ASSUME Inv, InTurn, Listed, OnMutationResult
    PROVE  InTurn' /\ Listed' /\ Mapped
<1>1. /\ net.replies # <<>> /\ net.handshake /\ RemoveBatch(Head(net.pipeline))
      /\ net' = FillWritePipeline([net EXCEPT !.pipeline = Tail(@), !.replies = Tail(@)], queue'[user])
      /\ issued' = issued
  BY DEF OnMutationResult, bounds
<1>2. /\ net \in Net /\ net.pipeline = net.replies \o net.wire
      /\ net.replies \in Seq(Batch) /\ net.wire \in Seq(Batch)
  BY <1>1, Carrying DEF Inv, TypeOK
<1>3. net.pipeline # <<>>
  BY <1>1, <1>2, BothEmpty
<1>4. /\ InTurn' /\ Listed' /\ user \in Users /\ user' = user
      /\ Out' = [Out EXCEPT ![user] = Tail(Out[user])]
      /\ Stored' = [Stored EXCEPT ![user] = Stored[user] - 1]
  BY <1>1, <1>3, HeadLeaves
<1>5. net'.handshake = net.handshake /\ net'.replies = Tail(net.replies)
  <2> DEFINE m == [net EXCEPT !.pipeline = Tail(@), !.replies = Tail(@)]
  <2>1. net.pipeline \in Seq(Batch)
    BY <1>2 DEF Net
  <2>2. Tail(net.replies) \in Seq(Batch \cup {Hello}) /\ Tail(net.pipeline) \in Seq(Batch)
    BY <1>1, <1>2, <1>3, <2>1
  <2>3. m \in Net /\ m.handshake = net.handshake /\ m.replies = Tail(net.replies)
    BY <1>2, <2>2 DEF Net
  <2> HIDE DEF m
  <2> QED
    BY <1>1, <2>3, FillingKeeps DEF m
<1>6. Len(Tail(net.replies)) = Len(net.replies) - 1 /\ Len(net.replies) > 0
  BY <1>1, <1>2
<1>7. /\ Sent[user] = Len(net.replies) /\ Sent = [u \in Users |-> Sent[u]]
      /\ \A u \in Users \ {user} : Sent[u] = 0
      /\ Sent' = [u \in Users |-> IF u = user THEN Len(Tail(net.replies)) ELSE 0]
  BY <1>1, <1>4, <1>5 DEF Sent
<1>8. Sent' = [Sent EXCEPT ![user] = Sent[user] - 1]
  BY <1>4, <1>6, <1>7
<1>9. D!Next
  BY <1>4, <1>6, <1>7, <1>8, AsAck
<1> QED
  BY <1>4, <1>9 DEF Mapped

LEMMA MapRefusing ==
    ASSUME Inv, InTurn, Listed, OnRefusal
    PROVE  InTurn' /\ Listed' /\ Mapped
<1>1. /\ net.refusal /\ RemoveBatch(Head(net.pipeline)) /\ net.replies = <<>>
      /\ net' = CloseRefused(net, queue'[user]) /\ issued' = issued
  BY DEF OnRefusal, bounds
<1>2. net \in Net /\ net.handshake /\ net.wire # <<>>
  BY <1>1 DEF Inv, TypeOK, Streams, Carries
<1>3. net.pipeline # <<>>
  <2>1. net.pipeline = net.replies \o net.wire /\ net.wire \in Seq(Batch) /\ net.replies \in Seq(Batch)
    BY <1>2, Carrying
  <2> QED
    BY <1>2, <2>1, BothEmpty
<1>4. /\ InTurn' /\ Listed' /\ user \in Users /\ Stored[user] > 0
      /\ Out' = [Out EXCEPT ![user] = Tail(Out[user])]
      /\ Stored' = [Stored EXCEPT ![user] = Stored[user] - 1]
  BY <1>1, <1>3, HeadLeaves
<1>5. queue[user] \in Seq(Batch) /\ Sorted(queue[user]) /\ queue[user] # <<>>
  BY <1>3, First
<1>6. queue'[user] = Tail(queue[user])
  BY <1>1, <1>3, Removing
<1>7. ~net'.handshake
  BY <1>1, <1>2, <1>5, <1>6, Refusing DEF Inv, Streams, Silent
<1>8. Len(net.replies) = 0
  BY <1>1
<1>9. Sent[user] = 0 /\ Sent' = Sent
  BY <1>4, <1>7, <1>8 DEF Sent
<1>10. D!Next
  BY <1>4, <1>9, AsRefuse
<1> QED
  BY <1>4, <1>10 DEF Mapped

LEMMA MapCommitting ==
    ASSUME Inv, InTurn, Listed, ServerCommit
    PROVE  InTurn' /\ Listed' /\ Mapped
<1>1. /\ net \in Net /\ net.replies \in Seq(Message) /\ net.wire \in Seq(Message)
      /\ net.wire # <<>> /\ net.handshake /\ user \in Users
  BY Waiting DEF Inv, TypeOK, Net, ServerCommit, Message
<1>2. /\ net'.replies = Append(net.replies, Head(net.wire)) /\ net'.handshake = net.handshake
      /\ UNCHANGED <<worker, queue, user>>
  BY <1>1 DEF ServerCommit, Net, local
<1>3. InTurn' /\ Listed' /\ Out' = Out /\ Stored' = Stored
  BY <1>2, SameWorker, SameWrites
<1>4. Len(net'.replies) = Len(net.replies) + 1 /\ Len(net.replies) \in Nat
  BY <1>1, <1>2
<1>5. /\ Sent[user] = Len(net.replies) /\ Sent = [u \in Users |-> Sent[u]]
      /\ \A u \in Users \ {user} : Sent[u] = 0
      /\ Sent' = [u \in Users |-> IF u = user THEN Len(net'.replies) ELSE 0]
  BY <1>1, <1>2 DEF Sent
<1>6. Sent' = [Sent EXCEPT ![user] = Sent[user] + 1]
  BY <1>1, <1>4, <1>5
<1>7. Sent[user] < Stored[user]
  <2>1. /\ queue[user] \in Seq(Batch) /\ Limit(queue[user]) \in 0..Len(queue[user])
        /\ net.pipeline = net.replies \o net.wire
        /\ net.pipeline = SubSeq(queue[user], 1, Limit(queue[user]))
    BY <1>1, Carrying, Limited DEF Inv, TypeOK
  <2>2. Len(net.pipeline) = Limit(queue[user])
    BY <2>1
  <2>3. Len(net.replies \o net.wire) = Len(net.replies) + Len(net.wire)
    BY <1>1, Concatenated
  <2>4. Len(net.wire) \in Nat /\ Len(net.wire) > 0
    BY <1>1
  <2> DEFINE r == Len(net.replies)  w == Len(net.wire)  l == Limit(queue[user])  n == Len(queue[user])
  <2>5. r \in Nat /\ w \in Nat /\ w > 0 /\ n \in Nat /\ l \in 0..n /\ r + w = l
    <3>1. Len(queue[user]) \in Nat
      BY <2>1
    <3>2. Len(net.pipeline) = Len(net.replies) + Len(net.wire)
      BY <2>1, <2>3
    <3> QED
      BY <1>4, <2>1, <2>2, <2>4, <3>1, <3>2
  <2>6. Stored[user] = n /\ Sent[user] = r
    BY <1>1, <1>5 DEF Stored
  <2> HIDE DEF r, w, l, n
  <2> QED
    BY <2>5, <2>6
<1>8. D!Next
  BY <1>1, <1>3, <1>6, <1>7, AsCommit
<1> QED
  BY <1>3, <1>8 DEF Mapped

\* What was only in memory dies with the process.
LEMMA MapDying ==
    ASSUME Inv, InTurn, Listed, ProcessRestart
    PROVE  InTurn' /\ Listed' /\ Mapped
<1>1. /\ worker' = <<>> /\ UNCHANGED queue /\ auth \in Users
      /\ net' = FillWritePipeline(EmptyNet, queue[auth])
  BY DEF ProcessRestart, Inv, TypeOK
<1>2. InTurn' /\ \A u \in Users : Unrun(u)' = {}
  BY <1>1 DEF InTurn, Unrun, WritesOf
<1>3. Ascending({}) = <<>>
  BY OnlyList, ListOfNone, FS_EmptySet
<1>4. \A u \in Users : Ascending(Unrun(u))' = <<>> /\ Lists(Ascending(Unrun(u)), Unrun(u))'
  <2> TAKE u \in Users
  <2>1. Unrun(u)' = {}
    BY <1>2
  <2>2. Ascending(Unrun(u))' = Ascending({})
    BY <2>1 DEF Ascending, Lists
  <2>3. Lists(Ascending(Unrun(u)), Unrun(u))' <=> Lists(Ascending({}), {})
    BY <2>1 DEF Ascending, Lists
  <2> QED
    BY <1>3, <2>2, <2>3, ListOfNone
<1>5. Listed'
  BY <1>4 DEF Listed
<1>6. Out' = [u \in Users |-> SubSeq(Out[u], 1, Stored[u])]
  <2>1. ASSUME NEW u \in Users
        PROVE  Numbers(queue[u]) \o <<>> = SubSeq(Out[u], 1, Stored[u])
    <3> DEFINE a == Numbers(queue[u])  c == Ascending(Unrun(u))
    <3>1. a \in Seq(Number) /\ c \in Seq(Number) /\ Out[u] = a \o c /\ Stored[u] = Len(a)
      BY Seen
    <3> HIDE DEF a, c
    <3>2. a \o <<>> = a /\ SubSeq(a \o c, 1, Len(a)) = a
      BY <3>1, ConcatEmptySeq, PartOfConcat
    <3> QED
      BY <3>1, <3>2 DEF a
  <2>2. Out' = [u \in Users |-> Numbers(queue[u]) \o <<>>]
    BY <1>1, <1>4 DEF Out, Numbers
  <2> QED
    BY <2>1, <2>2
<1>7. Stored' = Stored
  BY <1>1 DEF Stored
<1>8. ~net'.handshake
  <2>1. queue[auth] \in Seq(Batch) /\ Sorted(queue[auth])
    BY <1>1, SortedQueues DEF Inv, Queues
  <2>2. EmptyNet \in Net /\ Silent(EmptyNet) /\ EmptyNet.stream # "Open" /\ EmptyNet.pipeline = <<>>
    BY EmptySeq DEF EmptyNet, Net, Silent
  <2>3. SubSeq(queue[auth], 1, 0) = <<>> /\ 0 \in 0..Len(queue[auth]) /\ 0 <= MaxPending
    BY <2>1, PipelineAssumption
  <2> QED
    BY <1>1, <2>1, <2>2, <2>3, FillingSilent DEF Silent
<1>9. Sent' = [u \in Users |-> 0]
  BY <1>8 DEF Sent
<1>10. D!Next
  BY <1>6, <1>7, <1>9, AsCrash
<1> QED
  BY <1>2, <1>5, <1>10 DEF Mapped

-----------------------------------------------------------------------------
LEMMA MapInit == Init => InTurn /\ Listed /\ D!Init
<1> SUFFICES ASSUME Init PROVE InTurn /\ Listed /\ D!Init
  OBVIOUS
<1>1. worker = <<>> /\ queue = [u \in Users |-> <<>>] /\ net = EmptyNet
  BY DEF Init
<1>2. InTurn /\ \A u \in Users : Unrun(u) = {}
  BY <1>1 DEF InTurn, Unrun, WritesOf
<1>3. Ascending({}) = <<>>
  BY OnlyList, ListOfNone, FS_EmptySet
<1>4. Listed
  BY <1>2, <1>3, ListOfNone DEF Listed
<1>5. Numbers(<<>>) \o <<>> = <<>>
  BY DEF Numbers
<1>6. Out = [u \in Users |-> <<>>] /\ Stored = [u \in Users |-> 0] /\ Sent = [u \in Users |-> 0]
  BY <1>1, <1>2, <1>3, <1>5 DEF Out, Stored, Sent, EmptyNet
<1>7. D!Init
  BY <1>6 DEF D!Init, Out, Stored, Sent
<1> QED
  BY <1>2, <1>4, <1>7

LEMMA MapNext == Inv /\ InTurn /\ Listed /\ [Next]_vars => InTurn' /\ Listed' /\ [D!Next]_(D!vars)
<1> SUFFICES ASSUME Inv, InTurn, Listed, [Next]_vars
             PROVE  InTurn' /\ Listed' /\ Mapped
  BY DEF Mapped
<1> QED
  BY MapOpening, MapShaking, MapGreeting, MapClosing, MapWriting, MapSigningIn, MapRunning,
     MapSwitching, MapAcknowledging, MapRefusing, MapCommitting, MapDying DEF Next

(* The write path is an implementation of Delivery, whatever the accounts  *)
(* and caps: through breaks, refusals, changes of account and crashes, an  *)
(* account's writes are committed in the order of its setData and          *)
(* updateData calls, and one leaves the mutation queue only at the head,   *)
(* on the server's own answer to it (RemoteStore::OnMutationResult).       *)
THEOREM Implements == Spec => ImplementsDelivery
<1>1. Spec => [](Inv /\ InTurn /\ Listed)
  BY Initially, Stepping, MapInit, MapNext, PTL DEF Spec
<1> QED
  BY <1>1, MapInit, MapNext, PTL DEF Spec, ImplementsDelivery, D!Spec

============================================================================
