--------------------------- MODULE NearbyProofs ---------------------------
(***************************************************************************)
(* Nearby, for any rooms, places, steps and bounds.                        *)
(***************************************************************************)
EXTENDS Nearby, SequenceTheorems, TLAPS

USE NearbyAssumption

(* Rooms keep the place they were created at, the rooms an answer knew had *)
(* one, what was seen is in the cache, and a query that was made alone is  *)
(* the only one under way.                                                 *)
Known == /\ \A r \in rows : place[r] # NoPlace
         /\ \A r \in answer.known : place[r] # NoPlace
         /\ \A r \in cached : place[r] # NoPlace
         /\ seen \subseteq cached
Alone == ~overlapped => asked = <<>> \/ asked = <<latest>>

Inv == TypeOK /\ Known /\ Alone /\ MissesNoneNearby /\ RowsAreInBand /\ RowsAreOfLastQuery

-----------------------------------------------------------------------------
(* Places *)

LEMMA HereIsAPlace == TypeOK => Here \in Coordinates
BY DEF TypeOK, Here, Point

\* Inside the box is between the bounds, whatever the order makes of them.
LEMMA BoxIsBetween ==
    ASSUME NEW p \in Coordinates, NEW q \in Coordinates, InBox(q, p)
    PROVE  Between(q, Lesser(p), Greater(p))
BY DEF Coordinates, InBox, Between, Less, Lesser, Greater, Point

\* Between the bounds is in the band.
LEMMA BetweenIsInBand ==
    ASSUME NEW p \in Coordinates, NEW q \in Coordinates, Between(q, Lesser(p), Greater(p))
    PROVE  p.lat - LatStep <= q.lat /\ q.lat <= p.lat + LatStep
BY DEF Coordinates, Between, Less, Lesser, Greater, Point

\* Removing the answered query from the queries under way.
LEMMA RemovedQuery ==
    ASSUME asked \in Seq(Coordinates), NEW i \in DOMAIN asked
    PROVE  /\ SubSeq(asked, 1, i - 1) \o SubSeq(asked, i + 1, Len(asked)) \in Seq(Coordinates)
           /\ asked[i] \in Coordinates
           /\ Len(asked) = 1 => SubSeq(asked, 1, i - 1) \o SubSeq(asked, i + 1, Len(asked)) = <<>>
<1> DEFINE before == SubSeq(asked, 1, i - 1)
           after == SubSeq(asked, i + 1, Len(asked))
<1>1. i \in 1..Len(asked) /\ Len(asked) \in Nat /\ asked[i] \in Coordinates
  OBVIOUS
<1>2. before \in Seq(Coordinates) /\ after \in Seq(Coordinates)
  BY <1>1, SubSeqProperties
<1>3. before \o after \in Seq(Coordinates)
  BY <1>2
<1>4. ASSUME Len(asked) = 1 PROVE before \o after = <<>>
  <2>1. Len(before) = 0 /\ Len(after) = 0
    BY <1>1, <1>4, SubSeqProperties
  <2>2. Len(before \o after) = 0
    BY <1>2, <2>1
  <2> QED
    BY <1>3, <2>2, EmptySeq
<1> QED
  BY <1>1, <1>3, <1>4

-----------------------------------------------------------------------------
LEMMA Initially == Init => Inv
<1> SUFFICES ASSUME Init PROVE Inv
  OBVIOUS
<1>1. Point(0, 0) \in Coordinates
  BY DEF Point
<1>2. TypeOK
  <2>1. asked \in Seq(Coordinates)
    BY EmptySeq DEF Init
  <2>2. answer \in [from : Coordinates, ok : BOOLEAN, known : SUBSET Rooms]
    BY <1>1 DEF Init
  <2>3. /\ location \in Coordinates \cup {NoFix} /\ latest \in Coordinates
        /\ place \in [Rooms -> Coordinates \cup {NoPlace}]
    BY <1>1 DEF Init
  <2>4. visible \in BOOLEAN /\ ended \in BOOLEAN /\ overlapped \in BOOLEAN /\ rows \subseteq Rooms
    BY DEF Init
  <2>5. moves \in 0..MaxMoves /\ appears \in 0..MaxAppears /\ faults \in 0..MaxFaults
    BY DEF Init
  <2> QED
    BY <2>1, <2>2, <2>3, <2>4, <2>5 DEF TypeOK, Init
<1> QED
  BY <1>2 DEF Init, Inv, Known, Alone, MissesNoneNearby, RowsAreInBand, RowsAreOfLastQuery, Point

LEMMA Moving ==
    ASSUME Inv, NEW p \in Places, UpdateLocation(p)
    PROVE  Inv'
BY DEF Inv, UpdateLocation, TypeOK, Known, Alone, MissesNoneNearby, RowsAreInBand,
       RowsAreOfLastQuery, InBox, Between, Less, Lesser, Greater, Point

LEMMA Appearing ==
    ASSUME Inv, Appear
    PROVE  Inv'
<1>1. Here \in Coordinates
  BY HereIsAPlace DEF Inv
<1>2. TypeOK'
  <2>1. asked \in Seq(Coordinates) /\ latest \in Coordinates
    BY DEF Inv, TypeOK
  <2>2. Append(asked, Here) \in Seq(Coordinates)
    BY <1>1, <2>1, AppendProperties
  <2>3. /\ \/ asked' = Append(asked, Here) /\ latest' = Here
           \/ UNCHANGED <<asked, latest>>
        /\ visible' \in BOOLEAN /\ ended' \in BOOLEAN /\ overlapped' \in BOOLEAN
        /\ appears' \in 0..MaxAppears
        /\ UNCHANGED <<location, place, cached, rows, answer, seen, moves, faults>>
    <3>1. appears' \in 0..MaxAppears
      BY DEF Inv, Appear, TypeOK
    <3>2. CASE InRange(Lesser(Here)) /\ InRange(Greater(Here))
      <4>1. /\ asked' = Append(asked, Here) /\ latest' = Here
            /\ visible' = TRUE /\ ended' = ended
            /\ UNCHANGED <<location, place, cached, rows, answer, seen, moves, faults>>
        BY <3>2 DEF Appear
      <4>2. overlapped' \in BOOLEAN
        <5>1. overlapped' = (asked # <<>>)
          BY <3>2 DEF Appear
        <5> QED
          BY <5>1, Zenon
      <4>3. ended \in BOOLEAN
        BY DEF Inv, TypeOK
      <4> QED
        BY <3>1, <4>1, <4>2, <4>3
    <3>3. CASE ~(InRange(Lesser(Here)) /\ InRange(Greater(Here)))
      BY <3>1, <3>3 DEF Inv, Appear, TypeOK
    <3> QED
      BY <3>2, <3>3
  <2>4. asked' \in Seq(Coordinates) /\ latest' \in Coordinates
    BY <1>1, <2>1, <2>2, <2>3
  <2> QED
    BY <2>3, <2>4 DEF Inv, TypeOK
<1>3. Known' /\ MissesNoneNearby' /\ RowsAreInBand'
  BY DEF Inv, Appear, Known, MissesNoneNearby, RowsAreInBand, InBox
<1>4. Alone' /\ RowsAreOfLastQuery'
  <2>1. CASE InRange(Lesser(Here)) /\ InRange(Greater(Here))
    <3>1. asked' = Append(asked, Here) /\ latest' = Here /\ overlapped' = (asked # <<>>)
      BY <2>1 DEF Appear
    <3>2. asked' # <<>>
      BY <3>1, <1>1 DEF Inv, TypeOK
    <3>3. asked = <<>> => asked' = <<latest'>>
      BY <3>1
    <3> QED
      BY <3>1, <3>2, <3>3 DEF Alone, RowsAreOfLastQuery
  <2>2. CASE ~(InRange(Lesser(Here)) /\ InRange(Greater(Here)))
    BY <2>2 DEF Inv, Appear, Alone, RowsAreOfLastQuery, Between, Less, Lesser, Greater, Point
  <2> QED
    BY <2>1, <2>2
<1> QED
  BY <1>2, <1>3, <1>4 DEF Inv

LEMMA Covering ==
    ASSUME Inv, Cover
    PROVE  Inv'
BY DEF Inv, Cover, TypeOK, Known, Alone, MissesNoneNearby, RowsAreInBand, RowsAreOfLastQuery,
       InBox, Between, Less, Lesser, Greater, Point

LEMMA FoundIsThere ==
    ASSUME TypeOK, NEW p \in Coordinates, NEW known \in SUBSET Existing
    PROVE  /\ Found(p, known) \subseteq known /\ known \subseteq Rooms
           /\ \A r \in known : place[r] \in Coordinates
BY DEF TypeOK, Found, Existing

\* An answer by whoever knows all the rooms it must know.
LEMMA Answering ==
    ASSUME Inv, NEW i \in DOMAIN asked, NEW ok \in BOOLEAN,
           NEW has \in SUBSET Existing, NEW known \in SUBSET has, NEW found,
           found = IF ok THEN Found(asked[i], has) ELSE {},
           Answered(i, ok, found, known), faults' \in 0..MaxFaults,
           cached \subseteq cached', cached' \subseteq Existing, found \subseteq cached'
    PROVE  Inv'
<1>1. /\ asked' = SubSeq(asked, 1, i - 1) \o SubSeq(asked, i + 1, Len(asked))
      /\ rows' = found
      /\ answer' = [from |-> asked[i], ok |-> ok, known |-> known]
      /\ seen' = seen \cup rows'
      /\ UNCHANGED <<location, place, visible, latest, ended, overlapped, moves, appears>>
  BY DEF Answered, Show
<1>2. asked[i] \in Coordinates /\ asked' \in Seq(Coordinates) /\ (Len(asked) = 1 => asked' = <<>>)
  BY <1>1, RemovedQuery DEF Inv, TypeOK
<1>3. /\ found \subseteq Rooms /\ known \subseteq Rooms /\ cached' \subseteq Rooms
      /\ \A r \in found : place[r] \in Coordinates /\ place[r] # NoPlace
      /\ \A r \in known \cup cached' : place[r] # NoPlace
  BY <1>2, FoundIsThere DEF Inv, Existing
<1>4. TypeOK'
  BY <1>1, <1>2, <1>3 DEF Inv, TypeOK, Known
<1>5. Known'
  BY <1>1, <1>3 DEF Inv, Known
<1>6. Alone'
  <2>1. asked = <<latest>> => asked' = <<>>
    BY <1>2
  <2>2. asked # <<>>
    OBVIOUS
  <2> QED
    BY <1>1, <2>1, <2>2 DEF Inv, Alone
<1>7. MissesNoneNearby'
  <2> SUFFICES ASSUME answer'.ok, NEW r \in answer'.known, InBox(place[r], asked[i])
               PROVE  r \in rows'
    BY <1>1 DEF MissesNoneNearby, InBox
  <2>1. r \in has /\ ok /\ place[r] \in Coordinates
    BY <1>1, <1>2, FoundIsThere DEF Inv
  <2>2. r \in found
    BY <1>2, <2>1, BoxIsBetween DEF Found
  <2> QED
    BY <1>1, <2>2
<1>8. RowsAreInBand'
  <2> SUFFICES ASSUME NEW r \in rows'
               PROVE  /\ asked[i].lat - LatStep <= place[r].lat
                      /\ place[r].lat <= asked[i].lat + LatStep
    BY <1>1 DEF RowsAreInBand
  <2>1. r \in found
    BY <1>1
  <2>2. place[r] \in Coordinates /\ Between(place[r], Lesser(asked[i]), Greater(asked[i]))
    BY <2>1, <1>3 DEF Found
  <2> QED
    BY <1>2, <2>2, BetweenIsInBand
<1>9. RowsAreOfLastQuery'
  <2> SUFFICES ASSUME ~overlapped, NEW r \in rows'
               PROVE  Between(place[r], Lesser(latest), Greater(latest))
    BY <1>1 DEF RowsAreOfLastQuery, Between, Less, Lesser, Greater, Point
  <2>1. asked = <<latest>>
    BY DEF Inv, Alone
  <2>2. asked[i] = latest
    BY <2>1
  <2>3. r \in found
    BY <1>1
  <2> QED
    BY <2>2, <2>3 DEF Found
<1> QED
  BY <1>4, <1>5, <1>6, <1>7, <1>8, <1>9 DEF Inv

LEMMA Creating ==
    ASSUME Inv, NEW r \in Rooms, NEW p \in Coordinates, place[r] = NoPlace,
           place' = [place EXCEPT ![r] = p],
           \/ UNCHANGED <<cached, seen>>
           \/ cached' = cached \cup {r} /\ seen' = seen \cup {r},
           UNCHANGED <<location, visible, asked, latest, rows, ended, overlapped, answer, moves,
                       appears, faults>>
    PROVE  Inv'
<1>1. \A s \in Rooms : place[s] # NoPlace => place'[s] = place[s] /\ place'[s] # NoPlace
  BY DEF Inv, TypeOK
<1>2. rows \subseteq Rooms /\ answer.known \subseteq Rooms /\ cached \subseteq Rooms
  BY DEF Inv, TypeOK
<1>3. TypeOK'
  BY DEF Inv, TypeOK
<1>4. Known' /\ Alone'
  <2>1. place'[r] # NoPlace
    BY DEF Inv, TypeOK
  <2> QED
    BY <1>1, <1>2, <2>1 DEF Inv, Known, Alone
<1>5. MissesNoneNearby' /\ RowsAreInBand'
  BY <1>1, <1>2 DEF Inv, Known, MissesNoneNearby, RowsAreInBand, InBox
<1>6. RowsAreOfLastQuery'
  BY <1>1, <1>2 DEF Inv, Known, RowsAreOfLastQuery, Between, Less, Lesser, Greater, Point
<1> QED
  BY <1>3, <1>4, <1>5, <1>6 DEF Inv

LEMMA Stepping == Inv /\ [Next]_vars => Inv'
<1> SUFFICES ASSUME Inv, [Next]_vars PROVE Inv'
  OBVIOUS
<1>1. ASSUME NEW p \in Places, UpdateLocation(p) PROVE Inv'
  BY <1>1, Moving
<1>2. CASE Appear
  BY <1>2, Appearing
<1>3. CASE Cover
  BY <1>3, Covering
<1>4. ASSUME NEW i \in DOMAIN asked,
             QueryAnswered(i) \/ QueryAnsweredOffline(i) \/ QueryFails(i)
      PROVE  Inv'
  <2>0. /\ faults' \in 0..MaxFaults /\ cached \subseteq Existing /\ seen \subseteq cached
        /\ asked[i] \in Coordinates
    <3>1. faults' \in 0..MaxFaults
      <4>1. faults' = faults \/ (faults < MaxFaults /\ faults' = faults + 1)
        BY <1>4, Zenon DEF QueryAnswered, QueryAnsweredOffline, QueryFails, Fault
      <4> QED
        BY <4>1 DEF Inv, TypeOK
    <3>2. cached \subseteq Existing /\ seen \subseteq cached
      BY DEF Inv, TypeOK, Known, Existing
    <3>3. asked[i] \in Coordinates
      BY DEF Inv, TypeOK
    <3> QED
      BY <3>1, <3>2, <3>3
  <2>1. CASE QueryAnswered(i)
    <3>1. Found(asked[i], Existing) \subseteq Existing
      BY DEF Found
    <3>2. /\ Answered(i, TRUE, Found(asked[i], Existing), Existing)
          /\ cached' = cached \cup Found(asked[i], Existing)
      BY <2>1 DEF QueryAnswered
    <3> QED
      BY <2>0, <3>1, <3>2, Answering
  <2>2. CASE QueryAnsweredOffline(i)
    <3>1. Found(asked[i], cached) \subseteq cached
      BY DEF Found
    <3>2. Answered(i, TRUE, Found(asked[i], cached), seen) /\ cached' = cached
      BY <2>2 DEF QueryAnsweredOffline
    <3> QED
      BY <2>0, <3>1, <3>2, Answering
  <2>3. CASE QueryFails(i)
    <3>1. Answered(i, FALSE, {}, {}) /\ cached' = cached
      BY <2>3 DEF QueryFails
    <3>2. /\ {} \in SUBSET Existing /\ {} \in SUBSET {} /\ FALSE \in BOOLEAN
          /\ {} = IF FALSE THEN Found(asked[i], {}) ELSE {}
      OBVIOUS
    <3> QED
      BY <2>0, <3>1, <3>2, Answering
  <2> QED
    BY <1>4, <2>1, <2>2, <2>3
<1>5. ASSUME NEW r \in Rooms, LoadRoom(r) PROVE Inv'
  BY <1>5 DEF LoadRoom, Existing, Inv, TypeOK, Known, Alone, MissesNoneNearby, RowsAreInBand,
              RowsAreOfLastQuery, InBox, Between, Less, Lesser, Greater, Point
<1>6. ASSUME NEW r \in Rooms, CreateHere(r) PROVE Inv'
  <2>1. Here \in Coordinates
    BY HereIsAPlace DEF Inv
  <2> QED
    BY <1>6, <2>1, Creating DEF CreateHere
<1>7. ASSUME NEW r \in Rooms, NEW p \in Places, CreateElsewhere(r, p) PROVE Inv'
  BY <1>7, Creating DEF CreateElsewhere
<1>8. CASE UNCHANGED vars
  BY <1>8 DEF vars, Inv, TypeOK, Known, Alone, MissesNoneNearby, RowsAreInBand, RowsAreOfLastQuery,
              InBox, Between, Less, Lesser, Greater, Point
<1> QED
  BY <1>1, <1>2, <1>3, <1>4, <1>5, <1>6, <1>7, <1>8 DEF Next

LEMMA Invariance == Spec => []Inv
BY Initially, Stepping, PTL DEF Spec

-----------------------------------------------------------------------------
(* Nearby keeps its types. *)
THEOREM TypeCorrect == Spec => []TypeOK
BY Invariance, PTL DEF Inv

(* getSessionsByLoc misses no room less than the steps away: its bounds,   *)
(* compared by latitude first, enclose the box they were meant to be, and  *)
(* a cache that answers has all that was listed before.                    *)
THEOREM NoneMissed == Spec => []MissesNoneNearby
BY Invariance, PTL DEF Inv

(* Whatever it takes for longitudes, getSessionsByLoc stays in the band of *)
(* latitudes.                                                              *)
THEOREM InBand == Spec => []RowsAreInBand
BY Invariance, PTL DEF Inv

(* FeedView shows the rooms of the place it asked about last, unless two   *)
(* queries overlapped.                                                     *)
THEOREM OfLastQuery == Spec => []RowsAreOfLastQuery
BY Invariance, PTL DEF Inv
=============================================================================
