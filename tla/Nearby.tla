------------------------------ MODULE Nearby ------------------------------
(***************************************************************************)
(* The rooms nearby (FeedView, LocationManager, getSessionsByLoc, the      *)
(* place a room is created at) and the order the SDK compares places in.   *)
(*                                                                         *)
(* Degrees are integers in a unit fine enough for the places that matter;  *)
(* LatStep and LonStep are what ten miles come to.  The app asks when the  *)
(* feed appears, at whatever place it then has: (0, 0) before the first    *)
(* fix.  Answers are shown as they come: the server's, or, if the device   *)
(* is offline, what the cache has of the same query.                       *)
(***************************************************************************)
EXTENDS Integers, Sequences

CONSTANTS Rooms,
          LatBound, LonBound,   \* 90 and 180 degrees
          LatStep, LonStep,     \* distance * lat, distance * lon
          Places,               \* where the device and rooms can be
          NoFix, NoPlace,
          MaxMoves,             \* bound on fixes of the location
          MaxAppears,           \* bound on the times the feed appears
          MaxFaults             \* bound on queries that fail or meet a device offline

Coordinates == [lat : -LatBound..LatBound, lon : -LonBound..LonBound]

ASSUME NearbyAssumption ==
    /\ LatBound \in Nat /\ LonBound \in Nat
    /\ LatStep \in Nat \ {0} /\ LonStep \in Nat \ {0}
    /\ Places \subseteq Coordinates
    /\ [lat |-> 0, lon |-> 0] \in Coordinates
    /\ NoFix \notin Coordinates /\ NoPlace \notin Coordinates
    /\ {MaxMoves, MaxAppears, MaxFaults} \subseteq Nat

VARIABLES
    location,    \* lm.location
    place,       \* the "location" field of the rooms on the server
    cached,      \* the rooms in the device's cache
    visible,     \* is the feed on top?
    asked,       \* places of the queries under way
    latest,      \* the place of the last query
    rows,        \* the rooms listed
    ended,       \* history: did the app die of a place out of range?
    overlapped,  \* history: were two queries under way when the last answer came?
    answer,      \* history: place and outcome of the answer shown, the rooms it must know
    seen,        \* history: rooms that were listed, or created on this device
    moves, appears, faults

vars == <<location, place, cached, visible, asked, latest, rows, ended, overlapped, answer, seen,
          moves, appears, faults>>

-----------------------------------------------------------------------------
(* Places *)

Point(lat, lon) == [lat |-> lat, lon |-> lon]

\* latitude and longitude of FeedView: 0.0 without a fix.
Here == IF location = NoFix THEN Point(0, 0) ELSE location

\* The order of GeoPoints: by latitude, then by longitude; mutant: by longitude.
LonLess(p, q) == p.lon < q.lon
Less(p, q) == p.lat < q.lat \/ (p.lat = q.lat /\ p.lon < q.lon)

\* The west bound is reckoned from the latitude.
Lesser(p) == Point(p.lat - LatStep, p.lat - LonStep)
Greater(p) == Point(p.lat + LatStep, p.lon + LonStep)

InRange(p) == p \in Coordinates
Between(p, low, high) == Less(low, p) /\ Less(p, high)

Existing == {r \in Rooms : place[r] # NoPlace}

\* What whoever has the rooms in known, the server or the cache, finds among them.
Found(p, known) == {r \in known : Between(place[r], Lesser(p), Greater(p))}

\* What the bounds were meant to enclose.
InBox(q, p) == /\ p.lat - LatStep < q.lat /\ q.lat < p.lat + LatStep
               /\ p.lon - LonStep < q.lon /\ q.lon < p.lon + LonStep

-----------------------------------------------------------------------------
Init ==
    /\ location = NoFix
    /\ place = [r \in Rooms |-> NoPlace]
    /\ cached = {}
    /\ visible = FALSE
    /\ asked = <<>>
    /\ latest = Point(0, 0)
    /\ rows = {}
    /\ ended = FALSE
    /\ overlapped = FALSE
    /\ answer = [from |-> Point(0, 0), ok |-> FALSE, known |-> {}]
    /\ seen = {}
    /\ moves = 0
    /\ appears = 0
    /\ faults = 0

\* didUpdateLocations: the feed is drawn again, but asks nothing.
UpdateLocation(p) ==
    /\ ~ended
    /\ moves < MaxMoves /\ moves' = moves + 1
    /\ location' = p
    /\ UNCHANGED <<place, cached, visible, asked, latest, rows, ended, overlapped, answer, seen,
                   appears, faults>>

\* onAppear: the bounds are GeoPoints, which must be in range.
Appear ==
    /\ ~ended /\ ~visible
    /\ appears < MaxAppears /\ appears' = appears + 1
    /\ IF InRange(Lesser(Here)) /\ InRange(Greater(Here))
       THEN /\ visible' = TRUE
            /\ asked' = Append(asked, Here)
            /\ latest' = Here
            /\ overlapped' = (asked # <<>>)
            /\ UNCHANGED ended
       ELSE ended' = TRUE /\ UNCHANGED <<visible, asked, latest, overlapped>>
    /\ UNCHANGED <<location, place, cached, rows, answer, seen, moves, faults>>

\* A room, or the profile, is opened over the feed.
Cover ==
    /\ ~ended /\ visible
    /\ visible' = FALSE
    /\ UNCHANGED <<location, place, cached, asked, latest, rows, ended, overlapped, answer, seen,
                   moves, appears, faults>>

\* sessions = nearbySessions ?? []; mutant: an error leaves the rows.
ShowOnSuccess(found, ok) == rows' = IF ok THEN found ELSE rows
Show(found, ok) == rows' = IF ok THEN found ELSE {}

Answered(i, ok, found, known) ==
    /\ ~ended /\ i \in DOMAIN asked
    /\ asked' = SubSeq(asked, 1, i - 1) \o SubSeq(asked, i + 1, Len(asked))
    /\ Show(found, ok)
    /\ answer' = [from |-> asked[i], ok |-> ok, known |-> known]
    /\ seen' = seen \cup rows'
    /\ UNCHANGED <<location, place, visible, latest, ended, overlapped, moves, appears>>

Fault == faults < MaxFaults /\ faults' = faults + 1

\* The server's answer is kept in the cache.
QueryAnswered(i) ==
    LET found == Found(asked[i], Existing)
    IN  /\ Answered(i, TRUE, found, Existing)
        /\ cached' = cached \cup found
        /\ UNCHANGED faults

\* The device is offline: the cache answers, and that is no error.
QueryAnsweredOffline(i) == /\ Fault
                           /\ Answered(i, TRUE, Found(asked[i], cached), seen)
                           /\ UNCHANGED cached

QueryFails(i) == Fault /\ Answered(i, FALSE, {}, {}) /\ UNCHANGED cached

\* Another screen reads the room by its id.
LoadRoom(r) ==
    /\ ~ended
    /\ r \in Existing \ cached
    /\ cached' = cached \cup {r}
    /\ UNCHANGED <<location, place, visible, asked, latest, rows, ended, overlapped, answer, seen,
                   moves, appears, faults>>

\* "Create Study Room" hands the sheet the place of the feed.
CreateHere(r) ==
    /\ ~ended /\ visible
    /\ place[r] = NoPlace
    /\ place' = [place EXCEPT ![r] = Here]
    /\ cached' = cached \cup {r}
    /\ seen' = seen \cup {r}
    /\ UNCHANGED <<location, visible, asked, latest, rows, ended, overlapped, answer, moves, appears,
                   faults>>

\* Another device creates one.
CreateElsewhere(r, p) ==
    /\ place[r] = NoPlace
    /\ place' = [place EXCEPT ![r] = p]
    /\ UNCHANGED <<location, cached, visible, asked, latest, rows, ended, overlapped, answer, seen,
                   moves, appears, faults>>

Next == \/ \E p \in Places : UpdateLocation(p)
        \/ Appear
        \/ Cover
        \/ \E i \in DOMAIN asked : QueryAnswered(i) \/ QueryAnsweredOffline(i) \/ QueryFails(i)
        \/ \E r \in Rooms : LoadRoom(r)
        \/ \E r \in Rooms : CreateHere(r)
        \/ \E r \in Rooms, p \in Places : CreateElsewhere(r, p)

Spec == Init /\ [][Next]_vars

-----------------------------------------------------------------------------
(* Properties *)

TypeOK ==
    /\ location \in Coordinates \cup {NoFix}
    /\ place \in [Rooms -> Coordinates \cup {NoPlace}]
    /\ cached \subseteq Rooms
    /\ visible \in BOOLEAN
    /\ asked \in Seq(Coordinates)
    /\ latest \in Coordinates
    /\ rows \subseteq Rooms
    /\ ended \in BOOLEAN
    /\ overlapped \in BOOLEAN
    /\ answer \in [from : Coordinates, ok : BOOLEAN, known : SUBSET Rooms]
    /\ seen \subseteq Rooms
    /\ moves \in 0..MaxMoves
    /\ appears \in 0..MaxAppears
    /\ faults \in 0..MaxFaults

(* No room less than ten miles away is missing from the rows: none that    *)
(* existed, if the server answered; if the device was offline, when its    *)
(* cache is taken at its word, none that it had listed before, for that    *)
(* place or another, or had created.                                       *)
MissesNoneNearby ==
    answer.ok => \A r \in answer.known : InBox(place[r], answer.from) => r \in rows

(* The rows are at most ten miles to the north or south: whatever the      *)
(* bounds say of longitudes, they cut off a band of latitudes.             *)
RowsAreInBand ==
    \A r \in rows : /\ answer.from.lat - LatStep <= place[r].lat
                    /\ place[r].lat <= answer.from.lat + LatStep

(* When no query is under way, the rows are of the place asked about last, *)
(* or there are none, unless that query was made while another was.        *)
RowsAreOfLastQuery ==
    asked = <<>> /\ ~overlapped =>
       \A r \in rows : Between(place[r], Lesser(latest), Greater(latest))
=============================================================================
