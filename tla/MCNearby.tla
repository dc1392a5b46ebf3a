----------------------------- MODULE MCNearby -----------------------------
(* Instances of Nearby for TLC.                                            *)
EXTENDS Nearby

CONSTANTS r1, r2

P(lat, lon) == [lat |-> lat, lon |-> lon]

\* Somewhere, a place next to it, one as far north at the date line, which no
\* box may cross, one on the edge of the band elsewhere, and one out of it.
AroundTheWorld == {P(2, 1), P(3, 2), P(2, 7), P(3, -6), P(4, 1)}
=============================================================================
