-------------------------- MODULE MCOneShotRead --------------------------
(* Instances of OneShotRead for TLC. *)
EXTENDS OneShotRead, TLC

CONSTANTS g1, g2, g3, room, user

SameTwice == g1 :> room @@ g2 :> room @@ g3 :> user

\* Two calls are made: of one document, with two faults, or of two documents
\* with one.  The second document does not exist.
Affordable ==
    /\ phase[g2] = "idle" \/ phase[g3] = "idle"
    /\ breaks + restarts + rejections <= (IF phase[g3] = "idle" THEN 2 ELSE 1)
    /\ version[user] = 0
AffordableSpec ==
    /\ Init /\ cache[user] = Unknown /\ version[user] = 0
    /\ [][Next /\ Affordable']_vars
    /\ Fairness
=============================================================================
