-------------------------- MODULE MCWatchChanges --------------------------
(* Instances of WatchChanges for TLC. *)
EXTENDS WatchChanges

CONSTANTS room

\* The second commit, which may delete the document, is checked without faults.
Affordable == now = MaxCommits => breaks + resets + rejections = 0
AffordableSpec == Init /\ [][Next /\ Affordable']_vars /\ Fairness
=============================================================================
