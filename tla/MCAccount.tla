----------------------------- MODULE MCAccount -----------------------------
(* Instances of Account for TLC. *)
EXTENDS Account

CONSTANTS alice, bob, carol, phone, n1, n2,
          MaxEvents     \* bound on presses and faults together

AliceRegistered == {<<alice, n1>>}

Affordable == presses + faults <= MaxEvents
AffordableSpec == Init /\ [][Next /\ Affordable']_vars /\ Fairness
=============================================================================
