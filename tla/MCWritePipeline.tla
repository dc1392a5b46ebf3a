------------------------ MODULE MCWritePipeline ------------------------
(* Instances of WritePipeline for TLC. *)
EXTENDS WritePipeline, TLC

CONSTANTS alice, bob

\* A second switch, back to the first account, is checked with one write and
\* one fault less.
Affordable == switches = MaxSwitches => issued < MaxWrites /\ faults < MaxFaults
AffordableSpec == Init /\ [][Next /\ Affordable']_vars /\ Fairness
=============================================================================
