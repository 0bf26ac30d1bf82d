----------------------------- MODULE MCBoardSync -----------------------------
(* Instances of BoardSync for TLC.                                           *)
EXTENDS BoardSync, TLC

\* The browsers, the places and the texts are interchangeable.
Symmetry == Permutations(Browsers) \cup Permutations(Places) \cup Permutations(Texts)
=============================================================================
