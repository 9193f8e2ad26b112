----------------------------- MODULE MCInputInbox -----------------------------
(* Small sets of steering inputs and follow-ups, for TLC. *)
EXTENDS InputInbox, TLC

CONSTANTS s1, s2, f1, f2

(* Two instructions for the running task and a task for later. *)
ThreeInputs == {s1, s2, f1}
(* Two of each, for the order of delivery. *)
FourInputs == {s1, s2, f1, f2}
MCSteer == {s1, s2}

Symmetry == Permutations({s1, s2}) \cup Permutations({f1, f2})
================================================================================
