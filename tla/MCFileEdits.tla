------------------------------ MODULE MCFileEdits ------------------------------
(* Instances of FileEdits for TLC.                                             *)
EXTENDS FileEdits

CONSTANTS a, b, f1, f2

OneOrder == {<<f1, f2>>}
Swapped == Permutations({a, b})
================================================================================
