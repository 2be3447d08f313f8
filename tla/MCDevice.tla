------------------------------ MODULE MCDevice ------------------------------
(* Instances of Device for TLC: two networks, interchangeable.             *)
EXTENDS Device, TLC

CONSTANTS c1, c2

TwoCreds == {c1, c2}
Symmetry == Permutations(TwoCreds)
=============================================================================
