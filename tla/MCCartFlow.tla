------------------------------ MODULE MCCartFlow ------------------------------
(* A small instance of CartFlow for TLC.                                   *)
EXTENDS CartFlow, TLC

Symmetry == Permutations(Products)
==============================================================================
