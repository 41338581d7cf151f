------------------------------ MODULE MCWebForm ------------------------------
(* A small instance of WebForm for TLC.                                    *)
EXTENDS WebForm, TLC

\* Visitors are interchangeable, and so are products.
Symmetry == Permutations(Visitors) \cup Permutations(Products)
==============================================================================
