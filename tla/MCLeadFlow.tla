----------------------------- MODULE MCLeadFlow -----------------------------
(* Small instances of LeadFlow for TLC.                                    *)
EXTENDS LeadFlow, TLC

\* Awaiting updates and products are interchangeable.
Symmetry == Permutations(Handlers) \cup Permutations(Products)
==============================================================================
