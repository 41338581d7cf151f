------------------------------ MODULE LeadSlots ------------------------------
(***************************************************************************)
(* What the shop promises about requests, and nothing about how: every     *)
(* pair of a client and a product is a slot, a slot is held by at most one *)
(* open request, and a slot passes from one request to another only by     *)
(* being free in between.  src/repositories/leads.js, its partial unique   *)
(* index and the check of confirmLead together have to keep this promise.  *)
(***************************************************************************)
EXTENDS Naturals

CONSTANTS Slots,      \* pairs <<client, product>>
          LeadIds     \* row ids of the leads table, none of them 0

VARIABLE holder       \* the id of the open lead of a slot, 0 when it is free

TypeOK == holder \in [Slots -> LeadIds \cup {0}]

Init == holder = [s \in Slots |-> 0]

\* An open lead appears: a new row, or a closed one that is reopened.  (Here and
\* below the second conjunct follows from the third; it spares TLC from comparing
\* whole functions.)
Acquire(s, i) ==
  /\ holder[s] = 0
  /\ holder'[s] = i
  /\ holder' = [holder EXCEPT ![s] = i]

\* The open lead of the slot is closed or fulfilled.
Release(s) ==
  /\ holder[s] # 0
  /\ holder'[s] = 0
  /\ holder' = [holder EXCEPT ![s] = 0]

Next ==
  \/ \E s \in Slots, i \in LeadIds : Acquire(s, i)
  \/ \E s \in Slots : Release(s)

Spec == Init /\ [][Next]_holder
==============================================================================
