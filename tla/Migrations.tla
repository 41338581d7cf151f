------------------------------ MODULE Migrations ------------------------------
(***************************************************************************)
(* createDatabase of src/db/sqlite.js: the migrations of src/db/migrations *)
(* and the default products, on a database file that more than one process *)
(* may have open.  A process reads once which migrations are applied and   *)
(* runs the others, each in a transaction with its marker.                 *)
(*                                                                         *)
(* Of the data there are the leads of one client for one product: their    *)
(* statuses, and whether they have a tracking token.  Most migrations add  *)
(* tables, columns and indexes if they are missing; the four that look at  *)
(* these rows or can fail because of them have operators of their own.     *)
(***************************************************************************)
EXTENDS Integers, FiniteSets

CONSTANTS
  Processes,
  Leads,       \* bound: leads of the client for the product
  Prefixes     \* how many migrations the file has seen before, 0 to 11

Migration == 1..11

ASSUME MigrationsAssumption ==
  /\ IsFiniteSet(Leads)
  /\ Prefixes \subseteq Migration \cup {0}

VARIABLES
  applied,   \* schema_migrations
  lead,      \* leads: status, and is there a token?
  products,  \* the products table: empty, the old catalogue, or the defaults
  db,        \* what each process does with the file
  seen,      \* the migrations it has read as applied, or run since
  ups,       \* history: how often a migration has taken effect
  sound,     \* history: had the file at most one lead that is or will be open?
  rival      \* history: which had the file open beside another since they opened it

dbVars == <<applied, lead, products, db, seen, ups, sound, rival>>

\* "new" stands for the statuses new, in_progress and called_back.
Status == {"open", "new", "awaiting_payment", "proposal_sent", "closed"}

\* Statuses of the unique index of migration 6.
Live == {"new", "proposal_sent"}

AtMostOne(S) == \A x, y \in S : x = y

OneLive(l) == AtMostOne({i \in Leads : l[i].status \in Live})

DbTypeOK ==
  /\ applied \in SUBSET Migration
  /\ lead \in [Leads -> [status : Status, token : BOOLEAN]]
  /\ products \in {"none", "legacy", "seeded"}
  /\ db \in [Processes -> {"closed", "migrating", "counted", "done", "failed"}]
  /\ seen \in [Processes -> SUBSET Migration]
  /\ ups \in [Migration -> Nat]
  /\ sound \in BOOLEAN
  /\ rival \in SUBSET Processes

------------------------------------------------------------------------------
(* What the migrations do to the rows.                                     *)

SetStatus(l, from, to) ==
  [i \in Leads |-> IF l[i].status = from THEN [l[i] EXCEPT !.status = to] ELSE l[i]]

\* 004: "open" was the first name of "new".
NormalizeStatus(l) == SetStatus(l, "open", "new")

\* 008: a token for each lead that has none, drawn until it is a new one.
GiveTokens(l) == [i \in Leads |-> [l[i] EXCEPT !.token = TRUE]]

\* 010: "awaiting_payment" becomes "proposal_sent", and the index is made anew.
LawfulInquiryCleanup(l) == SetStatus(l, "awaiting_payment", "proposal_sent")

Up(m, l) ==
  CASE m = 4  -> NormalizeStatus(l)
    [] m = 8  -> GiveTokens(l)
    [] m = 10 -> LawfulInquiryCleanup(l)
    [] OTHER  -> l

\* From 006 on the index refuses a second live lead, its creation included.
CanUp(m, l) == m >= 6 => OneLive(Up(m, l))

------------------------------------------------------------------------------
(* A process.                                                              *)

SetDb(p, s) == db' = [db EXCEPT ![p] = s]

InUse(p) == db[p] \in {"migrating", "counted"}

MeetRivals(p) ==
  LET others == {q \in Processes \ {p} : InUse(q)} IN
    rival' = IF others = {} THEN rival ELSE rival \cup others \cup {p}

\* Fault: the table of the applied ids is made anew.
FaultReadNone(p) ==
  /\ db[p] = "closed"
  /\ SetDb(p, "migrating")
  /\ seen' = [seen EXCEPT ![p] = {}]
  /\ MeetRivals(p)
  /\ UNCHANGED <<applied, lead, products, ups, sound>>

\* The file is opened, and the applied ids are read.
OpenDb(p) ==
  /\ db[p] = "closed"
  /\ SetDb(p, "migrating")
  /\ seen' = [seen EXCEPT ![p] = applied]
  /\ MeetRivals(p)
  /\ UNCHANGED <<applied, lead, products, ups, sound>>

Missing(p) == Migration \ seen[p]

IsNext(p, m) == m \in Missing(p) /\ \A n \in Missing(p) : m <= n

\* Fault: the marker is written when the migration has been committed, and one
\* that is there already is no error.
FaultMarkAfter(p, m) ==
  /\ db[p] = "migrating" /\ IsNext(p, m)
  /\ lead' = Up(m, lead)
  /\ ups' = [ups EXCEPT ![m] = @ + 1]
  /\ applied' = applied \cup {m}
  /\ seen' = [seen EXCEPT ![p] = @ \cup {m}]
  /\ UNCHANGED <<products, db, sound, rival>>

\* One transaction: the migration and its marker.
Migrate(p, m) ==
  /\ db[p] = "migrating" /\ IsNext(p, m)
  /\ m \notin applied /\ CanUp(m, lead)
  /\ lead' = Up(m, lead)
  /\ products' = IF m = 10 /\ products = "legacy" THEN "seeded" ELSE products
  /\ applied' = applied \cup {m}
  /\ seen' = [seen EXCEPT ![p] = @ \cup {m}]
  /\ ups' = [ups EXCEPT ![m] = @ + 1]
  /\ UNCHANGED <<db, sound, rival>>

\* The transaction is rolled back, and the error leaves createDatabase: the
\* index refuses the rows, or another process has set the marker meanwhile.
MigrateFails(p, m) ==
  /\ db[p] = "migrating" /\ IsNext(p, m)
  /\ m \in applied \/ ~CanUp(m, lead)
  /\ SetDb(p, "failed")
  /\ UNCHANGED <<applied, lead, products, seen, ups, sound, rival>>

\* seedProducts counts the products.
CountProducts(p) ==
  /\ db[p] = "migrating" /\ Missing(p) = {}
  /\ SetDb(p, IF products = "none" THEN "counted" ELSE "done")
  /\ UNCHANGED <<applied, lead, products, seen, ups, sound, rival>>

\* There were none: the defaults go in, unless another process was faster and
\* their codes are taken.
SeedProducts(p) ==
  /\ db[p] = "counted"
  /\ products' = "seeded"
  /\ SetDb(p, IF products = "none" THEN "done" ELSE "failed")
  /\ UNCHANGED <<applied, lead, seen, ups, sound, rival>>

\* The process ends, or cannot go on.  A transaction it was in is rolled back.
CloseDb(p) ==
  /\ SetDb(p, "closed")
  /\ seen' = [seen EXCEPT ![p] = {}]
  /\ rival' = rival \ {p}
  /\ UNCHANGED <<applied, lead, products, ups, sound>>

DbStep(p) ==
  \/ OpenDb(p) \/ CountProducts(p) \/ SeedProducts(p)
  \/ \E m \in Migration : Migrate(p, m) \/ MigrateFails(p, m)

------------------------------------------------------------------------------
(* The file.  What a migration has established, the code of its day kept.  *)

Established(n, l) ==
  /\ n >= 4 => \A i \in Leads : l[i].status # "open"
  /\ n >= 6 => OneLive(l)
  /\ \A i \in Leads : l[i].token = (n >= 8)
  /\ n >= 10 => \A i \in Leads : l[i].status # "awaiting_payment"

\* The leads that are live once all migrations have been.
WillBeLive(l) == {i \in Leads : l[i].status # "closed"}

DbInit ==
  /\ \E n \in Prefixes :
       /\ applied = 1..n
       /\ lead \in [Leads -> [status : Status \ (IF n < 10 THEN {"proposal_sent"} ELSE {}),
                              token : BOOLEAN]]
       /\ Established(n, lead)
       /\ products \in (IF n = 0 THEN {"none"} ELSE IF n < 10 THEN {"legacy"} ELSE {"seeded"})
       /\ n = 0 => \A i \in Leads : lead[i].status = "closed"
       /\ ups = [m \in Migration |-> IF m <= n THEN 1 ELSE 0]
  /\ db = [p \in Processes |-> "closed"]
  /\ seen = [p \in Processes |-> {}]
  /\ sound = AtMostOne(WillBeLive(lead))
  /\ rival = {}
------------------------------------------------------------------------------
(* Properties.                                                             *)

\* Whatever processes start side by side or die between two statements, each
\* migration takes effect once, after all before it; and a process that has its
\* database finds all of them applied, no name of a status that the code has
\* given up, a token in every lead, the products, and one open lead at most.
MigratedOnce ==
  /\ \A m \in Migration : ups[m] = IF m \in applied THEN 1 ELSE 0
  /\ \A m \in applied : 1..m \subseteq applied
  /\ \A p \in Processes :
       db[p] = "done" =>
         /\ applied = Migration
         /\ \A i \in Leads : /\ lead[i].status \notin {"open", "awaiting_payment"}
                             /\ lead[i].token
         /\ OneLive(lead)
         /\ products = "seeded"

\* The database fails a process only for a reason: another process had the file
\* open beside it, or the file holds leads the index has to refuse.
DbFailuresAreExplained ==
  \A p \in Processes : db[p] = "failed" => p \in rival \/ ~sound
==============================================================================
