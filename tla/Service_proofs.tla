---------------------------- MODULE Service_proofs ----------------------------
(***************************************************************************)
(* Theorems about the process of the bot, for every value of their         *)
(* constants: its lifecycle and its database (Lifecycle, Migrations), for  *)
(* any number of processes, of starts and ends, and of leads in the file,  *)
(* and any file that some release has left; and the broadcasts its queue   *)
(* delivers (Delivery), for any clients, attempts and restarts of a job.   *)
(***************************************************************************)
EXTENDS Lifecycle, Delivery, FiniteSetTheorems, SequenceTheorems, TLAPS

------------------------------------------------------------------------------
(* The inductive invariant of the database.                                *)

\* The markers tell what has taken effect, in the order of the list; a process
\* knows a beginning of it.
MarkersAreTrue ==
  /\ \A m \in Migration : ups[m] = IF m \in applied THEN 1 ELSE 0
  /\ \A m \in applied : 1..m \subseteq applied
  /\ \A p \in Processes : seen[p] \subseteq applied
  /\ \A p \in Processes : db[p] \in {"counted", "done"} => seen[p] = Migration

\* What each migration has established is kept by those after it.
RowsAreMigrated ==
  /\ 4 \in applied => \A i \in Leads : lead[i].status # "open"
  /\ 6 \in applied => OneLive(lead)
  /\ 8 \in applied => \A i \in Leads : lead[i].token
  /\ 10 \in applied => \A i \in Leads : lead[i].status # "awaiting_payment"
  /\ 10 \in applied => products # "legacy"
  /\ \A p \in Processes : db[p] = "done" => products = "seeded"

\* A process beside which nobody had the file open knows all that is applied, and
\* what it has counted still holds.
RivalsAreNoted ==
  /\ \A p, q \in Processes : p # q /\ InUse(p) /\ InUse(q) => p \in rival
  /\ \A p \in Processes : InUse(p) /\ p \notin rival => seen[p] = applied
  /\ \A p \in Processes : db[p] = "counted" /\ p \notin rival => products = "none"

SoundStays == sound => AtMostOne(WillBeLive(lead))

DbInv == MarkersAreTrue /\ RowsAreMigrated /\ RivalsAreNoted /\ SoundStays
         /\ DbFailuresAreExplained

------------------------------------------------------------------------------
(* The inductive invariant of a process.                                   *)

\* What may be open while a teardown awaits x.
Rest(x) ==
  CASE x = "server" -> {"db", "cache", "queue", "server"}
    [] x = "queue"  -> {"db", "cache", "queue"}
    [] OTHER        -> {"db", "cache"}

\* A process that runs has met no fatal error before it starts a teardown, and
\* one then.
FaultsAreCounted(r) ==
  /\ r.stage \notin {"off", "ready"} => r.faults = 0 /\ ~r.down
  /\ r.stage = "ready" => r.faults = IF r.tear = "none" THEN 0 ELSE 1
  /\ r.tear # "none" => r.stage \in {"ready", "failed"}

\* The start opens the file, the cache and the queue first, and a shutdown begins
\* with giving up the file, the port and the updates.
OpensInOrder(r) ==
  /\ r.stage \in {"db", "cache", "queue", "bot"} => r.open \subseteq {"db", "cache", "queue"}
  /\ r.down => r.open \cap {"db", "port", "polling"} = {}

\* A shutdown without an error awaits all that is open, and a teardown alone
\* leaves open what it has not come to.
ClosesInOrder(r) ==
  /\ r.down /\ ~r.errors => r.open \subseteq r.left
  /\ r.tear # "none" /\ ~r.down => r.open \subseteq Rest(r.tear)

Good(r) == FaultsAreCounted(r) /\ OpensInOrder(r) /\ ClosesInOrder(r)

ProcInv == \A p \in Processes : Good(proc[p])

------------------------------------------------------------------------------
(* The migrations.                                                         *)

Row == [status : Status, token : BOOLEAN]

LEMMA RowFields ==
  ASSUME NEW r \in Row
  PROVE  r.status \in Status /\ r.token \in BOOLEAN
BY DEF Row

LEMMA Renamed ==
  ASSUME NEW l \in [Leads -> Row], NEW from, NEW to \in Status
  PROVE  /\ SetStatus(l, from, to) \in [Leads -> Row]
         /\ \A i \in Leads :
              /\ SetStatus(l, from, to)[i].status = (IF l[i].status = from THEN to ELSE l[i].status)
              /\ SetStatus(l, from, to)[i].token = l[i].token
<1>1. ASSUME NEW i \in Leads
      PROVE  LET r == [l[i] EXCEPT !.status = to] IN
               r \in Row /\ r.status = to /\ r.token = l[i].token
  BY DEF Row
<1> QED BY <1>1 DEF SetStatus

LEMMA Tokens ==
  ASSUME NEW l \in [Leads -> Row]
  PROVE  /\ GiveTokens(l) \in [Leads -> Row]
         /\ \A i \in Leads : GiveTokens(l)[i].status = l[i].status
                                /\ GiveTokens(l)[i].token = TRUE
<1>1. ASSUME NEW i \in Leads
      PROVE  LET r == [l[i] EXCEPT !.token = TRUE] IN
               r \in Row /\ r.status = l[i].status /\ r.token = TRUE
  BY DEF Row
<1> QED BY <1>1 DEF GiveTokens

\* What a migration does to one row.
LEMMA UpFields ==
  ASSUME NEW l \in [Leads -> Row], NEW m \in Migration
  PROVE  /\ Up(m, l) \in [Leads -> Row]
         /\ \A i \in Leads :
              /\ Up(m, l)[i].status =
                   (IF m = 4 /\ l[i].status = "open" THEN "new"
                    ELSE IF m = 10 /\ l[i].status = "awaiting_payment" THEN "proposal_sent"
                    ELSE l[i].status)
              /\ m = 8 => Up(m, l)[i].token = TRUE
              /\ m # 8 => Up(m, l)[i].token = l[i].token
<1>1. "new" \in Status /\ "proposal_sent" \in Status
  BY DEF Status
<1>2. CASE m = 4
  <2>1. Up(m, l) = SetStatus(l, "open", "new")
    BY <1>2 DEF Up, NormalizeStatus
  <2> QED BY <1>1, <1>2, <2>1, Renamed
<1>3. CASE m = 8
  <2>1. Up(m, l) = GiveTokens(l)
    BY <1>3 DEF Up
  <2>2. m # 4 /\ m # 10
    BY <1>3
  <2>3. /\ Up(m, l) \in [Leads -> Row]
        /\ \A i \in Leads : Up(m, l)[i].status = l[i].status /\ Up(m, l)[i].token = TRUE
    BY <2>1, Tokens
  <2> QED BY <1>3, <2>2, <2>3
<1>4. CASE m = 10
  <2>1. Up(m, l) = SetStatus(l, "awaiting_payment", "proposal_sent")
    BY <1>4 DEF Up, LawfulInquiryCleanup
  <2> QED BY <1>1, <1>4, <2>1, Renamed
<1>5. CASE m \notin {4, 8, 10}
  BY <1>5 DEF Up
<1> QED BY <1>2, <1>3, <1>4, <1>5

\* A migration makes no lead live that will not be anyway; so a sound file passes.
LEMMA SoundPasses ==
  ASSUME NEW l \in [Leads -> Row], NEW m \in Migration, AtMostOne(WillBeLive(l))
  PROVE  CanUp(m, l) /\ AtMostOne(WillBeLive(Up(m, l)))
<1>1. \A i \in Leads : Up(m, l)[i].status # "closed" => l[i].status # "closed"
  BY UpFields
<1>2. AtMostOne(WillBeLive(Up(m, l)))
  BY <1>1 DEF AtMostOne, WillBeLive
<1>3. OneLive(Up(m, l))
  BY <1>2 DEF OneLive, AtMostOne, WillBeLive, Live
<1> QED BY <1>2, <1>3 DEF CanUp

LEMMA OneSet ==
  ASSUME NEW f, NEW S, f \in [Processes -> S], NEW p \in Processes, NEW v
  PROVE  /\ [f EXCEPT ![p] = v][p] = v
         /\ \A q \in Processes \ {p} : [f EXCEPT ![p] = v][q] = f[q]
         /\ v \in S => [f EXCEPT ![p] = v] \in [Processes -> S]
OBVIOUS

\* What a step of process p leaves of the other processes.
LEMMA DbIsSet ==
  ASSUME DbTypeOK, NEW p \in Processes, NEW s, SetDb(p, s)
  PROVE  /\ db'[p] = s
         /\ \A q \in Processes \ {p} : db'[q] = db[q]
         /\ s \in {"closed", "migrating", "counted", "done", "failed"} =>
              db' \in [Processes -> {"closed", "migrating", "counted", "done", "failed"}]
BY DEF DbTypeOK, SetDb

------------------------------------------------------------------------------
(* Every step of a process on the file keeps the invariant.                *)

LEMMA OpenKeeps ==
  ASSUME DbTypeOK, DbInv, NEW p \in Processes, OpenDb(p)
  PROVE  DbTypeOK' /\ DbInv'
<1> USE DEF DbTypeOK, DbInv
<1>1. /\ db[p] = "closed" /\ SetDb(p, "migrating") /\ seen' = [seen EXCEPT ![p] = applied]
      /\ UNCHANGED <<applied, lead, products, ups, sound>>
  BY DEF OpenDb
<1>2. /\ db'[p] = "migrating" /\ \A q \in Processes \ {p} : db'[q] = db[q]
      /\ db' \in [Processes -> {"closed", "migrating", "counted", "done", "failed"}]
  BY <1>1, DbIsSet
<1>3. /\ seen'[p] = applied /\ \A q \in Processes \ {p} : seen'[q] = seen[q]
      /\ seen' \in [Processes -> SUBSET Migration]
  BY <1>1
<1>4. /\ rival \subseteq rival' /\ rival' \in SUBSET Processes
      /\ \A q \in Processes \ {p} : InUse(q) => q \in rival' /\ p \in rival'
  BY DEF OpenDb, MeetRivals
<1>5. DbTypeOK'
  BY <1>1, <1>2, <1>3, <1>4
<1>6. MarkersAreTrue'
  BY <1>1, <1>2, <1>3 DEF MarkersAreTrue
<1>7. RowsAreMigrated'
  BY <1>1, <1>2 DEF RowsAreMigrated, OneLive
<1>8. RivalsAreNoted'
  <2>1. \A q \in Processes \ {p} : InUse(q)' <=> InUse(q)
    BY <1>2 DEF InUse
  <2>2. \A q, r \in Processes : q # r /\ InUse(q)' /\ InUse(r)' => q \in rival'
    BY <1>4, <2>1 DEF RivalsAreNoted
  <2> QED BY <1>1, <1>2, <1>3, <1>4, <2>1, <2>2 DEF RivalsAreNoted
<1>9. SoundStays' /\ DbFailuresAreExplained'
  BY <1>1, <1>2, <1>4 DEF SoundStays, DbFailuresAreExplained, AtMostOne, WillBeLive
<1> QED BY <1>5, <1>6, <1>7, <1>8, <1>9

LEMMA MigrateKeeps ==
  ASSUME DbTypeOK, DbInv, NEW p \in Processes, NEW m \in Migration, Migrate(p, m)
  PROVE  DbTypeOK' /\ DbInv'
<1> USE DEF DbTypeOK, DbInv
<1>1. /\ db[p] = "migrating" /\ IsNext(p, m) /\ m \notin applied /\ CanUp(m, lead)
      /\ lead' = Up(m, lead)
      /\ products' = (IF m = 10 /\ products = "legacy" THEN "seeded" ELSE products)
      /\ applied' = applied \cup {m}
      /\ seen' = [seen EXCEPT ![p] = @ \cup {m}]
      /\ ups' = [ups EXCEPT ![m] = @ + 1]
      /\ UNCHANGED <<db, sound, rival>>
  BY DEF Migrate
<1>2. lead \in [Leads -> Row]
  BY DEF Row
<1>3. /\ lead' \in [Leads -> Row]
      /\ \A i \in Leads :
           /\ lead'[i].status =
                (IF m = 4 /\ lead[i].status = "open" THEN "new"
                 ELSE IF m = 10 /\ lead[i].status = "awaiting_payment" THEN "proposal_sent"
                 ELSE lead[i].status)
           /\ m = 8 => lead'[i].token = TRUE
           /\ m # 8 => lead'[i].token = lead[i].token
  BY <1>1, <1>2, UpFields
<1>4. /\ seen'[p] = seen[p] \cup {m} /\ \A q \in Processes \ {p} : seen'[q] = seen[q]
      /\ seen' \in [Processes -> SUBSET Migration]
  BY <1>1
<1>5. ups'[m] = ups[m] + 1 /\ \A n \in Migration \ {m} : ups'[n] = ups[n]
  BY <1>1
<1>6. DbTypeOK'
  <2>1. ups' \in [Migration -> Nat]
    BY <1>1
  <2> QED BY <1>1, <1>3, <1>4, <2>1 DEF Row
<1>7. MarkersAreTrue'
  <2>1. \A n \in Migration : ups'[n] = IF n \in applied' THEN 1 ELSE 0
    BY <1>1, <1>5 DEF MarkersAreTrue
  <2>2. \A n \in 1..m : n # m => n \in applied
    BY <1>1 DEF IsNext, Missing, Migration, MarkersAreTrue
  <2>3. \A n \in applied' : 1..n \subseteq applied'
    BY <1>1, <2>2 DEF MarkersAreTrue
  <2>4. \A q \in Processes : seen'[q] \subseteq applied'
    BY <1>1, <1>4 DEF MarkersAreTrue
  <2>5. \A q \in Processes : db'[q] \in {"counted", "done"} => seen'[q] = Migration
    BY <1>1, <1>4 DEF MarkersAreTrue
  <2> QED BY <2>1, <2>3, <2>4, <2>5 DEF MarkersAreTrue
<1>8. RowsAreMigrated'
  <2>1. 6 \in applied' => m >= 6
    <3>1. 6 \in applied => ~(m <= 6)
      BY <1>1 DEF MarkersAreTrue, Migration
    <3> QED BY <1>1, <3>1 DEF Migration
  <2>2. 6 \in applied' => OneLive(lead')
    BY <1>1, <2>1 DEF CanUp
  <2>3. 4 \in applied' => \A i \in Leads : lead'[i].status # "open"
    BY <1>1, <1>3 DEF RowsAreMigrated
  <2>4. 8 \in applied' => \A i \in Leads : lead'[i].token
    BY <1>1, <1>3 DEF RowsAreMigrated
  <2>5. 10 \in applied' => \A i \in Leads : lead'[i].status # "awaiting_payment"
    BY <1>1, <1>3 DEF RowsAreMigrated
  <2>6. /\ 10 \in applied' => products' # "legacy"
        /\ \A q \in Processes : db'[q] = "done" => products' = "seeded"
    BY <1>1 DEF RowsAreMigrated
  <2> QED BY <2>2, <2>3, <2>4, <2>5, <2>6 DEF RowsAreMigrated, OneLive
<1>9. RivalsAreNoted'
  <2>1. InUse(p) /\ \A q \in Processes : InUse(q)' <=> InUse(q)
    BY <1>1 DEF InUse
  <2>2. \A q \in Processes : InUse(q)' /\ q \notin rival' => q = p
    BY <1>1, <2>1 DEF RivalsAreNoted
  <2> QED BY <1>1, <1>4, <2>1, <2>2 DEF RivalsAreNoted, InUse
<1>10. SoundStays'
  BY <1>1, <1>2, SoundPasses DEF SoundStays, AtMostOne, WillBeLive
<1>11. DbFailuresAreExplained'
  BY <1>1 DEF DbFailuresAreExplained
<1> QED BY <1>6, <1>7, <1>8, <1>9, <1>10, <1>11

\* Process p comes to s in the file, which stays as it is but for the products.
LEMMA PlaceKeeps ==
  ASSUME DbTypeOK, DbInv, NEW p \in Processes, NEW s \in {"counted", "done", "failed"},
         SetDb(p, s), InUse(p),
         UNCHANGED <<applied, lead, seen, ups, sound, rival>>,
         s # "failed" => seen[p] = Migration,
         s = "failed" => p \in rival \/ ~sound,
         s = "counted" => products = "none" /\ UNCHANGED products,
         s = "done" => products' = "seeded",
         UNCHANGED products \/ products' = "seeded"
  PROVE  DbTypeOK' /\ DbInv'
<1> USE DEF DbTypeOK, DbInv
<1>1. /\ db'[p] = s /\ \A q \in Processes \ {p} : db'[q] = db[q]
      /\ db' \in [Processes -> {"closed", "migrating", "counted", "done", "failed"}]
  BY DbIsSet
<1>2. DbTypeOK'
  BY <1>1
<1>3. MarkersAreTrue'
  BY <1>1 DEF MarkersAreTrue
<1>4. RowsAreMigrated'
  BY <1>1 DEF RowsAreMigrated, OneLive
<1>5. RivalsAreNoted'
  <2>1. \A q \in Processes : InUse(q)' => InUse(q)
    BY <1>1 DEF InUse
  <2>2. \A q \in Processes \ {p} : InUse(q) => q \in rival
    BY DEF RivalsAreNoted
  <2> QED BY <1>1, <2>1, <2>2 DEF RivalsAreNoted, InUse
<1>6. SoundStays' /\ DbFailuresAreExplained'
  BY <1>1 DEF SoundStays, DbFailuresAreExplained, AtMostOne, WillBeLive
<1> QED BY <1>2, <1>3, <1>4, <1>5, <1>6

LEMMA CloseKeeps ==
  ASSUME DbTypeOK, DbInv, NEW p \in Processes, CloseDb(p)
  PROVE  DbTypeOK' /\ DbInv'
<1> USE DEF DbTypeOK, DbInv
<1>1. /\ SetDb(p, "closed") /\ seen' = [seen EXCEPT ![p] = {}] /\ rival' = rival \ {p}
      /\ UNCHANGED <<applied, lead, products, ups, sound>>
  BY DEF CloseDb
<1>2. /\ db'[p] = "closed" /\ \A q \in Processes \ {p} : db'[q] = db[q]
      /\ db' \in [Processes -> {"closed", "migrating", "counted", "done", "failed"}]
  BY <1>1, DbIsSet
<1>3. /\ seen'[p] = {} /\ \A q \in Processes \ {p} : seen'[q] = seen[q]
      /\ seen' \in [Processes -> SUBSET Migration]
  BY <1>1
<1>4. DbTypeOK'
  BY <1>1, <1>2, <1>3
<1>5. MarkersAreTrue'
  BY <1>1, <1>2, <1>3 DEF MarkersAreTrue
<1>6. RowsAreMigrated'
  BY <1>1, <1>2 DEF RowsAreMigrated, OneLive
<1>7. RivalsAreNoted'
  BY <1>1, <1>2, <1>3 DEF RivalsAreNoted, InUse
<1>8. SoundStays' /\ DbFailuresAreExplained'
  BY <1>1, <1>2 DEF SoundStays, DbFailuresAreExplained, AtMostOne, WillBeLive
<1> QED BY <1>4, <1>5, <1>6, <1>7, <1>8

LEMMA DbStepKeeps ==
  ASSUME DbTypeOK, DbInv, NEW p \in Processes, DbStep(p)
  PROVE  DbTypeOK' /\ DbInv'
<1>1. CASE OpenDb(p)
  BY <1>1, OpenKeeps
<1>2. ASSUME NEW m \in Migration, Migrate(p, m)
      PROVE  DbTypeOK' /\ DbInv'
  BY <1>2, MigrateKeeps
<1>3. ASSUME NEW m \in Migration, MigrateFails(p, m)
      PROVE  DbTypeOK' /\ DbInv'
  <2>1. /\ db[p] = "migrating" /\ IsNext(p, m) /\ (m \in applied \/ ~CanUp(m, lead))
        /\ SetDb(p, "failed") /\ UNCHANGED <<applied, lead, products, seen, ups, sound, rival>>
    BY <1>3 DEF MigrateFails
  <2>2. InUse(p)
    BY <1>3 DEF MigrateFails, InUse
  <2>3. p \in rival \/ ~sound
    <3>1. CASE m \in applied
      <4>1. m \notin seen[p]
        BY <1>3 DEF MigrateFails, IsNext, Missing
      <4> QED BY <2>2, <3>1, <4>1 DEF DbInv, RivalsAreNoted
    <3>2. CASE ~CanUp(m, lead)
      <4>1. lead \in [Leads -> Row]
        BY DEF DbTypeOK, Row
      <4> QED BY <3>2, <4>1, SoundPasses DEF DbInv, SoundStays
    <3> QED BY <1>3, <3>1, <3>2 DEF MigrateFails
  <2>4. SetDb(p, "failed") /\ UNCHANGED <<applied, lead, products, seen, ups, sound, rival>>
    BY <1>3 DEF MigrateFails
  <2> QED BY <2>2, <2>3, <2>4, PlaceKeeps
<1>4. CASE CountProducts(p)
  <2>1. /\ db[p] = "migrating" /\ Missing(p) = {}
        /\ SetDb(p, IF products = "none" THEN "counted" ELSE "done")
        /\ UNCHANGED <<applied, lead, products, seen, ups, sound, rival>>
    BY <1>4 DEF CountProducts
  <2>2. InUse(p) /\ seen[p] = Migration
    BY <2>1 DEF InUse, Missing, DbTypeOK
  <2>3. 10 \in applied
    BY <2>2 DEF DbInv, MarkersAreTrue, Migration
  <2>4. products # "none" => products = "seeded"
    BY <2>3 DEF DbInv, RowsAreMigrated, DbTypeOK
  <2> QED BY <2>1, <2>2, <2>4, PlaceKeeps
<1>5. CASE SeedProducts(p)
  <2>1. /\ db[p] = "counted" /\ products' = "seeded"
        /\ SetDb(p, IF products = "none" THEN "done" ELSE "failed")
        /\ UNCHANGED <<applied, lead, seen, ups, sound, rival>>
    BY <1>5 DEF SeedProducts
  <2>2. InUse(p) /\ seen[p] = Migration
    BY <2>1 DEF InUse, DbInv, MarkersAreTrue
  <2>3. products # "none" => p \in rival
    BY <2>1, <2>2 DEF DbInv, RivalsAreNoted
  <2> QED BY <2>1, <2>2, <2>3, PlaceKeeps
<1> QED BY <1>1, <1>2, <1>3, <1>4, <1>5 DEF DbStep

------------------------------------------------------------------------------
(* The processes.                                                          *)

Stages == {"off", "db", "cache", "queue", "bot", "listen", "launch", "ready", "failed"}
Modes  == {"none", "polling", "webhook", "idle"}

LEMMA OffFields ==
  /\ Off \in Process /\ Off.stage = "off" /\ Off.tear = "none" /\ Off.down = FALSE
  /\ Off.open = {} /\ Off.faults = 0
<1>1. {} \in SUBSET Resource /\ {} \in SUBSET Awaited /\ 0 \in 0..2
  OBVIOUS
<1>2. Off \in Process
  BY <1>1 DEF Off, Process
<1> QED BY <1>2 DEF Off

\* Ended with code c.
LEMMA Ended ==
  ASSUME NEW r \in Process, NEW c \in {"0", "1", "killed"}
  PROVE  LET f == [Off EXCEPT !.code = c, !.open = r.open, !.faults = r.faults] IN
           /\ f \in Process /\ f.stage = "off" /\ f.open = r.open /\ f.code = c
           /\ f.faults = r.faults /\ f.tear = "none" /\ f.down = FALSE
           /\ Good(f)
<1> DEFINE f == [Off EXCEPT !.code = c, !.open = r.open, !.faults = r.faults]
<1>1. r.open \in SUBSET Resource /\ r.faults \in 0..2
  BY DEF Process
<1>2. f \in Process
  BY <1>1, OffFields DEF Process
<1>3. /\ f.stage = "off" /\ f.open = r.open /\ f.code = c
      /\ f.faults = r.faults /\ f.tear = "none" /\ f.down = FALSE
  BY <1>1, OffFields DEF Process
<1> HIDE DEF f
<1>4. Good(f)
  BY <1>3 DEF Good, FaultsAreCounted, OpensInOrder, ClosesInOrder
<1> QED BY <1>2, <1>3, <1>4 DEF f

LEMMA Begun ==
  LET f == [Off EXCEPT !.stage = "db"] IN
    f \in Process /\ Good(f) /\ Good(Off)
<1> DEFINE f == [Off EXCEPT !.stage = "db"]
<1>1. f \in Process
  BY OffFields DEF Process
<1>2. f.stage = "db" /\ f.open = {} /\ f.tear = "none" /\ f.down = FALSE /\ f.faults = 0
  BY OffFields DEF Process
<1> HIDE DEF f
<1>3. Good(f) /\ Good(Off)
  BY <1>2, OffFields DEF Good, FaultsAreCounted, OpensInOrder, ClosesInOrder
<1> QED BY <1>1, <1>3 DEF f

LEMMA Stopped ==
  ASSUME NEW r \in Process
  PROVE  LET f == AfterStop(r) IN
           /\ f \in Process /\ f.stage = r.stage /\ f.open = r.open \ {"polling", "port"}
           /\ f.tear = (IF "server" \in r.open /\ ~r.down THEN "server"
                        ELSE IF "queue" \in r.open THEN "queue" ELSE "cache")
           /\ f.down = r.down /\ f.left = r.left /\ f.errors = r.errors /\ f.faults = r.faults
<1> DEFINE t == IF "server" \in r.open /\ ~r.down THEN "server"
                ELSE IF "queue" \in r.open THEN "queue" ELSE "cache"
           f == [r EXCEPT !.open = @ \ {"polling", "port"}, !.mode = "none", !.tear = t]
<1>1. t \in Awaited
  BY DEF Awaited
<1>2. AfterStop(r) = f
  BY DEF AfterStop
<1>3. f.tear = t
  <2> HIDE DEF t
  <2> QED BY DEF Process
<1>4. f \in Process
  <2> HIDE DEF t
  <2> QED BY <1>1 DEF Process
<1>5. /\ f.stage = r.stage /\ f.open = r.open \ {"polling", "port"}
      /\ f.down = r.down /\ f.left = r.left /\ f.errors = r.errors /\ f.faults = r.faults
  <2> HIDE DEF t
  <2> QED BY DEF Process
<1> HIDE DEF f
<1> QED BY <1>2, <1>3, <1>4, <1>5

\* What a teardown begins to await leaves open what it will close.
LEMMA StopsInOrder ==
  ASSUME NEW r \in Process, ~r.down
  PROVE  AfterStop(r).open \subseteq Rest(AfterStop(r).tear)
<1>1. r.open \in SUBSET Resource
  BY DEF Process
<1> DEFINE f == AfterStop(r)
<1>2. /\ f.open = r.open \ {"polling", "port"}
      /\ f.tear = (IF "server" \in r.open /\ ~r.down THEN "server"
                   ELSE IF "queue" \in r.open THEN "queue" ELSE "cache")
  BY Stopped
<1> HIDE DEF f
<1>3. f.open \subseteq Rest(f.tear)
  BY <1>1, <1>2 DEF Rest, Resource
<1> QED BY <1>3 DEF f

\* Process p becomes f.
LEMMA SetKeeps ==
  ASSUME TypeOK, ProcInv, NEW p \in Processes, NEW f \in Process,
         proc' = [proc EXCEPT ![p] = f], Good(f)
  PROVE  proc' \in [Processes -> Process] /\ ProcInv'
<1>1. proc'[p] = f /\ \A q \in Processes \ {p} : proc'[q] = proc[q]
  BY DEF TypeOK
<1>2. proc' \in [Processes -> Process]
  BY DEF TypeOK
<1>3. \A q \in Processes : Good(proc'[q])
  BY <1>1 DEF ProcInv
<1> QED BY <1>2, <1>3 DEF ProcInv

\* Process p ends with code c and what r has open.
LEMMA EndKeeps ==
  ASSUME TypeOK, DbInv, ProcInv, NEW p \in Processes, NEW r \in Process,
         NEW c \in {"0", "1", "killed"}, End(p, r, c)
  PROVE  TypeOK' /\ DbInv' /\ ProcInv'
<1> DEFINE f == [Off EXCEPT !.code = c, !.open = r.open, !.faults = r.faults]
<1>1. proc' = [proc EXCEPT ![p] = f] /\ CloseDb(p)
  BY DEF End
<1>2. f \in Process /\ Good(f)
  BY Ended
<1> HIDE DEF f
<1>3. proc' \in [Processes -> Process] /\ ProcInv'
  BY <1>1, <1>2, SetKeeps
<1>4. DbTypeOK' /\ DbInv'
  BY <1>1, CloseKeeps DEF TypeOK
<1> QED BY <1>3, <1>4 DEF TypeOK

\* The database stays as it is.
LEMMA DbStays ==
  ASSUME DbTypeOK, DbInv, UNCHANGED dbVars
  PROVE  DbTypeOK' /\ DbInv'
BY DEF dbVars, DbTypeOK, DbInv, MarkersAreTrue, RowsAreMigrated, RivalsAreNoted, SoundStays,
       DbFailuresAreExplained, OneLive, AtMostOne, WillBeLive, InUse

\* Process p goes on as f.
LEMMA GoesOn ==
  ASSUME TypeOK, DbInv, ProcInv, NEW p \in Processes, NEW f \in Process, Set(p, f), Good(f)
  PROVE  TypeOK' /\ DbInv' /\ ProcInv'
<1>1. proc' = [proc EXCEPT ![p] = f] /\ UNCHANGED dbVars
  BY DEF Set
<1>2. DbTypeOK' /\ DbInv'
  BY <1>1, DbStays DEF TypeOK
<1> QED BY <1>1, <1>2, SetKeeps DEF TypeOK

------------------------------------------------------------------------------
(* Every step keeps the invariant.                                         *)

LEMMA ProcFields ==
  ASSUME TypeOK, ProcInv, NEW p \in Processes
  PROVE  /\ proc[p] \in Process /\ Good(proc[p])
         /\ proc[p].faults \in 0..2 /\ proc[p].open \in SUBSET Resource
         /\ proc[p].stage \in Stages /\ proc[p].mode \in Modes
         /\ proc[p].down \in BOOLEAN /\ proc[p].errors \in BOOLEAN
         /\ proc[p].left \in SUBSET Awaited /\ proc[p].tear \in Awaited \cup {"none"}
<1>1. proc[p] \in Process /\ Good(proc[p])
  BY DEF TypeOK, ProcInv
<1> QED BY <1>1 DEF Process, Stages, Modes

\* A step of bootstrap, to stage s, with what it opens.
LEMMA GoKeeps ==
  ASSUME TypeOK, DbInv, ProcInv, NEW p \in Processes,
         proc[p].stage \notin {"off", "ready", "failed"},
         NEW s \in Stages \ {"off", "failed"}, NEW g \in SUBSET Resource, Go(p, s, g),
         s \in {"cache", "queue", "bot"} =>
           proc[p].stage \in {"db", "cache", "queue"} /\ g \subseteq {"db", "cache", "queue"},
         s # "db"
  PROVE  TypeOK' /\ DbInv' /\ ProcInv'
<1> DEFINE r == proc[p]
           f == [r EXCEPT !.stage = s, !.open = @ \cup g]
<1>1. r \in Process /\ Good(r)
  BY ProcFields
<1>2. /\ f \in Process /\ f.stage = s /\ f.open = r.open \cup g
      /\ f.tear = r.tear /\ f.down = r.down /\ f.faults = r.faults
  BY <1>1 DEF Process, Stages
<1>3. Set(p, f)
  BY DEF Go
<1> HIDE DEF f
<1>4. r.tear = "none" /\ r.faults = 0 /\ ~r.down
  BY <1>1 DEF Good, FaultsAreCounted
<1>5. FaultsAreCounted(f) /\ ClosesInOrder(f)
  BY <1>2, <1>4 DEF FaultsAreCounted, ClosesInOrder
<1>6. OpensInOrder(f)
  BY <1>1, <1>2, <1>4 DEF Good, OpensInOrder
<1> QED BY <1>2, <1>3, <1>5, <1>6, GoesOn DEF Good

\* The start fails, with g open besides: the teardown begins.
LEMMA FailKeeps ==
  ASSUME TypeOK, DbInv, ProcInv, NEW p \in Processes,
         proc[p].stage \notin {"off", "ready"}, NEW g \in SUBSET Resource, BootFails(p, g)
  PROVE  TypeOK' /\ DbInv' /\ ProcInv'
<1> DEFINE r == [proc[p] EXCEPT !.stage = "failed", !.open = @ \cup g]
           f == AfterStop(r)
<1>1. proc[p] \in Process /\ Good(proc[p])
  BY ProcFields
<1>2. /\ r \in Process /\ r.stage = "failed" /\ r.open = proc[p].open \cup g
      /\ r.down = proc[p].down /\ r.faults = proc[p].faults
  BY <1>1 DEF Process
<1>3. Set(p, f)
  BY DEF BootFails
<1> HIDE DEF r
<1>4. r.faults = 0 /\ ~r.down
  BY <1>1, <1>2 DEF Good, FaultsAreCounted
<1>5. /\ f \in Process /\ f.stage = "failed" /\ f.open = r.open \ {"polling", "port"}
      /\ f.down = r.down /\ f.faults = r.faults
  BY <1>2, Stopped
<1>6. f.open \subseteq Rest(f.tear)
  BY <1>2, <1>4, StopsInOrder
<1> HIDE DEF f
<1>7. Good(f)
  BY <1>4, <1>5, <1>6 DEF Good, FaultsAreCounted, OpensInOrder, ClosesInOrder
<1> QED BY <1>3, <1>5, <1>7, GoesOn

\* The start goes on without a bot or with one.
LEMMA ListenKeeps ==
  ASSUME TypeOK, DbInv, ProcInv, NEW p \in Processes, proc[p].stage = "listen",
         NEW g \in SUBSET Resource, AfterListen(p, g)
  PROVE  TypeOK' /\ DbInv' /\ ProcInv'
<1>1. CASE Go(p, "launch", g)
  BY <1>1, GoKeeps DEF Stages
<1>2. CASE Go(p, "ready", g)
  BY <1>2, GoKeeps DEF Stages
<1>3. CASE BootFails(p, g)
  BY <1>3, FailKeeps
<1> QED BY <1>1, <1>2, <1>3 DEF AfterListen

LEMMA FaultKeeps ==
  ASSUME TypeOK, DbInv, ProcInv, NEW p \in Processes, Fault(p)
  PROVE  TypeOK' /\ DbInv' /\ ProcInv'
<1> DEFINE r == [proc[p] EXCEPT !.faults = @ + 1]
           f == AfterStop(r)
<1>1. proc[p] \in Process /\ Good(proc[p]) /\ Running(p)
  BY ProcFields DEF Fault
<1>2. proc[p].faults \in 0..1
  BY <1>1, ProcFields DEF Good, FaultsAreCounted, Running
<1>3. /\ r \in Process /\ r.stage = proc[p].stage /\ r.open = proc[p].open
      /\ r.tear = proc[p].tear /\ r.down = proc[p].down /\ r.left = proc[p].left
      /\ r.errors = proc[p].errors /\ r.faults = proc[p].faults + 1
  BY <1>1, <1>2 DEF Process
<1>4. IF r.stage = "ready" /\ r.tear = "none" THEN Set(p, f) ELSE End(p, r, "1")
  BY DEF Fault
<1> HIDE DEF r
<1>5. CASE r.stage = "ready" /\ r.tear = "none"
  <2>1. /\ f \in Process /\ f.stage = r.stage /\ f.open = r.open \ {"polling", "port"}
        /\ f.down = r.down /\ f.left = r.left /\ f.errors = r.errors /\ f.faults = r.faults
    BY <1>3, Stopped
  <2>2. f.tear # "none"
    BY <1>3, Stopped
  <2>3. ~r.down => f.open \subseteq Rest(f.tear)
    BY <1>3, StopsInOrder
  <2> HIDE DEF f
  <2>4. f.faults = 1
    BY <1>1, <1>3, <1>5, <2>1 DEF Good, FaultsAreCounted
  <2>5. FaultsAreCounted(f) /\ OpensInOrder(f)
    BY <1>1, <1>3, <1>5, <2>1, <2>2, <2>4 DEF Good, FaultsAreCounted, OpensInOrder
  <2>6. ClosesInOrder(f)
    BY <1>1, <1>3, <2>1, <2>3 DEF Good, ClosesInOrder
  <2>7. Set(p, f)
    BY <1>4, <1>5
  <2> QED BY <2>1, <2>5, <2>6, <2>7, GoesOn DEF Good
<1>6. CASE ~(r.stage = "ready" /\ r.tear = "none")
  BY <1>3, <1>4, <1>6, EndKeeps
<1> QED BY <1>5, <1>6

LEMMA SignalKeeps ==
  ASSUME TypeOK, DbInv, ProcInv, NEW p \in Processes, Signal(p)
  PROVE  TypeOK' /\ DbInv' /\ ProcInv'
<1> DEFINE r == proc[p]
           L == r.open \cap (IF r.tear = "none" THEN Awaited ELSE {"queue", "cache"})
           e == r.tear # "none" \/ "server" \notin r.open \/ r.mode \in {"webhook", "idle"}
           f == [r EXCEPT !.down = TRUE, !.mode = "none",
                          !.open = @ \ {"db", "port", "polling"}, !.left = L, !.errors = e]
<1>1. r \in Process /\ Good(r) /\ r.open \in SUBSET Resource /\ r.stage = "ready" /\ ~r.down
  BY ProcFields DEF Signal, At
<1>2. L \in SUBSET Awaited /\ e \in BOOLEAN
  BY DEF Awaited
<1>3. Set(p, f)
  BY DEF Signal
<1>4. r.tear = "none" => r.open \ {"db", "port", "polling"} \subseteq L
  BY <1>1 DEF Resource, Awaited
<1>5. ~e => r.tear = "none"
  OBVIOUS
<1> HIDE DEF L, e
<1>6. /\ f \in Process /\ f.stage = "ready" /\ f.open = r.open \ {"db", "port", "polling"}
      /\ f.down = TRUE /\ f.left = L /\ f.tear = r.tear /\ f.faults = r.faults
  BY <1>1, <1>2 DEF Process
<1>7. f.errors = e
  BY <1>1, <1>2 DEF Process
<1> HIDE DEF f
<1>8. Good(f)
  <2>1. FaultsAreCounted(f)
    BY <1>1, <1>6 DEF Good, FaultsAreCounted
  <2>2. OpensInOrder(f)
    BY <1>6 DEF OpensInOrder
  <2>3. ClosesInOrder(f)
    BY <1>4, <1>5, <1>6, <1>7 DEF ClosesInOrder
  <2> QED BY <2>1, <2>2, <2>3 DEF Good
<1> QED BY <1>3, <1>6, <1>8, GoesOn

LEMMA ShutStepKeeps ==
  ASSUME TypeOK, DbInv, ProcInv, NEW p \in Processes, ShutStep(p)
  PROVE  TypeOK' /\ DbInv' /\ ProcInv'
<1>1. PICK x \in proc[p].left, failing \in BOOLEAN :
        Set(p, [proc[p] EXCEPT !.left = @ \ {x}, !.open = @ \ {x}, !.errors = @ \/ failing])
  BY DEF ShutStep
<1> DEFINE r == proc[p]
           e == r.errors \/ failing
           f == [r EXCEPT !.left = @ \ {x}, !.open = @ \ {x}, !.errors = e]
<1>2. r \in Process /\ Good(r) /\ x \in Awaited /\ e \in BOOLEAN
  BY ProcFields
<1>3. Set(p, f)
  BY <1>1, <1>2 DEF Process
<1>4. ~e => ~r.errors
  OBVIOUS
<1> HIDE DEF e
<1>5. /\ f \in Process /\ f.stage = r.stage /\ f.open = r.open \ {x} /\ f.left = r.left \ {x}
      /\ f.down = r.down /\ f.tear = r.tear /\ f.faults = r.faults
  BY <1>2 DEF Process
<1>6. f.errors = e
  BY <1>2 DEF Process
<1> HIDE DEF f
<1>7. FaultsAreCounted(f)
  BY <1>2, <1>5 DEF Good, FaultsAreCounted
<1>8. OpensInOrder(f)
  BY <1>2, <1>5 DEF Good, OpensInOrder
<1>9. ClosesInOrder(f)
  BY <1>2, <1>4, <1>5, <1>6 DEF Good, ClosesInOrder
<1> QED BY <1>3, <1>5, <1>7, <1>8, <1>9, GoesOn DEF Good

\* What a teardown has left once it has closed what it awaits.
LEMMA TornInOrder ==
  ASSUME NEW r \in Process, r.tear # "none", r.open \subseteq Rest(r.tear)
  PROVE  /\ r.tear = "cache" => (r.open \ {"cache"}) \ {"db"} = {}
         /\ r.tear # "cache" =>
              r.open \ {r.tear} \subseteq
                Rest(IF r.tear = "server" /\ "queue" \in r.open \ {r.tear} THEN "queue" ELSE "cache")
<1>1. r.tear \in {"server", "queue", "cache"}
  BY DEF Process, Awaited
<1>2. CASE r.tear = "server"
  BY <1>2 DEF Rest
<1>3. CASE r.tear = "queue"
  BY <1>3 DEF Rest
<1>4. CASE r.tear = "cache"
  <2>1. r.open \subseteq {"db", "cache"}
    BY <1>4 DEF Rest
  <2> QED BY <1>4, <2>1
<1> QED BY <1>1, <1>2, <1>3, <1>4

LEMMA TearKeeps ==
  ASSUME TypeOK, DbInv, ProcInv, NEW p \in Processes, TearStep(p)
  PROVE  TypeOK' /\ DbInv' /\ ProcInv'
<1> DEFINE q == proc[p]
           x == q.tear
           r == [q EXCEPT !.open = @ \ {x}]
<1>1. q \in Process /\ Good(q) /\ x \in Awaited /\ Running(p) /\ x # "none"
  BY ProcFields DEF TearStep
<1>2. /\ r \in Process /\ r.open = q.open \ {x} /\ r.stage = q.stage /\ r.down = q.down
      /\ r.tear = x /\ r.left = q.left /\ r.errors = q.errors /\ r.faults = q.faults
  BY <1>1 DEF Process
<1>3. IF x = "cache" THEN End(p, [r EXCEPT !.open = @ \ {"db"}], "1")
      ELSE Set(p, [r EXCEPT !.tear =
                     IF x = "server" /\ "queue" \in r.open THEN "queue" ELSE "cache"])
  BY DEF TearStep
<1> HIDE DEF r
<1>4. CASE x = "cache"
  <2>1. [r EXCEPT !.open = @ \ {"db"}] \in Process
    BY <1>2 DEF Process
  <2> QED BY <1>3, <1>4, <2>1, EndKeeps
<1>5. CASE x # "cache"
  <2> DEFINE t == IF x = "server" /\ "queue" \in r.open THEN "queue" ELSE "cache"
             f == [r EXCEPT !.tear = t]
  <2>1. t \in Awaited /\ t # "none"
    BY DEF Awaited
  <2>2. ~q.down => q.open \ {x} \subseteq Rest(t)
    BY <1>1, <1>2, <1>5, TornInOrder DEF Good, ClosesInOrder
  <2>3. Set(p, f)
    BY <1>3, <1>5
  <2> HIDE DEF t
  <2>4. /\ f \in Process /\ f.open = r.open /\ f.stage = r.stage /\ f.down = r.down
        /\ f.tear = t /\ f.left = r.left /\ f.errors = r.errors /\ f.faults = r.faults
    BY <1>2, <2>1 DEF Process
  <2> HIDE DEF f
  <2>5. FaultsAreCounted(f)
    BY <1>1, <1>2, <2>1, <2>4 DEF Good, FaultsAreCounted
  <2>6. OpensInOrder(f)
    BY <1>1, <1>2, <2>4 DEF Good, OpensInOrder
  <2>7. ClosesInOrder(f)
    BY <1>1, <1>2, <2>2, <2>4 DEF Good, ClosesInOrder
  <2> QED BY <2>3, <2>4, <2>5, <2>6, <2>7, GoesOn DEF Good
<1> QED BY <1>4, <1>5

LEMMA BootKeeps ==
  ASSUME TypeOK, DbInv, ProcInv, NEW p \in Processes, Boot(p)
  PROVE  TypeOK' /\ DbInv' /\ ProcInv'
<1> DEFINE r == proc[p]
<1>1. r \in Process /\ Good(r)
  BY ProcFields
<1>2. CASE CreateDatabase(p)
  <2>1. DbTypeOK' /\ DbInv'
    BY <1>2, DbStepKeeps DEF CreateDatabase, TypeOK
  <2>2. proc' = proc
    BY <1>2 DEF CreateDatabase
  <2> QED BY <2>1, <2>2 DEF TypeOK, ProcInv
<1>3. CASE DbReady(p)
  <2>1. r.stage = "db"
    BY <1>3 DEF DbReady, At
  <2>2. CASE Go(p, "cache", {"db"})
    BY <2>1, <2>2, GoKeeps DEF Stages, Resource
  <2>3. CASE Refused(p)
    BY <1>1, <2>3, EndKeeps DEF Refused
  <2>4. CASE End(p, [r EXCEPT !.open = {"db"}], "1")
    <3>1. [r EXCEPT !.open = {"db"}] \in Process
      BY <1>1 DEF Process, Resource
    <3> QED BY <2>4, <3>1, EndKeeps
  <2> QED BY <1>3, <2>2, <2>3, <2>4 DEF DbReady
<1>4. CASE InitCache(p)
  BY <1>4, GoKeeps DEF InitCache, At, Stages, Resource
<1>5. CASE InitQueue(p)
  <2>1. r.stage = "queue"
    BY <1>5 DEF InitQueue, At
  <2>2. PICK g \in SUBSET {"queue"} : Go(p, "bot", g)
    BY <1>5 DEF InitQueue
  <2>3. g \in SUBSET Resource /\ g \subseteq {"db", "cache", "queue"}
    BY DEF Resource
  <2> QED BY <2>1, <2>2, <2>3, GoKeeps DEF Stages
<1>6. CASE CreateBot(p)
  <2>1. r.stage = "bot"
    BY <1>6 DEF CreateBot, At
  <2>2. CASE Refused(p)
    BY <1>1, <2>2, EndKeeps DEF Refused
  <2>3. ASSUME NEW m \in {"none", "polling", "webhook"},
               Set(p, [r EXCEPT !.stage = "listen", !.mode = m])
        PROVE  TypeOK' /\ DbInv' /\ ProcInv'
    <3> DEFINE f == [r EXCEPT !.stage = "listen", !.mode = m]
    <3>1. /\ f \in Process /\ f.stage = "listen" /\ f.open = r.open /\ f.tear = r.tear
          /\ f.down = r.down /\ f.faults = r.faults
      BY <1>1 DEF Process
    <3>2. Set(p, f)
      BY <2>3
    <3> HIDE DEF f
    <3>3. Good(f)
      BY <1>1, <2>1, <3>1
      DEF Good, FaultsAreCounted, OpensInOrder, ClosesInOrder
    <3> QED BY <3>1, <3>2, <3>3, GoesOn
  <2> QED BY <1>6, <2>2, <2>3 DEF CreateBot
<1>7. CASE Listen(p)
  <2>1. {"port", "server"} \in SUBSET Resource
    BY DEF Resource
  <2> QED BY <1>7, <2>1, ListenKeeps DEF Listen, At
<1>8. CASE ListenFails(p)
  <2>1. {} \in SUBSET Resource /\ r.stage = "listen"
    BY <1>8 DEF ListenFails, At
  <2> QED BY <1>8, <2>1, ListenKeeps, FailKeeps DEF ListenFails
<1>9. CASE Launch(p)
  <2>1. r.stage = "launch" /\ Go(p, "ready", {r.mode} \cap {"polling"})
    BY <1>9 DEF Launch, At
  <2>2. ({r.mode} \cap {"polling"}) \in SUBSET Resource
    BY DEF Resource
  <2> QED BY <2>1, <2>2, GoKeeps DEF Stages
<1>10. CASE LaunchFails(p)
  <2>1. r.stage = "launch"
    BY <1>10 DEF LaunchFails, At
  <2>2. CASE BootFails(p, {})
    BY <2>1, <2>2, FailKeeps
  <2>3. CASE Set(p, [r EXCEPT !.stage = "ready", !.mode = "idle"])
    <3> DEFINE f == [r EXCEPT !.stage = "ready", !.mode = "idle"]
    <3>1. /\ f \in Process /\ f.stage = "ready" /\ f.open = r.open /\ f.tear = r.tear
          /\ f.down = r.down /\ f.faults = r.faults
      BY <1>1 DEF Process
    <3>2. Set(p, f)
      BY <2>3
    <3> HIDE DEF f
    <3>3. Good(f)
      BY <1>1, <2>1, <3>1
      DEF Good, FaultsAreCounted, OpensInOrder, ClosesInOrder
    <3> QED BY <3>1, <3>2, <3>3, GoesOn
  <2> QED BY <1>10, <2>2, <2>3 DEF LaunchFails
<1> QED BY <1>2, <1>3, <1>4, <1>5, <1>6, <1>7, <1>8, <1>9, <1>10 DEF Boot

LEMMA ShutEndEnds ==
  ASSUME NEW p \in Processes, ShutEnd(p)
  PROVE  \E c \in {"0", "1"} :
           /\ End(p, proc[p], c) /\ proc[p].down
           /\ c = "0" => ~proc[p].errors /\ proc[p].left = {}
BY DEF ShutEnd

LEMMA Killed ==
  ASSUME NEW r \in Process
  PROVE  [r EXCEPT !.open = {}, !.faults = 0] \in Process
<1>1. {} \in SUBSET Resource /\ 0 \in 0..2
  OBVIOUS
<1> QED BY <1>1 DEF Process

Inv == TypeOK /\ DbInv /\ ProcInv

LEMMA StepInv ==
  ASSUME Inv, [Next]_vars
  PROVE  Inv'
<1> USE DEF Inv
<1>1. ASSUME NEW p \in Processes, Start(p)
      PROVE  Inv'
  BY <1>1, Begun, GoesOn DEF Start
<1>2. ASSUME NEW p \in Processes, Boot(p)
      PROVE  Inv'
  BY <1>2, BootKeeps
<1>3. ASSUME NEW p \in Processes, TearStep(p)
      PROVE  Inv'
  BY <1>3, TearKeeps
<1>4. ASSUME NEW p \in Processes, Fault(p)
      PROVE  Inv'
  BY <1>4, FaultKeeps
<1>5. ASSUME NEW p \in Processes, Signal(p)
      PROVE  Inv'
  BY <1>5, SignalKeeps
<1>6. ASSUME NEW p \in Processes, ShutStep(p)
      PROVE  Inv'
  BY <1>6, ShutStepKeeps
<1>7. ASSUME NEW p \in Processes, ShutEnd(p)
      PROVE  Inv'
  <2>1. PICK c \in {"0", "1"} : End(p, proc[p], c)
    BY <1>7, ShutEndEnds
  <2> QED BY <2>1, ProcFields, EndKeeps
<1>8. ASSUME NEW p \in Processes, Kill(p)
      PROVE  Inv'
  <2> DEFINE r == [proc[p] EXCEPT !.open = {}, !.faults = 0]
  <2>1. r \in Process
    BY ProcFields, Killed
  <2>2. End(p, r, "killed")
    BY <1>8 DEF Kill
  <2> HIDE DEF r
  <2> QED BY <2>1, <2>2, EndKeeps
<1>9. CASE UNCHANGED vars
  <2>1. UNCHANGED dbVars /\ proc' = proc
    BY <1>9 DEF vars, dbVars
  <2> QED BY <2>1, DbStays DEF TypeOK, ProcInv
<1> QED BY <1>1, <1>2, <1>3, <1>4, <1>5, <1>6, <1>7, <1>8, <1>9 DEF Next

\* Any file that a release has left satisfies the invariant of the database.
LEMMA InitDb == DbInit => DbTypeOK /\ DbInv
<1> SUFFICES ASSUME DbInit PROVE DbTypeOK /\ DbInv
  OBVIOUS
<1>1. PICK n \in Prefixes :
        /\ applied = 1..n
        /\ lead \in [Leads -> [status : Status \ (IF n < 10 THEN {"proposal_sent"} ELSE {}),
                               token : BOOLEAN]]
        /\ Established(n, lead)
        /\ products \in (IF n = 0 THEN {"none"} ELSE IF n < 10 THEN {"legacy"} ELSE {"seeded"})
        /\ ups = [m \in Migration |-> IF m <= n THEN 1 ELSE 0]
  BY DEF DbInit
<1>2. /\ db = [p \in Processes |-> "closed"] /\ seen = [p \in Processes |-> {}]
      /\ sound = AtMostOne(WillBeLive(lead)) /\ rival = {}
  BY DEF DbInit
<1>3. n \in 0..11 /\ applied = 1..n
  BY <1>1, MigrationsAssumption DEF Migration
<1>4. lead \in [Leads -> Row]
  <2>1. lead \in [Leads -> [status : Status, token : BOOLEAN]]
    BY <1>1
  <2> QED BY <2>1 DEF Row
<1>5. products \in {"none", "legacy", "seeded"} /\ (n >= 10 => products = "seeded")
  BY <1>1, <1>3
<1>6. DbTypeOK
  BY <1>1, <1>2, <1>3, <1>4, <1>5 DEF DbTypeOK, Row, Migration, AtMostOne
<1>7. MarkersAreTrue
  BY <1>1, <1>2, <1>3 DEF MarkersAreTrue, Migration
<1>8. RowsAreMigrated
  <2>1. n >= 8 => \A i \in Leads : lead[i].token
    BY <1>1 DEF Established
  <2>2. /\ n >= 4 => \A i \in Leads : lead[i].status # "open"
        /\ n >= 6 => OneLive(lead)
        /\ n >= 10 => \A i \in Leads : lead[i].status # "awaiting_payment"
    BY <1>1 DEF Established
  <2> QED BY <1>2, <1>3, <1>5, <2>1, <2>2 DEF RowsAreMigrated
<1>9. RivalsAreNoted /\ SoundStays /\ DbFailuresAreExplained
  BY <1>2 DEF RivalsAreNoted, SoundStays, DbFailuresAreExplained, InUse
<1> QED BY <1>6, <1>7, <1>8, <1>9 DEF DbInv

LEMMA InitInv == Init => Inv
<1> SUFFICES ASSUME Init PROVE Inv
  OBVIOUS
<1>1. DbTypeOK /\ DbInv /\ proc = [p \in Processes |-> Off]
  BY InitDb DEF Init
<1>2. TypeOK
  BY <1>1, OffFields DEF TypeOK
<1>3. ProcInv
  BY <1>1, Begun DEF ProcInv
<1> QED BY <1>1, <1>2, <1>3 DEF Inv

LEMMA InvHolds == Spec => []Inv
BY InitInv, StepInv, PTL DEF Spec

------------------------------------------------------------------------------
(* The theorems.                                                           *)

\* Every variable keeps its type; a process meets at most two fatal errors, as
\* the second one ends it.
THEOREM TypeCorrect == Spec => []TypeOK
<1>1. Inv => TypeOK
  BY DEF Inv
<1> QED BY <1>1, InvHolds, PTL

\* Any number of processes may migrate one file side by side and die at any
\* point: each migration takes effect once and in its order, and who has come
\* through finds what all of them have established.
THEOREM MigratedOnceHolds == Spec => []MigratedOnce
<1>1. ASSUME Inv PROVE MigratedOnce
  <2>1. MarkersAreTrue /\ RowsAreMigrated /\ DbTypeOK
    BY <1>1 DEF Inv, DbInv, TypeOK
  <2>2. ASSUME NEW p \in Processes, db[p] = "done"
        PROVE  /\ applied = Migration
               /\ \A i \in Leads : /\ lead[i].status \notin {"open", "awaiting_payment"}
                                   /\ lead[i].token
               /\ OneLive(lead)
               /\ products = "seeded"
    <3>1. applied = Migration
      BY <2>1, <2>2 DEF MarkersAreTrue, DbTypeOK
    <3> QED BY <2>1, <2>2, <3>1 DEF RowsAreMigrated, Migration
  <2> QED BY <2>1, <2>2 DEF MarkersAreTrue, MigratedOnce
<1> QED BY <1>1, InvHolds, PTL

\* A process that the database refuses had company in the file, or the file holds
\* two leads of which the index admits one.
THEOREM DbFailuresAreExplainedHolds == Spec => []DbFailuresAreExplained
<1>1. Inv => DbFailuresAreExplained
  BY DEF Inv, DbInv
<1> QED BY <1>1, InvHolds, PTL

------------------------------------------------------------------------------
(* How a process ends.                                                     *)

\* The end of a process that was r and left e is clean.
CleanExit(r, e) ==
  /\ e.code = "0" => e.open = {}
  /\ r.down => e.open \cap {"db", "port", "polling"} = {}
  /\ (/\ ~r.down
      /\ \/ r.stage \in {"listen", "launch", "failed"} /\ e.faults = 0
         \/ r.stage = "ready" /\ e.faults = 1) => e.open = {}
  /\ r.stage \in {"db", "cache", "queue", "bot"} => e.open \subseteq {"db", "cache", "queue"}

LEMMA EndLeaves ==
  ASSUME TypeOK, NEW p \in Processes, NEW r \in Process, NEW c \in {"0", "1", "killed"},
         End(p, r, c)
  PROVE  proc'[p].code = c /\ proc'[p].open = r.open /\ proc'[p].faults = r.faults
<1> DEFINE f == [Off EXCEPT !.code = c, !.open = r.open, !.faults = r.faults]
<1>1. f.code = c /\ f.open = r.open /\ f.faults = r.faults
  BY Ended
<1>2. proc' = [proc EXCEPT ![p] = f]
  BY DEF End
<1> HIDE DEF f
<1>3. proc'[p] = f
  BY <1>2 DEF TypeOK
<1> QED BY <1>1, <1>3

LEMMA GoStays ==
  ASSUME TypeOK, NEW p \in Processes, NEW s \in Stages, NEW g \in SUBSET Resource, Go(p, s, g)
  PROVE  proc'[p].stage = s
<1> DEFINE f == [proc[p] EXCEPT !.stage = s, !.open = @ \cup g]
<1>1. proc'[p] = f
  BY DEF Go, Set, TypeOK
<1>2. proc[p] \in Process
  BY DEF TypeOK
<1>3. f.stage = s
  BY <1>2 DEF Process
<1> QED BY <1>1, <1>3

LEMMA FailStays ==
  ASSUME TypeOK, NEW p \in Processes, NEW g \in SUBSET Resource, BootFails(p, g)
  PROVE  proc'[p].stage = "failed"
<1> DEFINE r == [proc[p] EXCEPT !.stage = "failed", !.open = @ \cup g]
<1>0. proc[p] \in Process
  BY DEF TypeOK
<1>1. r \in Process /\ r.stage = "failed"
  BY <1>0 DEF Process
<1>2. proc'[p] = AfterStop(r)
  BY DEF BootFails, Set, TypeOK
<1> HIDE DEF r
<1> QED BY <1>1, <1>2, Stopped

LEMMA ListenStays ==
  ASSUME TypeOK, NEW p \in Processes, NEW g \in SUBSET Resource, AfterListen(p, g)
  PROVE  proc'[p].stage # "off"
BY GoStays, FailStays DEF AfterListen, Stages

\* A step is the step of one process.
LEMMA OthersStay ==
  ASSUME TypeOK, NEW p \in Processes, NEW q \in Processes,
         Start(q) \/ Boot(q) \/ TearStep(q) \/ Fault(q) \/ Signal(q) \/ ShutStep(q) \/ ShutEnd(q)
           \/ Kill(q),
         proc'[p] # proc[p]
  PROVE  q = p
<1>1. ASSUME NEW f, proc' = [proc EXCEPT ![q] = f]
      PROVE  q = p
  BY <1>1 DEF TypeOK
<1>2. ASSUME NEW f, Set(q, f)
      PROVE  q = p
  BY <1>1, <1>2 DEF Set
<1>3. ASSUME NEW r, NEW c, End(q, r, c)
      PROVE  q = p
  BY <1>1, <1>3 DEF End
<1>4. CASE Boot(q)
  <2>1. ASSUME NEW s, NEW g, Go(q, s, g)
        PROVE  q = p
    BY <1>2, <2>1 DEF Go
  <2>2. ASSUME NEW g, BootFails(q, g)
        PROVE  q = p
    BY <1>2, <2>2 DEF BootFails
  <2>3. Refused(q) => q = p
    BY <1>3 DEF Refused
  <2>4. CreateDatabase(q) \/ DbReady(q) \/ InitCache(q) \/ InitQueue(q) => q = p
    BY <1>3, <2>1, <2>3 DEF CreateDatabase, DbReady, InitCache, InitQueue
  <2>5. CreateBot(q) => q = p
    BY <1>2, <2>3 DEF CreateBot
  <2>6. Listen(q) \/ ListenFails(q) \/ Launch(q) \/ LaunchFails(q) => q = p
    BY <1>2, <2>1, <2>2 DEF Listen, ListenFails, AfterListen, Launch, LaunchFails
  <2> QED BY <1>4, <2>4, <2>5, <2>6 DEF Boot
<1>5. Start(q) \/ Signal(q) \/ ShutStep(q) => q = p
  BY <1>2 DEF Start, Signal, ShutStep
<1>6. ShutEnd(q) \/ Kill(q) => q = p
  BY <1>3 DEF ShutEnd, Kill
<1>7. TearStep(q) \/ Fault(q) => q = p
  BY <1>2, <1>3 DEF TearStep, Fault
<1> QED BY <1>4, <1>5, <1>6, <1>7

LEMMA StepExits ==
  ASSUME Inv, [Next]_vars, NEW p \in Processes, Running(p), proc'[p].stage = "off"
  PROVE  CleanExit(proc[p], proc'[p])
<1> DEFINE r == proc[p]
<1>1. /\ TypeOK /\ ProcInv /\ r \in Process /\ Good(r) /\ r.stage # "off"
      /\ r.faults \in 0..2 /\ proc' # proc
  BY ProcFields DEF Inv, Running
<1>2. \E q \in Processes :
        Start(q) \/ Boot(q) \/ TearStep(q) \/ Fault(q) \/ Signal(q) \/ ShutStep(q) \/ ShutEnd(q)
          \/ Kill(q)
  BY <1>1 DEF Next, vars
<1>3. Boot(p) \/ TearStep(p) \/ Fault(p) \/ Signal(p) \/ ShutStep(p) \/ ShutEnd(p) \/ Kill(p)
  BY <1>1, <1>2, OthersStay DEF Start, At
<1>4. CASE Boot(p)
  <2>1. Refused(p) => CleanExit(r, proc'[p]) \/ r.stage \in {"listen", "launch", "failed", "ready"}
    BY <1>1, EndLeaves DEF Refused, CleanExit, Good, FaultsAreCounted, OpensInOrder
  <2>2. ~CreateDatabase(p)
    BY <1>1 DEF CreateDatabase
  <2>3. DbReady(p) => CleanExit(r, proc'[p])
    <3>1. ASSUME End(p, [r EXCEPT !.open = {"db"}], "1"), r.stage = "db"
          PROVE  CleanExit(r, proc'[p])
      <4> DEFINE a == [r EXCEPT !.open = {"db"}]
      <4>1. a \in Process /\ a.open = {"db"}
        BY <1>1 DEF Process, Resource
      <4>2. End(p, a, "1")
        BY <3>1
      <4> HIDE DEF a
      <4>3. proc'[p].code = "1" /\ proc'[p].open = {"db"}
        BY <1>1, <4>1, <4>2, EndLeaves
      <4> QED BY <1>1, <3>1, <4>3 DEF CleanExit, Good, FaultsAreCounted
    <3> QED BY <1>1, <2>1, <3>1, GoStays DEF DbReady, At, Stages, Resource
  <2>4. ~InitCache(p)
    BY <1>1, GoStays DEF InitCache, Stages, Resource
  <2>5. ~InitQueue(p)
    <3>1. \A g \in SUBSET {"queue"} : g \in SUBSET Resource
      BY DEF Resource
    <3> QED BY <1>1, <3>1, GoStays DEF InitQueue, Stages
  <2>6. CreateBot(p) => CleanExit(r, proc'[p])
    <3>1. ASSUME NEW m \in {"none", "polling", "webhook"},
                 Set(p, [r EXCEPT !.stage = "listen", !.mode = m])
          PROVE  FALSE
      <4> DEFINE f == [r EXCEPT !.stage = "listen", !.mode = m]
      <4>1. f.stage = "listen"
        BY <1>1 DEF Process
      <4>2. proc'[p] = f
        BY <1>1, <3>1 DEF Set, TypeOK
      <4> HIDE DEF f
      <4> QED BY <4>1, <4>2
    <3> QED BY <2>1, <3>1 DEF CreateBot, At
  <2>7. ~Listen(p)
    <3>1. {"port", "server"} \in SUBSET Resource
      BY DEF Resource
    <3> QED BY <1>1, <3>1, ListenStays DEF Listen
  <2>8. ~ListenFails(p)
    <3>1. {} \in SUBSET Resource
      OBVIOUS
    <3> QED BY <1>1, <3>1, ListenStays, FailStays DEF ListenFails
  <2>9. ~Launch(p)
    <3>1. ({r.mode} \cap {"polling"}) \in SUBSET Resource
      BY DEF Resource
    <3> QED BY <1>1, <3>1, GoStays DEF Launch, Stages
  <2>10. ~LaunchFails(p)
    <3> DEFINE f == [r EXCEPT !.stage = "ready", !.mode = "idle"]
    <3>1. f.stage = "ready"
      BY <1>1 DEF Process
    <3>2. Set(p, f) => proc'[p] = f
      BY <1>1 DEF Set, TypeOK
    <3>3. LaunchFails(p) => BootFails(p, {}) \/ Set(p, f)
      BY DEF LaunchFails
    <3> HIDE DEF f
    <3>4. {} \in SUBSET Resource
      OBVIOUS
    <3> QED BY <1>1, <3>1, <3>2, <3>3, <3>4, FailStays
  <2> QED BY <1>4, <2>2, <2>3, <2>4, <2>5, <2>6, <2>7, <2>8, <2>9, <2>10 DEF Boot
<1>5. CASE TearStep(p)
  <2> DEFINE x == r.tear
             a == [r EXCEPT !.open = @ \ {x}]
  <2>1. /\ a \in Process /\ a.open = r.open \ {x} /\ a.stage = r.stage
        /\ x # "none" /\ x \in Awaited
    BY <1>1, <1>5 DEF Process, TearStep
  <2>2. IF x = "cache" THEN End(p, [a EXCEPT !.open = @ \ {"db"}], "1")
        ELSE Set(p, [a EXCEPT !.tear =
                       IF x = "server" /\ "queue" \in a.open THEN "queue" ELSE "cache"])
    BY <1>5 DEF TearStep
  <2> HIDE DEF a
  <2>3. CASE x = "cache"
    <3> DEFINE b == [a EXCEPT !.open = @ \ {"db"}]
    <3>1. b \in Process /\ b.open = a.open \ {"db"}
      BY <2>1 DEF Process
    <3>2. End(p, b, "1")
      BY <2>2, <2>3
    <3> HIDE DEF b
    <3>3. proc'[p].code = "1" /\ proc'[p].open = b.open
      BY <1>1, <3>1, <3>2, EndLeaves
    <3>4. ~r.down => r.open \subseteq Rest(x)
      BY <1>1, <2>1 DEF Good, ClosesInOrder
    <3>5. ~r.down => b.open = {}
      BY <1>1, <2>1, <2>3, <3>1, <3>4, TornInOrder
    <3>6. r.stage \in {"ready", "failed"} /\ (r.down => r.open \cap {"db", "port", "polling"} = {})
      BY <1>1, <2>1 DEF Good, FaultsAreCounted, OpensInOrder
    <3> QED BY <2>1, <3>1, <3>3, <3>5, <3>6 DEF CleanExit
  <2>4. CASE x # "cache"
    <3> DEFINE t == IF x = "server" /\ "queue" \in a.open THEN "queue" ELSE "cache"
               f == [a EXCEPT !.tear = t]
    <3>1. Set(p, f)
      BY <2>2, <2>4
    <3> HIDE DEF t
    <3>2. f.stage = a.stage
      BY <2>1 DEF Process
    <3>3. proc'[p] = f
      BY <1>1, <3>1 DEF Set, TypeOK
    <3> HIDE DEF f
    <3> QED BY <1>1, <2>1, <3>2, <3>3
  <2> QED BY <2>3, <2>4
<1>6. CASE Fault(p)
  <2> DEFINE a == [r EXCEPT !.faults = @ + 1]
  <2>1. r.faults \in 0..1
    BY <1>1 DEF Good, FaultsAreCounted
  <2>2. /\ a \in Process /\ a.stage = r.stage /\ a.tear = r.tear /\ a.faults = r.faults + 1
        /\ a.open = r.open
    BY <1>1, <2>1 DEF Process
  <2>3. IF a.stage = "ready" /\ a.tear = "none" THEN Set(p, AfterStop(a)) ELSE End(p, a, "1")
    BY <1>6 DEF Fault
  <2> HIDE DEF a
  <2>4. CASE a.stage = "ready" /\ a.tear = "none"
    <3>1. proc'[p] = AfterStop(a)
      BY <1>1, <2>3, <2>4 DEF Set, TypeOK
    <3> QED BY <1>1, <2>2, <3>1, Stopped
  <2>5. CASE ~(a.stage = "ready" /\ a.tear = "none")
    <3>1. /\ proc'[p].code = "1" /\ proc'[p].faults = r.faults + 1
          /\ proc'[p].open = r.open
      BY <1>1, <2>2, <2>3, <2>5, EndLeaves
    <3>2. r.stage = "ready" => r.faults = 1
      BY <1>1, <2>2, <2>5 DEF Good, FaultsAreCounted
    <3>3. /\ r.down => r.open \cap {"db", "port", "polling"} = {}
          /\ r.stage \in {"db", "cache", "queue", "bot"} => r.open \subseteq {"db", "cache", "queue"}
      BY <1>1 DEF Good, OpensInOrder
    <3> QED BY <1>1, <3>1, <3>2, <3>3 DEF CleanExit
  <2> QED BY <2>4, <2>5
<1>7. ~Signal(p)
  <2> SUFFICES ASSUME Signal(p) PROVE FALSE
    OBVIOUS
  <2> DEFINE L == r.open \cap (IF r.tear = "none" THEN Awaited ELSE {"queue", "cache"})
             e == r.tear # "none" \/ "server" \notin r.open \/ r.mode \in {"webhook", "idle"}
             f == [r EXCEPT !.down = TRUE, !.mode = "none",
                            !.open = @ \ {"db", "port", "polling"}, !.left = L, !.errors = e]
  <2>1. Set(p, f)
    BY DEF Signal
  <2> HIDE DEF L, e
  <2>2. f.stage = r.stage
    BY <1>1 DEF Process
  <2>3. proc'[p] = f
    BY <1>1, <2>1 DEF Set, TypeOK
  <2> HIDE DEF f
  <2> QED BY <1>1, <2>2, <2>3
<1>8. ~ShutStep(p)
  <2> SUFFICES ASSUME ShutStep(p) PROVE FALSE
    OBVIOUS
  <2>1. PICK x, failing : Set(p, [r EXCEPT !.left = @ \ {x}, !.open = @ \ {x}, !.errors = @ \/ failing])
    BY DEF ShutStep
  <2> DEFINE f == [r EXCEPT !.left = @ \ {x}, !.open = @ \ {x}, !.errors = @ \/ failing]
  <2>2. f.stage = r.stage
    BY <1>1 DEF Process
  <2>3. proc'[p] = f
    BY <1>1, <2>1 DEF Set, TypeOK
  <2> HIDE DEF f
  <2> QED BY <1>1, <2>2, <2>3
<1>9. CASE ShutEnd(p)
  <2>1. PICK c \in {"0", "1"} : /\ End(p, r, c) /\ r.down
                                /\ c = "0" => ~r.errors /\ r.left = {}
    BY <1>9, ShutEndEnds
  <2>2. proc'[p].code = c /\ proc'[p].open = r.open
    BY <1>1, <2>1, EndLeaves
  <2>3. c = "0" => r.open = {}
    BY <1>1, <2>1 DEF Good, ClosesInOrder
  <2>4. r.stage = "ready" /\ r.open \cap {"db", "port", "polling"} = {}
    BY <1>1, <2>1 DEF Good, FaultsAreCounted, OpensInOrder
  <2> QED BY <2>1, <2>2, <2>3, <2>4 DEF CleanExit
<1>10. CASE Kill(p)
  <2> DEFINE a == [r EXCEPT !.open = {}, !.faults = 0]
  <2>1. a \in Process /\ a.open = {}
    BY <1>1, Killed DEF Process
  <2>2. End(p, a, "killed")
    BY <1>10 DEF Kill
  <2> HIDE DEF a
  <2>3. proc'[p].code = "killed" /\ proc'[p].open = {}
    BY <1>1, <2>1, <2>2, EndLeaves
  <2> QED BY <2>3 DEF CleanExit
<1> QED BY <1>3, <1>4, <1>5, <1>6, <1>7, <1>8, <1>9, <1>10

\* A process ends with code 0 only when all it had open is closed, and the teardown
\* of a start or of one fatal error has tried to close everything; a shutdown has
\* given up the file, the port and the updates in any case.  A start that fails
\* before it has a teardown leaves the file, the cache and the queue at most.
THEOREM ExitsAreCleanHolds == Spec => ExitsAreClean
<1>1. ASSUME Inv, [Next]_vars
      PROVE  [\A p \in Processes :
                LET r == proc[p]  e == proc'[p] IN
                  Running(p) /\ e.stage = "off" /\ e.code \in {"0", "1"} =>
                    /\ e.code = "0" => e.open = {}
                    /\ r.down => e.open \cap {"db", "port", "polling"} = {}
                    /\ (/\ ~r.down
                        /\ \/ r.stage \in {"listen", "launch", "failed"} /\ e.faults = 0
                           \/ r.stage = "ready" /\ e.faults = 1) => e.open = {}
                    /\ r.stage \in {"db", "cache", "queue", "bot"} =>
                         e.open \subseteq {"db", "cache", "queue"}]_vars
  BY <1>1, StepExits DEF CleanExit
<1> QED BY <1>1, InvHolds, PTL DEF Spec, ExitsAreClean

------------------------------------------------------------------------------
(* How a process goes on, and that it comes to an end.                     *)

DbRank(p) ==
  CASE db[p] = "closed" -> 14 [] db[p] = "migrating" -> 2 + Cardinality(Missing(p))
    [] db[p] = "counted" -> 1 [] OTHER -> 0

StageRank(s) ==
  CASE s = "db" -> 7 [] s = "cache" -> 6 [] s = "queue" -> 5 [] s = "bot" -> 4
    [] s = "listen" -> 3 [] s = "launch" -> 2 [] OTHER -> 0

TearRank(x) ==
  CASE x = "none" -> 3 [] x = "server" -> 2 [] x = "queue" -> 1 [] OTHER -> 0

ShutRank(r) == IF r.down THEN Cardinality(r.left) ELSE 4

\* What a process has before it: migrations, stages of its start, and what a
\* teardown and a shutdown have to close.
Ahead(p) ==
  DbRank(p) + StageRank(proc[p].stage) + TearRank(proc[p].tear) + ShutRank(proc[p])

\* Each step of a process that does not end it brings it nearer to an end: it goes
\* back to no stage, and the steps of others do not set it back.
ProcessesRunOut ==
  [][\A p \in Processes :
       Running(p) /\ Running(p)' =>
         Ahead(p)' < Ahead(p) \/ UNCHANGED <<proc[p], db[p], seen[p]>>]_vars

\* So from a start to an end there are 29 steps at most.
StepsAreCounted == \A p \in Processes : Ahead(p) \in 0..28

\* No process is left halfway: one that starts finds itself without the file, past
\* its first stage its database is ready, and a start that has failed is torn down.
NobodyIsStranded ==
  \A p \in Processes :
    /\ At(p, "off") => db[p] = "closed"
    /\ Running(p) /\ ~At(p, "db") => db[p] = "done"
    /\ At(p, "failed") => proc[p].tear # "none"

\* And only a shutdown has something left to close.
Settled(p) ==
  /\ At(p, "off") => db[p] = "closed"
  /\ Running(p) /\ ~At(p, "db") => db[p] = "done"
  /\ At(p, "failed") => proc[p].tear # "none"
  /\ ~proc[p].down => proc[p].left = {}

\* The step from r to t of a process that goes on.
Moves(r, t) ==
  \/ /\ StageRank(t.stage) < StageRank(r.stage) /\ t.stage \notin {"off", "db", "failed"}
     /\ <<t.tear, t.down, t.left>> = <<r.tear, r.down, r.left>>
  \/ /\ TearRank(t.tear) < TearRank(r.tear) /\ t.tear \in Awaited
     /\ t.stage \in {r.stage, "failed"}
     /\ <<t.down, t.left>> = <<r.down, r.left>>
  \/ /\ ~r.down /\ t.down /\ t.left \in SUBSET Awaited
     /\ <<t.stage, t.tear>> = <<r.stage, r.tear>>
  \/ /\ \E x \in r.left : t.left = r.left \ {x}
     /\ <<t.stage, t.tear, t.down>> = <<r.stage, r.tear, r.down>>

EndsNow(p) ==
  /\ proc'[p].stage = "off" /\ proc'[p].left = {} /\ proc'[p].down = FALSE
  /\ db'[p] = "closed"

LEMMA MigrationIsFinite == IsFiniteSet(Migration) /\ Cardinality(Migration) = 11
<1>1. 1 \in Int /\ 11 \in Int /\ ~(1 > 11) /\ 11 - 1 + 1 = 11
  OBVIOUS
<1>2. IsFiniteSet(1..11) /\ Cardinality(1..11) = IF 1 > 11 THEN 0 ELSE 11 - 1 + 1
  BY <1>1, FS_Interval, Zenon
<1>3. Cardinality(1..11) = 11
  BY <1>1, <1>2, Zenon
<1> QED BY <1>2, <1>3 DEF Migration

LEMMA RestIsFinite ==
  ASSUME NEW S
  PROVE  IsFiniteSet(Migration \ S) /\ Cardinality(Migration \ S) \in 0..11
<1>1. (Migration \ S) \in SUBSET Migration
  OBVIOUS
<1>2. IsFiniteSet(Migration \ S) /\ Cardinality(Migration \ S) <= Cardinality(Migration)
  BY <1>1, MigrationIsFinite, FS_Subset
<1>3. Cardinality(Migration \ S) \in Nat
  BY <1>2, FS_CardinalityType
<1> QED BY <1>2, <1>3, MigrationIsFinite

LEMMA MissingIsFinite ==
  ASSUME NEW p
  PROVE  IsFiniteSet(Missing(p)) /\ Cardinality(Missing(p)) \in 0..11
  BY RestIsFinite DEF Missing

\* What a process does with the file it does once.
LEMMA DbRunsOut ==
  ASSUME DbTypeOK, NEW p \in Processes, DbStep(p)
  PROVE  DbRank(p)' < DbRank(p)
<1> USE DEF SetDb
<1>1. CASE OpenDb(p)
  <2>1. db[p] = "closed" /\ db'[p] = "migrating" /\ seen'[p] = applied
    BY <1>1 DEF OpenDb, DbTypeOK
  <2>2. Cardinality(Missing(p)') \in 0..11
    <3>1. Missing(p)' = Migration \ applied
      BY <2>1 DEF Missing
    <3> QED BY <3>1, RestIsFinite
  <2>3. DbRank(p) = 14 /\ DbRank(p)' = 2 + Cardinality(Missing(p)')
    BY <2>1 DEF DbRank
  <2> QED BY <2>2, <2>3
<1>2. ASSUME NEW m \in Migration, Migrate(p, m)
      PROVE  DbRank(p)' < DbRank(p)
  <2>1. /\ db[p] = "migrating" /\ db'[p] = "migrating" /\ m \in Missing(p)
        /\ seen'[p] = seen[p] \cup {m}
    BY <1>2 DEF Migrate, IsNext, DbTypeOK
  <2>2. Missing(p)' = Missing(p) \ {m}
    BY <2>1 DEF Missing
  <2>3. Cardinality(Missing(p) \ {m}) = Cardinality(Missing(p)) - 1
    BY <2>1, MissingIsFinite, FS_RemoveElement
  <2>4. DbRank(p) = 2 + Cardinality(Missing(p)) /\ DbRank(p)' = 2 + Cardinality(Missing(p)')
    BY <2>1 DEF DbRank
  <2> QED BY <2>2, <2>3, <2>4, MissingIsFinite
<1>3. ASSUME NEW m \in Migration, MigrateFails(p, m)
      PROVE  DbRank(p)' < DbRank(p)
  <2>1. db[p] = "migrating" /\ db'[p] = "failed"
    BY <1>3 DEF MigrateFails, DbTypeOK
  <2> QED BY <2>1, MissingIsFinite DEF DbRank
<1>4. CASE CountProducts(p)
  <2>1. db[p] = "migrating" /\ db'[p] \in {"counted", "done"}
    BY <1>4 DEF CountProducts, DbTypeOK
  <2> QED BY <2>1, MissingIsFinite DEF DbRank
<1>5. CASE SeedProducts(p)
  <2>1. db[p] = "counted" /\ db'[p] \in {"done", "failed"}
    BY <1>5 DEF SeedProducts, DbTypeOK
  <2> QED BY <2>1 DEF DbRank
<1> QED BY <1>1, <1>2, <1>3, <1>4, <1>5 DEF DbStep

LEMMA EndIsNow ==
  ASSUME TypeOK, NEW p \in Processes, NEW r \in Process, NEW c \in {"0", "1", "killed"},
         End(p, r, c)
  PROVE  EndsNow(p)
<1> DEFINE f == [Off EXCEPT !.code = c, !.open = r.open, !.faults = r.faults]
<1>1. f.stage = "off" /\ f.down = FALSE /\ f.left = {}
  BY DEF Off
<1>2. proc' = [proc EXCEPT ![p] = f] /\ db' = [db EXCEPT ![p] = "closed"]
  BY DEF End, CloseDb, SetDb
<1> HIDE DEF f
<1>3. proc'[p] = f /\ db'[p] = "closed"
  BY <1>2 DEF TypeOK, DbTypeOK
<1> QED BY <1>1, <1>3 DEF EndsNow

LEMMA GoMoves ==
  ASSUME TypeOK, NEW p \in Processes, NEW s \in Stages \ {"off", "db", "failed"},
         NEW g \in SUBSET Resource, Go(p, s, g), StageRank(s) < StageRank(proc[p].stage)
  PROVE  Moves(proc[p], proc'[p]) /\ UNCHANGED dbVars
<1> DEFINE r == proc[p]
           f == [r EXCEPT !.stage = s, !.open = @ \cup g]
<1>1. r \in Process
  BY DEF TypeOK
<1>2. f.stage = s /\ f.tear = r.tear /\ f.down = r.down /\ f.left = r.left
  BY <1>1 DEF Process
<1>3. proc'[p] = f /\ UNCHANGED dbVars
  BY DEF Go, Set, TypeOK
<1> HIDE DEF f
<1> QED BY <1>2, <1>3 DEF Moves

LEMMA FailMoves ==
  ASSUME TypeOK, ProcInv, NEW p \in Processes, proc[p].stage \notin {"off", "ready", "failed"},
         NEW g \in SUBSET Resource, BootFails(p, g)
  PROVE  Moves(proc[p], proc'[p]) /\ UNCHANGED dbVars
<1> DEFINE r == [proc[p] EXCEPT !.stage = "failed", !.open = @ \cup g]
<1>1. proc[p] \in Process /\ proc[p].tear = "none"
  BY ProcFields DEF Good, FaultsAreCounted
<1>2. r \in Process /\ r.stage = "failed" /\ r.down = proc[p].down /\ r.left = proc[p].left
  BY <1>1 DEF Process
<1>3. proc'[p] = AfterStop(r) /\ UNCHANGED dbVars
  BY DEF BootFails, Set, TypeOK
<1> HIDE DEF r
<1>4. /\ proc'[p].stage = "failed" /\ proc'[p].down = proc[p].down
      /\ proc'[p].left = proc[p].left /\ proc'[p].tear \in Awaited
  BY <1>2, <1>3, Stopped DEF Awaited
<1>5. TearRank(proc'[p].tear) < TearRank(proc[p].tear)
  BY <1>1, <1>4 DEF TearRank, Awaited
<1> QED BY <1>3, <1>4, <1>5 DEF Moves

\* Process p takes a step: it ends, or works at its file, or moves.
LEMMA BootGoes ==
  ASSUME Inv, NEW p \in Processes, Boot(p)
  PROVE  \/ EndsNow(p)
         \/ proc' = proc /\ At(p, "db") /\ DbStep(p)
         \/ /\ Moves(proc[p], proc'[p]) /\ UNCHANGED dbVars
            /\ At(p, "db") => db[p] = "done"
<1> DEFINE r == proc[p]
           Ok == \/ EndsNow(p)
                 \/ proc' = proc /\ At(p, "db") /\ DbStep(p)
                 \/ /\ Moves(proc[p], proc'[p]) /\ UNCHANGED dbVars
                    /\ At(p, "db") => db[p] = "done"
<1> USE DEF At
<1>1. TypeOK /\ ProcInv /\ r \in Process
  BY DEF Inv, TypeOK
<1>2. CASE CreateDatabase(p)
  BY <1>2 DEF CreateDatabase
<1>3. ASSUME Refused(p) PROVE Ok
  BY <1>1, <1>3, EndIsNow DEF Refused
<1>4. ASSUME NEW g \in SUBSET Resource, BootFails(p, g), r.stage \in {"listen", "launch"} PROVE Ok
  BY <1>1, <1>4, FailMoves
<1>5. CASE DbReady(p)
  <2>1. CASE db[p] = "done" /\ Go(p, "cache", {"db"})
    <3>1. StageRank("cache") < StageRank(r.stage)
      BY <1>5 DEF DbReady, StageRank
    <3>2. {"db"} \in SUBSET Resource /\ "cache" \in Stages
      BY DEF Resource, Stages
    <3>3. Moves(proc[p], proc'[p]) /\ UNCHANGED dbVars
      BY <1>1, <2>1, <3>1, <3>2, GoMoves
    <3> QED BY <2>1, <3>3
  <2>2. ASSUME End(p, [r EXCEPT !.open = {"db"}], "1") PROVE Ok
    <3>1. [r EXCEPT !.open = {"db"}] \in Process
      BY <1>1 DEF Process, Resource
    <3> QED BY <1>1, <2>2, <3>1, EndIsNow
  <2> QED BY <1>3, <1>5, <2>1, <2>2 DEF DbReady
<1>6. CASE InitCache(p)
  <2>1. r.stage = "cache" /\ Go(p, "queue", {"cache"})
    BY <1>6 DEF InitCache
  <2>2. StageRank("queue") < StageRank(r.stage)
    BY <2>1 DEF StageRank
  <2>3. {"cache"} \in SUBSET Resource /\ "queue" \in Stages
    BY DEF Resource, Stages
  <2> QED BY <1>1, <2>1, <2>2, <2>3, GoMoves
<1>7. CASE InitQueue(p)
  <2>1. PICK g \in SUBSET {"queue"} : r.stage = "queue" /\ Go(p, "bot", g)
    BY <1>7 DEF InitQueue
  <2>2. StageRank("bot") < StageRank(r.stage)
    BY <2>1 DEF StageRank
  <2>3. g \in SUBSET Resource /\ "bot" \in Stages
    BY DEF Resource, Stages
  <2> QED BY <1>1, <2>1, <2>2, <2>3, GoMoves
<1>8. CASE CreateBot(p)
  <2>1. r.stage = "bot"
    BY <1>8 DEF CreateBot
  <2>2. ASSUME NEW m \in {"none", "polling", "webhook"},
               Set(p, [r EXCEPT !.stage = "listen", !.mode = m])
        PROVE  Ok
    <3> DEFINE f == [r EXCEPT !.stage = "listen", !.mode = m]
    <3>1. f.stage = "listen" /\ f.tear = r.tear /\ f.down = r.down /\ f.left = r.left
      BY <1>1 DEF Process
    <3>2. proc'[p] = f /\ UNCHANGED dbVars
      BY <1>1, <2>2 DEF Set, TypeOK
    <3>3. StageRank("listen") < StageRank(r.stage)
      BY <2>1 DEF StageRank
    <3> HIDE DEF f
    <3> QED BY <2>1, <3>1, <3>2, <3>3 DEF Moves
  <2> QED BY <1>3, <1>8, <2>2 DEF CreateBot
<1>l. ASSUME NEW g \in SUBSET Resource, AfterListen(p, g), r.stage = "listen" PROVE Ok
  <2>1. ASSUME NEW t \in {"launch", "ready"}, Go(p, t, g) PROVE Ok
    <3>1. /\ t \in Stages \ {"off", "db", "failed"}
          /\ StageRank(t) < StageRank(r.stage)
      BY <1>l DEF StageRank, Stages
    <3> QED BY <1>1, <1>l, <2>1, <3>1, GoMoves
  <2> QED BY <1>4, <1>l, <2>1 DEF AfterListen
<1>9. CASE Listen(p)
  <2>1. {"port", "server"} \in SUBSET Resource
    BY DEF Resource
  <2> QED BY <1>9, <1>l, <2>1 DEF Listen
<1>10. CASE ListenFails(p)
  <2>1. {} \in SUBSET Resource /\ r.stage = "listen"
    BY <1>10 DEF ListenFails
  <2> QED BY <1>4, <1>10, <1>l, <2>1 DEF ListenFails
<1>11. CASE Launch(p)
  <2>1. r.stage = "launch" /\ Go(p, "ready", {r.mode} \cap {"polling"})
    BY <1>11 DEF Launch
  <2>2. StageRank("ready") < StageRank(r.stage) /\ "ready" \in Stages
    BY <2>1 DEF StageRank, Stages
  <2>3. ({r.mode} \cap {"polling"}) \in SUBSET Resource
    BY DEF Resource
  <2> QED BY <1>1, <2>1, <2>2, <2>3, GoMoves
<1>12. CASE LaunchFails(p)
  <2>1. r.stage = "launch"
    BY <1>12 DEF LaunchFails
  <2>2. CASE Set(p, [r EXCEPT !.stage = "ready", !.mode = "idle"])
    <3> DEFINE f == [r EXCEPT !.stage = "ready", !.mode = "idle"]
    <3>1. f.stage = "ready" /\ f.tear = r.tear /\ f.down = r.down /\ f.left = r.left
      BY <1>1 DEF Process
    <3>2. proc'[p] = f /\ UNCHANGED dbVars
      BY <1>1, <2>2 DEF Set, TypeOK
    <3>3. StageRank("ready") < StageRank(r.stage)
      BY <2>1 DEF StageRank
    <3> HIDE DEF f
    <3> QED BY <2>1, <3>1, <3>2, <3>3 DEF Moves
  <2>3. {} \in SUBSET Resource
    OBVIOUS
  <2> QED BY <1>4, <1>12, <2>1, <2>2, <2>3 DEF LaunchFails
<1> QED BY <1>2, <1>5, <1>6, <1>7, <1>8, <1>9, <1>10, <1>11, <1>12 DEF Boot

LEMMA TearMoves ==
  ASSUME Inv, NEW p \in Processes, TearStep(p)
  PROVE  EndsNow(p) \/ (Moves(proc[p], proc'[p]) /\ UNCHANGED dbVars)
<1> DEFINE q == proc[p]
           x == q.tear
           r == [q EXCEPT !.open = @ \ {x}]
<1>1. TypeOK /\ q \in Process /\ x \in Awaited
  BY ProcFields DEF Inv, TearStep
<1>2. /\ r \in Process /\ r.stage = q.stage /\ r.down = q.down
      /\ r.tear = x /\ r.left = q.left
  BY <1>1 DEF Process
<1>3. IF x = "cache" THEN End(p, [r EXCEPT !.open = @ \ {"db"}], "1")
      ELSE Set(p, [r EXCEPT !.tear =
                     IF x = "server" /\ "queue" \in r.open THEN "queue" ELSE "cache"])
  BY DEF TearStep
<1> HIDE DEF r
<1>4. CASE x = "cache"
  <2>1. [r EXCEPT !.open = @ \ {"db"}] \in Process
    BY <1>2 DEF Process
  <2> QED BY <1>1, <1>3, <1>4, <2>1, EndIsNow
<1>5. CASE x # "cache"
  <2> DEFINE t == IF x = "server" /\ "queue" \in r.open THEN "queue" ELSE "cache"
             f == [r EXCEPT !.tear = t]
  <2>1. t \in Awaited /\ TearRank(t) < TearRank(x)
    BY <1>1, <1>5 DEF Awaited, TearRank
  <2>2. proc'[p] = f /\ UNCHANGED dbVars
    BY <1>1, <1>3, <1>5 DEF Set, TypeOK
  <2> HIDE DEF t
  <2>3. f.stage = r.stage /\ f.down = r.down /\ f.tear = t /\ f.left = r.left
    BY <1>2 DEF Process
  <2> HIDE DEF f
  <2> QED BY <1>2, <2>1, <2>2, <2>3 DEF Moves
<1> QED BY <1>4, <1>5

LEMMA FaultMoves ==
  ASSUME Inv, NEW p \in Processes, Fault(p)
  PROVE  EndsNow(p) \/ (Moves(proc[p], proc'[p]) /\ UNCHANGED dbVars)
<1> DEFINE q == proc[p]
           r == [q EXCEPT !.faults = @ + 1]
<1>1. TypeOK /\ q \in Process /\ Good(q) /\ Running(p)
  BY ProcFields DEF Inv, Fault
<1>2. q.faults \in 0..1
  BY <1>1, ProcFields DEF Inv, Good, FaultsAreCounted, Running
<1>3. /\ r \in Process /\ r.stage = q.stage /\ r.tear = q.tear /\ r.down = q.down
      /\ r.left = q.left
  BY <1>1, <1>2 DEF Process
<1>4. IF r.stage = "ready" /\ r.tear = "none" THEN Set(p, AfterStop(r)) ELSE End(p, r, "1")
  BY DEF Fault
<1> HIDE DEF r
<1>5. CASE r.stage = "ready" /\ r.tear = "none"
  <2>1. proc'[p] = AfterStop(r) /\ UNCHANGED dbVars
    BY <1>1, <1>4, <1>5 DEF Set, TypeOK
  <2>2. /\ proc'[p].stage = q.stage /\ proc'[p].down = q.down
        /\ proc'[p].left = q.left /\ proc'[p].tear \in Awaited
    BY <1>3, <2>1, Stopped DEF Awaited
  <2>3. TearRank(proc'[p].tear) < TearRank(q.tear)
    BY <1>3, <1>5, <2>2 DEF TearRank, Awaited
  <2> QED BY <2>1, <2>2, <2>3 DEF Moves
<1>6. CASE ~(r.stage = "ready" /\ r.tear = "none")
  BY <1>1, <1>3, <1>4, <1>6, EndIsNow
<1> QED BY <1>5, <1>6

LEMMA SignalMoves ==
  ASSUME Inv, NEW p \in Processes, Signal(p)
  PROVE  Moves(proc[p], proc'[p]) /\ UNCHANGED dbVars
<1> DEFINE r == proc[p]
           L == r.open \cap (IF r.tear = "none" THEN Awaited ELSE {"queue", "cache"})
           e == r.tear # "none" \/ "server" \notin r.open \/ r.mode \in {"webhook", "idle"}
           f == [r EXCEPT !.down = TRUE, !.mode = "none",
                          !.open = @ \ {"db", "port", "polling"}, !.left = L, !.errors = e]
<1>1. TypeOK /\ r \in Process /\ ~r.down
  BY ProcFields DEF Inv, Signal
<1>2. L \in SUBSET Awaited
  BY DEF Awaited
<1>3. proc'[p] = f /\ UNCHANGED dbVars
  BY <1>1 DEF Signal, Set, TypeOK
<1> HIDE DEF L, e
<1>4. f.stage = r.stage /\ f.down = TRUE /\ f.left = L /\ f.tear = r.tear
  BY <1>1 DEF Process
<1> HIDE DEF f
<1> QED BY <1>1, <1>2, <1>3, <1>4 DEF Moves

LEMMA ShutMoves ==
  ASSUME Inv, NEW p \in Processes, ShutStep(p)
  PROVE  Moves(proc[p], proc'[p]) /\ UNCHANGED dbVars /\ proc'[p].stage = proc[p].stage
<1> DEFINE r == proc[p]
<1>1. PICK x \in r.left, failing \in BOOLEAN :
        Set(p, [r EXCEPT !.left = @ \ {x}, !.open = @ \ {x}, !.errors = @ \/ failing])
  BY DEF ShutStep
<1> DEFINE e == r.errors \/ failing
           f == [r EXCEPT !.left = @ \ {x}, !.open = @ \ {x}, !.errors = e]
<1>2. TypeOK /\ r \in Process
  BY DEF Inv, TypeOK
<1>3. proc'[p] = f /\ UNCHANGED dbVars
  BY <1>1, <1>2 DEF Set, TypeOK, Process
<1> HIDE DEF e
<1>4. f.stage = r.stage /\ f.left = r.left \ {x} /\ f.down = r.down /\ f.tear = r.tear
  BY <1>2 DEF Process
<1> HIDE DEF f
<1> QED BY <1>1, <1>3, <1>4 DEF Moves

OwnStep(p) ==
  Boot(p) \/ TearStep(p) \/ Fault(p) \/ Signal(p) \/ ShutStep(p) \/ ShutEnd(p) \/ Kill(p)

LEMMA GoesSomehow ==
  ASSUME Inv, NEW p \in Processes, OwnStep(p)
  PROVE  \/ EndsNow(p)
         \/ proc' = proc /\ At(p, "db") /\ DbStep(p)
         \/ /\ Moves(proc[p], proc'[p]) /\ UNCHANGED dbVars /\ Running(p)
            /\ At(p, "db") => db[p] = "done" \/ proc'[p].stage = "db"
<1>1. TypeOK /\ proc[p] \in Process /\ Good(proc[p])
  BY ProcFields DEF Inv
<1>2. ASSUME ShutEnd(p) PROVE EndsNow(p)
  <2>1. PICK c \in {"0", "1"} : End(p, proc[p], c)
    BY <1>2, ShutEndEnds
  <2> QED BY <1>1, <2>1, EndIsNow
<1>3. ASSUME Kill(p) PROVE EndsNow(p)
  <2> DEFINE r == [proc[p] EXCEPT !.open = {}, !.faults = 0]
  <2>1. r \in Process
    BY <1>1, Killed
  <2>2. End(p, r, "killed")
    BY <1>3 DEF Kill
  <2> HIDE DEF r
  <2> QED BY <1>1, <2>1, <2>2, EndIsNow
<1>4. CASE Boot(p)
  <2>1. Running(p)
    BY <1>4 DEF Boot, CreateDatabase, DbReady, InitCache, InitQueue, CreateBot, Listen,
                ListenFails, Launch, LaunchFails, At, Running
  <2> QED BY <1>4, <2>1, BootGoes
<1>5. CASE TearStep(p)
  <2>1. Running(p) /\ ~At(p, "db")
    BY <1>1, <1>5 DEF TearStep, Good, FaultsAreCounted, At
  <2> QED BY <1>5, <2>1, TearMoves
<1>6. CASE Fault(p)
  <2>1. Running(p) /\ ~At(p, "db")
    BY <1>6 DEF Fault
  <2> QED BY <1>6, <2>1, FaultMoves
<1>7. CASE Signal(p)
  <2>1. Running(p) /\ ~At(p, "db")
    BY <1>7 DEF Signal, At, Running
  <2> QED BY <1>7, <2>1, SignalMoves
<1>8. CASE ShutStep(p)
  <2>1. Running(p)
    BY <1>8 DEF ShutStep
  <2> QED BY <1>8, <2>1, ShutMoves DEF At
<1> QED BY <1>2, <1>3, <1>4, <1>5, <1>6, <1>7, <1>8 DEF OwnStep

\* Another process, and what it does with the file, is not touched.
LEMMA OthersRest ==
  ASSUME Inv, NEW p \in Processes, NEW q \in Processes, q # p, Start(q) \/ OwnStep(q)
  PROVE  proc'[p] = proc[p] /\ db'[p] = db[p] /\ seen'[p] = seen[p]
<1>1. proc'[p] = proc[p]
  BY OthersStay DEF Inv, OwnStep
<1> DEFINE Same == db'[p] = db[p] /\ seen'[p] = seen[p]
<1>d. /\ db \in [Processes -> {"closed", "migrating", "counted", "done", "failed"}]
      /\ seen \in [Processes -> SUBSET Migration]
  BY DEF Inv, TypeOK, DbTypeOK
<1>2. ASSUME NEW r, NEW c, End(q, r, c) PROVE Same
  BY <1>d, <1>2 DEF End, CloseDb, SetDb
<1>3. ASSUME NEW r, Set(q, r) PROVE Same
  BY <1>3 DEF Set, dbVars
<1>4. ASSUME DbStep(q) PROVE Same
  <2>1. ASSUME NEW m \in Migration, Migrate(q, m) \/ MigrateFails(q, m) PROVE Same
    BY <1>d, <2>1 DEF Migrate, MigrateFails, SetDb
  <2>2. ASSUME OpenDb(q) \/ CountProducts(q) \/ SeedProducts(q) PROVE Same
    BY <1>d, <2>2 DEF OpenDb, CountProducts, SeedProducts, SetDb
  <2> QED BY <1>4, <2>1, <2>2 DEF DbStep
<1>5. Start(q) => Same
  BY <1>3 DEF Start
<1>6. ASSUME Boot(q) PROVE Same
  <2>1. ASSUME NEW s, NEW g, Go(q, s, g) PROVE Same
    BY <1>3, <2>1 DEF Go
  <2>2. ASSUME NEW g, BootFails(q, g) PROVE Same
    BY <1>3, <2>2 DEF BootFails
  <2>3. Refused(q) => Same
    BY <1>2 DEF Refused
  <2>4. CreateDatabase(q) \/ DbReady(q) \/ InitCache(q) \/ InitQueue(q) => Same
    BY <1>2, <1>4, <2>1, <2>3 DEF CreateDatabase, DbReady, InitCache, InitQueue
  <2>5. CreateBot(q) => Same
    BY <1>3, <2>3 DEF CreateBot
  <2>6. Listen(q) \/ ListenFails(q) \/ Launch(q) \/ LaunchFails(q) => Same
    BY <1>3, <2>1, <2>2 DEF Listen, ListenFails, AfterListen, Launch, LaunchFails
  <2> QED BY <1>6, <2>4, <2>5, <2>6 DEF Boot
<1>7. Signal(q) \/ ShutStep(q) => Same
  BY <1>3 DEF Signal, ShutStep
<1>8. ShutEnd(q) \/ Kill(q) => Same
  BY <1>2 DEF ShutEnd, Kill
<1>9. TearStep(q) \/ Fault(q) => Same
  BY <1>2, <1>3 DEF TearStep, Fault
<1> QED BY <1>1, <1>5, <1>6, <1>7, <1>8, <1>9 DEF OwnStep, Same

LEMMA MovesSettle ==
  ASSUME NEW r \in Process, NEW t, Moves(r, t), ~r.down => r.left = {}, r.stage # "off",
         r.stage = "failed" => r.tear # "none"
  PROVE  /\ t.stage # "off" /\ (t.stage = "failed" => t.tear # "none")
         /\ ~t.down => t.left = {}
         /\ r.stage # "db" => t.stage # "db"
<1>1. /\ r.stage \in Stages /\ r.down \in BOOLEAN /\ "none" \notin Awaited
  BY DEF Process, Stages, Awaited
<1>2. CASE /\ t.stage \notin {"off", "db", "failed"}
           /\ <<t.tear, t.down, t.left>> = <<r.tear, r.down, r.left>>
  BY <1>2
<1>3. CASE /\ t.tear \in Awaited /\ t.stage \in {r.stage, "failed"}
           /\ <<t.down, t.left>> = <<r.down, r.left>>
  BY <1>1, <1>3
<1>4. CASE t.down /\ <<t.stage, t.tear>> = <<r.stage, r.tear>>
  BY <1>4
<1>5. CASE /\ \E x \in r.left : t.left = r.left \ {x}
           /\ <<t.stage, t.tear, t.down>> = <<r.stage, r.tear, r.down>>
  BY <1>5
<1> QED BY <1>2, <1>3, <1>4, <1>5 DEF Moves

LEMMA ShutIsFinite ==
  /\ \A S \in SUBSET Awaited : IsFiniteSet(S) /\ Cardinality(S) \in 0..3
  /\ \A r : r.left \in SUBSET Awaited /\ r.down \in BOOLEAN =>
              ShutRank(r) \in 0..4 /\ (r.down => ShutRank(r) \in 0..3)
<1>1. IsFiniteSet(Awaited) /\ Cardinality(Awaited) <= 3
  <2>1. IsFiniteSet({}) /\ Cardinality({}) = 0
    BY FS_EmptySet
  <2>2. IsFiniteSet({"server"}) /\ Cardinality({"server"}) = 1
    BY FS_Singleton
  <2>3. IsFiniteSet({"server"} \cup {"queue"}) /\ Cardinality({"server"} \cup {"queue"}) = 2
    BY <2>2, FS_AddElement
  <2>4. /\ IsFiniteSet(({"server"} \cup {"queue"}) \cup {"cache"})
        /\ Cardinality(({"server"} \cup {"queue"}) \cup {"cache"}) = 3
    BY <2>3, FS_AddElement
  <2>5. Awaited = ({"server"} \cup {"queue"}) \cup {"cache"}
    BY DEF Awaited
  <2> QED BY <2>4, <2>5
<1>2. ASSUME NEW S \in SUBSET Awaited
      PROVE  IsFiniteSet(S) /\ Cardinality(S) \in 0..3
  <2>1. IsFiniteSet(S) /\ Cardinality(S) <= Cardinality(Awaited)
    BY <1>1, FS_Subset
  <2>2. Cardinality(S) \in Nat /\ Cardinality(Awaited) \in Nat
    BY <1>1, <2>1, FS_CardinalityType
  <2> QED BY <1>1, <2>1, <2>2
<1>3. ASSUME NEW r, r.left \in SUBSET Awaited, r.down \in BOOLEAN
      PROVE  ShutRank(r) \in 0..4 /\ (r.down => ShutRank(r) \in 0..3)
  BY <1>2, <1>3 DEF ShutRank
<1> QED BY <1>2, <1>3

LEMMA MovesRunOut ==
  ASSUME NEW r \in Process, NEW t, Moves(r, t), ~r.down => r.left = {}, t.down \in BOOLEAN,
         t.left \in SUBSET Awaited
  PROVE  StageRank(t.stage) + TearRank(t.tear) + ShutRank(t)
           < StageRank(r.stage) + TearRank(r.tear) + ShutRank(r)
<1>1. /\ StageRank(r.stage) \in 0..7 /\ StageRank(t.stage) \in 0..7
      /\ TearRank(r.tear) \in 0..3 /\ TearRank(t.tear) \in 0..3
  BY DEF StageRank, TearRank
<1>2. r.down \in BOOLEAN /\ r.left \in SUBSET Awaited
  BY DEF Process
<1>3. ShutRank(r) \in 0..4 /\ (t.down => ShutRank(t) \in 0..3) /\ ShutRank(t) \in 0..4
  BY <1>2, ShutIsFinite
<1>4. CASE /\ StageRank(t.stage) < StageRank(r.stage)
           /\ <<t.tear, t.down, t.left>> = <<r.tear, r.down, r.left>>
  <2>1. ShutRank(t) = ShutRank(r)
    BY <1>4 DEF ShutRank
  <2> QED BY <1>1, <1>3, <1>4, <2>1
<1>5. CASE /\ TearRank(t.tear) < TearRank(r.tear)
           /\ t.stage \in {r.stage, "failed"}
           /\ <<t.down, t.left>> = <<r.down, r.left>>
  <2>1. ShutRank(t) = ShutRank(r)
    BY <1>5 DEF ShutRank
  <2>2. StageRank("failed") = 0
    BY DEF StageRank
  <2> QED BY <1>1, <1>3, <1>5, <2>1, <2>2
<1>6. CASE ~r.down /\ t.down /\ <<t.stage, t.tear>> = <<r.stage, r.tear>>
  <2>1. ShutRank(r) = 4 /\ ShutRank(t) \in 0..3
    BY <1>3, <1>6 DEF ShutRank
  <2> QED BY <1>1, <1>6, <2>1
<1>7. CASE /\ \E x \in r.left : t.left = r.left \ {x}
           /\ <<t.stage, t.tear, t.down>> = <<r.stage, r.tear, r.down>>
  <2>1. PICK x \in r.left : t.left = r.left \ {x}
    BY <1>7
  <2>2. r.down /\ t.down
    BY <1>7
  <2>3. Cardinality(r.left \ {x}) = Cardinality(r.left) - 1
    BY <1>2, ShutIsFinite, FS_RemoveElement
  <2>4. ShutRank(t) = ShutRank(r) - 1
    BY <2>1, <2>2, <2>3 DEF ShutRank
  <2> QED BY <1>1, <1>3, <1>7, <2>4
<1> QED BY <1>4, <1>5, <1>6, <1>7 DEF Moves

LEMMA RanksOfProcess ==
  ASSUME NEW p \in Processes, proc[p] \in Process
  PROVE  /\ DbRank(p) \in 0..14 /\ StageRank(proc[p].stage) \in 0..7
         /\ TearRank(proc[p].tear) \in 0..3 /\ ShutRank(proc[p]) \in 0..4
<1>1. proc[p].down \in BOOLEAN /\ proc[p].left \in SUBSET Awaited
  BY DEF Process
<1>2. ShutRank(proc[p]) \in 0..4
  BY <1>1, ShutIsFinite
<1>3. DbRank(p) \in 0..14
  BY MissingIsFinite DEF DbRank
<1>4. StageRank(proc[p].stage) \in 0..7 /\ TearRank(proc[p].tear) \in 0..3
  BY DEF StageRank, TearRank
<1> QED BY <1>2, <1>3, <1>4

LEMMA Settling ==
  ASSUME Inv, [Next]_vars, NEW p \in Processes, Settled(p)
  PROVE  Settled(p)'
<1>1. TypeOK /\ proc[p] \in Process
  BY DEF Inv, TypeOK
<1>2. CASE UNCHANGED <<proc[p], db[p], seen[p]>>
  BY <1>2 DEF Settled, At, Running
<1>3. ASSUME Start(p) PROVE Settled(p)'
  <2> DEFINE f == [Off EXCEPT !.stage = "db"]
  <2>1. f.stage = "db" /\ f.left = {}
    BY DEF Off
  <2>2. proc'[p] = f
    BY <1>1, <1>3 DEF Start, Set, TypeOK
  <2> HIDE DEF f
  <2> QED BY <2>1, <2>2 DEF Settled, At, Running
<1>4. ASSUME OwnStep(p) PROVE Settled(p)'
  <2>1. CASE EndsNow(p)
    BY <2>1 DEF EndsNow, Settled, At, Running
  <2>2. CASE proc' = proc /\ At(p, "db")
    BY <2>2 DEF Settled, At, Running
  <2>3. CASE /\ Moves(proc[p], proc'[p]) /\ UNCHANGED dbVars /\ Running(p)
             /\ At(p, "db") => db[p] = "done" \/ proc'[p].stage = "db"
    <3>1. /\ proc'[p].stage # "off" /\ (proc'[p].stage = "failed" => proc'[p].tear # "none")
          /\ ~proc'[p].down => proc'[p].left = {}
      BY <1>1, <2>3, MovesSettle DEF Settled, At, Running
    <3>2. proc'[p].stage # "db" => db'[p] = "done"
      BY <2>3 DEF Settled, At, Running, dbVars
    <3> QED BY <3>1, <3>2 DEF Settled, At, Running
  <2> QED BY <1>4, <2>1, <2>2, <2>3, GoesSomehow
<1>5. ASSUME NEW q \in Processes, q # p, Start(q) \/ OwnStep(q) PROVE Settled(p)'
  BY <1>2, <1>5, OthersRest
<1>6. CASE UNCHANGED vars
  BY <1>2, <1>6 DEF vars
<1> QED BY <1>3, <1>4, <1>5, <1>6 DEF Next, OwnStep

LEMMA SettledHolds == Spec => [](\A p \in Processes : Settled(p))
<1> DEFINE A == \A p \in Processes : Settled(p)
<1>1. Init => A
  BY DEF Init, DbInit, Off, Settled, At, Running
<1>2. ASSUME Inv, A, [Next]_vars PROVE A'
  BY <1>2, Settling
<1> QED BY <1>1, <1>2, InvHolds, PTL DEF Spec

LEMMA RunsDown ==
  ASSUME Inv, Inv', [Next]_vars, NEW p \in Processes, Settled(p), Running(p), Running(p)'
  PROVE  Ahead(p)' < Ahead(p) \/ UNCHANGED <<proc[p], db[p], seen[p]>>
<1>1. /\ TypeOK /\ proc[p] \in Process /\ TypeOK' /\ proc'[p] \in Process
      /\ (~proc[p].down => proc[p].left = {})
  BY DEF Inv, TypeOK, Settled
<1>2. /\ DbRank(p) \in 0..14 /\ StageRank(proc[p].stage) \in 0..7
      /\ TearRank(proc[p].tear) \in 0..3 /\ ShutRank(proc[p]) \in 0..4
  BY <1>1, RanksOfProcess
<1>3. DbRank(p)' \in 0..14
  <2>1. Missing(p)' = Migration \ seen'[p]
    BY DEF Missing
  <2>2. Cardinality(Missing(p)') \in 0..11
    BY <2>1, RestIsFinite
  <2> QED BY <2>2 DEF DbRank
<1>4. CASE OwnStep(p)
  <2>1. ~EndsNow(p)
    BY DEF EndsNow, Running
  <2>2. CASE proc' = proc /\ At(p, "db") /\ DbStep(p)
    <3>1. DbRank(p)' < DbRank(p)
      BY <1>1, <2>2, DbRunsOut DEF TypeOK
    <3>2. Ahead(p)' = DbRank(p)' + StageRank(proc[p].stage) + TearRank(proc[p].tear)
                        + ShutRank(proc[p])
      BY <2>2 DEF Ahead
    <3>3. Ahead(p) = DbRank(p) + StageRank(proc[p].stage) + TearRank(proc[p].tear)
                       + ShutRank(proc[p])
      BY DEF Ahead
    <3> HIDE DEF Ahead
    <3> QED BY <1>2, <1>3, <3>1, <3>2, <3>3
  <2>3. CASE Moves(proc[p], proc'[p]) /\ UNCHANGED dbVars
    <3>1. DbRank(p)' = DbRank(p)
      BY <2>3 DEF DbRank, Missing, dbVars
    <3>2. proc'[p].down \in BOOLEAN /\ proc'[p].left \in SUBSET Awaited
      BY <1>1 DEF Process
    <3>3. StageRank(proc'[p].stage) + TearRank(proc'[p].tear) + ShutRank(proc'[p])
            < StageRank(proc[p].stage) + TearRank(proc[p].tear) + ShutRank(proc[p])
      BY <1>1, <2>3, <3>2, MovesRunOut
    <3>4. Ahead(p)' = DbRank(p)' + StageRank(proc'[p].stage) + TearRank(proc'[p].tear)
                        + ShutRank(proc'[p])
      BY DEF Ahead
    <3>5. ShutRank(proc'[p]) \in 0..4
      BY <3>2, ShutIsFinite
    <3>6. StageRank(proc'[p].stage) \in 0..7 /\ TearRank(proc'[p].tear) \in 0..3
      BY DEF StageRank, TearRank
    <3>7. Ahead(p) = DbRank(p) + StageRank(proc[p].stage) + TearRank(proc[p].tear)
                       + ShutRank(proc[p])
      BY DEF Ahead
    <3>8. Ahead(p)' < Ahead(p)
      <4> DEFINE X == StageRank(proc[p].stage) + TearRank(proc[p].tear) + ShutRank(proc[p])
                 Y == StageRank(proc'[p].stage) + TearRank(proc'[p].tear) + ShutRank(proc'[p])
      <4>1. X \in Nat /\ Y \in Nat /\ Y < X
        BY <1>2, <3>3, <3>5, <3>6
      <4>2. Ahead(p)' = DbRank(p) + Y /\ Ahead(p) = DbRank(p) + X
        BY <1>2, <3>1, <3>4, <3>5, <3>6, <3>7
      <4> HIDE DEF X, Y
      <4> QED BY <1>2, <4>1, <4>2
    <3> QED BY <3>8
  <2> QED BY <1>4, <2>1, <2>2, <2>3, GoesSomehow
<1>5. ~Start(p)
  BY DEF Start, At, Running
<1>6. ASSUME NEW q \in Processes, q # p, Start(q) \/ OwnStep(q)
      PROVE  UNCHANGED <<proc[p], db[p], seen[p]>>
  BY <1>6, OthersRest
<1>7. CASE UNCHANGED vars
  BY <1>7 DEF vars
<1> QED BY <1>4, <1>5, <1>6, <1>7 DEF Next, OwnStep

\* A process cannot go round in circles, with any number of them beside it: what it
\* does between a start and an end is bounded.
THEOREM ProcessesRunOutHolds == Spec => ProcessesRunOut
<1>1. ASSUME Inv, Inv', \A p \in Processes : Settled(p), [Next]_vars
      PROVE  [\A p \in Processes :
                Running(p) /\ Running(p)' =>
                  Ahead(p)' < Ahead(p) \/ UNCHANGED <<proc[p], db[p], seen[p]>>]_vars
  BY <1>1, RunsDown
<1> QED BY <1>1, InvHolds, SettledHolds, PTL DEF Spec, ProcessesRunOut

THEOREM StepsAreCountedHolds == Spec => []StepsAreCounted
<1>1. ASSUME Inv, NEW p \in Processes PROVE Ahead(p) \in 0..28
  <2>1. proc[p] \in Process
    BY <1>1 DEF Inv, TypeOK
  <2>2. /\ DbRank(p) \in 0..14 /\ StageRank(proc[p].stage) \in 0..7
        /\ TearRank(proc[p].tear) \in 0..3 /\ ShutRank(proc[p]) \in 0..4
    BY <2>1, RanksOfProcess
  <2> QED BY <2>2 DEF Ahead
<1>2. Inv => StepsAreCounted
  BY <1>1 DEF StepsAreCounted
<1> QED BY <1>2, InvHolds, PTL

\* A restart finds the file given back, nothing runs on a database that is not
\* ready, and a start that failed does not stay.
THEOREM NobodyIsStrandedHolds == Spec => []NobodyIsStranded
<1>1. (\A p \in Processes : Settled(p)) => NobodyIsStranded
  BY DEF Settled, NobodyIsStranded
<1> QED BY <1>1, SettledHolds, PTL

------------------------------------------------------------------------------
(* Delivery: the inductive invariant of a broadcast.                       *)

\* What there is of a broadcast.
Of(b) ==
  [phase |-> phase[b], list |-> list[b], job |-> job[b], fails |-> fails[b],
   stalls |-> stalls[b], run |-> run[b], passes |-> passes[b], report |-> report[b],
   refused |-> refused[b], copies |-> copies[b], mishaps |-> mishaps[b]]

Typed(s) ==
  /\ s.phase \in {"none", "asking", "waiting", "direct", "reported", "lost"}
  /\ s.list \in SUBSET Clients
  /\ s.job \in {"none", "waiting", "active", "completed", "failed"}
  /\ s.fails \in 0..Attempts
  /\ s.stalls \in 0..MaxStalls + 1
  /\ s.passes \in Seq(Pass)
  /\ s.run \in Nat /\ s.run <= Len(s.passes)
  /\ s.report \in SUBSET Clients
  /\ s.refused \in SUBSET Clients
  /\ s.copies \in [Clients -> Nat]
  /\ s.mishaps \in Nat

\* The handler's own pass.
Direct(ps) == \E k \in DOMAIN ps : ps[k].by = "handler"

\* The passes that a client need not expect a copy of any more.
Past(ps, c) == {k \in DOMAIN ps : c \notin ps[k].todo}

Got(s) == {c \in Clients : s.copies[c] > 0}

\* A job that is to be tried again has attempts left, and one that failed has
\* used up its attempts or its restarts.
JobIsTried(s) ==
  /\ s.job = "none" => s.fails = 0 /\ s.stalls = 0
  /\ s.job \in {"waiting", "active", "completed"} => s.fails < Attempts /\ s.stalls <= MaxStalls
  /\ s.job = "failed" => \/ s.fails = Attempts /\ s.stalls <= MaxStalls
                         \/ s.fails < Attempts /\ s.stalls = MaxStalls + 1

\* Each pass but the last run and the handler's ended in a failure or a stall; a
\* handler's pass beside a job that is not done for was a mishap of its own.
PassesAreCounted(s) ==
  /\ Len(s.passes) = s.fails + s.stalls + (IF s.job \in {"active", "completed"} THEN 1 ELSE 0)
                                        + (IF Direct(s.passes) THEN 1 ELSE 0)
  /\ s.mishaps >= s.fails + s.stalls
       + (IF Direct(s.passes) /\ s.job \in {"waiting", "active", "completed"} THEN 1 ELSE 0)

\* No pass gives a client two copies.
CopiesAreCounted(s) == \A c \in Clients : s.copies[c] <= Cardinality(Past(s.passes, c))

\* There is one pass of the handler, and it walks while the handler waits for it.
HandlerWalksOnce(s) ==
  /\ s.phase \in {"none", "asking"} => s.job = "none"
  /\ s.phase \in {"none", "asking", "waiting"} => ~Direct(s.passes)
  /\ \A j, k \in DOMAIN s.passes :
       s.passes[j].by = "handler" /\ s.passes[k].by = "handler" => j = k
  /\ \A k \in DOMAIN s.passes :
       s.passes[k].by = "handler" /\ s.passes[k].on => s.phase = "direct"

RunIsOfJob(s) ==
  /\ s.job \in {"active", "completed"} =>
       s.run \in DOMAIN s.passes /\ s.passes[s.run].by = "job"
  /\ s.job = "completed" => s.passes[s.run].todo = {} /\ ~s.passes[s.run].on

\* The pass whose results the admin is told, or will be.
Read(s, k) ==
  \/ s.phase = "waiting" /\ s.job \in {"active", "completed"} /\ k = s.run
  \/ s.phase = "direct" /\ s.passes[k].by = "handler"

\* Who answered a pass has the text; in the pass that is read, whom it is past
\* has answered or was refused some time.
PassesAreTrue(s) ==
  \A k \in DOMAIN s.passes :
    /\ s.passes[k].todo \subseteq s.list
    /\ s.passes[k].ok \subseteq s.list \cap Got(s)
    /\ Read(s, k) => s.list \ (s.passes[k].todo \cup s.passes[k].ok) \subseteq s.refused

TellsTheTruth(s) ==
  s.phase = "reported" => /\ s.report \subseteq s.list \cap Got(s)
                          /\ s.list \ s.report \subseteq s.refused

Consistent(s) ==
  /\ JobIsTried(s)
  /\ PassesAreCounted(s)
  /\ CopiesAreCounted(s)
  /\ HandlerWalksOnce(s)
  /\ RunIsOfJob(s)
  /\ PassesAreTrue(s)
  /\ TellsTheTruth(s)

\* Each variable is a function on the broadcasts.
PerBroadcast(f) == f = [b \in Broadcasts |-> f[b]]

Shape ==
  /\ queueUp \in BOOLEAN /\ paused \in BOOLEAN
  /\ PerBroadcast(phase) /\ PerBroadcast(list) /\ PerBroadcast(job) /\ PerBroadcast(fails)
  /\ PerBroadcast(stalls) /\ PerBroadcast(run) /\ PerBroadcast(passes)
  /\ PerBroadcast(report) /\ PerBroadcast(refused) /\ PerBroadcast(copies)
  /\ PerBroadcast(mishaps)

DeliveryInv == Shape /\ \A b \in Broadcasts : Typed(Of(b)) /\ Consistent(Of(b))

LEMMA ShapeIsType == DeliveryInv => DeliveryTypeOK
<1> SUFFICES ASSUME DeliveryInv PROVE DeliveryTypeOK
  OBVIOUS
<1>1. ASSUME NEW b \in Broadcasts
      PROVE  /\ phase[b] \in {"none", "asking", "waiting", "direct", "reported", "lost"}
             /\ job[b] \in {"none", "waiting", "active", "completed", "failed"}
             /\ fails[b] \in 0..Attempts /\ stalls[b] \in 0..MaxStalls + 1
             /\ list[b] \in SUBSET Clients /\ report[b] \in SUBSET Clients
             /\ refused[b] \in SUBSET Clients /\ passes[b] \in Seq(Pass)
             /\ run[b] \in Nat /\ run[b] <= Len(passes[b])
             /\ copies[b] \in [Clients -> Nat] /\ mishaps[b] \in Nat
  BY DEF DeliveryInv, Typed, Of
<1>2. Shape
  BY DEF DeliveryInv
<1>3. /\ phase \in [Broadcasts -> {"none", "asking", "waiting", "direct", "reported", "lost"}]
      /\ job \in [Broadcasts -> {"none", "waiting", "active", "completed", "failed"}]
      /\ fails \in [Broadcasts -> 0..Attempts]
      /\ stalls \in [Broadcasts -> 0..MaxStalls + 1]
  BY <1>1, <1>2 DEF Shape, PerBroadcast
<1>4. /\ list \in [Broadcasts -> SUBSET Clients] /\ report \in [Broadcasts -> SUBSET Clients]
      /\ refused \in [Broadcasts -> SUBSET Clients] /\ passes \in [Broadcasts -> Seq(Pass)]
  BY <1>1, <1>2 DEF Shape, PerBroadcast
<1>5. /\ run \in [Broadcasts -> Nat] /\ mishaps \in [Broadcasts -> Nat]
      /\ copies \in [Broadcasts -> [Clients -> Nat]]
  BY <1>1, <1>2 DEF Shape, PerBroadcast
<1> QED BY <1>1, <1>2, <1>3, <1>4, <1>5 DEF Shape, DeliveryTypeOK

------------------------------------------------------------------------------
(* Passes.                                                                 *)

LEMMA PastIsCounted ==
  ASSUME NEW ps \in Seq(Pass), NEW c
  PROVE  /\ IsFiniteSet(Past(ps, c)) /\ Cardinality(Past(ps, c)) \in Nat
         /\ Cardinality(Past(ps, c)) <= Len(ps)
<1>1. Len(ps) \in Nat /\ DOMAIN ps = 1..Len(ps)
  BY LenProperties
<1>2. IsFiniteSet(1..Len(ps)) /\ Cardinality(1..Len(ps)) = Len(ps)
  BY <1>1, FS_Interval
<1>3. Past(ps, c) \subseteq 1..Len(ps)
  BY <1>1 DEF Past
<1> QED BY <1>2, <1>3, FS_Subset, FS_CardinalityType

LEMMA PastGrows ==
  ASSUME NEW ps \in Seq(Pass), NEW qs \in Seq(Pass), NEW c, Past(ps, c) \subseteq Past(qs, c)
  PROVE  Cardinality(Past(ps, c)) <= Cardinality(Past(qs, c))
  BY PastIsCounted, FS_Subset

LEMMA PastGrowsBy ==
  ASSUME NEW ps \in Seq(Pass), NEW qs \in Seq(Pass), NEW c, NEW k,
         k \notin Past(ps, c), Past(ps, c) \cup {k} \subseteq Past(qs, c)
  PROVE  Cardinality(Past(ps, c)) + 1 <= Cardinality(Past(qs, c))
<1>1. Cardinality(Past(ps, c) \cup {k}) = Cardinality(Past(ps, c)) + 1
  BY PastIsCounted, FS_AddElement
<1> QED BY <1>1, PastIsCounted, FS_Subset

LEMMA Added ==
  ASSUME NEW ps \in Seq(Pass), NEW p \in Pass
  PROVE  /\ Append(ps, p) \in Seq(Pass) /\ Len(ps) \in Nat
         /\ Len(Append(ps, p)) = Len(ps) + 1
         /\ DOMAIN ps = 1..Len(ps) /\ DOMAIN Append(ps, p) = 1..Len(ps) + 1
         /\ \A k \in DOMAIN ps : Append(ps, p)[k] = ps[k]
         /\ Append(ps, p)[Len(ps) + 1] = p
  BY AppendProperties, LenProperties

LEMMA Altered ==
  ASSUME NEW ps \in Seq(Pass), NEW k \in DOMAIN ps, NEW p \in Pass
  PROVE  /\ [ps EXCEPT ![k] = p] \in Seq(Pass) /\ Len([ps EXCEPT ![k] = p]) = Len(ps)
         /\ DOMAIN [ps EXCEPT ![k] = p] = DOMAIN ps
         /\ [ps EXCEPT ![k] = p][k] = p
         /\ \A j \in DOMAIN ps \ {k} : [ps EXCEPT ![k] = p][j] = ps[j]
  BY ExceptSeq, LenProperties

------------------------------------------------------------------------------
(* Steps of one broadcast.                                                 *)

StepOf(b) ==
  Broadcast(b) \/ Handler(b) \/ Walk(b) \/ StartRun(b) \/ TimeOut(b) \/ Stall(b)

\* A step of one broadcast leaves the others alone.
LEMMA OtherBroadcastsStay ==
  ASSUME Shape, NEW b \in Broadcasts, StepOf(b)
  PROVE  Shape' /\ \A d \in Broadcasts \ {b} : Of(d)' = Of(d)
<1> USE DEF Shape, PerBroadcast, Of, Move, SetJob, Mishap, WithPass, ForgetResults
<1>1. CASE Broadcast(b)
  BY <1>1 DEF Broadcast
<1>2. CASE Enqueue(b)
  BY <1>2 DEF Enqueue
<1>3. CASE EnqueueFails(b)
  BY <1>3 DEF EnqueueFails
<1>4. CASE JobFinished(b)
  BY <1>4 DEF JobFinished
<1>5. CASE JobFailed(b)
  BY <1>5 DEF JobFailed
<1>6. CASE StartRun(b)
  BY <1>6 DEF StartRun
<1>7. CASE TimeOut(b)
  BY <1>7 DEF TimeOut
<1>8. CASE Stall(b)
  BY <1>8 DEF Stall
<1>9. ASSUME NEW k \in DOMAIN passes[b], EndRun(b, k)
      PROVE  Shape' /\ \A d \in Broadcasts \ {b} : Of(d)' = Of(d)
  BY <1>9 DEF EndRun
<1>10. ASSUME NEW k \in DOMAIN passes[b], EndDirect(b, k)
       PROVE  Shape' /\ \A d \in Broadcasts \ {b} : Of(d)' = Of(d)
  BY <1>10 DEF EndDirect
<1>11. ASSUME NEW k \in DOMAIN passes[b], NEW c \in Clients, Send(b, k, c)
       PROVE  Shape' /\ \A d \in Broadcasts \ {b} : Of(d)' = Of(d)
  BY <1>11 DEF Send
<1> QED BY <1>1, <1>2, <1>3, <1>4, <1>5, <1>6, <1>7, <1>8, <1>9, <1>10, <1>11
        DEF StepOf, Handler, Walk

\* The list is read, and the queue is asked to take the job.
LEMMA Asked ==
  ASSUME NEW s, NEW t, Typed(s), Consistent(s), s.phase = "none", t.phase = "asking",
         t.list \in SUBSET Clients,
         <<t.job, t.fails, t.stalls, t.run, t.passes, t.report, t.refused, t.copies, t.mishaps>>
         = <<s.job, s.fails, s.stalls, s.run, s.passes, s.report, s.refused, s.copies, s.mishaps>>
  PROVE  Typed(t) /\ Consistent(t)
<1>1. s.job = "none" /\ ~Direct(s.passes) /\ s.fails = 0 /\ s.stalls = 0
  BY DEF Consistent, HandlerWalksOnce, JobIsTried
<1>2. s.passes \in Seq(Pass) /\ Len(s.passes) = 0
  BY <1>1 DEF Consistent, PassesAreCounted, Typed
<1>3. DOMAIN s.passes = {}
  BY <1>2, LenProperties
<1>4. Typed(t)
  BY DEF Typed
<1>5. JobIsTried(t) /\ PassesAreCounted(t) /\ CopiesAreCounted(t)
  BY DEF Consistent, JobIsTried, PassesAreCounted, CopiesAreCounted
<1>6. HandlerWalksOnce(t) /\ RunIsOfJob(t) /\ PassesAreTrue(t) /\ TellsTheTruth(t)
  BY <1>1, <1>3 DEF HandlerWalksOnce, Direct, RunIsOfJob, PassesAreTrue, TellsTheTruth
<1> QED BY <1>4, <1>5, <1>6 DEF Consistent

LEMMA Enqueued ==
  ASSUME NEW s, NEW t, Typed(s), Consistent(s), s.phase = "asking",
         t.phase = "waiting", t.job = "waiting",
         <<t.list, t.fails, t.stalls, t.run, t.passes, t.report, t.refused, t.copies, t.mishaps>>
         = <<s.list, s.fails, s.stalls, s.run, s.passes, s.report, s.refused, s.copies, s.mishaps>>
  PROVE  Typed(t) /\ Consistent(t)
<1>1. Typed(t)
  BY DEF Typed
<1>2. /\ s.job = "none" /\ ~Direct(s.passes) /\ s.fails = 0 /\ s.stalls = 0
  BY DEF Consistent, HandlerWalksOnce, JobIsTried
<1>3. JobIsTried(t)
  BY <1>2, DeliveryAssumption DEF JobIsTried
<1>4. PassesAreCounted(t)
  BY <1>2 DEF Consistent, PassesAreCounted
<1>5. CopiesAreCounted(t)
  BY DEF Consistent, CopiesAreCounted
<1>6. HandlerWalksOnce(t)
  BY <1>2 DEF Consistent, HandlerWalksOnce, Direct
<1>7. RunIsOfJob(t) /\ TellsTheTruth(t)
  BY DEF RunIsOfJob, TellsTheTruth
<1>8. PassesAreTrue(t)
  BY DEF Consistent, PassesAreTrue, Read, Got
<1> QED BY <1>1, <1>3, <1>4, <1>5, <1>6, <1>7, <1>8 DEF Consistent

\* A pass of the kind "by" that has all of "whom" before it.
NewPass(by, whom) == [by |-> by, todo |-> whom, ok |-> {}, on |-> TRUE]

\* A pass is added: no pass before it is disturbed, and nobody has a copy of it.
LEMMA PassAdded ==
  ASSUME NEW s, NEW t, Typed(s), Consistent(s), NEW by \in {"job", "handler"},
         t.list \in SUBSET Clients, t.passes = Append(s.passes, NewPass(by, t.list)),
         t.list = s.list \/ Len(s.passes) = 0,
         <<t.refused, t.copies>> = <<s.refused, s.copies>>
  PROVE  /\ t.passes \in Seq(Pass) /\ Len(s.passes) \in Nat
         /\ Len(t.passes) = Len(s.passes) + 1
         /\ DOMAIN s.passes = 1..Len(s.passes) /\ DOMAIN t.passes = 1..Len(s.passes) + 1
         /\ \A k \in DOMAIN s.passes : t.passes[k] = s.passes[k]
         /\ t.passes[Len(s.passes) + 1] = NewPass(by, t.list)
         /\ Direct(t.passes) <=> Direct(s.passes) \/ by = "handler"
         /\ CopiesAreCounted(t)
         /\ \A k \in DOMAIN t.passes : /\ t.passes[k].todo \subseteq t.list
                                       /\ t.passes[k].ok \subseteq t.list \cap Got(t)
<1> DEFINE n == Len(s.passes)
           p == NewPass(by, t.list)
<1>1. p \in Pass /\ p.by = by /\ p.todo = t.list /\ p.ok = {}
  BY DEF NewPass, Pass
<1>2. s.passes \in Seq(Pass) /\ t.passes = Append(s.passes, p)
  BY DEF Typed
<1> HIDE DEF p
<1>3. /\ t.passes \in Seq(Pass) /\ n \in Nat /\ Len(t.passes) = n + 1
      /\ DOMAIN s.passes = 1..n /\ DOMAIN t.passes = 1..n + 1
      /\ \A k \in DOMAIN s.passes : t.passes[k] = s.passes[k]
      /\ t.passes[n + 1] = p
  BY <1>1, <1>2, Added
<1>4. \A k \in DOMAIN t.passes : k \in DOMAIN s.passes \/ k = n + 1
  BY <1>3
<1>5. DOMAIN s.passes \subseteq DOMAIN t.passes /\ n + 1 \in DOMAIN t.passes
  BY <1>3
<1>6. Direct(t.passes) <=> Direct(s.passes) \/ by = "handler"
  BY <1>1, <1>3, <1>4, <1>5 DEF Direct
<1>7. CopiesAreCounted(t)
  <2> SUFFICES ASSUME NEW c \in Clients
               PROVE  t.copies[c] <= Cardinality(Past(t.passes, c))
    BY DEF CopiesAreCounted
  <2>1. Past(s.passes, c) \subseteq Past(t.passes, c)
    BY <1>3, <1>5 DEF Past
  <2>2. s.copies[c] \in Nat /\ s.copies[c] <= Cardinality(Past(s.passes, c))
    BY DEF Typed, Consistent, CopiesAreCounted
  <2>3. Cardinality(Past(s.passes, c)) <= Cardinality(Past(t.passes, c))
    BY <1>2, <1>3, <2>1, PastGrows
  <2>4. /\ Cardinality(Past(s.passes, c)) \in Nat
        /\ Cardinality(Past(t.passes, c)) \in Nat
    BY <1>2, <1>3, PastIsCounted
  <2>5. t.copies[c] = s.copies[c]
    OBVIOUS
  <2> HIDE DEF n
  <2> QED BY <2>2, <2>3, <2>4, <2>5
<1>8. \A k \in DOMAIN t.passes : /\ t.passes[k].todo \subseteq t.list
                                /\ t.passes[k].ok \subseteq t.list \cap Got(t)
  <2>1. ASSUME NEW k \in DOMAIN s.passes
        PROVE  /\ t.passes[k].todo \subseteq t.list
               /\ t.passes[k].ok \subseteq t.list \cap Got(t)
    <3>1. t.list = s.list
      BY <1>3, <2>1
    <3> QED BY <1>3, <2>1, <3>1 DEF Consistent, PassesAreTrue, Got
  <2> QED BY <1>1, <1>3, <1>4, <2>1
<1> QED BY <1>3, <1>6, <1>7, <1>8

\* The handler starts to send by itself, as the queue did not start, has failed to
\* take the job, or has given it up.
LEMMA HandlerBegins ==
  ASSUME NEW s, NEW t, Typed(s), Consistent(s), s.phase \in {"none", "asking", "waiting"},
         t.phase = "direct", t.list \in SUBSET Clients,
         t.list = s.list \/ s.phase = "none",
         t.passes = Append(s.passes, NewPass("handler", t.list)),
         \/ t.job = s.job /\ t.mishaps = s.mishaps /\ s.job \in {"none", "failed"}
         \/ s.job = "none" /\ t.job = "waiting" /\ t.mishaps = s.mishaps + 1,
         <<t.fails, t.stalls, t.run, t.report, t.refused, t.copies>>
         = <<s.fails, s.stalls, s.run, s.report, s.refused, s.copies>>
  PROVE  Typed(t) /\ Consistent(t)
<1> DEFINE n == Len(s.passes)
<1>1. ~Direct(s.passes) /\ JobIsTried(s) /\ PassesAreCounted(s)
  BY DEF Consistent, HandlerWalksOnce
<1>2. /\ s.fails \in Nat /\ s.stalls \in Nat /\ s.mishaps \in Nat
      /\ s.fails \in 0..Attempts /\ s.stalls \in 0..MaxStalls + 1
  BY DeliveryAssumption DEF Typed
<1>3. s.phase = "none" => n = 0
  <2>1. s.phase = "none" => s.job = "none" /\ s.fails = 0 /\ s.stalls = 0
    BY <1>1 DEF Consistent, HandlerWalksOnce, JobIsTried
  <2> QED BY <1>1, <2>1 DEF PassesAreCounted
<1>4. /\ t.passes \in Seq(Pass) /\ n \in Nat /\ Len(t.passes) = n + 1
      /\ DOMAIN s.passes = 1..n /\ DOMAIN t.passes = 1..n + 1
      /\ \A k \in DOMAIN s.passes : t.passes[k] = s.passes[k]
      /\ t.passes[n + 1] = NewPass("handler", t.list)
      /\ Direct(t.passes)
      /\ CopiesAreCounted(t)
      /\ \A k \in DOMAIN t.passes : /\ t.passes[k].todo \subseteq t.list
                                    /\ t.passes[k].ok \subseteq t.list \cap Got(t)
  <2>1. "handler" \in {"job", "handler"} /\ (t.list = s.list \/ Len(s.passes) = 0)
    BY <1>3
  <2>2. <<t.refused, t.copies>> = <<s.refused, s.copies>>
    OBVIOUS
  <2> QED BY ONLY <2>1, <2>2, PassAdded, Typed(s), Consistent(s), t.list \in SUBSET Clients,
                  t.passes = Append(s.passes, NewPass("handler", t.list))
<1>5. NewPass("handler", t.list).by = "handler" /\ NewPass("handler", t.list).todo = t.list
  BY DEF NewPass
<1>6. \A k \in DOMAIN t.passes :
        (k \in DOMAIN s.passes /\ t.passes[k].by # "handler") \/ k = n + 1
  BY <1>1, <1>4 DEF Direct
<1>7. Typed(t)
  BY <1>2, <1>4 DEF Typed
<1>8. JobIsTried(t) /\ PassesAreCounted(t)
  <2>1. CASE t.job = s.job /\ t.mishaps = s.mishaps /\ s.job \in {"none", "failed"}
    <3>1. JobIsTried(t)
      BY <1>1, <2>1 DEF JobIsTried
    <3>2. n = s.fails + s.stalls /\ s.mishaps >= s.fails + s.stalls
      BY <1>1, <1>2, <2>1 DEF PassesAreCounted
    <3> QED BY <1>2, <1>4, <2>1, <3>1, <3>2 DEF PassesAreCounted
  <2>2. CASE s.job = "none" /\ t.job = "waiting" /\ t.mishaps = s.mishaps + 1
    <3>1. s.fails = 0 /\ s.stalls = 0
      BY <1>1, <2>2 DEF JobIsTried
    <3>2. JobIsTried(t)
      BY <2>2, <3>1, DeliveryAssumption DEF JobIsTried
    <3>3. n = 0
      BY <1>1, <2>2, <3>1 DEF PassesAreCounted
    <3> QED BY <1>2, <1>4, <2>2, <3>1, <3>2, <3>3 DEF PassesAreCounted
  <2> QED BY <2>1, <2>2
<1>9. HandlerWalksOnce(t)
  BY <1>6 DEF HandlerWalksOnce
<1>10. RunIsOfJob(t) /\ TellsTheTruth(t)
  BY DEF RunIsOfJob, TellsTheTruth
<1>11. PassesAreTrue(t)
  BY <1>4, <1>5, <1>6 DEF PassesAreTrue, Read
<1> QED BY <1>4, <1>7, <1>8, <1>9, <1>10, <1>11 DEF Consistent

LEMMA RunBegins ==
  ASSUME NEW s, NEW t, Typed(s), Consistent(s), s.job = "waiting",
         t.job = "active", t.run = Len(s.passes) + 1,
         t.passes = Append(s.passes, NewPass("job", s.list)),
         <<t.phase, t.list, t.fails, t.stalls, t.report, t.refused, t.copies, t.mishaps>>
         = <<s.phase, s.list, s.fails, s.stalls, s.report, s.refused, s.copies, s.mishaps>>
  PROVE  Typed(t) /\ Consistent(t)
<1> DEFINE n == Len(s.passes)
<1>1. JobIsTried(s) /\ PassesAreCounted(s) /\ s.list \in SUBSET Clients
  BY DEF Consistent, Typed
<1>2. /\ s.fails \in Nat /\ s.stalls \in Nat /\ s.mishaps \in Nat
  BY DeliveryAssumption DEF Typed
<1>3. /\ t.passes \in Seq(Pass) /\ n \in Nat /\ Len(t.passes) = n + 1
      /\ DOMAIN s.passes = 1..n /\ DOMAIN t.passes = 1..n + 1
      /\ \A k \in DOMAIN s.passes : t.passes[k] = s.passes[k]
      /\ t.passes[n + 1] = NewPass("job", t.list)
      /\ Direct(t.passes) <=> Direct(s.passes)
      /\ CopiesAreCounted(t)
      /\ \A k \in DOMAIN t.passes : /\ t.passes[k].todo \subseteq t.list
                                    /\ t.passes[k].ok \subseteq t.list \cap Got(t)
  BY <1>1, PassAdded
<1>4. NewPass("job", t.list).by = "job" /\ NewPass("job", t.list).todo = t.list
  BY DEF NewPass
<1>5. \A k \in DOMAIN t.passes : k \in DOMAIN s.passes \/ k = n + 1
  BY <1>3
<1>6. Typed(t)
  BY <1>2, <1>3 DEF Typed
<1>7. JobIsTried(t) /\ PassesAreCounted(t)
  BY <1>1, <1>2, <1>3 DEF JobIsTried, PassesAreCounted
<1>8. HandlerWalksOnce(t)
  BY <1>3, <1>4, <1>5 DEF Consistent, HandlerWalksOnce
<1>9. RunIsOfJob(t)
  BY <1>3, <1>4 DEF RunIsOfJob
<1>10. PassesAreTrue(t)
  <2>1. ASSUME NEW k \in DOMAIN s.passes, Read(t, k)
        PROVE  t.list \ (t.passes[k].todo \cup t.passes[k].ok) \subseteq t.refused
    <3>1. Read(s, k)
      BY <1>3, <2>1 DEF Read
    <3> QED BY <1>3, <3>1 DEF Consistent, PassesAreTrue
  <2> QED BY <1>3, <1>4, <1>5, <2>1 DEF PassesAreTrue
<1>11. TellsTheTruth(t)
  BY DEF Consistent, TellsTheTruth, Got
<1> QED BY <1>3, <1>6, <1>7, <1>8, <1>9, <1>10, <1>11 DEF Consistent

Replaced(s, t, k, q) == t.passes = [s.passes EXCEPT ![k] = q]

\* The pass p went on to q.
PassGoesOn(p, q) == q.by = p.by /\ q.todo \subseteq p.todo /\ (q.on => p.on)

\* Of a pass that goes on in its place, the rest is as it was.
Continued(s, t, k, q) ==
  /\ t.passes \in Seq(Pass) /\ Len(t.passes) = Len(s.passes)
  /\ DOMAIN t.passes = DOMAIN s.passes
  /\ t.passes[k] = q
  /\ \A j \in DOMAIN s.passes \ {k} : t.passes[j] = s.passes[j]
  /\ \A j \in DOMAIN s.passes : t.passes[j].by = s.passes[j].by
  /\ \A j \in DOMAIN s.passes : t.passes[j].on => s.passes[j].on
  /\ Direct(t.passes) <=> Direct(s.passes)

LEMMA PassAltered ==
  ASSUME NEW s, NEW t, Typed(s), Consistent(s), NEW k \in DOMAIN s.passes, NEW q \in Pass,
         Replaced(s, t, k, q), PassGoesOn(s.passes[k], q)
  PROVE  Continued(s, t, k, q) /\ (t.copies = s.copies => CopiesAreCounted(t))
<1>1. s.passes \in Seq(Pass)
  BY DEF Typed
<1>2. /\ t.passes \in Seq(Pass) /\ Len(t.passes) = Len(s.passes)
      /\ DOMAIN t.passes = DOMAIN s.passes
      /\ t.passes[k] = q
      /\ \A j \in DOMAIN s.passes \ {k} : t.passes[j] = s.passes[j]
  BY <1>1, Altered DEF Replaced
<1>3. /\ \A j \in DOMAIN s.passes : t.passes[j].by = s.passes[j].by
      /\ \A j \in DOMAIN s.passes : t.passes[j].on => s.passes[j].on
      /\ \A j \in DOMAIN s.passes : t.passes[j].todo \subseteq s.passes[j].todo
  BY <1>2 DEF PassGoesOn
<1>4. Direct(t.passes) <=> Direct(s.passes)
  BY <1>2, <1>3 DEF Direct
<1>5. ASSUME t.copies = s.copies, NEW c \in Clients
      PROVE  t.copies[c] <= Cardinality(Past(t.passes, c))
  <2>1. Past(s.passes, c) \subseteq Past(t.passes, c)
    BY <1>2, <1>3 DEF Past
  <2>2. Cardinality(Past(s.passes, c)) <= Cardinality(Past(t.passes, c))
    BY <1>1, <1>2, <2>1, PastGrows
  <2>3. /\ Cardinality(Past(s.passes, c)) \in Nat
        /\ Cardinality(Past(t.passes, c)) \in Nat
    BY <1>1, <1>2, PastIsCounted
  <2>4. t.copies[c] \in Nat /\ t.copies[c] <= Cardinality(Past(s.passes, c))
    BY <1>5 DEF Typed, Consistent, CopiesAreCounted
  <2> QED BY <2>2, <2>3, <2>4
<1> QED BY <1>2, <1>3, <1>4, <1>5 DEF CopiesAreCounted, Continued

LEMMA Finished ==
  ASSUME NEW s, NEW t, Typed(s), Consistent(s), s.phase = "waiting", s.job = "completed",
         t.phase = "reported", t.report = s.passes[s.run].ok,
         <<t.list, t.job, t.fails, t.stalls, t.run, t.passes, t.refused, t.copies, t.mishaps>>
         = <<s.list, s.job, s.fails, s.stalls, s.run, s.passes, s.refused, s.copies, s.mishaps>>
  PROVE  Typed(t) /\ Consistent(t)
<1>1. /\ s.run \in DOMAIN s.passes /\ s.passes[s.run].todo = {}
      /\ s.passes[s.run].ok \subseteq s.list \cap Got(s)
      /\ s.list \ s.passes[s.run].ok \subseteq s.refused
      /\ ~Direct(s.passes)
  BY DEF Consistent, RunIsOfJob, PassesAreTrue, Read, HandlerWalksOnce
<1>2. Typed(t)
  BY <1>1 DEF Typed
<1>3. JobIsTried(t) /\ PassesAreCounted(t) /\ CopiesAreCounted(t) /\ RunIsOfJob(t)
  BY DEF Consistent, JobIsTried, PassesAreCounted, CopiesAreCounted, RunIsOfJob
<1>4. HandlerWalksOnce(t)
  BY <1>1 DEF Consistent, HandlerWalksOnce, Direct
<1>5. PassesAreTrue(t)
  BY DEF Consistent, PassesAreTrue, Read, Got
<1>6. TellsTheTruth(t)
  BY <1>1 DEF TellsTheTruth, Got
<1> QED BY <1>2, <1>3, <1>4, <1>5, <1>6 DEF Consistent

\* A run that timed out or stalled: the job is to be tried again, or has failed.
LEMMA GivenUp ==
  ASSUME NEW s, NEW t, Typed(s), Consistent(s), s.job = "active", NEW q \in Pass,
         \/ /\ t.fails = s.fails + 1 /\ t.stalls = s.stalls
            /\ t.job = IF s.fails + 1 = Attempts THEN "failed" ELSE "waiting"
         \/ /\ t.fails = s.fails /\ t.stalls = s.stalls + 1
            /\ t.job = IF s.stalls < MaxStalls THEN "waiting" ELSE "failed",
         q.by = s.passes[s.run].by, q.todo = s.passes[s.run].todo, q.ok = {},
         q.on => s.passes[s.run].on,
         Replaced(s, t, s.run, q), t.mishaps = s.mishaps + 1,
         <<t.phase, t.list, t.run, t.report, t.refused, t.copies>>
         = <<s.phase, s.list, s.run, s.report, s.refused, s.copies>>
  PROVE  Typed(t) /\ Consistent(t)
<1>1. /\ s.fails < Attempts /\ s.stalls <= MaxStalls
      /\ s.run \in DOMAIN s.passes /\ s.passes[s.run].by = "job"
  BY DEF Consistent, JobIsTried, RunIsOfJob
<1>2. /\ s.fails \in Nat /\ s.stalls \in Nat /\ s.mishaps \in Nat
      /\ Attempts \in Nat /\ MaxStalls \in Nat
  BY DeliveryAssumption DEF Typed
<1>3. /\ t.passes \in Seq(Pass) /\ Len(t.passes) = Len(s.passes)
      /\ DOMAIN t.passes = DOMAIN s.passes
      /\ t.passes[s.run] = q
      /\ \A j \in DOMAIN s.passes \ {s.run} : t.passes[j] = s.passes[j]
      /\ \A j \in DOMAIN s.passes : t.passes[j].by = s.passes[j].by
      /\ \A j \in DOMAIN s.passes : t.passes[j].on => s.passes[j].on
      /\ Direct(t.passes) <=> Direct(s.passes)
      /\ CopiesAreCounted(t)
  <2>1. PassGoesOn(s.passes[s.run], q)
    BY DEF PassGoesOn
  <2>2. Continued(s, t, s.run, q) /\ CopiesAreCounted(t)
    BY <1>1, <2>1, PassAltered
  <2> QED BY <2>2 DEF Continued
<1>4. t.job \in {"waiting", "failed"} /\ JobIsTried(t)
  BY <1>1, <1>2 DEF JobIsTried
<1>5. Typed(t)
  <2>1. /\ t.fails \in 0..Attempts /\ t.stalls \in 0..MaxStalls + 1
        /\ t.mishaps \in Nat
    BY <1>1, <1>2
  <2> QED BY <1>3, <1>4, <2>1 DEF Typed
<1>6. PassesAreCounted(t)
  <2>1. /\ Len(s.passes) = s.fails + s.stalls + 1 + (IF Direct(s.passes) THEN 1 ELSE 0)
        /\ s.mishaps >= s.fails + s.stalls + (IF Direct(s.passes) THEN 1 ELSE 0)
    BY DEF Consistent, PassesAreCounted
  <2>2. t.fails + t.stalls = s.fails + s.stalls + 1
    BY <1>2
  <2>3. /\ t.job \notin {"active", "completed"} /\ t.mishaps = s.mishaps + 1
        /\ Direct(t.passes) <=> Direct(s.passes)
        /\ Len(t.passes) = Len(s.passes)
    BY <1>3, <1>4
  <2> QED
    <3>1. CASE Direct(s.passes)
      BY ONLY <1>2, <2>1, <2>2, <2>3, <3>1, t.fails \in Nat, t.stalls \in Nat DEF PassesAreCounted
    <3>2. CASE ~Direct(s.passes)
      BY ONLY <1>2, <2>1, <2>2, <2>3, <3>2, t.fails \in Nat, t.stalls \in Nat DEF PassesAreCounted
    <3> QED BY <3>1, <3>2
<1>7. HandlerWalksOnce(t)
  <2>1. HandlerWalksOnce(s)
    BY DEF Consistent
  <2>2. t.phase = s.phase /\ s.phase \notin {"none", "asking"}
    BY <2>1 DEF HandlerWalksOnce
  <2>3. ASSUME NEW j \in DOMAIN t.passes, NEW k \in DOMAIN t.passes,
               t.passes[j].by = "handler", t.passes[k].by = "handler"
        PROVE  j = k
    <3>1. s.passes[j].by = "handler" /\ s.passes[k].by = "handler"
      BY <1>3, <2>3
    <3> QED BY <1>3, <2>1, <3>1 DEF HandlerWalksOnce
  <2>4. ASSUME NEW k \in DOMAIN t.passes, t.passes[k].by = "handler", t.passes[k].on
        PROVE  t.phase = "direct"
    <3>1. s.passes[k].by = "handler" /\ s.passes[k].on
      BY <1>3, <2>4
    <3> QED BY <1>3, <2>1, <2>2, <3>1 DEF HandlerWalksOnce
  <2> QED BY <1>3, <2>1, <2>2, <2>3, <2>4 DEF HandlerWalksOnce
<1>8. RunIsOfJob(t)
  BY <1>4 DEF RunIsOfJob
<1>9. PassesAreTrue(t)
  <2>1. ASSUME NEW k \in DOMAIN s.passes
        PROVE  /\ t.passes[k].todo \subseteq s.list
               /\ t.passes[k].ok \subseteq s.list \cap Got(s)
    BY <1>1, <1>3 DEF Consistent, PassesAreTrue
  <2>2. ASSUME NEW k \in DOMAIN s.passes, Read(t, k)
        PROVE  s.list \ (t.passes[k].todo \cup t.passes[k].ok) \subseteq s.refused
    <3>1. Read(s, k) /\ k # s.run
      BY <1>1, <1>3, <1>4, <2>2 DEF Read
    <3> QED BY <1>3, <3>1 DEF Consistent, PassesAreTrue
  <2> QED BY <1>3, <2>1, <2>2 DEF PassesAreTrue, Got
<1>10. TellsTheTruth(t)
  BY DEF Consistent, TellsTheTruth, Got
<1> QED BY <1>3, <1>4, <1>5, <1>6, <1>7, <1>8, <1>9, <1>10 DEF Consistent

\* Send c the text in pass k, whatever becomes of it.
LEMMA Sent ==
  ASSUME NEW s, NEW t, Typed(s), Consistent(s), NEW k \in DOMAIN s.passes, NEW q \in Pass,
         NEW c \in s.passes[k].todo, s.passes[k].on, NEW arrives \in BOOLEAN,
         NEW answered \in BOOLEAN, answered => arrives,
         q.by = s.passes[k].by, q.todo = s.passes[k].todo \ {c}, q.on = s.passes[k].on,
         q.ok = IF answered /\ \/ s.phase = "waiting" /\ s.job = "active" /\ k = s.run
                               \/ s.phase = "direct" /\ s.passes[k].by = "handler"
                  THEN s.passes[k].ok \cup {c} ELSE s.passes[k].ok,
         Replaced(s, t, k, q),
         t.copies = [s.copies EXCEPT ![c] = IF arrives THEN @ + 1 ELSE @],
         t.refused = IF answered THEN s.refused ELSE s.refused \cup {c},
         <<t.phase, t.list, t.job, t.fails, t.stalls, t.run, t.report, t.mishaps>>
         = <<s.phase, s.list, s.job, s.fails, s.stalls, s.run, s.report, s.mishaps>>
  PROVE  Typed(t) /\ Consistent(t)
<1>1. /\ t.passes \in Seq(Pass) /\ Len(t.passes) = Len(s.passes)
      /\ DOMAIN t.passes = DOMAIN s.passes
      /\ t.passes[k] = q
      /\ \A j \in DOMAIN s.passes \ {k} : t.passes[j] = s.passes[j]
      /\ \A j \in DOMAIN s.passes : t.passes[j].by = s.passes[j].by
      /\ \A j \in DOMAIN s.passes : t.passes[j].on => s.passes[j].on
      /\ Direct(t.passes) <=> Direct(s.passes)
  <2>1. PassGoesOn(s.passes[k], q)
    BY DEF PassGoesOn
  <2>2. Continued(s, t, k, q)
    BY <2>1, PassAltered
  <2> QED BY <2>2 DEF Continued
<1>2. /\ s.passes[k].todo \subseteq s.list /\ s.passes[k].ok \subseteq s.list \cap Got(s)
      /\ s.list \in SUBSET Clients /\ c \in s.list /\ c \in Clients
  BY DEF Consistent, PassesAreTrue, Typed
<1>3. s.copies \in [Clients -> Nat] /\ s.passes \in Seq(Pass)
  BY DEF Typed
<1>4. /\ t.copies \in [Clients -> Nat]
      /\ t.copies[c] = IF arrives THEN s.copies[c] + 1 ELSE s.copies[c]
      /\ \A d \in Clients \ {c} : t.copies[d] = s.copies[d]
  BY <1>2, <1>3
<1>5. Got(s) \subseteq Got(t) /\ (arrives => c \in Got(t)) /\ s.refused \subseteq t.refused
  BY <1>2, <1>3, <1>4 DEF Got
<1>6. Typed(t)
  BY <1>1, <1>2, <1>4 DEF Typed
<1>7. JobIsTried(t) /\ PassesAreCounted(t)
  BY <1>1 DEF Consistent, JobIsTried, PassesAreCounted
<1>8. CopiesAreCounted(t)
  <2>1. ASSUME NEW d \in Clients PROVE t.copies[d] <= Cardinality(Past(t.passes, d))
    <3>1. Past(s.passes, d) \subseteq Past(t.passes, d)
      BY <1>1 DEF Past
    <3>2. Cardinality(Past(s.passes, d)) <= Cardinality(Past(t.passes, d))
      BY <1>1, <1>3, <3>1, PastGrows
    <3>3. /\ Cardinality(Past(s.passes, d)) \in Nat
          /\ Cardinality(Past(t.passes, d)) \in Nat
          /\ s.copies[d] \in Nat /\ s.copies[d] <= Cardinality(Past(s.passes, d))
      BY <1>1, <1>3, PastIsCounted DEF Consistent, CopiesAreCounted
    <3>4. CASE d = c
      <4>1. k \notin Past(s.passes, c) /\ Past(s.passes, c) \cup {k} \subseteq Past(t.passes, c)
        BY <1>1, <3>1, <3>4 DEF Past
      <4>2. Cardinality(Past(s.passes, c)) + 1 <= Cardinality(Past(t.passes, c))
        BY <1>1, <1>3, <4>1, PastGrowsBy
      <4> QED BY <1>4, <3>3, <3>4, <4>2
    <3>5. CASE d # c
      BY <1>4, <3>2, <3>3, <3>5
    <3> QED BY <3>4, <3>5
  <2> QED BY <2>1 DEF CopiesAreCounted
<1>9. HandlerWalksOnce(t)
  BY <1>1 DEF Consistent, HandlerWalksOnce
<1>10. RunIsOfJob(t)
  <2>1. RunIsOfJob(s)
    BY DEF Consistent
  <2>2. s.job = "completed" => s.run # k
    BY <2>1 DEF RunIsOfJob
  <2> QED BY <1>1, <2>1, <2>2 DEF RunIsOfJob
<1>11. PassesAreTrue(t)
  <2>1. ASSUME NEW j \in DOMAIN s.passes, j # k
        PROVE  /\ t.passes[j].todo \subseteq t.list
               /\ t.passes[j].ok \subseteq t.list \cap Got(t)
               /\ Read(t, j) => t.list \ (t.passes[j].todo \cup t.passes[j].ok) \subseteq t.refused
    <3>1. t.passes[j] = s.passes[j] /\ (Read(t, j) => Read(s, j))
      BY <1>1, <2>1 DEF Read
    <3>2. /\ s.passes[j].todo \subseteq s.list
          /\ s.passes[j].ok \subseteq s.list \cap Got(s)
          /\ Read(s, j) => s.list \ (s.passes[j].todo \cup s.passes[j].ok) \subseteq s.refused
      BY DEF Consistent, PassesAreTrue
    <3> QED BY <1>5, <3>1, <3>2
  <2>2. q.todo \subseteq t.list /\ q.ok \subseteq t.list \cap Got(t)
    BY <1>2, <1>5
  <2>3. ASSUME Read(t, k) PROVE t.list \ (q.todo \cup q.ok) \subseteq t.refused
    <3>1. Read(s, k)
      BY <1>1, <2>3 DEF Read
    <3>2. s.list \ (s.passes[k].todo \cup s.passes[k].ok) \subseteq s.refused
      BY <3>1 DEF Consistent, PassesAreTrue
    <3>3. \/ s.phase = "waiting" /\ s.job = "active" /\ k = s.run
          \/ s.phase = "direct" /\ s.passes[k].by = "handler"
      BY <3>1 DEF Read, Consistent, RunIsOfJob
    <3>4. c \in q.ok \/ c \in t.refused
      BY <3>3
    <3>5. s.passes[k].ok \subseteq q.ok
      OBVIOUS
    <3> QED BY <1>5, <3>2, <3>4, <3>5
  <2> QED BY <1>1, <2>1, <2>2, <2>3 DEF PassesAreTrue
<1>12. TellsTheTruth(t)
  BY <1>5 DEF Consistent, TellsTheTruth
<1> QED BY <1>6, <1>7, <1>8, <1>9, <1>10, <1>11, <1>12 DEF Consistent

\* A run is past the list; it may be one that Bull no longer waits for.
LEMMA RunEnded ==
  ASSUME NEW s, NEW t, Typed(s), Consistent(s), NEW k \in DOMAIN s.passes, NEW q \in Pass,
         s.passes[k].on, s.passes[k].by = "job", s.passes[k].todo = {},
         q.by = s.passes[k].by, q.todo = {}, q.on = FALSE,
         \/ /\ s.job = "active" /\ k = s.run
            /\ t.job = "completed" /\ q.ok = s.passes[k].ok
         \/ /\ ~(s.job = "active" /\ k = s.run)
            /\ t.job = s.job /\ q.ok = {},
         Replaced(s, t, k, q),
         <<t.phase, t.list, t.fails, t.stalls, t.run, t.report, t.refused, t.copies, t.mishaps>>
         = <<s.phase, s.list, s.fails, s.stalls, s.run, s.report, s.refused, s.copies, s.mishaps>>
  PROVE  Typed(t) /\ Consistent(t)
<1>1. /\ t.passes \in Seq(Pass) /\ Len(t.passes) = Len(s.passes)
      /\ DOMAIN t.passes = DOMAIN s.passes
      /\ t.passes[k] = q
      /\ \A j \in DOMAIN s.passes \ {k} : t.passes[j] = s.passes[j]
      /\ \A j \in DOMAIN s.passes : t.passes[j].by = s.passes[j].by
      /\ \A j \in DOMAIN s.passes : t.passes[j].on => s.passes[j].on
      /\ Direct(t.passes) <=> Direct(s.passes)
      /\ CopiesAreCounted(t)
  <2>1. PassGoesOn(s.passes[k], q)
    BY DEF PassGoesOn
  <2>2. Continued(s, t, k, q) /\ CopiesAreCounted(t)
    BY <2>1, PassAltered
  <2> QED BY <2>2 DEF Continued
<1>2. t.job = s.job \/ (s.job = "active" /\ t.job = "completed")
  OBVIOUS
<1>3. Typed(t)
  BY <1>1, <1>2 DEF Typed
<1>4. JobIsTried(t) /\ PassesAreCounted(t)
  BY <1>1, <1>2 DEF Consistent, JobIsTried, PassesAreCounted
<1>5. HandlerWalksOnce(t)
  BY <1>1, <1>2 DEF Consistent, HandlerWalksOnce
<1>6. RunIsOfJob(s)
  BY DEF Consistent
<1>7. RunIsOfJob(t)
  BY <1>1, <1>2, <1>6 DEF RunIsOfJob
<1>8. PassesAreTrue(t)
  <2>1. ASSUME NEW j \in DOMAIN s.passes
        PROVE  /\ s.passes[j].todo \subseteq s.list
               /\ s.passes[j].ok \subseteq s.list \cap Got(s)
               /\ Read(s, j) => s.list \ (s.passes[j].todo \cup s.passes[j].ok) \subseteq s.refused
    BY DEF Consistent, PassesAreTrue
  <2>2. Got(t) = Got(s)
    BY DEF Got
  <2>3. ASSUME NEW j \in DOMAIN s.passes, Read(t, j)
        PROVE  Read(s, j) /\ t.passes[j].ok = s.passes[j].ok
    BY <1>1, <1>2, <1>6, <2>3 DEF Read, RunIsOfJob
  <2>4. ASSUME NEW j \in DOMAIN s.passes
        PROVE  /\ t.passes[j].todo = s.passes[j].todo
               /\ t.passes[j].ok \subseteq s.passes[j].ok
    BY <1>1
  <2> QED BY <1>1, <2>1, <2>2, <2>3, <2>4 DEF PassesAreTrue
<1>9. TellsTheTruth(t)
  BY DEF Consistent, TellsTheTruth, Got
<1> QED BY <1>1, <1>3, <1>4, <1>5, <1>7, <1>8, <1>9 DEF Consistent

LEMMA DirectEnded ==
  ASSUME NEW s, NEW t, Typed(s), Consistent(s), NEW k \in DOMAIN s.passes, NEW q \in Pass,
         s.passes[k].on, s.passes[k].by = "handler", s.passes[k].todo = {},
         q.by = s.passes[k].by, q.todo = {}, q.ok = {}, q.on = FALSE,
         Replaced(s, t, k, q), t.phase = "reported", t.report = s.passes[k].ok,
         <<t.list, t.job, t.fails, t.stalls, t.run, t.refused, t.copies, t.mishaps>>
         = <<s.list, s.job, s.fails, s.stalls, s.run, s.refused, s.copies, s.mishaps>>
  PROVE  Typed(t) /\ Consistent(t)
<1>1. /\ t.passes \in Seq(Pass) /\ Len(t.passes) = Len(s.passes)
      /\ DOMAIN t.passes = DOMAIN s.passes
      /\ t.passes[k] = q
      /\ \A j \in DOMAIN s.passes \ {k} : t.passes[j] = s.passes[j]
      /\ \A j \in DOMAIN s.passes : t.passes[j].by = s.passes[j].by
      /\ \A j \in DOMAIN s.passes : t.passes[j].on => s.passes[j].on
      /\ Direct(t.passes) <=> Direct(s.passes)
      /\ CopiesAreCounted(t)
  <2>1. PassGoesOn(s.passes[k], q)
    BY DEF PassGoesOn
  <2>2. Continued(s, t, k, q) /\ CopiesAreCounted(t)
    BY <2>1, PassAltered
  <2> QED BY <2>2 DEF Continued
<1>2. /\ s.phase = "direct" /\ Read(s, k)
      /\ \A j \in DOMAIN s.passes : s.passes[j].by = "handler" => j = k
  BY DEF Consistent, HandlerWalksOnce, Read
<1>3. /\ s.passes[k].ok \subseteq s.list \cap Got(s)
      /\ s.list \ s.passes[k].ok \subseteq s.refused
      /\ s.list \in SUBSET Clients
  BY <1>2 DEF Consistent, PassesAreTrue, Typed
<1>4. Typed(t)
  BY <1>1, <1>3 DEF Typed
<1>5. JobIsTried(t) /\ PassesAreCounted(t)
  BY <1>1 DEF Consistent, JobIsTried, PassesAreCounted
<1>6. HandlerWalksOnce(t)
  BY <1>1, <1>2 DEF HandlerWalksOnce
<1>7. RunIsOfJob(t)
  BY <1>1 DEF Consistent, RunIsOfJob
<1>8. PassesAreTrue(t)
  <2>1. ASSUME NEW j \in DOMAIN s.passes
        PROVE  /\ t.passes[j].todo \subseteq s.list
               /\ t.passes[j].ok \subseteq s.list \cap Got(s)
               /\ ~Read(t, j)
    BY <1>1 DEF Consistent, PassesAreTrue, Read
  <2> QED BY <1>1, <2>1 DEF PassesAreTrue, Got
<1>9. TellsTheTruth(t)
  BY <1>3 DEF TellsTheTruth, Got
<1> QED BY <1>1, <1>4, <1>5, <1>6, <1>7, <1>8, <1>9 DEF Consistent

\* The process dies, and every loop with it.
LEMMA Died ==
  ASSUME NEW s, NEW t, Typed(s), Consistent(s),
         t.phase = (IF s.phase \in {"asking", "waiting", "direct"} THEN "lost" ELSE s.phase),
         t.passes = [k \in DOMAIN s.passes |-> Over(s.passes[k])],
         <<t.list, t.job, t.fails, t.stalls, t.run, t.report, t.refused, t.copies, t.mishaps>>
         = <<s.list, s.job, s.fails, s.stalls, s.run, s.report, s.refused, s.copies, s.mishaps>>
  PROVE  Typed(t) /\ Consistent(t)
<1>1. s.passes \in Seq(Pass) /\ Len(s.passes) \in Nat /\ DOMAIN s.passes = 1..Len(s.passes)
  BY LenProperties DEF Typed
<1>2. ASSUME NEW k \in DOMAIN s.passes
      PROVE  /\ t.passes[k] \in Pass /\ t.passes[k].by = s.passes[k].by
             /\ t.passes[k].todo = {} /\ t.passes[k].ok = {} /\ t.passes[k].on = FALSE
  <2>1. s.passes[k] \in Pass
    BY <1>1, ElementOfSeq
  <2>2. t.passes[k] = Over(s.passes[k])
    OBVIOUS
  <2> QED BY <2>1, <2>2 DEF Over, Pass
<1>3. /\ t.passes \in Seq(Pass) /\ Len(t.passes) = Len(s.passes)
      /\ DOMAIN t.passes = DOMAIN s.passes
  <2>1. t.passes \in [1..Len(s.passes) -> Pass]
    BY <1>1, <1>2
  <2> QED BY <1>1, <2>1, SeqDef, LenProperties
<1>4. Direct(t.passes) <=> Direct(s.passes)
  BY <1>2, <1>3 DEF Direct
<1>5. Typed(t)
  BY <1>3 DEF Typed
<1>6. JobIsTried(t) /\ PassesAreCounted(t)
  BY <1>3, <1>4 DEF Consistent, JobIsTried, PassesAreCounted
<1>7. CopiesAreCounted(t)
  <2>1. ASSUME NEW c \in Clients PROVE t.copies[c] <= Cardinality(Past(t.passes, c))
    <3>1. Past(s.passes, c) \subseteq Past(t.passes, c)
      BY <1>2, <1>3 DEF Past
    <3>2. Cardinality(Past(s.passes, c)) <= Cardinality(Past(t.passes, c))
      BY <1>1, <1>3, <3>1, PastGrows
    <3>3. /\ Cardinality(Past(s.passes, c)) \in Nat
          /\ Cardinality(Past(t.passes, c)) \in Nat
          /\ s.copies[c] \in Nat /\ s.copies[c] <= Cardinality(Past(s.passes, c))
      BY <1>1, <1>3, PastIsCounted DEF Consistent, CopiesAreCounted, Typed
    <3>4. t.copies[c] = s.copies[c]
      OBVIOUS
    <3> QED BY <3>2, <3>3, <3>4
  <2> QED BY <2>1 DEF CopiesAreCounted
<1>8. HandlerWalksOnce(t)
  <2>1. HandlerWalksOnce(s)
    BY DEF Consistent
  <2>2. /\ t.phase \in {"none", "asking"} => s.phase \in {"none", "asking"}
        /\ t.phase \in {"none", "asking", "waiting"} => s.phase \in {"none", "asking", "waiting"}
        /\ t.job = s.job
    OBVIOUS
  <2>3. ASSUME NEW j \in DOMAIN t.passes, NEW k \in DOMAIN t.passes,
               t.passes[j].by = "handler", t.passes[k].by = "handler"
        PROVE  j = k
    <3>1. s.passes[j].by = "handler" /\ s.passes[k].by = "handler"
      BY <1>2, <1>3, <2>3
    <3> QED BY <1>3, <2>1, <3>1 DEF HandlerWalksOnce
  <2>4. \A k \in DOMAIN t.passes : ~t.passes[k].on
    BY <1>2, <1>3
  <2> QED BY <1>4, <2>1, <2>2, <2>3, <2>4 DEF HandlerWalksOnce
<1>9. RunIsOfJob(t)
  BY <1>2, <1>3 DEF Consistent, RunIsOfJob
<1>10. PassesAreTrue(t)
  BY <1>2, <1>3 DEF PassesAreTrue, Read
<1>11. TellsTheTruth(t)
  BY DEF Consistent, TellsTheTruth, Got
<1> QED BY <1>5, <1>6, <1>7, <1>8, <1>9, <1>10, <1>11 DEF Consistent

LEMMA StepIsConsistent ==
  ASSUME Shape, NEW b \in Broadcasts, Typed(Of(b)), Consistent(Of(b)), StepOf(b)
  PROVE  Typed(Of(b)') /\ Consistent(Of(b)')
<1> USE DEF Move, SetJob, Mishap
<1> DEFINE s == Of(b)
           t == Of(b)'
<1> SUFFICES Typed(t) /\ Consistent(t)
  OBVIOUS
<1>0. Typed(s) /\ Consistent(s)
  OBVIOUS
<1>1. CASE Broadcast(b)
  <2>1. PICK whom \in SUBSET Clients :
          /\ list' = [list EXCEPT ![b] = whom]
          /\ IF queueUp /\ whom # {}
               THEN Move(b, "asking") /\ UNCHANGED passes
               ELSE Move(b, "direct") /\ WithPass(b, "handler", whom)
    BY <1>1 DEF Broadcast
  <2>2. /\ s.phase = "none" /\ t.list = whom
        /\ <<t.job, t.fails, t.stalls, t.run, t.report, t.refused, t.copies, t.mishaps>>
           = <<s.job, s.fails, s.stalls, s.run, s.report, s.refused, s.copies, s.mishaps>>
    BY <1>1, <2>1 DEF Broadcast, Shape, PerBroadcast, Of
  <2>3. CASE queueUp /\ whom # {}
    <3>1. t.phase = "asking" /\ t.passes = s.passes
      BY <2>1, <2>3 DEF Shape, PerBroadcast, Of
    <3> HIDE DEF s, t
    <3> QED BY <1>0, <2>2, <3>1, Asked
  <2>4. CASE ~(queueUp /\ whom # {})
    <3>1. t.phase = "direct" /\ t.passes = Append(s.passes, NewPass("handler", t.list))
      BY <2>1, <2>4 DEF Shape, PerBroadcast, Of, WithPass, NewPass
    <3>2. s.job = "none"
      BY <1>0, <2>2 DEF Consistent, HandlerWalksOnce
    <3> HIDE DEF s, t
    <3> QED BY <1>0, <2>2, <3>1, <3>2, HandlerBegins
  <2> QED BY <2>3, <2>4
<1>2. CASE Enqueue(b)
  <2>1. /\ s.phase = "asking" /\ t.phase = "waiting" /\ t.job = "waiting"
        /\ <<t.list, t.fails, t.stalls, t.run, t.passes, t.report, t.refused, t.copies, t.mishaps>>
           = <<s.list, s.fails, s.stalls, s.run, s.passes, s.report, s.refused, s.copies, s.mishaps>>
    BY <1>2 DEF Enqueue, Shape, PerBroadcast, Of
  <2> HIDE DEF s, t
  <2> QED BY <1>0, <2>1, Enqueued
<1>3. CASE EnqueueFails(b)
  <2>1. /\ s.phase = "asking" /\ t.phase = "direct"
        /\ t.passes = Append(s.passes, NewPass("handler", t.list))
        /\ \/ t.job = s.job /\ t.mishaps = s.mishaps
           \/ t.job = "waiting" /\ t.mishaps = s.mishaps + 1
        /\ <<t.list, t.fails, t.stalls, t.run, t.report, t.refused, t.copies>>
           = <<s.list, s.fails, s.stalls, s.run, s.report, s.refused, s.copies>>
    BY <1>3 DEF EnqueueFails, Shape, PerBroadcast, Of, WithPass, NewPass
  <2>2. s.job = "none" /\ t.list = s.list /\ s.list \in SUBSET Clients
    BY <1>0, <2>1 DEF Consistent, HandlerWalksOnce, Typed
  <2> HIDE DEF s, t
  <2> QED BY <1>0, <2>1, <2>2, HandlerBegins
<1>4. CASE JobFinished(b)
  <2>1. /\ s.phase = "waiting" /\ s.job = "completed"
        /\ t.phase = "reported" /\ t.report = s.passes[s.run].ok
        /\ <<t.list, t.job, t.fails, t.stalls, t.run, t.passes, t.refused, t.copies, t.mishaps>>
           = <<s.list, s.job, s.fails, s.stalls, s.run, s.passes, s.refused, s.copies, s.mishaps>>
    BY <1>4 DEF JobFinished, Shape, PerBroadcast, Of
  <2> HIDE DEF s, t
  <2> QED BY <1>0, <2>1, Finished
<1>5. CASE JobFailed(b)
  <2>1. /\ s.phase = "waiting" /\ s.job = "failed" /\ t.phase = "direct"
        /\ t.passes = Append(s.passes, NewPass("handler", t.list))
        /\ <<t.list, t.job, t.fails, t.stalls, t.run, t.report, t.refused, t.copies, t.mishaps>>
           = <<s.list, s.job, s.fails, s.stalls, s.run, s.report, s.refused, s.copies, s.mishaps>>
    BY <1>5 DEF JobFailed, Shape, PerBroadcast, Of, WithPass, NewPass
  <2>2. t.list = s.list /\ s.list \in SUBSET Clients /\ t.job = s.job /\ t.mishaps = s.mishaps
    BY <1>0, <2>1 DEF Typed
  <2> HIDE DEF s, t
  <2> QED BY <1>0, <2>1, <2>2, HandlerBegins
<1>6. CASE StartRun(b)
  <2>1. /\ s.job = "waiting" /\ t.job = "active" /\ t.run = Len(s.passes) + 1
        /\ t.passes = Append(s.passes, NewPass("job", s.list))
        /\ <<t.phase, t.list, t.fails, t.stalls, t.report, t.refused, t.copies, t.mishaps>>
           = <<s.phase, s.list, s.fails, s.stalls, s.report, s.refused, s.copies, s.mishaps>>
    BY <1>6 DEF StartRun, Shape, PerBroadcast, Of, WithPass, NewPass
  <2> HIDE DEF s, t
  <2> QED BY <1>0, <2>1, RunBegins
\* The run of an active job is one of its passes.
<1>r. ASSUME s.job = "active" PROVE s.run \in DOMAIN s.passes /\ s.passes[s.run] \in Pass
  <2>1. s.passes \in Seq(Pass) /\ s.run \in DOMAIN s.passes
    BY <1>0, <1>r DEF Consistent, RunIsOfJob, Typed
  <2> HIDE DEF s
  <2> QED BY <2>1, ElementOfSeq, LenProperties
<1>7. CASE TimeOut(b) \/ Stall(b)
  <2> DEFINE q == [s.passes[s.run] EXCEPT !.ok = {}]
  <2>1. /\ s.job = "active" /\ t.mishaps = s.mishaps + 1
        /\ <<t.phase, t.list, t.run, t.report, t.refused, t.copies>>
           = <<s.phase, s.list, s.run, s.report, s.refused, s.copies>>
    BY <1>7 DEF TimeOut, Stall, Shape, PerBroadcast, Of
  <2>2. \/ /\ t.fails = s.fails + 1 /\ t.stalls = s.stalls
           /\ t.job = IF s.fails + 1 = Attempts THEN "failed" ELSE "waiting"
        \/ /\ t.fails = s.fails /\ t.stalls = s.stalls + 1
           /\ t.job = IF s.stalls < MaxStalls THEN "waiting" ELSE "failed"
    BY <1>7 DEF TimeOut, Stall, Shape, PerBroadcast, Of, LastAttempt
  <2>3. t.passes = [s.passes EXCEPT ![s.run] = q]
    BY <1>7 DEF TimeOut, Stall, Shape, PerBroadcast, Of, ForgetResults
  <2>4. /\ q \in Pass /\ q.by = s.passes[s.run].by /\ q.todo = s.passes[s.run].todo
        /\ q.ok = {} /\ q.on = s.passes[s.run].on
    BY <1>r, <2>1 DEF Pass
  <2> HIDE DEF s, t, q
  <2>5. Replaced(s, t, s.run, q) /\ (q.on => s.passes[s.run].on)
    BY <2>3, <2>4 DEF Replaced
  <2> QED BY <1>0, <2>1, <2>2, <2>4, <2>5, GivenUp
\* Steps of a pass.
<1>k. ASSUME NEW k \in DOMAIN passes[b]
      PROVE  k \in DOMAIN s.passes /\ s.passes[k] \in Pass /\ s.passes[k] = passes[b][k]
  <2>1. s.passes \in Seq(Pass) /\ k \in DOMAIN s.passes /\ s.passes = passes[b]
    BY <1>0, <1>k DEF Typed, Of
  <2> HIDE DEF s
  <2> QED BY <2>1, ElementOfSeq, LenProperties
<1>8. ASSUME NEW k \in DOMAIN passes[b], EndRun(b, k)
      PROVE  Typed(t) /\ Consistent(t)
  <2> DEFINE p == s.passes[k]
             waited == s.job = "active" /\ k = s.run
             q == IF waited THEN [p EXCEPT !.on = FALSE] ELSE Over(p)
  <2>1. k \in DOMAIN s.passes /\ p \in Pass /\ p = passes[b][k]
    BY <1>k
  <2>2. /\ p.on /\ p.by = "job" /\ p.todo = {}
        /\ <<t.phase, t.list, t.fails, t.stalls, t.run, t.report, t.refused, t.copies, t.mishaps>>
           = <<s.phase, s.list, s.fails, s.stalls, s.run, s.report, s.refused, s.copies, s.mishaps>>
    BY <1>8, <2>1 DEF EndRun, Shape, PerBroadcast, Of
  <2>3. /\ t.passes = [s.passes EXCEPT ![k] = q]
        /\ t.job = IF waited THEN "completed" ELSE s.job
    BY <1>8, <2>1 DEF EndRun, Shape, PerBroadcast, Of
  <2> HIDE DEF s, t
  <2>4. /\ q \in Pass /\ q.by = p.by /\ q.todo = {} /\ q.on = FALSE
        /\ q.ok = IF waited THEN p.ok ELSE {}
    BY <2>1, <2>2 DEF Pass, Over
  <2> HIDE DEF q
  <2>5. Replaced(s, t, k, q)
    BY <2>3 DEF Replaced
  <2> QED BY <1>0, <2>1, <2>2, <2>3, <2>4, <2>5, RunEnded
<1>9. ASSUME NEW k \in DOMAIN passes[b], EndDirect(b, k)
      PROVE  Typed(t) /\ Consistent(t)
  <2> DEFINE p == s.passes[k]
             q == Over(p)
  <2>1. k \in DOMAIN s.passes /\ p \in Pass /\ p = passes[b][k]
    BY <1>k
  <2>2. /\ p.on /\ p.by = "handler" /\ p.todo = {}
        /\ t.phase = "reported" /\ t.report = p.ok
        /\ <<t.list, t.job, t.fails, t.stalls, t.run, t.refused, t.copies, t.mishaps>>
           = <<s.list, s.job, s.fails, s.stalls, s.run, s.refused, s.copies, s.mishaps>>
    BY <1>9, <2>1 DEF EndDirect, Shape, PerBroadcast, Of
  <2>3. t.passes = [s.passes EXCEPT ![k] = q]
    BY <1>9, <2>1 DEF EndDirect, Shape, PerBroadcast, Of
  <2> HIDE DEF s, t
  <2>4. q \in Pass /\ q.by = p.by /\ q.todo = {} /\ q.ok = {} /\ q.on = FALSE
    BY <2>1, <2>2 DEF Pass, Over
  <2> HIDE DEF q
  <2>5. Replaced(s, t, k, q)
    BY <2>3 DEF Replaced
  <2> QED BY <1>0, <2>1, <2>2, <2>4, <2>5, DirectEnded
<1>10. ASSUME NEW k \in DOMAIN passes[b], NEW c \in Clients, Send(b, k, c)
       PROVE  Typed(t) /\ Consistent(t)
  <2>1. PICK arrives \in BOOLEAN, answered \in BOOLEAN :
          /\ answered => arrives
          /\ passes' = [passes EXCEPT ![b][k].todo = @ \ {c},
                                      ![b][k].ok = IF answered /\ IsRead(b, k) THEN @ \cup {c} ELSE @]
          /\ copies' = [copies EXCEPT ![b][c] = IF arrives THEN @ + 1 ELSE @]
          /\ refused' = [refused EXCEPT ![b] = IF answered THEN @ ELSE @ \cup {c}]
    BY <1>10 DEF Send
  <2> DEFINE p == s.passes[k]
             read == \/ s.phase = "waiting" /\ s.job = "active" /\ k = s.run
                     \/ s.phase = "direct" /\ s.passes[k].by = "handler"
             ok == IF answered /\ read THEN p.ok \cup {c} ELSE p.ok
             q == [p EXCEPT !.todo = p.todo \ {c}, !.ok = ok]
  <2>2. k \in DOMAIN s.passes /\ p \in Pass /\ p = passes[b][k]
    BY <1>k
  <2>3. /\ p.on /\ c \in p.todo
        /\ t.copies = [s.copies EXCEPT ![c] = IF arrives THEN @ + 1 ELSE @]
        /\ t.refused = IF answered THEN s.refused ELSE s.refused \cup {c}
        /\ <<t.phase, t.list, t.job, t.fails, t.stalls, t.run, t.report, t.mishaps>>
           = <<s.phase, s.list, s.job, s.fails, s.stalls, s.run, s.report, s.mishaps>>
    BY <1>10, <2>1, <2>2 DEF Send, Shape, PerBroadcast, Of
  <2>4. read <=> IsRead(b, k)
    BY <2>2 DEF IsRead, Of
  <2>5. t.passes = [s.passes EXCEPT ![k] = q]
    <3>1. t.passes = [passes[b] EXCEPT ![k].todo = @ \ {c}, ![k].ok = ok]
      BY <2>1, <2>2, <2>4 DEF Shape, PerBroadcast, Of
    <3> QED BY <2>2, <3>1 DEF Of
  <2> HIDE DEF s, t
  <2>6. /\ q \in Pass /\ q.by = p.by /\ q.todo = p.todo \ {c} /\ q.on = p.on
        /\ q.ok = IF answered /\ read THEN p.ok \cup {c} ELSE p.ok
    <3>1. ok \in SUBSET Clients /\ c \in Clients
      BY <2>2 DEF Pass
    <3> HIDE DEF ok, p
    <3>2. /\ q \in Pass /\ q.by = p.by /\ q.todo = p.todo \ {c} /\ q.on = p.on
          /\ q.ok = ok
      BY <2>2, <3>1 DEF Pass
    <3> QED BY <3>2 DEF ok
  <2> HIDE DEF q
  <2>7. Replaced(s, t, k, q)
    BY <2>5 DEF Replaced
  <2> QED BY <1>0, <2>1, <2>2, <2>3, <2>6, <2>7, Sent
<1> QED BY <1>1, <1>2, <1>3, <1>4, <1>5, <1>6, <1>7, <1>8, <1>9, <1>10 DEF StepOf, Handler, Walk

LEMMA DeliveryInitInv == DeliveryInit => DeliveryInv
<1> SUFFICES ASSUME DeliveryInit PROVE DeliveryInv
  OBVIOUS
<1>1. Shape
  BY DEF DeliveryInit, Shape, PerBroadcast
<1>2. ASSUME NEW b \in Broadcasts PROVE Typed(Of(b)) /\ Consistent(Of(b))
  <2> DEFINE s == Of(b)
  <2>1. /\ s.phase = "none" /\ s.list = {} /\ s.job = "none" /\ s.fails = 0 /\ s.stalls = 0
        /\ s.run = 0 /\ s.passes = <<>> /\ s.report = {} /\ s.refused = {} /\ s.mishaps = 0
        /\ s.copies = [c \in Clients |-> 0]
    BY DEF DeliveryInit, Of
  <2>2. <<>> \in Seq(Pass) /\ Len(<<>>) = 0 /\ DOMAIN <<>> = {}
    BY EmptySeq
  <2> HIDE DEF s
  <2>3. Typed(s)
    BY <2>1, <2>2, DeliveryAssumption DEF Typed
  <2>4. ~Direct(s.passes) /\ \A c : Past(s.passes, c) = {}
    BY <2>1, <2>2 DEF Direct, Past
  <2>5. JobIsTried(s) /\ PassesAreCounted(s)
    BY <2>1, <2>2, <2>4 DEF JobIsTried, PassesAreCounted
  <2>6. CopiesAreCounted(s)
    <3>1. Cardinality({}) = 0
      BY FS_EmptySet
    <3>2. \A c \in Clients : s.copies[c] = 0 /\ Past(s.passes, c) = {}
      BY <2>1, <2>4
    <3>3. ASSUME NEW c \in Clients PROVE s.copies[c] <= Cardinality(Past(s.passes, c))
      <4>1. s.copies[c] = 0 /\ Cardinality(Past(s.passes, c)) = 0
        BY <3>1, <3>2
      <4> QED BY <4>1
    <3> QED BY <3>3 DEF CopiesAreCounted
  <2>7. HandlerWalksOnce(s) /\ RunIsOfJob(s) /\ PassesAreTrue(s) /\ TellsTheTruth(s)
    BY <2>1, <2>2, <2>4 DEF HandlerWalksOnce, RunIsOfJob, PassesAreTrue, TellsTheTruth
  <2> QED BY <2>3, <2>5, <2>6, <2>7 DEF Consistent, s
<1> QED BY <1>1, <1>2 DEF DeliveryInv

LEMMA DeliveryStep == DeliveryInv /\ [DeliveryNext]_deliveryVars => DeliveryInv'
<1> SUFFICES ASSUME DeliveryInv, [DeliveryNext]_deliveryVars
             PROVE  DeliveryInv'
  OBVIOUS
<1>1. Shape /\ \A b \in Broadcasts : Typed(Of(b)) /\ Consistent(Of(b))
  BY DEF DeliveryInv
<1>2. ASSUME NEW b \in Broadcasts, StepOf(b) PROVE DeliveryInv'
  <2>1. Typed(Of(b)') /\ Consistent(Of(b)')
    BY <1>1, <1>2, StepIsConsistent
  <2>2. Shape' /\ \A d \in Broadcasts \ {b} : Of(d)' = Of(d)
    BY <1>1, <1>2, OtherBroadcastsStay
  <2>3. \A d \in Broadcasts : Typed(Of(d)') /\ Consistent(Of(d)')
    BY <1>1, <2>1, <2>2
  <2> QED BY <2>2, <2>3 DEF DeliveryInv
<1>3. CASE Pause \/ UNCHANGED deliveryVars
  <2>1. Shape' /\ \A b \in Broadcasts : Of(b)' = Of(b)
    BY <1>1, <1>3 DEF Pause, deliveryVars, Shape, PerBroadcast, Of
  <2> QED BY <1>1, <2>1 DEF DeliveryInv
<1>4. CASE Crash
  <2>1. Shape'
    BY <1>1, <1>4 DEF Crash, Shape, PerBroadcast
  <2>2. ASSUME NEW b \in Broadcasts PROVE Typed(Of(b)') /\ Consistent(Of(b)')
    <3> DEFINE s == Of(b)
               t == Of(b)'
    <3>1. /\ t.phase = IF s.phase \in {"asking", "waiting", "direct"} THEN "lost" ELSE s.phase
          /\ t.passes = [k \in DOMAIN s.passes |-> Over(s.passes[k])]
          /\ <<t.list, t.job, t.fails, t.stalls, t.run, t.report, t.refused, t.copies, t.mishaps>>
             = <<s.list, s.job, s.fails, s.stalls, s.run, s.report, s.refused, s.copies, s.mishaps>>
      BY <1>4 DEF Crash, Of
    <3>2. Typed(s) /\ Consistent(s)
      BY <1>1
    <3> SUFFICES Typed(t) /\ Consistent(t)
      OBVIOUS
    <3> HIDE DEF s, t
    <3> QED BY <3>1, <3>2, Died
  <2> QED BY <2>1, <2>2 DEF DeliveryInv
<1> QED BY <1>2, <1>3, <1>4 DEF DeliveryNext, StepOf

LEMMA DeliveryInvHolds == DeliverySpec => []DeliveryInv
  BY DeliveryInitInv, DeliveryStep, PTL DEF DeliverySpec

\* Every variable of Delivery keeps its type: no job is tried or started again more
\* often than its settings say.
THEOREM DeliveryTypeCorrect == DeliverySpec => []DeliveryTypeOK
  BY DeliveryInvHolds, ShapeIsType, PTL

\* Each copy after the first has a mishap to explain it, and nobody has more of
\* them than attempts, restarts and the direct pass make, however many clients the
\* list has and wherever Bull and the process fail.
THEOREM RepeatsAreMishapsHolds == DeliverySpec => []RepeatsAreMishaps
<1>1. ASSUME DeliveryInv, NEW b \in Broadcasts, NEW c \in Clients
      PROVE  copies[b][c] <= 1 + mishaps[b] /\ copies[b][c] <= Attempts + MaxStalls + 1
  <2> DEFINE s == Of(b)
  <2>1. Typed(s) /\ Consistent(s) /\ s.copies = copies[b] /\ s.mishaps = mishaps[b]
    BY <1>1 DEF DeliveryInv, Of
  <2> HIDE DEF s
  <2>2. /\ s.copies[c] \in Nat /\ s.copies[c] <= Cardinality(Past(s.passes, c))
        /\ Cardinality(Past(s.passes, c)) \in Nat
        /\ Cardinality(Past(s.passes, c)) <= Len(s.passes)
    BY <2>1, PastIsCounted DEF Consistent, CopiesAreCounted, Typed
  <2>3. /\ s.fails \in Nat /\ s.stalls \in Nat /\ s.mishaps \in Nat /\ Len(s.passes) \in Nat
        /\ Attempts \in Nat \ {0} /\ MaxStalls \in Nat
    BY <2>1, LenProperties, DeliveryAssumption DEF Typed
  <2>4. Len(s.passes) <= 1 + s.mishaps
    BY <2>1, <2>3 DEF Consistent, PassesAreCounted, Typed
  <2>5. Len(s.passes) <= Attempts + MaxStalls + 1
    BY <2>1, <2>3 DEF Consistent, PassesAreCounted, JobIsTried, Typed
  <2> QED BY <2>1, <2>2, <2>3, <2>4, <2>5
<1>2. DeliveryInv => RepeatsAreMishaps
  BY <1>1 DEF RepeatsAreMishaps
<1> QED BY <1>2, DeliveryInvHolds, PTL

\* What the admin is told of is true, for any list and whichever pass it comes from.
THEOREM ReportIsTrueHolds == DeliverySpec => []ReportIsTrue
<1>1. DeliveryInv => ReportIsTrue
  BY DEF DeliveryInv, Consistent, TellsTheTruth, Of, Got, ReportIsTrue
<1> QED BY <1>1, DeliveryInvHolds, PTL
------------------------------------------------------------------------------
(* Delivery: a broadcast runs out.                                         *)

\* Sends that the passes of a broadcast have before them, and loops that go on.
Pending(ps) == {x \in (DOMAIN ps) \X Clients : x[2] \in ps[x[1]].todo}

Looping(ps) == {k \in DOMAIN ps : ps[k].on}

PhaseRank(p) ==
  CASE p = "none" -> 4 [] p = "asking" -> 3 [] p = "waiting" -> 2 [] p = "direct" -> 1
    [] OTHER -> 0

JobRank(j) ==
  CASE j = "none" -> 3 [] j = "waiting" -> 2 [] j = "active" -> 1 [] OTHER -> 0

\* What handler and Bull can still do to a broadcast, and what its passes can.
Beginnings(s) ==
  2 * ((Attempts - s.fails) + (MaxStalls + 1 - s.stalls)) + JobRank(s.job) + PhaseRank(s.phase)

Work(s) == Cardinality(Pending(s.passes)) + Cardinality(Looping(s.passes))

Runs(s, t) ==
  \/ Beginnings(t) < Beginnings(s)
  \/ Beginnings(t) = Beginnings(s) /\ Work(t) < Work(s)

Rests(s, t) ==
  /\ <<t.phase, t.job, t.fails, t.stalls, t.copies>> = <<s.phase, s.job, s.fails, s.stalls, s.copies>>
  /\ Pending(t.passes) = Pending(s.passes) /\ Looping(t.passes) = Looping(s.passes)

\* Whatever fails, times out, stalls or dies, each step leaves a broadcast with
\* less that can begin, or with as much and less to send, or leaves it alone.
BroadcastsRunOut ==
  [][\A b \in Broadcasts : Runs(Of(b), Of(b)') \/ Rests(Of(b), Of(b)')]_deliveryVars

\* Both measures are natural numbers, the first of them below a bound that the
\* settings of the queue give: so a broadcast cannot go on for ever.
RunsAreCounted ==
  \A b \in Broadcasts :
    /\ Beginnings(Of(b)) \in 0..2 * (Attempts + MaxStalls + 1) + 7
    /\ Work(Of(b)) \in Nat

LEMMA Ranks ==
  ASSUME NEW s, Typed(s)
  PROVE  /\ s.fails \in 0..Attempts /\ s.stalls \in 0..MaxStalls + 1
         /\ JobRank(s.job) \in 0..3 /\ PhaseRank(s.phase) \in 0..4
         /\ Attempts \in Nat /\ MaxStalls \in Nat
  BY DeliveryAssumption DEF Typed, JobRank, PhaseRank

LEMMA WorkIsFinite ==
  ASSUME NEW ps \in Seq(Pass)
  PROVE  IsFiniteSet(Pending(ps)) /\ IsFiniteSet(Looping(ps))
<1>1. DOMAIN ps = 1..Len(ps) /\ Len(ps) \in Nat
  BY LenProperties
<1>2. IsFiniteSet(DOMAIN ps)
  BY <1>1, FS_Interval
<1>3. IsFiniteSet((DOMAIN ps) \X Clients)
  BY <1>2, FS_Product, DeliveryAssumption
<1>4. Pending(ps) \subseteq (DOMAIN ps) \X Clients /\ Looping(ps) \subseteq DOMAIN ps
  BY DEF Pending, Looping
<1> QED BY <1>2, <1>3, <1>4, FS_Subset

\* Passes that have lost a send or a loop, and gained none, leave less work.
LEMMA LessWork ==
  ASSUME NEW s, NEW t, s.passes \in Seq(Pass),
         Pending(t.passes) \subseteq Pending(s.passes),
         Looping(t.passes) \subseteq Looping(s.passes),
         \/ Pending(t.passes) # Pending(s.passes)
         \/ Looping(t.passes) # Looping(s.passes)
  PROVE  Work(t) < Work(s)
<1> DEFINE P == Pending(s.passes)
           Q == Pending(t.passes)
           L == Looping(s.passes)
           M == Looping(t.passes)
<1>1. IsFiniteSet(P) /\ IsFiniteSet(L)
  BY WorkIsFinite
<1>2. Q \in SUBSET P /\ M \in SUBSET L /\ (Q # P \/ M # L)
  OBVIOUS
<1>3. Work(s) = Cardinality(P) + Cardinality(L) /\ Work(t) = Cardinality(Q) + Cardinality(M)
  BY DEF Work
<1> HIDE DEF P, Q, L, M
<1>4. /\ IsFiniteSet(Q) /\ Cardinality(Q) <= Cardinality(P)
      /\ Cardinality(P) = Cardinality(Q) => P = Q
  BY <1>1, <1>2, FS_Subset
<1>5. /\ IsFiniteSet(M) /\ Cardinality(M) <= Cardinality(L)
      /\ Cardinality(L) = Cardinality(M) => L = M
  BY <1>1, <1>2, FS_Subset
<1>6. /\ Cardinality(P) \in Nat /\ Cardinality(Q) \in Nat
      /\ Cardinality(L) \in Nat /\ Cardinality(M) \in Nat
  BY <1>1, <1>4, <1>5, FS_CardinalityType
<1> QED BY <1>2, <1>3, <1>4, <1>5, <1>6

\* The handler goes on, or Bull takes, finishes or fails the job.
LEMMA Steps ==
  ASSUME NEW s, NEW t, Typed(s), t.fails = s.fails, t.stalls = s.stalls,
         \/ JobRank(t.job) < JobRank(s.job) /\ t.phase = s.phase
         \/ JobRank(t.job) <= JobRank(s.job) /\ PhaseRank(t.phase) < PhaseRank(s.phase),
         JobRank(t.job) \in Nat, PhaseRank(t.phase) \in Nat
  PROVE  Beginnings(t) < Beginnings(s)
  BY Ranks DEF Beginnings

LEMMA StepRuns ==
  ASSUME Shape, NEW b \in Broadcasts, Typed(Of(b)), Consistent(Of(b)), StepOf(b)
  PROVE  Runs(Of(b), Of(b)')
<1> USE DEF Move, SetJob
<1> DEFINE s == Of(b)
           t == Of(b)'
<1> SUFFICES Runs(s, t)
  OBVIOUS
<1>0. Typed(s) /\ Consistent(s)
  OBVIOUS
<1>1. CASE Broadcast(b)
  <2>1. /\ s.phase = "none" /\ t.phase \in {"asking", "direct"}
        /\ t.job = s.job /\ t.fails = s.fails /\ t.stalls = s.stalls
    BY <1>1 DEF Broadcast, Shape, PerBroadcast, Of
  <2> HIDE DEF s, t
  <2>2. PhaseRank(t.phase) < PhaseRank(s.phase) /\ PhaseRank(t.phase) \in Nat
    BY <2>1 DEF PhaseRank
  <2> QED BY <1>0, <2>1, <2>2, Ranks, Steps DEF Runs
<1>2. CASE Enqueue(b) \/ EnqueueFails(b)
  <2>1. /\ s.phase = "asking" /\ t.phase \in {"waiting", "direct"}
        /\ t.job \in {s.job, "waiting"} /\ t.fails = s.fails /\ t.stalls = s.stalls
    BY <1>2 DEF Enqueue, EnqueueFails, Shape, PerBroadcast, Of
  <2> HIDE DEF s, t
  <2>2. s.job = "none"
    BY <1>0, <2>1 DEF Consistent, HandlerWalksOnce
  <2>3. PhaseRank(t.phase) < PhaseRank(s.phase) /\ PhaseRank(t.phase) \in Nat
    BY <2>1 DEF PhaseRank
  <2>4. JobRank(t.job) <= JobRank(s.job) /\ JobRank(t.job) \in Nat
    BY <2>1, <2>2 DEF JobRank
  <2> QED BY <1>0, <2>1, <2>3, <2>4, Steps DEF Runs
<1>3. CASE JobFinished(b) \/ JobFailed(b)
  <2>1. /\ s.phase = "waiting" /\ t.phase \in {"reported", "direct"}
        /\ t.job = s.job /\ t.fails = s.fails /\ t.stalls = s.stalls
    BY <1>3 DEF JobFinished, JobFailed, Shape, PerBroadcast, Of
  <2> HIDE DEF s, t
  <2>2. PhaseRank(t.phase) < PhaseRank(s.phase) /\ PhaseRank(t.phase) \in Nat
    BY <2>1 DEF PhaseRank
  <2> QED BY <1>0, <2>1, <2>2, Ranks, Steps DEF Runs
<1>4. CASE StartRun(b)
  <2>1. /\ s.job = "waiting" /\ t.job = "active"
        /\ t.phase = s.phase /\ t.fails = s.fails /\ t.stalls = s.stalls
    BY <1>4 DEF StartRun, Shape, PerBroadcast, Of
  <2> HIDE DEF s, t
  <2>2. JobRank(t.job) < JobRank(s.job) /\ JobRank(t.job) \in Nat
    BY <2>1 DEF JobRank
  <2> QED BY <1>0, <2>1, <2>2, Ranks, Steps DEF Runs
\* One attempt or restart less outweighs that the job waits again.
<1>5. CASE TimeOut(b) \/ Stall(b)
  <2>1. /\ s.job = "active" /\ t.job \in {"waiting", "failed"} /\ t.phase = s.phase
        /\ \/ t.fails = s.fails + 1 /\ t.stalls = s.stalls
           \/ t.fails = s.fails /\ t.stalls = s.stalls + 1
    BY <1>5 DEF TimeOut, Stall, Shape, PerBroadcast, Of
  <2> HIDE DEF s, t
  <2>2. JobRank(s.job) = 1 /\ JobRank(t.job) \in 0..2 /\ PhaseRank(t.phase) = PhaseRank(s.phase)
    BY <2>1 DEF JobRank
  <2>3. Beginnings(t) < Beginnings(s)
    BY <1>0, <2>1, <2>2, Ranks DEF Beginnings
  <2> QED BY <2>3 DEF Runs
\* Steps of a pass.
<1>k. ASSUME NEW k \in DOMAIN passes[b]
      PROVE  /\ k \in DOMAIN s.passes /\ s.passes[k] \in Pass /\ s.passes[k] = passes[b][k]
             /\ s.passes \in Seq(Pass)
  <2>1. s.passes \in Seq(Pass) /\ k \in DOMAIN s.passes /\ s.passes = passes[b]
    BY <1>0, <1>k DEF Typed, Of
  <2> HIDE DEF s
  <2> QED BY <2>1, ElementOfSeq, LenProperties
<1>6. ASSUME NEW k \in DOMAIN passes[b], EndRun(b, k)
      PROVE  Runs(s, t)
  <2>1. k \in DOMAIN s.passes /\ s.passes[k].on /\ s.passes \in Seq(Pass)
    BY <1>k, <1>6 DEF EndRun
  <2>2. t.phase = s.phase /\ t.fails = s.fails /\ t.stalls = s.stalls
    BY <1>6 DEF EndRun, Shape, PerBroadcast, Of
  <2>3. CASE job[b] = "active" /\ k = run[b]
    <3>1. s.job = "active" /\ t.job = "completed"
      BY <1>6, <2>3 DEF EndRun, Shape, PerBroadcast, Of
    <3> HIDE DEF s, t
    <3>2. JobRank(t.job) < JobRank(s.job) /\ JobRank(t.job) \in Nat
      BY <3>1 DEF JobRank
    <3> QED BY <1>0, <2>2, <3>2, Ranks, Steps DEF Runs
  <2>4. CASE ~(job[b] = "active" /\ k = run[b])
    <3>1. t.job = s.job /\ t.passes = [s.passes EXCEPT ![k] = Over(@)]
      BY <1>6, <2>4 DEF EndRun, Shape, PerBroadcast, Of
    <3> HIDE DEF s, t
    <3>2. Beginnings(t) = Beginnings(s)
      BY <2>2, <3>1 DEF Beginnings
    <3>3. /\ DOMAIN t.passes = DOMAIN s.passes
          /\ \A j \in DOMAIN s.passes \ {k} : t.passes[j] = s.passes[j]
          /\ t.passes[k] = Over(s.passes[k])
      BY <2>1, <3>1
    <3>4. t.passes[k].todo = {} /\ t.passes[k].on = FALSE
      BY <1>k, <1>6, <3>3 DEF Over, Pass
    <3>5. Pending(t.passes) \subseteq Pending(s.passes)
      BY <2>1, <3>3, <3>4 DEF Pending
    <3>6. /\ Looping(t.passes) \subseteq Looping(s.passes)
          /\ k \in Looping(s.passes) /\ k \notin Looping(t.passes)
      BY <2>1, <3>3, <3>4 DEF Looping
    <3> QED BY <2>1, <3>2, <3>5, <3>6, LessWork DEF Runs
  <2> QED BY <2>3, <2>4
<1>7. ASSUME NEW k \in DOMAIN passes[b], EndDirect(b, k)
      PROVE  Runs(s, t)
  <2>1. /\ k \in DOMAIN s.passes /\ s.passes[k].on /\ s.passes[k].by = "handler"
    BY <1>k, <1>7 DEF EndDirect
  <2>2. /\ t.phase = "reported"
        /\ t.job = s.job /\ t.fails = s.fails /\ t.stalls = s.stalls
    BY <1>7 DEF EndDirect, Shape, PerBroadcast, Of
  <2> HIDE DEF s, t
  <2>3. s.phase = "direct"
    BY <1>0, <2>1 DEF Consistent, HandlerWalksOnce
  <2>4. PhaseRank(t.phase) < PhaseRank(s.phase) /\ PhaseRank(t.phase) \in Nat
    BY <2>2, <2>3 DEF PhaseRank
  <2> QED BY <1>0, <2>2, <2>4, Ranks, Steps DEF Runs
<1>8. ASSUME NEW k \in DOMAIN passes[b], NEW c \in Clients, Send(b, k, c)
      PROVE  Runs(s, t)
  <2>1. /\ k \in DOMAIN s.passes /\ s.passes[k] \in Pass /\ s.passes \in Seq(Pass)
        /\ c \in s.passes[k].todo
    BY <1>k, <1>8 DEF Send
  <2>2. <<t.phase, t.job, t.fails, t.stalls>> = <<s.phase, s.job, s.fails, s.stalls>>
    BY <1>8 DEF Send, Shape, PerBroadcast, Of
  <2>3. PICK answered \in BOOLEAN :
          passes' = [passes EXCEPT ![b][k].todo = @ \ {c},
                                   ![b][k].ok = IF answered /\ IsRead(b, k) THEN @ \cup {c} ELSE @]
    BY <1>8 DEF Send
  <2> DEFINE q == [s.passes[k] EXCEPT !.todo = @ \ {c},
                                      !.ok = IF answered /\ IsRead(b, k) THEN @ \cup {c} ELSE @]
  <2>4. t.passes = [s.passes EXCEPT ![k] = q]
    BY <2>1, <2>3 DEF Shape, PerBroadcast, Of
  <2>5. q.todo = s.passes[k].todo \ {c} /\ q.on = s.passes[k].on
    BY <2>1 DEF Pass
  <2> HIDE DEF s, t, q
  <2>6. Beginnings(t) = Beginnings(s)
    BY <2>2 DEF Beginnings
  <2>7. /\ DOMAIN t.passes = DOMAIN s.passes /\ t.passes[k] = q
        /\ \A j \in DOMAIN s.passes \ {k} : t.passes[j] = s.passes[j]
    BY <2>1, <2>4
  <2>8. Looping(t.passes) = Looping(s.passes)
    BY <2>1, <2>5, <2>7 DEF Looping
  <2>9. /\ Pending(t.passes) \subseteq Pending(s.passes)
        /\ <<k, c>> \in Pending(s.passes) /\ <<k, c>> \notin Pending(t.passes)
    BY <2>1, <2>5, <2>7 DEF Pending
  <2> QED BY <2>1, <2>6, <2>8, <2>9, LessWork DEF Runs
<1> QED BY <1>1, <1>2, <1>3, <1>4, <1>5, <1>6, <1>7, <1>8 DEF StepOf, Handler, Walk

LEMMA OverIsEmpty == ASSUME NEW p \in Pass PROVE Over(p).todo = {} /\ Over(p).on = FALSE
  BY DEF Over, Pass

\* The process dies: a handler that waited is lost, and all passes with it.
LEMMA CrashRuns ==
  ASSUME DeliveryInv, Crash, NEW b \in Broadcasts
  PROVE  Runs(Of(b), Of(b)') \/ Rests(Of(b), Of(b)')
<1> DEFINE s == Of(b)
           t == Of(b)'
           waits == s.phase \in {"asking", "waiting", "direct"}
<1> SUFFICES Runs(s, t) \/ Rests(s, t)
  OBVIOUS
<1>1. /\ t.phase = IF waits THEN "lost" ELSE s.phase
      /\ t.passes = [k \in DOMAIN s.passes |-> Over(s.passes[k])]
      /\ <<t.job, t.fails, t.stalls, t.copies>> = <<s.job, s.fails, s.stalls, s.copies>>
  BY DEF Crash, Of
<1>2. Typed(s)
  BY DEF DeliveryInv
<1> HIDE DEF s, t
<1>3. CASE waits
  <2>1. PhaseRank(t.phase) < PhaseRank(s.phase) /\ PhaseRank(t.phase) \in Nat
    BY <1>1, <1>3 DEF PhaseRank
  <2> QED BY <1>1, <1>2, <2>1, Ranks, Steps DEF Runs
<1>4. CASE ~waits
  <2>1. t.phase = s.phase /\ Beginnings(t) = Beginnings(s)
    BY <1>1, <1>4 DEF Beginnings
  <2>2. s.passes \in Seq(Pass) /\ \A k \in DOMAIN s.passes : s.passes[k] \in Pass
    BY <1>2, ElementOfSeq, LenProperties DEF Typed
  <2>3. t.passes = [k \in DOMAIN s.passes |-> Over(s.passes[k])]
    BY <1>1
  <2>4. \A k \in DOMAIN s.passes : Over(s.passes[k]).todo = {} /\ Over(s.passes[k]).on = FALSE
    BY <2>2, OverIsEmpty
  <2>5. /\ DOMAIN t.passes = DOMAIN s.passes
        /\ \A k \in DOMAIN s.passes : t.passes[k].todo = {} /\ t.passes[k].on = FALSE
    BY <2>3, <2>4
  <2>6. Pending(t.passes) = {} /\ Looping(t.passes) = {}
    BY <2>5 DEF Pending, Looping
  <2> QED BY <1>1, <2>1, <2>2, <2>6, LessWork DEF Runs, Rests
<1> QED BY <1>3, <1>4

LEMMA StepRunsOut ==
  ASSUME DeliveryInv, [DeliveryNext]_deliveryVars
  PROVE  \A b \in Broadcasts : Runs(Of(b), Of(b)') \/ Rests(Of(b), Of(b)')
<1>1. Shape /\ \A b \in Broadcasts : Typed(Of(b)) /\ Consistent(Of(b))
  BY DEF DeliveryInv
<1>2. ASSUME NEW b \in Broadcasts, NEW d \in Broadcasts, StepOf(b)
      PROVE  Runs(Of(d), Of(d)') \/ Rests(Of(d), Of(d)')
  <2>1. CASE d = b
    BY <1>1, <1>2, <2>1, StepRuns
  <2>2. CASE d # b
    BY <1>1, <1>2, <2>2, OtherBroadcastsStay DEF Rests
  <2> QED BY <2>1, <2>2
<1>3. ASSUME NEW d \in Broadcasts, Pause \/ UNCHANGED deliveryVars
      PROVE  Rests(Of(d), Of(d)')
  <2>1. Of(d)' = Of(d)
    BY <1>3 DEF Pause, deliveryVars, Of
  <2> QED BY <2>1 DEF Rests
<1> QED BY <1>2, <1>3, CrashRuns DEF DeliveryNext, StepOf

\* Nothing that goes wrong makes a broadcast go on for ever: each step of it uses up
\* an attempt, a restart, a stage of the handler or of the job, a send or a loop.
THEOREM BroadcastsRunOutHolds == DeliverySpec => BroadcastsRunOut
<1>1. ASSUME DeliveryInv, [DeliveryNext]_deliveryVars
      PROVE  [\A b \in Broadcasts : Runs(Of(b), Of(b)') \/ Rests(Of(b), Of(b)')]_deliveryVars
  BY <1>1, StepRunsOut
<1> QED BY <1>1, DeliveryInvHolds, PTL DEF DeliverySpec, BroadcastsRunOut

\* And there is a number of such things at any time, bounded by the settings.
THEOREM RunsAreCountedHolds == DeliverySpec => []RunsAreCounted
<1>1. ASSUME DeliveryInv, NEW b \in Broadcasts
      PROVE  /\ Beginnings(Of(b)) \in 0..2 * (Attempts + MaxStalls + 1) + 7
             /\ Work(Of(b)) \in Nat
  <2> DEFINE s == Of(b)
  <2>1. Typed(s)
    BY <1>1 DEF DeliveryInv
  <2> HIDE DEF s
  <2>2. Beginnings(s) \in 0..2 * (Attempts + MaxStalls + 1) + 7
    BY <2>1, Ranks DEF Beginnings
  <2>3. Work(s) \in Nat
    BY <2>1, WorkIsFinite, FS_CardinalityType DEF Work, Typed
  <2> QED BY <2>2, <2>3 DEF s
<1>2. DeliveryInv => RunsAreCounted
  BY <1>1 DEF RunsAreCounted
<1> QED BY <1>2, DeliveryInvHolds, PTL
------------------------------------------------------------------------------
(* Delivery: no handler waits for nothing.                                 *)

Walks(p) == p.by = "handler" /\ p.on

Attends(s) ==
  /\ s.phase = "waiting" => s.job # "none"
  /\ s.phase = "direct" => \E k \in DOMAIN s.passes : Walks(s.passes[k])

\* The handler that waits for a job waits for one that Redis has and that, while it
\* is active, is a run of Bull's; the one that sends by itself has a loop that goes
\* on.  So whatever a broadcast waits for there is a step to come: of the queue, of
\* Bull, or of a pass.
WaitsForSomething ==
  \A b \in Broadcasts :
    /\ phase[b] = "waiting" =>
         /\ job[b] # "none"
         /\ job[b] = "active" => run[b] \in DOMAIN passes[b] /\ passes[b][run[b]].by = "job"
    /\ phase[b] = "direct" =>
         \E k \in DOMAIN passes[b] : passes[b][k].by = "handler" /\ passes[b][k].on

\* The handler's loop goes on as long as only other passes come or change.
LEMMA WalkStays ==
  ASSUME NEW s, NEW t, Attends(s), t.phase = s.phase, t.job = s.job \/ t.job # "none",
         \A k \in DOMAIN s.passes :
           Walks(s.passes[k]) => k \in DOMAIN t.passes /\ Walks(t.passes[k])
  PROVE  Attends(t)
  BY DEF Attends

LEMMA WalkBegins ==
  ASSUME NEW s, NEW t, Typed(s), t.list \in SUBSET Clients, t.phase = "direct",
         t.passes = Append(s.passes, NewPass("handler", t.list))
  PROVE  Attends(t)
<1>1. s.passes \in Seq(Pass) /\ NewPass("handler", t.list) \in Pass
  BY DEF Typed, NewPass, Pass
<1>2. Len(s.passes) + 1 \in DOMAIN t.passes
  BY <1>1, Added
<1>3. Walks(t.passes[Len(s.passes) + 1])
  BY <1>1, Added DEF NewPass, Walks
<1> QED BY <1>2, <1>3 DEF Attends

\* A pass is replaced by one that walks if it did.
LEMMA WalkIsKept ==
  ASSUME NEW s, NEW t, Typed(s), Attends(s), NEW k \in DOMAIN s.passes, NEW q,
         t.passes = [s.passes EXCEPT ![k] = q], Walks(s.passes[k]) => Walks(q),
         t.phase = s.phase, t.job = s.job \/ t.job # "none"
  PROVE  Attends(t)
<1>1. \A j \in DOMAIN s.passes :
        Walks(s.passes[j]) => j \in DOMAIN t.passes /\ Walks(t.passes[j])
  OBVIOUS
<1> QED BY <1>1, WalkStays

LEMMA StepAttends ==
  ASSUME Shape, NEW b \in Broadcasts, Typed(Of(b)), Consistent(Of(b)), Attends(Of(b)), StepOf(b)
  PROVE  Attends(Of(b)')
<1> USE DEF Move, SetJob
<1> DEFINE s == Of(b)
           t == Of(b)'
<1> SUFFICES Attends(t)
  OBVIOUS
<1>0. Typed(s) /\ Consistent(s) /\ Attends(s)
  OBVIOUS
<1>1. CASE Broadcast(b)
  <2>1. PICK whom \in SUBSET Clients :
          /\ list' = [list EXCEPT ![b] = whom]
          /\ IF queueUp /\ whom # {}
               THEN Move(b, "asking") /\ UNCHANGED passes
               ELSE Move(b, "direct") /\ WithPass(b, "handler", whom)
    BY <1>1 DEF Broadcast
  <2>2. t.list = whom
    BY <2>1 DEF Shape, PerBroadcast, Of
  <2>3. CASE queueUp /\ whom # {}
    <3>1. t.phase = "asking"
      BY <2>1, <2>3 DEF Shape, PerBroadcast, Of
    <3> HIDE DEF s, t
    <3> QED BY <3>1 DEF Attends
  <2>4. CASE ~(queueUp /\ whom # {})
    <3>1. t.phase = "direct" /\ t.passes = Append(s.passes, NewPass("handler", t.list))
      BY <2>1, <2>4 DEF Shape, PerBroadcast, Of, WithPass, NewPass
    <3> HIDE DEF s, t
    <3> QED BY <1>0, <2>2, <3>1, WalkBegins
  <2> QED BY <2>3, <2>4
<1>2. CASE Enqueue(b)
  <2>1. t.phase = "waiting" /\ t.job = "waiting"
    BY <1>2 DEF Enqueue, Shape, PerBroadcast, Of
  <2> HIDE DEF s, t
  <2> QED BY <2>1 DEF Attends
<1>3. CASE EnqueueFails(b) \/ JobFailed(b)
  <2>1. /\ t.phase = "direct" /\ t.list = s.list
        /\ t.passes = Append(s.passes, NewPass("handler", t.list))
    BY <1>3 DEF EnqueueFails, JobFailed, Shape, PerBroadcast, Of, WithPass, NewPass
  <2>2. t.list \in SUBSET Clients
    BY <1>0, <2>1 DEF Typed
  <2> HIDE DEF s, t
  <2> QED BY <1>0, <2>1, <2>2, WalkBegins
<1>4. CASE JobFinished(b)
  <2>1. t.phase = "reported"
    BY <1>4 DEF JobFinished, Shape, PerBroadcast, Of
  <2> HIDE DEF s, t
  <2> QED BY <2>1 DEF Attends
<1>5. CASE StartRun(b)
  <2>1. /\ t.job = "active" /\ t.phase = s.phase
        /\ t.passes = Append(s.passes, NewPass("job", s.list))
    BY <1>5 DEF StartRun, Shape, PerBroadcast, Of, WithPass, NewPass
  <2> HIDE DEF s, t
  <2>2. s.passes \in Seq(Pass) /\ NewPass("job", s.list) \in Pass
    BY <1>0 DEF Typed, NewPass, Pass
  <2>3. \A k \in DOMAIN s.passes : k \in DOMAIN t.passes /\ t.passes[k] = s.passes[k]
    BY <2>1, <2>2, Added
  <2> QED BY <1>0, <2>1, <2>3, WalkStays
\* Steps of a pass.
<1>k. ASSUME NEW k \in DOMAIN passes[b]
      PROVE  k \in DOMAIN s.passes /\ s.passes[k] \in Pass /\ s.passes[k] = passes[b][k]
  <2>1. s.passes \in Seq(Pass) /\ k \in DOMAIN s.passes /\ s.passes = passes[b]
    BY <1>0, <1>k DEF Typed, Of
  <2> HIDE DEF s
  <2> QED BY <2>1, ElementOfSeq, LenProperties
<1>6. CASE TimeOut(b) \/ Stall(b)
  <2> DEFINE k == s.run
             q == [s.passes[k] EXCEPT !.ok = {}]
  <2>1. s.job = "active" /\ t.phase = s.phase /\ t.job \in {"waiting", "failed"}
    BY <1>6 DEF TimeOut, Stall, Shape, PerBroadcast, Of
  <2>2. k \in DOMAIN passes[b]
    BY <1>0, <2>1 DEF Consistent, RunIsOfJob, Of
  <2>3. t.passes = [s.passes EXCEPT ![k] = q]
    BY <1>6 DEF TimeOut, Stall, Shape, PerBroadcast, Of, ForgetResults
  <2>4. k \in DOMAIN s.passes /\ s.passes[k] \in Pass
    BY <1>k, <2>2
  <2> HIDE DEF s, t, k
  <2>5. Walks(s.passes[k]) => Walks(q)
    BY <2>4 DEF Pass, Walks
  <2> HIDE DEF q
  <2> QED BY <1>0, <2>1, <2>3, <2>4, <2>5, WalkIsKept
<1>7. ASSUME NEW k \in DOMAIN passes[b], EndRun(b, k)
      PROVE  Attends(t)
  <2>1. k \in DOMAIN s.passes /\ s.passes[k].by = "job"
    BY <1>k, <1>7 DEF EndRun
  <2>2. t.phase = s.phase /\ (t.job = s.job \/ t.job = "completed")
    BY <1>7 DEF EndRun, Shape, PerBroadcast, Of
  <2>3. \E q : t.passes = [s.passes EXCEPT ![k] = q]
    <3>1. t.passes = [s.passes EXCEPT ![k] = t.passes[k]]
      BY <1>7 DEF EndRun, Shape, PerBroadcast, Of
    <3> QED BY <3>1
  <2> HIDE DEF s, t
  <2> QED BY <1>0, <2>1, <2>2, <2>3, WalkIsKept DEF Walks
<1>8. ASSUME NEW k \in DOMAIN passes[b], EndDirect(b, k)
      PROVE  Attends(t)
  <2>1. t.phase = "reported"
    BY <1>8 DEF EndDirect, Shape, PerBroadcast, Of
  <2> HIDE DEF s, t
  <2> QED BY <2>1 DEF Attends
<1>9. ASSUME NEW k \in DOMAIN passes[b], NEW c \in Clients, Send(b, k, c)
      PROVE  Attends(t)
  <2>1. k \in DOMAIN s.passes /\ s.passes[k] \in Pass
    BY <1>k
  <2>2. t.phase = s.phase /\ t.job = s.job
    BY <1>9 DEF Send, Shape, PerBroadcast, Of
  <2>3. PICK answered \in BOOLEAN :
          passes' = [passes EXCEPT ![b][k].todo = @ \ {c},
                                   ![b][k].ok = IF answered /\ IsRead(b, k) THEN @ \cup {c} ELSE @]
    BY <1>9 DEF Send
  <2> DEFINE q == [s.passes[k] EXCEPT !.todo = @ \ {c},
                                      !.ok = IF answered /\ IsRead(b, k) THEN @ \cup {c} ELSE @]
  <2>4. t.passes = [s.passes EXCEPT ![k] = q]
    BY <2>1, <2>3 DEF Shape, PerBroadcast, Of
  <2>5. Walks(s.passes[k]) => Walks(q)
    BY <2>1 DEF Pass, Walks
  <2> HIDE DEF s, t, q
  <2> QED BY <1>0, <2>1, <2>2, <2>4, <2>5, WalkIsKept
<1> QED BY <1>1, <1>2, <1>3, <1>4, <1>5, <1>6, <1>7, <1>8, <1>9 DEF StepOf, Handler, Walk

LEMMA AllAttend == DeliverySpec => [](\A b \in Broadcasts : Attends(Of(b)))
<1> DEFINE A == \A b \in Broadcasts : Attends(Of(b))
<1>1. DeliveryInit => A
  BY DEF DeliveryInit, Of, Attends
<1>2. ASSUME DeliveryInv, A, [DeliveryNext]_deliveryVars PROVE A'
  <2>1. Shape /\ \A b \in Broadcasts : Typed(Of(b)) /\ Consistent(Of(b)) /\ Attends(Of(b))
    BY <1>2 DEF DeliveryInv
  <2>2. ASSUME NEW b \in Broadcasts, StepOf(b) PROVE A'
    <3>1. Attends(Of(b)')
      BY <2>1, <2>2, StepAttends
    <3>2. \A d \in Broadcasts \ {b} : Of(d)' = Of(d)
      BY <2>1, <2>2, OtherBroadcastsStay
    <3>3. ASSUME NEW d \in Broadcasts PROVE Attends(Of(d)')
      BY <2>1, <3>1, <3>2
    <3> QED BY <3>3
  <2>3. CASE Pause \/ UNCHANGED deliveryVars
    <3>1. ASSUME NEW d \in Broadcasts PROVE Attends(Of(d)')
      <4>1. Of(d)' = Of(d)
        BY <2>3 DEF Pause, deliveryVars, Of
      <4> QED BY <2>1, <4>1
    <3> QED BY <3>1
  <2>4. CASE Crash
    <3>1. ASSUME NEW d \in Broadcasts PROVE Attends(Of(d)')
      <4>1. phase[d] \in {"none", "asking", "waiting", "direct", "reported", "lost"}
        BY <2>1 DEF Typed, Of
      <4>2. Of(d)'.phase \notin {"waiting", "direct"}
        BY <2>4, <4>1 DEF Crash, Of
      <4> QED BY <4>2 DEF Attends
    <3> QED BY <3>1
  <2> QED BY <1>2, <2>2, <2>3, <2>4 DEF DeliveryNext, StepOf
<1> QED BY <1>1, <1>2, DeliveryInvHolds, PTL DEF DeliverySpec

\* With any clients, and wherever Redis, Bull or the process fail, no handler is left
\* waiting for a job that nobody has, or in a loop that is over.
THEOREM WaitsForSomethingHolds == DeliverySpec => []WaitsForSomething
<1>1. DeliveryInv /\ (\A b \in Broadcasts : Attends(Of(b))) => WaitsForSomething
  BY DEF DeliveryInv, Consistent, RunIsOfJob, Attends, Walks, Of, WaitsForSomething
<1> QED BY <1>1, AllAttend, DeliveryInvHolds, PTL
==============================================================================
