------------------------- MODULE DraftReminders_proofs -------------------------
(***************************************************************************)
(* Theorems about DraftReminders, for any number of clients, blocked or    *)
(* not, of overlapping runs, of writes of a draft and of lost answers.     *)
(***************************************************************************)
EXTENDS DraftReminders, FiniteSetTheorems, TLAPS

------------------------------------------------------------------------------
(* The inductive invariant.                                                *)

\* A draft that lacks a mark.
Wants(c, k) == row[c].flow = "lead" /\ k \notin row[c].marks

\* An entry of a list about what the row of its client still is.
IsFresh(l) == l.episode = episode[l.client]

Entries(s) == {s.to} \cup s.todo

\* The runs that have reached client c about its present draft and have yet to
\* mark its row.
Arrived(c, k) ==
  {r \in Runs : /\ run[r] # Idle /\ run[r].delivered
                /\ run[r].key = k /\ run[r].to.client = c /\ IsFresh(run[r].to)}

\* The runs that have yet to send client c the reminder about it.
Waits(c, k) ==
  {r \in Runs : /\ run[r] # Idle /\ run[r].key = k
                /\ \/ ~run[r].delivered /\ run[r].to.client = c /\ IsFresh(run[r].to)
                   \/ \E l \in run[r].todo : l.client = c /\ IsFresh(l)}

\* What a run has in hand names each client once, with a draft it has or had.
IsSound(s) ==
  /\ s.to \notin s.todo
  /\ \A l, m \in Entries(s) : l.client = m.client => l = m
  /\ \A l \in Entries(s) : l.episode <= episode[l.client]

ListsAreSound == \A r \in Runs : run[r] # Idle => IsSound(run[r])

DeliveredWasTold ==
  \A r \in Runs : run[r] # Idle /\ run[r].delivered /\ IsFresh(run[r].to) =>
    told[run[r].key][run[r].to.client] > 0

\* A draft without its mark was told of by those that are about to mark it and
\* by mishaps; and who waits will not tell it more often than there are runs.
CountsHold ==
  \A c \in Clients, k \in Keys :
    /\ Wants(c, k) => told[k][c] <= Cardinality(Arrived(c, k)) + mishaps[c]
    /\ told[k][c] + Cardinality(Waits(c, k)) <= Cardinality(Runs) + mishaps[c]

DraftInv == ListsAreSound /\ DeliveredWasTold /\ CountsHold

\* Of clients that leave alone what a run has in hand, all lists are fresh, and so
\* the marks are true.
ListsAreFresh == \A r \in Runs : run[r] # Idle => \A l \in Entries(run[r]) : IsFresh(l)

MarksHold == \A c \in Clients, k \in Keys : MarkedWasTold(c, k)

------------------------------------------------------------------------------
(* What the queries and the runs yield.                                    *)

LEMMA DueType ==
  ASSUME TypeOK, NEW k \in Keys
  PROVE  Due(k) \subseteq Listed
BY DEF Due, Listed, TypeOK

LEMMA OverType ==
  ASSUME NEW k \in Keys, NEW list \in SUBSET Listed, NEW s \in Over(k, list)
  PROVE  /\ s \in Sending /\ ~s.delivered /\ s # Idle
         /\ s.key = k /\ s.to \in list /\ s.todo = list \ {s.to}
<1>1. PICK l \in list :
        s = [key |-> k, to |-> l, todo |-> list \ {l}, delivered |-> FALSE]
  BY DEF Over
<1> QED BY <1>1 DEF Sending, Idle, Keys

\* A run ends, goes on with its list, or takes up a fresh one.
LEMMA StartCases ==
  ASSUME NEW s \in Listing15m
  PROVE  s = Idle \/ \E k \in Keys : s \in Over(k, Due(k))
<1>1. "15m" \in Keys /\ "24h" \in Keys
  BY DEF Keys
<1>2. Listing15m \in {{Idle}, Over("24h", Due("24h")), Over("15m", Due("15m"))}
  BY DEF Listing15m, Listing24h
<1> QED BY <1>1, <1>2

LEMMA FollowingCases ==
  ASSUME NEW m, NEW s \in Following(m)
  PROVE  \/ s = Idle
         \/ s \in Over(m.key, m.todo)
         \/ m.key = "15m" /\ s \in Over("24h", Due("24h"))
BY DEF Following, Listing24h

LEMMA SendingType ==
  ASSUME TypeOK, NEW r \in Runs, run[r] # Idle
  PROVE  /\ run[r] \in Sending
         /\ run[r].key \in Keys /\ run[r].to \in Listed
         /\ run[r].to.client \in Clients
         /\ run[r].todo \in SUBSET Listed /\ run[r].delivered \in BOOLEAN
BY DEF TypeOK, Sending, Listed

LEMMA FollowingType ==
  ASSUME TypeOK, NEW r \in Runs, run[r] # Idle, NEW s \in Following(run[r])
  PROVE  s \in Sending \cup {Idle}
<1>1. "24h" \in Keys
  BY DEF Keys
<1> QED BY <1>1, FollowingCases, SendingType, DueType, OverType

\* A count of mishaps never falls, and stays within its bound where that is
\* the guard.
LEMMA CountType ==
  ASSUME TypeOK, NEW R \in SUBSET Runs, NEW c \in Clients
  PROVE  /\ Unnoted(R, c) \in Nat
         /\ Count(R)[c] = mishaps[c] + Unnoted(R, c)
         /\ mishaps[c] \in Nat
<1>1. IsFiniteSet(R)
  BY DraftsAssumption, FS_Subset
<1>2. {r \in R : /\ run[r] # Idle /\ run[r].delivered
                 /\ run[r].to.client = c /\ IsCurrent(r)} \subseteq R
  OBVIOUS
<1>3. Unnoted(R, c) \in Nat
  BY <1>1, <1>2, FS_Subset, FS_CardinalityType DEF Unnoted
<1> QED BY <1>3, DraftsAssumption DEF Count, TypeOK

LEMMA CountWithin ==
  ASSUME TypeOK, NEW R \in SUBSET Runs, \A c \in Clients : Count(R)[c] <= MaxMishaps
  PROVE  Count(R) \in [Clients -> 0..MaxMishaps]
<1>1. \A c \in Clients : mishaps[c] + Unnoted(R, c) \in 0..MaxMishaps
  BY CountType, DraftsAssumption
<1> QED BY <1>1 DEF Count

------------------------------------------------------------------------------
(* Type correctness.                                                       *)

LEMMA RunStepType ==
  ASSUME TypeOK, NEW r \in Runs, RunStep(r)
  PROVE  TypeOK'
<1>1. CASE Start(r)
  <2>1. PICK s \in Listing15m : run' = [run EXCEPT ![r] = s]
    BY <1>1 DEF Start, GoOn
  <2>2. s \in Sending \cup {Idle}
    BY <2>1, StartCases, DueType, OverType
  <2> QED BY <1>1, <2>1, <2>2 DEF Start, TypeOK
<1>2. CASE Deliver(r)
  <2>1. [run[r] EXCEPT !.delivered = TRUE] \in Sending
    BY <1>2, SendingType DEF Deliver, Sending
  <2>2. told' \in [Keys -> [Clients -> Nat]]
    BY <1>2, SendingType DEF Deliver, TypeOK
  <2> QED BY <1>2, <2>1, <2>2 DEF Deliver, TypeOK
<1>3. CASE SendFails(r)
  <2>1. PICK s \in Following(run[r]) : run' = [run EXCEPT ![r] = s]
    BY <1>3 DEF SendFails, GoOn
  <2>2. mishaps' \in [Clients -> 0..MaxMishaps]
    BY <1>3, CountWithin DEF SendFails
  <2> QED BY <1>3, <2>1, <2>2, FollowingType DEF SendFails, TypeOK
<1>4. CASE Acknowledge(r)
  <2>1. PICK s \in Following(run[r]) : run' = [run EXCEPT ![r] = s]
    BY <1>4 DEF Acknowledge, GoOn
  <2> DEFINE c == run[r].to.client
  <2>2. row[c] # NoRow => [row[c] EXCEPT !.marks = @ \cup {run[r].key}] \in Row
    BY <1>4, SendingType DEF Acknowledge, TypeOK, Row
  <2>3. row' \in [Clients -> Row \cup {NoRow}]
    BY <1>4, <2>2 DEF Acknowledge, TypeOK
  <2> QED BY <1>4, <2>1, <2>3, FollowingType DEF Acknowledge, TypeOK
<1> QED BY <1>1, <1>2, <1>3, <1>4 DEF RunStep

LEMMA ClientStepType ==
  ASSUME TypeOK, NEW c \in Clients, ClientStep(c)
  PROVE  TypeOK'
<1>1. /\ SetRow(c, "lead") \in Row /\ SetRow(c, "other") \in Row
      /\ row[c] # NoRow => row[c] \in Row
  BY DEF SetRow, Row, Ages, TypeOK
<1>2. CASE WriteDraft(c)
  BY <1>1, <1>2, DraftsAssumption DEF WriteDraft, NewEpisode, TypeOK
<1>3. CASE EndDraft(c)
  BY <1>1, <1>3 DEF EndDraft, TypeOK
<1>4. CASE GrowOlder(c)
  <2>1. [row[c] EXCEPT !.age = @ + 1] \in Row
    BY <1>1, <1>4 DEF GrowOlder, Row, Ages, Expired
  <2> QED BY <1>4, <2>1 DEF GrowOlder, TypeOK
<1>5. CASE ClearExpired(c)
  BY <1>5 DEF ClearExpired, TypeOK
<1> QED BY <1>2, <1>3, <1>4, <1>5 DEF ClientStep

LEMMA StepType ==
  ASSUME TypeOK, [Next]_vars
  PROVE  TypeOK'
<1>1. CASE Restart
  <2>1. mishaps' \in [Clients -> 0..MaxMishaps]
    BY <1>1, CountWithin DEF Restart
  <2> QED BY <1>1, <2>1 DEF Restart, TypeOK
<1>2. CASE UNCHANGED vars
  BY <1>2 DEF vars, TypeOK
<1> QED BY <1>1, <1>2, RunStepType, ClientStepType DEF Next

\* The rows, the runs and the counts keep their types.
THEOREM TypeCorrect == Spec => []TypeOK
<1>1. Init => TypeOK
  BY DraftsAssumption DEF Init, TypeOK
<1> QED BY <1>1, StepType, PTL DEF Spec

------------------------------------------------------------------------------
(* The counts.                                                             *)

LEMMA RunsFinite ==
  ASSUME NEW S \in SUBSET Runs
  PROVE  IsFiniteSet(S) /\ Cardinality(S) \in Nat
BY DraftsAssumption, FS_Subset, FS_CardinalityType

LEMMA WithoutOne ==
  ASSUME NEW S \in SUBSET Runs, NEW r
  PROVE  Cardinality(S) <= Cardinality(S \ {r}) + 1
<1>1. CASE r \in S
  BY <1>1, RunsFinite, FS_RemoveElement
<1>2. CASE r \notin S
  <2>1. S \ {r} = S
    BY <1>2
  <2> QED BY <2>1, RunsFinite
<1> QED BY <1>1, <1>2

\* Two kinds of runs that no run is of at once fit into the timer.
LEMMA Apart ==
  ASSUME NEW S \in SUBSET Runs, NEW T \in SUBSET Runs, S \cap T = {}
  PROVE  Cardinality(S) + Cardinality(T) <= Cardinality(Runs)
<1>1. IsFiniteSet(S) /\ IsFiniteSet(T) /\ IsFiniteSet(Runs)
  BY RunsFinite
<1>2. Cardinality(S \cup T) =
        Cardinality(S) + Cardinality(T) - Cardinality(S \cap T)
  BY <1>1, FS_Union
<1>3. Cardinality(S \cap T) = 0
  BY FS_EmptySet
<1>4. Cardinality(S \cup T) <= Cardinality(Runs)
  BY <1>1, FS_Subset
<1> QED BY <1>2, <1>3, <1>4, RunsFinite

\* A run with a sound list never waits for a client it has reached.
LEMMA ReachedOrWaiting ==
  ASSUME ListsAreSound, NEW c \in Clients, NEW k \in Keys
  PROVE  Arrived(c, k) \cap Waits(c, k) = {}
<1>1. ASSUME NEW r \in Arrived(c, k), r \in Waits(c, k) PROVE FALSE
  <2>1. /\ r \in Runs /\ run[r] # Idle /\ run[r].delivered /\ run[r].to.client = c
    BY DEF Arrived
  <2>2. PICK l \in run[r].todo : l.client = c
    BY <1>1, <2>1 DEF Waits
  <2> QED BY <2>1, <2>2 DEF ListsAreSound, IsSound, Entries
<1> QED BY <1>1

\* What a run may turn to: what it waits to send already, or drafts that lack
\* the mark of another reminder than its present one.
MayTurn(r, s) ==
  s = Idle \/ /\ s \in Sending /\ ~s.delivered /\ IsSound(s)
              /\ \A l \in Entries(s) : IsFresh(l) =>
                   \/ r \in Waits(l.client, s.key)
                   \/ Wants(l.client, s.key) /\ (run[r] # Idle => run[r].key # s.key)

\* A fresh listing.
LEMMA DueIsSound ==
  ASSUME TypeOK, NEW k \in Keys, NEW s \in Over(k, Due(k))
  PROVE  /\ s \in Sending /\ ~s.delivered /\ s.key = k /\ IsSound(s)
         /\ \A l \in Entries(s) : IsFresh(l) /\ Wants(l.client, k)
<1>1. /\ s \in Sending /\ ~s.delivered /\ s.key = k
      /\ s.to \in Due(k) /\ s.todo = Due(k) \ {s.to}
  BY DueType, OverType
<1>2. \A l \in Due(k) : /\ l = [client |-> l.client, episode |-> episode[l.client]]
                        /\ l.episode = episode[l.client] /\ Wants(l.client, k)
                        /\ l.client \in Clients
  BY DEF Due, Wants
<1>3. Entries(s) \subseteq Due(k)
  BY <1>1 DEF Entries
<1>4. \A c \in Clients : episode[c] \in Nat
  BY DraftsAssumption DEF TypeOK
<1>5. \A l, m \in Due(k) : l.client = m.client => l = m
  BY <1>2
<1>6. \A l \in Due(k) : l.episode <= episode[l.client]
  BY <1>2, <1>4
<1> QED BY <1>1, <1>2, <1>3, <1>5, <1>6 DEF IsSound, IsFresh

LEMMA FreshMayTurn ==
  ASSUME TypeOK, NEW r \in Runs, NEW k \in Keys, run[r] # Idle => run[r].key # k,
         NEW s \in Over(k, Due(k))
  PROVE  MayTurn(r, s)
BY DueIsSound DEF MayTurn

\* A run goes on with the rest of its list.
LEMMA RestIsSound ==
  ASSUME TypeOK, ListsAreSound, NEW r \in Runs, run[r] # Idle,
         NEW s \in Over(run[r].key, run[r].todo)
  PROVE  /\ s \in Sending /\ ~s.delivered /\ s.key = run[r].key /\ IsSound(s)
         /\ Entries(s) \subseteq run[r].todo
<1>1. /\ s \in Sending /\ ~s.delivered /\ s.key = run[r].key
      /\ s.to \in run[r].todo /\ s.todo = run[r].todo \ {s.to}
  BY SendingType, OverType
<1>2. Entries(s) \subseteq Entries(run[r]) /\ Entries(s) \subseteq run[r].todo
  BY <1>1 DEF Entries
<1> QED BY <1>1, <1>2 DEF ListsAreSound, IsSound

LEMMA FollowingMayTurn ==
  ASSUME TypeOK, ListsAreSound, NEW r \in Runs, run[r] # Idle,
         NEW s \in Following(run[r])
  PROVE  MayTurn(r, s)
<1>1. CASE s = Idle
  BY <1>1 DEF MayTurn
<1>2. CASE s \in Over(run[r].key, run[r].todo)
  <2>1. \A l \in run[r].todo : IsFresh(l) => r \in Waits(l.client, run[r].key)
    BY DEF Waits
  <2> QED BY <1>2, <2>1, RestIsSound DEF MayTurn
<1>3. CASE run[r].key = "15m" /\ s \in Over("24h", Due("24h"))
  BY <1>3, FreshMayTurn DEF Keys
<1> QED BY <1>1, <1>2, <1>3, FollowingCases

\* A run turns to something else.  A reminder it had delivered has its mark, or
\* finds no draft to mark, or is a mishap.
LEMMA TurnKeepsInv ==
  ASSUME TypeOK, DraftInv, NEW r \in Runs, NEW s, MayTurn(r, s),
         run' = [run EXCEPT ![r] = s], UNCHANGED <<episode, told>>,
         \A c \in Clients : mishaps'[c] \in Nat /\ mishaps[c] <= mishaps'[c],
         \A c \in Clients, k \in Keys :
           /\ Wants(c, k)' => Wants(c, k)
           /\ r \in Arrived(c, k) => ~Wants(c, k)' \/ mishaps[c] < mishaps'[c]
  PROVE  DraftInv'
<1>1. \A q \in Runs : run'[q] = IF q = r THEN s ELSE run[q]
  BY DEF TypeOK
<1>2. ListsAreSound'
  BY <1>1 DEF DraftInv, ListsAreSound, IsSound, MayTurn
<1>3. DeliveredWasTold'
  BY <1>1 DEF DraftInv, DeliveredWasTold, MayTurn, IsFresh
<1>4. CountsHold'
  <2> SUFFICES ASSUME NEW c \in Clients, NEW k \in Keys
               PROVE  /\ Wants(c, k)' =>
                           told[k][c] <= Cardinality(Arrived(c, k)') + mishaps'[c]
                      /\ told[k][c] + Cardinality(Waits(c, k)')
                           <= Cardinality(Runs) + mishaps'[c]
    BY DEF CountsHold
  <2> DEFINE A == Arrived(c, k)
             W == Waits(c, k)
  <2>1. /\ A \in SUBSET Runs /\ W \in SUBSET Runs
        /\ Cardinality(A) \in Nat /\ Cardinality(W) \in Nat
        /\ Cardinality(Runs) \in Nat /\ told[k][c] \in Nat /\ mishaps[c] \in Nat
    <3>1. A \in SUBSET Runs /\ W \in SUBSET Runs
      BY DEF Arrived, Waits
    <3>2. told[k][c] \in Nat /\ mishaps[c] \in Nat
      BY DraftsAssumption DEF TypeOK
    <3> QED BY <3>1, <3>2, RunsFinite
  <2>2. /\ Wants(c, k) => told[k][c] <= Cardinality(A) + mishaps[c]
        /\ told[k][c] + Cardinality(W) <= Cardinality(Runs) + mishaps[c]
    BY DEF DraftInv, CountsHold
  <2>3. A' = A \ {r}
    BY <1>1 DEF Arrived, MayTurn, IsFresh
  <2>4. /\ Cardinality(A') \in Nat
        /\ Cardinality(A) <= Cardinality(A') + 1
    BY <2>1, <2>3, WithoutOne, RunsFinite
  <2>5. Wants(c, k)' => told[k][c] <= Cardinality(A') + mishaps'[c]
    <3> SUFFICES ASSUME Wants(c, k)'
                 PROVE  told[k][c] <= Cardinality(A') + mishaps'[c]
      OBVIOUS
    <3>1. told[k][c] <= Cardinality(A) + mishaps[c]
      BY <2>2
    <3>2. CASE r \in A
      <4>1. mishaps[c] < mishaps'[c]
        BY <3>2
      <4> HIDE DEF A
      <4> QED BY <2>1, <2>4, <3>1, <4>1
    <3>3. CASE r \notin A
      <4>1. A' = A
        BY <2>3, <3>3
      <4> HIDE DEF A
      <4> QED BY <2>1, <3>1, <4>1
    <3> QED BY <3>2, <3>3
  <2>6. told[k][c] + Cardinality(W') <= Cardinality(Runs) + mishaps'[c]
    <3>1. W' \subseteq W \cup {r}
      BY <1>1 DEF Waits, IsFresh
    <3>2. CASE W' \subseteq W
      <4>1. Cardinality(W') <= Cardinality(W) /\ Cardinality(W') \in Nat
        BY <2>1, <3>2, RunsFinite, FS_Subset
      <4> HIDE DEF W
      <4> QED BY <2>1, <2>2, <4>1
    <3>3. CASE r \in W' /\ r \notin W
      <4>1. /\ s # Idle /\ s.key = k
            /\ \E l \in Entries(s) : l.client = c /\ IsFresh(l)
        BY <1>1, <3>3 DEF Waits, Entries, IsFresh
      <4>2. Wants(c, k) /\ (run[r] # Idle => run[r].key # k)
        BY <3>3, <4>1 DEF MayTurn
      <4>3. A' = A
        BY <2>3, <4>2 DEF Arrived
      <4>4. A \cap W = {} /\ r \notin A
        BY <4>2, ReachedOrWaiting DEF DraftInv, Arrived
      <4>5. W' \cap A = {} /\ W' \in SUBSET Runs
        BY <2>1, <3>1, <4>4
      <4>6. Cardinality(W') + Cardinality(A) <= Cardinality(Runs)
        BY <2>1, <4>5, Apart
      <4>7. Cardinality(W') \in Nat /\ told[k][c] <= Cardinality(A) + mishaps[c]
        BY <2>2, <4>2, <4>5, RunsFinite
      <4> HIDE DEF A, W
      <4> QED BY <2>1, <4>6, <4>7
    <3> QED BY <3>1, <3>2, <3>3
  <2> QED BY <2>5, <2>6
<1> QED BY <1>2, <1>3, <1>4 DEF DraftInv

LEMMA StartKeepsInv ==
  ASSUME TypeOK, DraftInv, NEW r \in Runs, Start(r)
  PROVE  DraftInv'
<1>1. PICK s \in Listing15m : run' = [run EXCEPT ![r] = s]
  BY DEF Start, GoOn
<1>2. run[r] = Idle /\ UNCHANGED <<row, episode, told, mishaps>>
  BY DEF Start
<1>3. MayTurn(r, s)
  BY <1>2, StartCases, FreshMayTurn DEF MayTurn
<1>4. \A c \in Clients, k \in Keys : r \notin Arrived(c, k)
  BY <1>2 DEF Arrived
<1>5. \A c \in Clients : mishaps'[c] \in Nat /\ mishaps[c] <= mishaps'[c]
  BY <1>2, DraftsAssumption DEF TypeOK
<1>6. \A c \in Clients, k \in Keys : Wants(c, k)' => Wants(c, k)
  BY <1>2 DEF Wants
<1> QED BY <1>1, <1>2, <1>3, <1>4, <1>5, <1>6, TurnKeepsInv

LEMMA SendFailsKeepsInv ==
  ASSUME TypeOK, DraftInv, NEW r \in Runs, SendFails(r)
  PROVE  DraftInv'
<1>1. PICK s \in Following(run[r]) : run' = [run EXCEPT ![r] = s]
  BY DEF SendFails, GoOn
<1>2. /\ run[r] # Idle /\ UNCHANGED <<row, episode, told>>
      /\ mishaps' = Count({r})
  BY DEF SendFails
<1>3. MayTurn(r, s)
  BY <1>2, FollowingMayTurn DEF DraftInv
<1>4. \A c \in Clients : mishaps'[c] \in Nat /\ mishaps[c] <= mishaps'[c]
  BY <1>2, CountType
<1>5. \A c \in Clients, k \in Keys : r \in Arrived(c, k) => mishaps[c] < mishaps'[c]
  <2> SUFFICES ASSUME NEW c \in Clients, NEW k \in Keys, r \in Arrived(c, k)
               PROVE  mishaps[c] < mishaps'[c]
    OBVIOUS
  <2>1. IsCurrent(r)
    BY DEF Arrived, IsFresh, IsCurrent
  <2>2. {q \in {r} : /\ run[q] # Idle /\ run[q].delivered
                     /\ run[q].to.client = c /\ IsCurrent(q)} = {r}
    BY <2>1 DEF Arrived
  <2>3. Unnoted({r}, c) = 1
    BY <2>2, FS_Singleton DEF Unnoted
  <2> QED BY <1>2, <2>3, CountType
<1>6. \A c \in Clients, k \in Keys : Wants(c, k)' => Wants(c, k)
  BY <1>2 DEF Wants
<1> QED BY <1>1, <1>2, <1>3, <1>4, <1>5, <1>6, TurnKeepsInv

LEMMA AcknowledgeKeepsInv ==
  ASSUME TypeOK, DraftInv, NEW r \in Runs, Acknowledge(r)
  PROVE  DraftInv'
<1> DEFINE d == run[r].to.client
<1>1. PICK s \in Following(run[r]) : run' = [run EXCEPT ![r] = s]
  BY DEF Acknowledge, GoOn
<1>2. /\ run[r] # Idle /\ run[r].delivered /\ d \in Clients /\ run[r].key \in Keys
      /\ UNCHANGED <<episode, told, mishaps>>
  BY SendingType DEF Acknowledge
<1>3. MayTurn(r, s)
  BY <1>2, FollowingMayTurn DEF DraftInv
<1>4. \A c \in Clients : mishaps'[c] \in Nat /\ mishaps[c] <= mishaps'[c]
  BY <1>2, DraftsAssumption DEF TypeOK
<1>5. \A c \in Clients : \/ row'[c] = row[c] /\ (c = d => row[c] = NoRow)
                         \/ /\ c = d /\ row[c] # NoRow
                            /\ row'[c] = [row[c] EXCEPT !.marks = @ \cup {run[r].key}]
  BY <1>2 DEF Acknowledge, TypeOK
<1>6. \A c \in Clients : \/ row'[c] = row[c] /\ (c = d => row[c] = NoRow)
                         \/ /\ c = d /\ row'[c].flow = row[c].flow
                            /\ row'[c].marks = row[c].marks \cup {run[r].key}
  <2>1. ASSUME NEW c \in Clients PROVE row[c] = NoRow \/ row[c] \in Row
    BY DEF TypeOK
  <2>2. ASSUME NEW c \in Clients, c = d, row[c] # NoRow,
               row'[c] = [row[c] EXCEPT !.marks = @ \cup {run[r].key}]
        PROVE  row'[c].flow = row[c].flow /\ row'[c].marks = row[c].marks \cup {run[r].key}
    BY <2>1, <2>2 DEF Row
  <2> QED BY ONLY <1>5, <2>2
<1>7. \A c \in Clients, k \in Keys :
        /\ Wants(c, k)' => Wants(c, k)
        /\ r \in Arrived(c, k) => ~Wants(c, k)'
  BY <1>2, <1>6 DEF Wants, Arrived, NoRow
<1> QED BY <1>1, <1>2, <1>3, <1>4, <1>7, TurnKeepsInv

\* A delivery moves its run from those that wait to those that arrived.
LEMMA DeliverKeepsInv ==
  ASSUME TypeOK, DraftInv, NEW r \in Runs, Deliver(r)
  PROVE  DraftInv'
<1> DEFINE m == run[r]
           d == m.to.client
<1>1. m \in Sending /\ m.key \in Keys /\ d \in Clients /\ m # Idle /\ ~m.delivered
  BY SendingType DEF Deliver
<1>2. \A q \in Runs : run'[q] = IF q = r THEN [m EXCEPT !.delivered = TRUE] ELSE run[q]
  BY DEF Deliver, TypeOK
<1>3. /\ run'[r].key = m.key /\ run'[r].to = m.to /\ run'[r].todo = m.todo
      /\ run'[r].delivered /\ run'[r] \in Sending /\ run'[r] # Idle
  <2>1. [m EXCEPT !.delivered = TRUE] \in Sending
    BY <1>1 DEF Sending
  <2> QED BY <1>1, <1>2, <2>1 DEF Sending, Idle, Keys
<1>4. UNCHANGED <<row, episode, mishaps>>
  BY DEF Deliver
<1>5. \A c \in Clients, k \in Keys :
        told'[k][c] = IF k = m.key /\ c = d /\ IsFresh(m.to) THEN told[k][c] + 1
                                                            ELSE told[k][c]
  BY <1>1 DEF Deliver, TypeOK, IsCurrent, IsFresh
<1>6. \A c \in Clients, k \in Keys : told[k][c] \in Nat
  BY DEF TypeOK
<1>7. ListsAreSound'
  <2> SUFFICES ASSUME NEW q \in Runs, run'[q] # Idle
               PROVE  IsSound(run[q])'
    BY DEF ListsAreSound
  <2>1. run[q] # Idle /\ run'[q].to = run[q].to /\ run'[q].todo = run[q].todo
    BY <1>1, <1>2, <1>3
  <2> QED BY <1>4, <2>1 DEF DraftInv, ListsAreSound, IsSound, Entries
<1>8. DeliveredWasTold'
  <2> SUFFICES ASSUME NEW q \in Runs, run'[q] # Idle, run'[q].delivered,
                      IsFresh(run'[q].to)
               PROVE  told'[run'[q].key][run'[q].to.client] > 0
    BY <1>4 DEF DeliveredWasTold, IsFresh
  <2>1. CASE q = r
    BY <1>1, <1>3, <1>5, <1>6, <2>1
  <2>2. CASE q # r
    <3>1. run'[q] = run[q] /\ run[q].key \in Keys /\ run[q].to.client \in Clients
      BY <1>2, <2>2, SendingType
    <3>2. told[run[q].key][run[q].to.client] > 0
      BY <3>1 DEF DraftInv, DeliveredWasTold
    <3> QED BY <1>5, <1>6, <3>1, <3>2
  <2> QED BY <2>1, <2>2
<1>9. CountsHold'
  <2> SUFFICES ASSUME NEW c \in Clients, NEW k \in Keys
               PROVE  /\ Wants(c, k) =>
                           told'[k][c] <= Cardinality(Arrived(c, k)') + mishaps[c]
                      /\ told'[k][c] + Cardinality(Waits(c, k)')
                           <= Cardinality(Runs) + mishaps[c]
    BY <1>4 DEF CountsHold, Wants
  <2> DEFINE A == Arrived(c, k)
             W == Waits(c, k)
  <2>1. A \in SUBSET Runs /\ W \in SUBSET Runs
    BY DEF Arrived, Waits
  <2>2. /\ IsFiniteSet(A) /\ IsFiniteSet(W)
        /\ Cardinality(A) \in Nat /\ Cardinality(W) \in Nat
        /\ Cardinality(Runs) \in Nat /\ told[k][c] \in Nat /\ mishaps[c] \in Nat
    BY <1>6, <2>1, RunsFinite, DraftsAssumption DEF TypeOK
  <2>3. /\ Wants(c, k) => told[k][c] <= Cardinality(A) + mishaps[c]
        /\ told[k][c] + Cardinality(W) <= Cardinality(Runs) + mishaps[c]
    BY DEF DraftInv, CountsHold
  <2>4. CASE k = m.key /\ c = d /\ IsFresh(m.to)
    <3>1. told'[k][c] = told[k][c] + 1
      BY <1>5, <2>4
    <3>2. r \notin A /\ r \in W
      BY <1>1, <2>4 DEF Arrived, Waits
    <3>3. A' = A \cup {r}
      BY <1>2, <1>3, <1>4, <2>4 DEF Arrived, IsFresh
    <3>4. r \notin W'
      <4>1. \A l \in m.todo : l.client # d
        BY <1>1 DEF DraftInv, ListsAreSound, IsSound, Entries
      <4> QED BY <1>3, <2>4, <4>1 DEF Waits
    <3>5. W' = W \ {r}
      BY <1>2, <1>4, <3>4 DEF Waits, IsFresh
    <3>6. Cardinality(A') = Cardinality(A) + 1 /\ Cardinality(W') = Cardinality(W) - 1
      <4> HIDE DEF A, W
      <4> QED BY <2>2, <3>2, <3>3, <3>5, FS_AddElement, FS_RemoveElement
    <3>7. /\ Wants(c, k) => told'[k][c] <= Cardinality(A') + mishaps[c]
          /\ told'[k][c] + Cardinality(W') <= Cardinality(Runs) + mishaps[c]
      <4> HIDE DEF A, W
      <4> QED BY <2>2, <2>3, <3>1, <3>6
    <3> QED BY <3>7
  <2>5. CASE ~(k = m.key /\ c = d /\ IsFresh(m.to))
    <3>1. told'[k][c] = told[k][c]
      BY <1>5, <2>5
    <3>2. A' = A /\ W' = W
      BY <1>1, <1>2, <1>3, <1>4, <2>5 DEF Arrived, Waits, IsFresh
    <3>3. /\ Wants(c, k) => told'[k][c] <= Cardinality(A') + mishaps[c]
          /\ told'[k][c] + Cardinality(W') <= Cardinality(Runs) + mishaps[c]
      <4> HIDE DEF A, W
      <4> QED BY <2>3, <3>1, <3>2
    <3> QED BY <3>3
  <2> QED BY <2>4, <2>5
<1> QED BY <1>7, <1>8, <1>9 DEF DraftInv

\* A restart counts every reminder that arrived and was not marked.
LEMMA RestartKeepsInv ==
  ASSUME TypeOK, DraftInv, Restart
  PROVE  DraftInv'
<1>1. mishaps' = Count(Runs) /\ UNCHANGED <<row, episode, told>>
  BY DEF Restart
<1>2. \A r \in Runs : run'[r] = Idle
  BY DEF Restart
<1>3. ListsAreSound' /\ DeliveredWasTold'
  BY <1>2 DEF ListsAreSound, DeliveredWasTold
<1>4. CountsHold'
  <2> SUFFICES ASSUME NEW c \in Clients, NEW k \in Keys
               PROVE  /\ Wants(c, k) =>
                           told[k][c] <= Cardinality(Arrived(c, k)') + mishaps'[c]
                      /\ told[k][c] + Cardinality(Waits(c, k)')
                           <= Cardinality(Runs) + mishaps'[c]
    BY <1>1 DEF CountsHold, Wants
  <2> DEFINE A == Arrived(c, k)
             W == Waits(c, k)
             All == {r \in Runs : /\ run[r] # Idle /\ run[r].delivered
                                  /\ run[r].to.client = c /\ IsCurrent(r)}
  <2>1. A' = {} /\ W' = {}
    BY <1>2 DEF Arrived, Waits
  <2>2. Cardinality(A') = 0 /\ Cardinality(W') = 0
    BY <2>1, FS_EmptySet
  <2>3. A \in SUBSET All /\ All \in SUBSET Runs /\ W \in SUBSET Runs
    BY DEF Arrived, Waits, IsFresh, IsCurrent
  <2>4. Cardinality(A) <= Cardinality(All)
    BY <2>3, RunsFinite, FS_Subset
  <2>5. Unnoted(Runs, c) = Cardinality(All)
    BY DEF Unnoted
  <2>6. mishaps'[c] = mishaps[c] + Cardinality(All)
    BY <1>1, <2>5, CountType
  <2>7. /\ Cardinality(A) \in Nat /\ Cardinality(W) \in Nat /\ Cardinality(All) \in Nat
        /\ Cardinality(Runs) \in Nat /\ told[k][c] \in Nat /\ mishaps[c] \in Nat
    <3>1. A \in SUBSET Runs
      BY <2>3
    <3> QED BY <2>3, <3>1, RunsFinite, DraftsAssumption DEF TypeOK
  <2>8. /\ Wants(c, k) => told[k][c] <= Cardinality(A) + mishaps[c]
        /\ told[k][c] + Cardinality(W) <= Cardinality(Runs) + mishaps[c]
    BY DEF DraftInv, CountsHold
  <2>9. /\ Wants(c, k) => told[k][c] <= Cardinality(A') + mishaps'[c]
        /\ told[k][c] + Cardinality(W') <= Cardinality(Runs) + mishaps'[c]
    <3> HIDE DEF A, W, All
    <3> QED BY <2>2, <2>4, <2>6, <2>7, <2>8
  <2> QED BY <2>9
<1> QED BY <1>3, <1>4 DEF DraftInv

\* A new episode starts the counts of its client anew: nothing a run has in hand
\* is about it.
LEMMA WriteDraftKeepsInv ==
  ASSUME TypeOK, DraftInv, NEW d \in Clients, WriteDraft(d)
  PROVE  DraftInv'
<1>1. run' = run
  BY DEF WriteDraft
<1>2. /\ \A c \in Clients : episode'[c] = IF c = d THEN episode[c] + 1 ELSE episode[c]
      /\ \A c \in Clients : row'[c] = IF c = d THEN SetRow(c, "lead") ELSE row[c]
      /\ \A c \in Clients : mishaps'[c] = IF c = d THEN 0 ELSE mishaps[c]
      /\ \A c \in Clients, k \in Keys : told'[k][c] = IF c = d THEN 0 ELSE told[k][c]
      /\ \A c \in Clients : episode[c] \in Nat
  BY DraftsAssumption DEF WriteDraft, NewEpisode, TypeOK
<1>3. \A r \in Runs : run[r] # Idle =>
        /\ run[r].key \in Keys
        /\ \A l \in Entries(run[r]) : /\ l.client \in Clients /\ l.episode \in Nat
                                      /\ l.episode <= episode[l.client]
  BY SendingType, DraftsAssumption DEF Listed, Entries, DraftInv, ListsAreSound, IsSound
<1>4. \A r \in Runs : run[r] # Idle => \A l \in Entries(run[r]) :
        /\ l.episode <= episode'[l.client]
        /\ IsFresh(l)' <=> IsFresh(l) /\ l.client # d
  BY <1>2, <1>3 DEF IsFresh
<1>5. ListsAreSound'
  BY <1>1, <1>4 DEF DraftInv, ListsAreSound, IsSound
<1>6. DeliveredWasTold'
  BY <1>1, <1>2, <1>3, <1>4 DEF DraftInv, DeliveredWasTold, Entries
<1>7. CountsHold'
  <2> SUFFICES ASSUME NEW c \in Clients, NEW k \in Keys
               PROVE  /\ Wants(c, k)' =>
                           told'[k][c] <= Cardinality(Arrived(c, k)') + mishaps'[c]
                      /\ told'[k][c] + Cardinality(Waits(c, k)')
                           <= Cardinality(Runs) + mishaps'[c]
    BY DEF CountsHold
  <2>1. CASE c # d
    <3>1. Arrived(c, k)' = Arrived(c, k) /\ Waits(c, k)' = Waits(c, k)
      BY <1>1, <1>4, <2>1 DEF Arrived, Waits, Entries
    <3> QED BY <1>2, <2>1, <3>1 DEF DraftInv, CountsHold, Wants
  <2>2. CASE c = d
    <3>1. Arrived(c, k)' = {} /\ Waits(c, k)' = {}
      BY <1>1, <1>4, <2>2 DEF Arrived, Waits, Entries
    <3>2. Cardinality(Arrived(c, k)') = 0 /\ Cardinality(Waits(c, k)') = 0
      BY <3>1, FS_EmptySet
    <3>3. Cardinality(Runs) \in Nat
      BY RunsFinite
    <3> QED BY <1>2, <2>2, <3>2, <3>3
  <2> QED BY <2>1, <2>2
<1> QED BY <1>5, <1>6, <1>7 DEF DraftInv

\* A draft that ends, ages or expires gains no mark and loses none.
LEMMA OtherClientStepKeepsInv ==
  ASSUME TypeOK, DraftInv, NEW d \in Clients,
         EndDraft(d) \/ GrowOlder(d) \/ ClearExpired(d)
  PROVE  DraftInv'
<1>1. UNCHANGED <<run, episode, told, mishaps>>
  BY DEF EndDraft, GrowOlder, ClearExpired
<1>2. \A c \in Clients : row'[c].flow = "lead" =>
                           row[c].flow = "lead" /\ row'[c].marks = row[c].marks
  <2>1. CASE EndDraft(d)
    BY <2>1 DEF EndDraft, SetRow, NoRow, TypeOK
  <2>2. CASE GrowOlder(d)
    <3>1. row[d] \in Row
      BY <2>2 DEF GrowOlder, TypeOK
    <3> QED BY <2>2, <3>1 DEF GrowOlder, TypeOK, Row
  <2>3. CASE ClearExpired(d)
    BY <2>3 DEF ClearExpired, NoRow, TypeOK
  <2> QED BY <2>1, <2>2, <2>3
<1>3. \A c \in Clients, k \in Keys :
        Arrived(c, k)' = Arrived(c, k) /\ Waits(c, k)' = Waits(c, k)
  BY <1>1 DEF Arrived, Waits, IsFresh
<1>4. ListsAreSound' /\ DeliveredWasTold'
  BY <1>1 DEF DraftInv, ListsAreSound, IsSound, DeliveredWasTold, IsFresh
<1>5. CountsHold'
  BY <1>1, <1>2, <1>3 DEF DraftInv, CountsHold, Wants
<1> QED BY <1>4, <1>5 DEF DraftInv

LEMMA DraftInvHolds == Spec => [](TypeOK /\ DraftInv)
<1>1. Init => DraftInv
  <2> SUFFICES ASSUME Init PROVE DraftInv
    OBVIOUS
  <2>1. ListsAreSound /\ DeliveredWasTold
    BY DEF Init, ListsAreSound, DeliveredWasTold
  <2>2. \A c \in Clients, k \in Keys : Arrived(c, k) = {} /\ Waits(c, k) = {}
    BY DEF Init, Arrived, Waits
  <2>3. Cardinality(Runs) \in Nat
    BY RunsFinite
  <2>4. \A c \in Clients, k \in Keys :
          /\ Cardinality(Arrived(c, k)) = 0 /\ Cardinality(Waits(c, k)) = 0
          /\ told[k][c] = 0 /\ mishaps[c] = 0
    BY <2>2, FS_EmptySet DEF Init
  <2>5. CountsHold
    BY <2>3, <2>4 DEF CountsHold
  <2> QED BY <2>1, <2>5 DEF DraftInv
<1>2. TypeOK /\ DraftInv /\ [Next]_vars => DraftInv'
  <2> SUFFICES ASSUME TypeOK, DraftInv, [Next]_vars PROVE DraftInv'
    OBVIOUS
  <2>1. CASE \E r \in Runs : RunStep(r)
    BY <2>1, StartKeepsInv, DeliverKeepsInv, SendFailsKeepsInv, AcknowledgeKeepsInv
    DEF RunStep
  <2>2. CASE \E c \in Clients : ClientStep(c)
    BY <2>2, WriteDraftKeepsInv, OtherClientStepKeepsInv DEF ClientStep
  <2>3. CASE Restart
    BY <2>3, RestartKeepsInv
  <2>4. CASE UNCHANGED vars
    <3>1. /\ \A c \in Clients, k \in Keys :
               Arrived(c, k)' = Arrived(c, k) /\ Waits(c, k)' = Waits(c, k)
          /\ \A c \in Clients, k \in Keys : Wants(c, k)' = Wants(c, k)
      BY <2>4 DEF vars, Arrived, Waits, Wants, IsFresh
    <3>2. ListsAreSound' /\ DeliveredWasTold'
      BY <2>4 DEF vars, DraftInv, ListsAreSound, IsSound, DeliveredWasTold, IsFresh
    <3> QED BY <2>4, <3>1, <3>2 DEF vars, DraftInv, CountsHold
  <2> QED BY <2>1, <2>2, <2>3, <2>4 DEF Next
<1> QED BY <1>1, <1>2, TypeCorrect, PTL DEF Spec

\* No draft is told of more often than overlapping runs and mishaps explain,
\* also when its client goes on writing it while runs have it in hand, for any
\* number of clients, runs and restarts: the stale reminders a run goes on with
\* are about an earlier draft, and only delay or spare those about this one.
THEOREM RepeatsAreMishapsHolds ==
  Spec => [](\A c \in Clients, k \in Keys : RepeatsAreMishaps(c, k))
<1>1. TypeOK /\ DraftInv => \A c \in Clients, k \in Keys : RepeatsAreMishaps(c, k)
  <2> SUFFICES ASSUME TypeOK, DraftInv, NEW c \in Clients, NEW k \in Keys
               PROVE  RepeatsAreMishaps(c, k)
    OBVIOUS
  <2>1. /\ Cardinality(Runs) \in Nat /\ Cardinality(Waits(c, k)) \in Nat
        /\ told[k][c] \in Nat /\ mishaps[c] \in Nat
    BY RunsFinite, DraftsAssumption DEF Waits, TypeOK
  <2>2. told[k][c] + Cardinality(Waits(c, k)) <= Cardinality(Runs) + mishaps[c]
    BY DEF DraftInv, CountsHold
  <2> QED BY <2>1, <2>2 DEF RepeatsAreMishaps
<1> QED BY <1>1, DraftInvHolds, PTL

------------------------------------------------------------------------------
(* The marks.                                                              *)

Marked(c, k) == row[c].flow = "lead" /\ k \in row[c].marks

\* What becomes of a marked draft: it was marked before and is the same draft, or
\* a run acknowledges that the reminder has reached its client.
LEMMA MarkSteps ==
  ASSUME TypeOK, [Next]_vars, NEW c \in Clients, NEW k \in Keys, Marked(c, k)'
  PROVE  \/ Marked(c, k) /\ episode'[c] = episode[c] /\ told'[k][c] >= told[k][c]
         \/ /\ UNCHANGED <<episode, told>>
            /\ \E r \in Runs : At(r, k, c) /\ run[r].delivered
<1>1. told[k][c] \in Nat /\ (row[c] = NoRow \/ row[c] \in Row)
  BY DEF TypeOK
<1>2. ASSUME NEW r \in Runs, Start(r) \/ SendFails(r) PROVE Marked(c, k)
  BY <1>2 DEF Start, SendFails, Marked
<1>3. ASSUME NEW r \in Runs, Deliver(r)
      PROVE  Marked(c, k) /\ episode'[c] = episode[c] /\ told'[k][c] >= told[k][c]
  BY <1>1, <1>3, SendingType DEF Deliver, Marked, TypeOK
<1>4. ASSUME NEW r \in Runs, Acknowledge(r), ~Marked(c, k)
      PROVE  At(r, k, c) /\ run[r].delivered
  <2>1. row'[c] # row[c]
    BY <1>4 DEF Marked
  <2>2. /\ run[r] # Idle /\ run[r].delivered /\ run[r].to.client = c
        /\ row'[c] = [row[c] EXCEPT !.marks = @ \cup {run[r].key}] /\ row[c] # NoRow
    BY <1>4, <2>1, SendingType DEF Acknowledge, TypeOK
  <2>3. row'[c].flow = row[c].flow /\ row'[c].marks = row[c].marks \cup {run[r].key}
    BY <1>1, <2>2 DEF Row
  <2> QED BY <1>4, <2>2, <2>3 DEF Marked, At
<1>5. ASSUME NEW d \in Clients, WriteDraft(d)
      PROVE  Marked(c, k) /\ episode'[c] = episode[c] /\ told'[k][c] >= told[k][c]
  <2>1. c # d
    BY <1>5 DEF WriteDraft, SetRow, Marked, TypeOK
  <2> QED BY <1>1, <1>5, <2>1 DEF WriteDraft, NewEpisode, Marked, TypeOK
<1>6. ASSUME NEW d \in Clients, EndDraft(d) \/ GrowOlder(d) \/ ClearExpired(d)
      PROVE  Marked(c, k)
  <2>1. CASE EndDraft(d)
    BY <2>1 DEF EndDraft, SetRow, NoRow, TypeOK, Marked
  <2>2. CASE GrowOlder(d)
    BY <1>1, <2>2 DEF GrowOlder, TypeOK, Row, Marked
  <2>3. CASE ClearExpired(d)
    BY <2>3 DEF ClearExpired, NoRow, TypeOK, Marked
  <2> QED BY <1>6, <2>1, <2>2, <2>3
<1>7. Restart \/ UNCHANGED vars => Marked(c, k)
  BY DEF Restart, vars, Marked
<1>8. CASE UNCHANGED <<episode, told>>
  BY <1>1, <1>2, <1>3, <1>4, <1>5, <1>6, <1>7, <1>8 DEF Next, RunStep, ClientStep
<1>9. CASE ~(UNCHANGED <<episode, told>>)
  <2>1. \/ \E r \in Runs : Deliver(r)
        \/ \E d \in Clients : WriteDraft(d)
    BY <1>9 DEF Next, RunStep, ClientStep, Start, SendFails, Acknowledge, Restart, EndDraft,
                GrowOlder, ClearExpired, vars
  <2> QED BY <1>3, <1>5, <2>1
<1> QED BY <1>8, <1>9

\* A mark appears on a draft only when the reminder has reached its client, about
\* this draft or about one that it has written over since.
MarksAreOfReminders ==
  [][\A c \in Clients, k \in Keys : Marked(c, k)' /\ ~Marked(c, k) =>
       \E r \in Runs :
         /\ At(r, k, c) /\ run[r].delivered
         /\ told[k][c] > 0 \/ run[r].to.episode < episode[c]]_vars

\* What remains true of the marks when clients write drafts that runs have in hand:
\* the client was reminded, of this draft or of the one it has written over.
THEOREM MarksAreOfRemindersHolds == Spec => MarksAreOfReminders
<1>1. ASSUME TypeOK, DraftInv, [Next]_vars, NEW c \in Clients, NEW k \in Keys,
             Marked(c, k)', ~Marked(c, k)
      PROVE  \E r \in Runs : /\ At(r, k, c) /\ run[r].delivered
                             /\ told[k][c] > 0 \/ run[r].to.episode < episode[c]
  <2>1. PICK r \in Runs : At(r, k, c) /\ run[r].delivered
    BY <1>1, MarkSteps
  <2>2. /\ run[r].to.episode \in Nat /\ episode[c] \in Nat
        /\ run[r].to.episode <= episode[c]
    BY <1>1, <2>1, SendingType, DraftsAssumption
    DEF At, Listed, TypeOK, DraftInv, ListsAreSound, IsSound, Entries
  <2>3. run[r].to.episode = episode[c] => told[k][c] > 0
    BY <1>1, <2>1 DEF At, DraftInv, DeliveredWasTold, IsFresh
  <2> QED BY <2>1, <2>2, <2>3
<1>2. TypeOK /\ DraftInv /\ [Next]_vars =>
        [\A c \in Clients, k \in Keys : Marked(c, k)' /\ ~Marked(c, k) =>
           \E r \in Runs :
             /\ At(r, k, c) /\ run[r].delivered
             /\ told[k][c] > 0 \/ run[r].to.episode < episode[c]]_vars
  BY <1>1
<1> QED BY <1>2, DraftInvHolds, PTL DEF Spec, MarksAreOfReminders

\* Lists stay fresh where no client writes what is on them.
LEMMA StepKeepsFresh ==
  ASSUME ~Overlap, TypeOK, DraftInv, ListsAreFresh, [Next]_vars
  PROVE  ListsAreFresh'
<1>1. ASSUME NEW r \in Runs, NEW s, run' = [run EXCEPT ![r] = s], UNCHANGED episode,
             s = Idle \/ \A l \in Entries(s) : IsFresh(l)
      PROVE  ListsAreFresh'
  BY <1>1 DEF ListsAreFresh, IsFresh, TypeOK, Entries
<1>2. ASSUME NEW k \in Keys, NEW s \in Over(k, Due(k))
      PROVE  \A l \in Entries(s) : IsFresh(l)
  BY DueIsSound
<1>3. ASSUME NEW r \in Runs, Start(r) PROVE ListsAreFresh'
  <2>1. PICK s \in Listing15m : run' = [run EXCEPT ![r] = s]
    BY <1>3 DEF Start, GoOn
  <2>2. s = Idle \/ \A l \in Entries(s) : IsFresh(l)
    BY <1>2, StartCases
  <2> QED BY <1>1, <1>3, <2>1, <2>2 DEF Start
<1>4. ASSUME NEW r \in Runs, SendFails(r) \/ Acknowledge(r) PROVE ListsAreFresh'
  <2>1. run[r] # Idle /\ UNCHANGED episode
    BY <1>4 DEF SendFails, Acknowledge
  <2>2. PICK s \in Following(run[r]) : run' = [run EXCEPT ![r] = s]
    BY <1>4 DEF SendFails, Acknowledge, GoOn
  <2>3. CASE s \in Over(run[r].key, run[r].todo)
    <3>1. Entries(s) \subseteq Entries(run[r])
      BY <2>1, <2>3, RestIsSound DEF DraftInv, Entries
    <3> QED BY <1>1, <2>1, <2>2, <3>1 DEF ListsAreFresh
  <2>4. CASE run[r].key = "15m" /\ s \in Over("24h", Due("24h"))
    BY <1>1, <1>2, <2>1, <2>2, <2>4 DEF Keys
  <2>5. CASE s = Idle
    BY <1>1, <2>1, <2>2, <2>5
  <2> QED BY <2>2, <2>3, <2>4, <2>5, FollowingCases
<1>5. ASSUME NEW r \in Runs, Deliver(r) PROVE ListsAreFresh'
  <2>1. run[r] \in Sending /\ run[r] # Idle
    BY <1>5, SendingType DEF Deliver
  <2>2. Entries([run[r] EXCEPT !.delivered = TRUE]) = Entries(run[r])
    BY <2>1 DEF Sending, Entries
  <2> QED BY <1>1, <1>5, <2>1, <2>2 DEF Deliver, ListsAreFresh
<1>6. ASSUME NEW d \in Clients, WriteDraft(d) PROVE ListsAreFresh'
  <2>1. /\ \A r \in Runs : run[r] # Idle => \A l \in Entries(run[r]) : l.client # d
        /\ run' = run
    BY <1>6 DEF WriteDraft, Ready, Entries
  <2>2. \A r \in Runs : run[r] # Idle => \A l \in Entries(run[r]) : l.client \in Clients
    BY SendingType DEF Listed, Entries
  <2> QED BY <1>6, <2>1, <2>2 DEF WriteDraft, ListsAreFresh, IsFresh, TypeOK
<1>7. ASSUME NEW d \in Clients, EndDraft(d) \/ GrowOlder(d) \/ ClearExpired(d)
      PROVE  ListsAreFresh'
  BY <1>7 DEF EndDraft, GrowOlder, ClearExpired, ListsAreFresh, IsFresh
<1>8. Restart \/ UNCHANGED vars => ListsAreFresh'
  BY DEF Restart, vars, ListsAreFresh, IsFresh
<1> QED BY <1>3, <1>4, <1>5, <1>6, <1>7, <1>8 DEF Next, RunStep, ClientStep

\* When clients leave their rows alone while a run has them in hand, a mark says
\* that its draft was told of, and no draft is told of more often than overlapping
\* runs and mishaps explain, for any number of clients, runs and restarts.
THEOREM TellingIsAccountedForHolds == Spec => [](~Overlap => TellingIsAccountedFor)
<1> DEFINE Inv == ~Overlap => ListsAreFresh /\ MarksHold
<1>1. Init => Inv
  BY DEF Init, ListsAreFresh, MarksHold, MarkedWasTold, NoRow
<1>2. TypeOK /\ DraftInv /\ Inv /\ [Next]_vars => Inv'
  <2> SUFFICES ASSUME TypeOK, DraftInv, ListsAreFresh, MarksHold, [Next]_vars, ~Overlap
               PROVE  ListsAreFresh' /\ MarksHold'
    OBVIOUS
  <2>1. ASSUME NEW c \in Clients, NEW k \in Keys, Marked(c, k)' PROVE told'[k][c] > 0
    <3>1. told[k][c] \in Nat /\ told'[k][c] \in Nat
      <4>1. TypeOK'
        BY StepType
      <4> QED BY <4>1 DEF TypeOK
    <3>2. CASE Marked(c, k) /\ told'[k][c] >= told[k][c]
      BY <3>1, <3>2 DEF MarksHold, MarkedWasTold, Marked
    <3>3. CASE /\ UNCHANGED <<episode, told>>
               /\ \E r \in Runs : At(r, k, c) /\ run[r].delivered
      <4>1. PICK r \in Runs : At(r, k, c) /\ run[r].delivered
        BY <3>3
      <4> QED BY <3>3, <4>1 DEF At, ListsAreFresh, Entries, DraftInv, DeliveredWasTold
    <3> QED BY <2>1, <3>2, <3>3, MarkSteps
  <2> QED BY <2>1, StepKeepsFresh DEF MarksHold, MarkedWasTold, Marked
<1>3. Inv /\ (\A c \in Clients, k \in Keys : RepeatsAreMishaps(c, k))
        => (~Overlap => TellingIsAccountedFor)
  BY DEF TellingIsAccountedFor, MarksHold
<1> QED BY <1>1, <1>2, <1>3, DraftInvHolds, RepeatsAreMishapsHolds, PTL DEF Spec
==============================================================================
