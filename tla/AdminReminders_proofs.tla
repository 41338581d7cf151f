------------------------- MODULE AdminReminders_proofs -------------------------
(***************************************************************************)
(* Theorems about AdminReminders, for any number of leads, clients and     *)
(* overlapping runs, any LIMIT, and any number of lost answers.            *)
(***************************************************************************)
EXTENDS AdminReminders, FiniteSetTheorems, TLAPS

------------------------------------------------------------------------------
(* What the queries and the runs yield.                                    *)

LEMMA DueType ==
  ASSUME TypeOK, NEW k \in Keys
  PROVE  Due(k) \subseteq Ids
<1>1. 1..Len(leads) \subseteq Ids
  BY RemindersAssumption DEF TypeOK, Ids
<1>2. Due(k) \subseteq 1..Len(leads)
  BY DEF Due
<1> QED BY <1>1, <1>2

\* A run that is set going, or goes on, is idle or has sent nothing yet.
LEMMA RunStarts ==
  ASSUME TypeOK, NEW s \in {To15m, To60m, AfterMessage("15m"),
                            AfterMessage("60m"), AfterMessage("follow_up")}
  PROVE  s \in Sending \cup {Idle} /\ (s # Idle => ~s.delivered)
<1>1. \A k \in Keys : Oldest(Due(k)) \subseteq Ids
  BY DueType DEF Oldest
<1>2. \A k \in Keys : /\ Message(k, Oldest(Due(k))) \in Sending
                      /\ ~Message(k, Oldest(Due(k))).delivered
  BY <1>1 DEF Message, Sending
<1>3. "15m" \in Keys /\ "60m" \in Keys
  BY DEF Keys
<1>4. To60m \in Sending \cup {Idle} /\ (To60m # Idle => ~To60m.delivered)
  BY <1>2, <1>3 DEF To60m
<1>5. To15m \in Sending \cup {Idle} /\ (To15m # Idle => ~To15m.delivered)
  BY <1>2, <1>3, <1>4 DEF To15m
<1> QED BY <1>4, <1>5 DEF AfterMessage

LEMMA AfterMessageStarts ==
  ASSUME TypeOK, NEW r \in Runs, run[r] # Idle
  PROVE  /\ AfterMessage(run[r].key) \in Sending \cup {Idle}
         /\ AfterMessage(run[r].key) # Idle => ~AfterMessage(run[r].key).delivered
<1>1. run[r].key \in {"15m", "60m", "follow_up"}
  BY DEF TypeOK, Sending, Keys
<1> QED BY <1>1, RunStarts

\* A run that awaits.
LEMMA SendingType ==
  ASSUME TypeOK, NEW r \in Runs, run[r] # Idle
  PROVE  /\ run[r] \in Sending
         /\ run[r].key \in Keys
         /\ run[r].batch \subseteq Ids
         /\ run[r].delivered \in BOOLEAN
BY DEF TypeOK, Sending

------------------------------------------------------------------------------
(* Type correctness.                                                       *)

LEMMA RunStepType ==
  ASSUME TypeOK, NEW r \in Runs, RunStep(r)
  PROVE  TypeOK'
<1> USE DEF SetRun
<1>1. CASE Deliver(r)
  <2>1. [run[r] EXCEPT !.delivered = TRUE] \in Sending
    BY <1>1, SendingType DEF Deliver, Sending
  <2>2. told' \in [Keys -> [Ids -> Nat]]
    BY <1>1, SendingType DEF Deliver, TypeOK
  <2>3. heard' \subseteq Ids
    BY <1>1, SendingType DEF Deliver, TypeOK
  <2> QED BY <1>1, <2>1, <2>2, <2>3 DEF Deliver, TypeOK
<1>2. CASE SendFails(r)
  <2>1. mishaps' \in 0..MaxMishaps
    BY <1>2, RemindersAssumption DEF SendFails, TypeOK
  <2> QED BY <1>2, <2>1, AfterMessageStarts DEF SendFails, TypeOK
<1>3. CASE Acknowledge(r)
  <2>1. marked' \in [Keys -> SUBSET Ids]
    BY <1>3, SendingType DEF Acknowledge, TypeOK
  <2> QED BY <1>3, <2>1, AfterMessageStarts DEF Acknowledge, TypeOK
<1> QED BY <1>1, <1>2, <1>3 DEF RunStep

LEMMA LeadStepType ==
  ASSUME TypeOK, NEW i \in 1..Len(leads), LeadStep(i)
  PROVE  TypeOK'
<1>1. leads[i] \in Lead /\ i \in Ids
  BY RemindersAssumption DEF TypeOK, Ids
<1>2. CASE \E s \in AdminTargets : SetStatus(i, s)
  <2>1. PICK s \in Statuses : SetStatus(i, s)
    BY <1>2, RemindersAssumption
  <2>2. [leads[i] EXCEPT !.status = s, !.followUp = "none"] \in Lead
    BY <1>1 DEF Lead, FollowUps
  <2> QED BY <2>1, <2>2 DEF SetStatus, UpdateStatus, TypeOK
<1>3. CASE Snooze(i)
  <2>1. [leads[i] EXCEPT !.status = "in_progress", !.followUp = "waiting"] \in Lead
    BY <1>1 DEF Lead, FollowUps, Statuses
  <2>2. snoozes' \in [Ids -> 0..MaxSnoozes]
    BY <1>1, <1>3, RemindersAssumption DEF Snooze, TypeOK
  <2> QED BY <1>3, <2>1, <2>2 DEF Snooze, UpdateStatus, TypeOK
<1>4. CASE Reply(i)
  <2>1. [leads[i] EXCEPT !.replied = TRUE] \in Lead
    BY <1>1 DEF Lead
  <2> QED BY <1>4, <2>1 DEF Reply, TypeOK
<1>5. CASE GrowOlder(i)
  <2>1. [leads[i] EXCEPT !.age = leads[i].age + 1] \in Lead
    BY <1>1, <1>5 DEF Lead, Ages, GrowOlder
  <2> QED BY <1>5, <2>1 DEF GrowOlder, TypeOK
<1>6. CASE FollowUpNears(i)
  <2>1. [leads[i] EXCEPT !.followUp =
           IF leads[i].followUp = "waiting" THEN "past" ELSE "next_day"] \in Lead
    BY <1>1 DEF Lead, FollowUps
  <2> QED BY <1>6, <2>1 DEF FollowUpNears, TypeOK
<1> QED BY <1>2, <1>3, <1>4, <1>5, <1>6 DEF LeadStep

LEMMA StepType ==
  ASSUME TypeOK, [Next]_vars
  PROVE  TypeOK'
<1>1. CASE \E r \in SlaRuns : StartSla(r)
  BY <1>1, RunStarts DEF StartSla, SetRun, TypeOK, Runs
<1>2. CASE \E r \in FollowUpRuns : StartFollowUps(r)
  <2>1. \A batch \in SUBSET Due("follow_up") : Message("follow_up", batch) \in Sending
    BY DueType DEF Message, Sending, Keys
  <2> QED BY <1>2, <2>1 DEF StartFollowUps, SetRun, TypeOK, Runs
<1>3. CASE \E r \in Runs : RunStep(r)
  BY <1>3, RunStepType
<1>4. CASE \E c \in Clients : CreateLead(c)
  <2>1. PICK c \in Clients : CreateLead(c)
    BY <1>4
  <2> DEFINE new == [client |-> c, status |-> "new", age |-> 0,
                     replied |-> FALSE, followUp |-> "none"]
  <2>2. new \in Lead
    BY DEF Lead, Statuses, Ages, FollowUps
  <2>3. leads' = Append(leads, new) /\ Len(leads) < MaxLeads
    BY <2>1 DEF CreateLead
  <2> HIDE DEF new
  <2>4. leads' \in Seq(Lead) /\ Len(leads') <= MaxLeads
    BY <2>2, <2>3, RemindersAssumption DEF TypeOK
  <2> QED BY <2>1, <2>4 DEF CreateLead, TypeOK
<1>5. CASE \E i \in 1..Len(leads) : LeadStep(i)
  BY <1>5, LeadStepType
<1>6. CASE Restart
  <2> DEFINE lost == Cardinality({r \in Runs : run[r] # Idle /\ run[r].delivered})
  <2>1. mishaps' \in 0..MaxMishaps
    <3>1. lost \in Nat
      BY RemindersAssumption, FS_Subset, FS_CardinalityType
    <3>2. mishaps' = mishaps + lost /\ mishaps + lost <= MaxMishaps
      BY <1>6 DEF Restart
    <3> HIDE DEF lost
    <3> QED BY <3>1, <3>2, RemindersAssumption DEF TypeOK
  <2> QED BY <1>6, <2>1 DEF Restart, TypeOK
<1>7. CASE UNCHANGED vars
  BY <1>7 DEF vars, TypeOK
<1> QED BY <1>1, <1>2, <1>3, <1>4, <1>5, <1>6, <1>7 DEF Next

\* TypeOK holds of every reachable state.
THEOREM TypeCorrect == Spec => []TypeOK
<1>1. Init => TypeOK
  BY RemindersAssumption DEF Init, TypeOK, Ids
<1>2. TypeOK /\ [Next]_vars => TypeOK'
  BY StepType
<1> QED BY <1>1, <1>2, PTL DEF Spec

------------------------------------------------------------------------------
(* What is marked was told.                                                *)

\* A message that has arrived has told of its leads, though its run has not
\* marked them yet.
DeliveredWasTold ==
  \A r \in Runs :
    run[r] # Idle /\ run[r].delivered =>
      \A i \in run[r].batch : told[run[r].key][i] > 0

ToldInv == MarkedWasTold /\ DeliveredWasTold

\* A step that neither marks nor tells, and sets one run to something that has
\* not been delivered.
LEMMA QuietStep ==
  ASSUME ToldInv, TypeOK, NEW r \in Runs, NEW s, s # Idle => ~s.delivered,
         SetRun(r, s), UNCHANGED <<marked, told>>
  PROVE  ToldInv'
<1>1. \A q \in Runs : run'[q] = IF q = r THEN s ELSE run[q]
  BY DEF SetRun, TypeOK
<1>2. MarkedWasTold'
  BY DEF ToldInv, MarkedWasTold
<1>3. DeliveredWasTold'
  BY <1>1 DEF ToldInv, DeliveredWasTold
<1> QED BY <1>2, <1>3 DEF ToldInv

LEMMA DeliverTold ==
  ASSUME ToldInv, TypeOK, NEW r \in Runs, Deliver(r)
  PROVE  ToldInv'
<1> DEFINE m == run[r]
<1>1. m.key \in Keys /\ m.batch \subseteq Ids
  BY SendingType DEF Deliver
<1>2. \A k \in Keys, i \in Ids :
        told'[k][i] = IF k = m.key /\ i \in m.batch THEN told[k][i] + 1 ELSE told[k][i]
  BY <1>1 DEF Deliver, TypeOK
<1>3. \A k \in Keys, i \in Ids :
        /\ told[k][i] > 0 => told'[k][i] > 0
        /\ k = m.key /\ i \in m.batch => told'[k][i] > 0
  BY <1>2 DEF TypeOK
<1>4. MarkedWasTold'
  BY <1>3 DEF ToldInv, MarkedWasTold, Deliver, TypeOK
<1>5. DeliveredWasTold'
  <2> SUFFICES ASSUME NEW q \in Runs, run'[q] # Idle, run'[q].delivered,
                      NEW i \in run'[q].batch
               PROVE  told'[run'[q].key][i] > 0
    BY DEF DeliveredWasTold
  <2>1. run'[q] = IF q = r THEN [m EXCEPT !.delivered = TRUE] ELSE run[q]
    BY DEF Deliver, SetRun, TypeOK
  <2>2. CASE q = r
    <3>1. run'[q].key = m.key /\ run'[q].batch = m.batch
      BY <2>1, <2>2, SendingType DEF Deliver, Sending
    <3> QED BY <1>1, <1>3, <3>1
  <2>3. CASE q # r
    <3>1. run[q].key \in Keys /\ run[q].batch \subseteq Ids
      BY <2>1, <2>3, SendingType
    <3> QED BY <1>3, <2>1, <2>3, <3>1 DEF ToldInv, DeliveredWasTold
  <2> QED BY <2>2, <2>3
<1> QED BY <1>4, <1>5 DEF ToldInv

LEMMA AcknowledgeTold ==
  ASSUME ToldInv, TypeOK, NEW r \in Runs, Acknowledge(r)
  PROVE  ToldInv'
<1>1. run[r].key \in Keys
  BY SendingType DEF Acknowledge
<1>2. MarkedWasTold'
  BY <1>1 DEF Acknowledge, ToldInv, MarkedWasTold, DeliveredWasTold, TypeOK
<1>3. DeliveredWasTold'
  <2>1. \A q \in Runs :
          run'[q] = IF q = r THEN AfterMessage(run[r].key) ELSE run[q]
    BY DEF Acknowledge, SetRun, TypeOK
  <2>2. AfterMessage(run[r].key) # Idle => ~AfterMessage(run[r].key).delivered
    BY AfterMessageStarts DEF Acknowledge
  <2>3. told' = told
    BY DEF Acknowledge
  <2> QED BY <2>1, <2>2, <2>3 DEF ToldInv, DeliveredWasTold
<1> QED BY <1>2, <1>3 DEF ToldInv

LEMMA StepTold ==
  ASSUME ToldInv, TypeOK, [Next]_vars
  PROVE  ToldInv'
<1>1. CASE \E r \in SlaRuns : StartSla(r)
  BY <1>1, RunStarts, QuietStep DEF StartSla, Runs
<1>2. CASE \E r \in FollowUpRuns : StartFollowUps(r)
  BY <1>2, QuietStep DEF StartFollowUps, Runs, Message
<1>3. CASE \E r \in Runs : SendFails(r)
  BY <1>3, AfterMessageStarts, QuietStep DEF SendFails
<1>4. CASE \E r \in Runs : Deliver(r)
  BY <1>4, DeliverTold
<1>5. CASE \E r \in Runs : Acknowledge(r)
  BY <1>5, AcknowledgeTold
<1>6. CASE Restart
  BY <1>6 DEF Restart, ToldInv, MarkedWasTold, DeliveredWasTold
<1>7. CASE UNCHANGED <<marked, run, told>>
  BY <1>7 DEF ToldInv, MarkedWasTold, DeliveredWasTold
<1> QED
  BY <1>1, <1>2, <1>3, <1>4, <1>5, <1>6, <1>7
  DEF Next, vars, RunStep, LeadStep, CreateLead, SetStatus, Snooze, Reply,
      GrowOlder, FollowUpNears

\* A lead is marked as reminded of only when the admin got a message naming it,
\* whatever fails, overlaps or is killed.
THEOREM MarkedWasToldHolds == Spec => []MarkedWasTold
<1>1. Init => ToldInv
  BY DEF Init, ToldInv, MarkedWasTold, DeliveredWasTold
<1>2. TypeOK /\ ToldInv /\ [Next]_vars => ToldInv'
  BY StepTold
<1>3. ToldInv => MarkedWasTold
  BY DEF ToldInv
<1> QED BY <1>1, <1>2, <1>3, TypeCorrect, PTL DEF Spec

------------------------------------------------------------------------------
(* A lead is told of no more often than overlaps and lost answers explain. *)

\* The runs that await a message naming lead i, not yet or already delivered.
Waits(k, i) ==
  {r \in Runs : /\ run[r] # Idle /\ run[r].key = k /\ i \in run[r].batch
                /\ ~run[r].delivered}
Arrived(k, i) ==
  {r \in Runs : /\ run[r] # Idle /\ run[r].key = k /\ i \in run[r].batch
                /\ run[r].delivered}

\* A run sends only the kinds of its timer.
RunsMatch == \A r \in Runs : run[r] # Idle => r \in RunsOf(run[r].key)

\* While the mark is missing, each message that arrived is one of a run that
\* has yet to mark, or its answer was lost; and a message that is still to
\* arrive finds room below the bound.
CountsHold ==
  \A k \in Keys, i \in Ids :
    /\ i \notin marked[k] => told[k][i] <= Cardinality(Arrived(k, i)) + mishaps
    /\ told[k][i] + Cardinality(Waits(k, i)) <= Cardinality(RunsOf(k)) + mishaps

RepeatInv == RunsMatch /\ CountsHold

LEMMA RunsFinite ==
  ASSUME NEW S \in SUBSET Runs
  PROVE  IsFiniteSet(S) /\ Cardinality(S) \in Nat
BY RemindersAssumption, FS_Subset, FS_CardinalityType

LEMMA AddedRun ==
  ASSUME NEW S \in SUBSET Runs, NEW r \in Runs
  PROVE  Cardinality(S \cup {r}) <= Cardinality(S) + 1
BY RunsFinite, FS_AddElement

\* Two kinds of runs of one timer that no run is of at once fit into the timer.
LEMMA Apart ==
  ASSUME NEW k \in Keys, NEW S \in SUBSET RunsOf(k), NEW T \in SUBSET RunsOf(k),
         S \cap T = {}
  PROVE  Cardinality(S) + Cardinality(T) <= Cardinality(RunsOf(k))
<1>1. RunsOf(k) \subseteq Runs
  BY DEF RunsOf, Runs
<1>2. IsFiniteSet(RunsOf(k)) /\ IsFiniteSet(S) /\ IsFiniteSet(T)
  BY <1>1, RunsFinite
<1>3. Cardinality(S \cup T) = Cardinality(S) + Cardinality(T)
  <2>1. Cardinality(S \cup T) =
          Cardinality(S) + Cardinality(T) - Cardinality(S \cap T)
    BY <1>2, FS_Union
  <2>2. Cardinality(S \cap T) = 0
    BY FS_EmptySet
  <2>3. Cardinality(S) \in Nat /\ Cardinality(T) \in Nat
    BY <1>2, FS_CardinalityType
  <2> QED BY <2>1, <2>2, <2>3
<1>4. Cardinality(S \cup T) <= Cardinality(RunsOf(k))
  BY <1>2, FS_Subset
<1> QED BY <1>3, <1>4

\* What a run takes up has its marks missing, and is of its timer.
MayFollow(r, s) ==
  s = Idle \/ /\ s \in Sending /\ ~s.delivered
              /\ r \in RunsOf(s.key)
              /\ s.batch \cap marked[s.key] = {}

LEMMA DueMayFollow ==
  ASSUME TypeOK, NEW k \in Keys, NEW batch \in SUBSET Due(k), NEW r \in RunsOf(k)
  PROVE  MayFollow(r, Message(k, batch))
<1>1. batch \subseteq Ids /\ batch \cap marked[k] = {}
  BY DueType DEF Due
<1> QED BY <1>1 DEF MayFollow, Message, Sending

LEMMA SlaMayFollow ==
  ASSUME TypeOK, NEW r \in SlaRuns
  PROVE  MayFollow(r, To15m) /\ MayFollow(r, To60m)
<1>1. /\ "15m" \in Keys /\ "60m" \in Keys
      /\ r \in RunsOf("15m") /\ r \in RunsOf("60m")
  BY DEF Keys, RunsOf
<1>2. \A k \in Keys : Oldest(Due(k)) \in SUBSET Due(k)
  BY DEF Oldest
<1>3. MayFollow(r, Message("60m", Oldest(Due("60m"))))
  BY <1>1, <1>2, DueMayFollow
<1>4. MayFollow(r, Message("15m", Oldest(Due("15m"))))
  BY <1>1, <1>2, DueMayFollow
<1>5. MayFollow(r, Idle)
  BY DEF MayFollow
<1>6. MayFollow(r, To60m)
  BY <1>3, <1>5 DEF To60m
<1> QED BY <1>4, <1>6 DEF To15m

LEMMA AfterMayFollow ==
  ASSUME TypeOK, RunsMatch, NEW r \in Runs, run[r] # Idle
  PROVE  MayFollow(r, AfterMessage(run[r].key))
<1>1. CASE run[r].key = "15m"
  BY <1>1, SlaMayFollow DEF RunsMatch, RunsOf, AfterMessage
<1>2. CASE run[r].key # "15m"
  BY <1>2 DEF AfterMessage, MayFollow
<1> QED BY <1>1, <1>2

\* A run turns to something new.  A message it had delivered is marked, or its
\* answer is lost.
LEMMA TurnKeepsCounts ==
  ASSUME TypeOK, RepeatInv, NEW r \in Runs, NEW s, MayFollow(r, s),
         SetRun(r, s), told' = told, mishaps' \in Nat, mishaps <= mishaps',
         \A k \in Keys : marked[k] \subseteq marked'[k],
         run[r] # Idle /\ s # Idle => s.key # run[r].key,
         run[r] # Idle /\ run[r].delivered =>
           \/ run[r].batch \subseteq marked'[run[r].key]
           \/ mishaps < mishaps'
  PROVE  RepeatInv'
<1>1. \A q \in Runs : run'[q] = IF q = r THEN s ELSE run[q]
  BY DEF SetRun, TypeOK
<1>2. RunsMatch'
  BY <1>1 DEF RepeatInv, RunsMatch, MayFollow, RunsOf
<1>3. CountsHold'
  <2> SUFFICES ASSUME NEW k \in Keys, NEW i \in Ids
               PROVE  /\ i \notin marked'[k] =>
                           told[k][i] <= Cardinality(Arrived(k, i)') + mishaps'
                      /\ told[k][i] + Cardinality(Waits(k, i)')
                           <= Cardinality(RunsOf(k)) + mishaps'
    BY DEF CountsHold, RunsOf
  <2> DEFINE A == Arrived(k, i)
             W == Waits(k, i)
  <2>1. /\ A \subseteq Runs /\ W \subseteq Runs /\ A \cap W = {}
        /\ A \subseteq RunsOf(k) /\ W \subseteq RunsOf(k)
    BY DEF Arrived, Waits, RepeatInv, RunsMatch
  <2>2. /\ Cardinality(A) \in Nat /\ Cardinality(W) \in Nat
        /\ Cardinality(RunsOf(k)) \in Nat /\ told[k][i] \in Nat /\ mishaps \in Nat
    <3>1. RunsOf(k) \subseteq Runs
      BY DEF RunsOf, Runs
    <3> QED BY <2>1, <3>1, RunsFinite, RemindersAssumption DEF TypeOK
  <2>3. /\ i \notin marked[k] => told[k][i] <= Cardinality(A) + mishaps
        /\ told[k][i] + Cardinality(W) <= Cardinality(RunsOf(k)) + mishaps
    BY DEF RepeatInv, CountsHold
  <2>4. A' = A \ {r}
    BY <1>1 DEF Arrived, MayFollow
  <2>5. Cardinality(A') \in Nat /\ Cardinality(A) <= Cardinality(A') + 1
    <3>1. A' \in SUBSET Runs
      BY <2>1, <2>4
    <3>2. A \subseteq A' \cup {r}
      BY <2>4
    <3>3. IsFiniteSet(A' \cup {r}) /\ Cardinality(A) <= Cardinality(A' \cup {r})
      BY <3>1, <3>2, RunsFinite, FS_AddElement, FS_Subset
    <3>4. Cardinality(A' \cup {r}) <= Cardinality(A') + 1
      BY <3>1, AddedRun
    <3>5. Cardinality(A' \cup {r}) \in Nat /\ Cardinality(A') \in Nat
      BY <3>1, <3>3, RunsFinite, FS_CardinalityType
    <3> QED BY <2>2, <3>3, <3>4, <3>5
  <2>6. i \notin marked'[k] => told[k][i] <= Cardinality(A') + mishaps'
    <3> SUFFICES ASSUME i \notin marked'[k]
                 PROVE  told[k][i] <= Cardinality(A') + mishaps'
      OBVIOUS
    <3>1. told[k][i] <= Cardinality(A) + mishaps
      BY <2>3
    <3>2. CASE r \in A
      <4>1. mishaps < mishaps'
        BY <3>2 DEF Arrived
      <4> HIDE DEF A
      <4> QED BY <2>2, <2>5, <3>1, <4>1
    <3>3. CASE r \notin A
      <4>1. A' = A
        BY <2>4, <3>3
      <4> HIDE DEF A
      <4> QED BY <2>2, <3>1, <4>1
    <3> QED BY <3>2, <3>3
  <2>7. told[k][i] + Cardinality(W') <= Cardinality(RunsOf(k)) + mishaps'
    <3>1. CASE s # Idle /\ s.key = k /\ i \in s.batch
      <4>1. r \notin A /\ A' = A
        BY <2>4, <3>1 DEF Arrived
      <4>2. i \notin marked[k]
        BY <3>1 DEF MayFollow
      <4>3. W' \in SUBSET RunsOf(k) /\ A' \in SUBSET RunsOf(k) /\ W' \cap A' = {}
        BY <1>1, <2>1, <2>4, <3>1 DEF Waits, Arrived, MayFollow
      <4>4. Cardinality(W') + Cardinality(A') <= Cardinality(RunsOf(k))
        BY <4>3, Apart
      <4>5. Cardinality(W') \in Nat
        BY <4>3, RunsFinite DEF RunsOf, Runs
      <4>6. told[k][i] <= Cardinality(A) + mishaps
        BY <2>3, <4>2
      <4> HIDE DEF A, W
      <4> QED BY <2>2, <4>1, <4>4, <4>5, <4>6
    <3>2. CASE ~(s # Idle /\ s.key = k /\ i \in s.batch)
      <4>1. W' \subseteq W
        BY <1>1, <3>2 DEF Waits
      <4>2. Cardinality(W') <= Cardinality(W) /\ Cardinality(W') \in Nat
        BY <2>1, <4>1, RunsFinite, FS_Subset
      <4> HIDE DEF W
      <4> QED BY <2>2, <2>3, <4>2
    <3> QED BY <3>1, <3>2
  <2> QED BY <2>6, <2>7
<1> QED BY <1>2, <1>3 DEF RepeatInv

\* A delivery moves its run from those that wait to those that arrived.
LEMMA DeliverKeepsCounts ==
  ASSUME TypeOK, RepeatInv, NEW r \in Runs, Deliver(r)
  PROVE  RepeatInv'
<1> DEFINE m == run[r]
<1>1. m \in Sending /\ m.key \in Keys /\ m.batch \subseteq Ids
  BY SendingType DEF Deliver
<1>2. \A q \in Runs : run'[q] = IF q = r THEN [m EXCEPT !.delivered = TRUE] ELSE run[q]
  BY DEF Deliver, SetRun, TypeOK
<1>3. /\ run'[r].key = m.key /\ run'[r].batch = m.batch
      /\ run'[r].delivered /\ run'[r] \in Sending
  BY <1>1, <1>2 DEF Sending
<1>4. Idle \notin Sending
  BY DEF Idle, Sending
<1>5. RunsMatch'
  BY <1>2, <1>3 DEF RepeatInv, RunsMatch, RunsOf, Deliver
<1>6. CountsHold'
  <2> SUFFICES ASSUME NEW k \in Keys, NEW i \in Ids
               PROVE  /\ i \notin marked[k] =>
                           told'[k][i] <= Cardinality(Arrived(k, i)') + mishaps
                      /\ told'[k][i] + Cardinality(Waits(k, i)')
                           <= Cardinality(RunsOf(k)) + mishaps
    BY DEF CountsHold, RunsOf, Deliver
  <2> DEFINE A == Arrived(k, i)
             W == Waits(k, i)
  <2>1. A \in SUBSET Runs /\ W \in SUBSET Runs
    BY DEF Arrived, Waits
  <2>2. /\ IsFiniteSet(A) /\ IsFiniteSet(W)
        /\ Cardinality(A) \in Nat /\ Cardinality(W) \in Nat
        /\ Cardinality(RunsOf(k)) \in Nat /\ told[k][i] \in Nat /\ mishaps \in Nat
    BY <2>1, RunsFinite DEF RunsOf, Runs, TypeOK
  <2>3. /\ i \notin marked[k] => told[k][i] <= Cardinality(A) + mishaps
        /\ told[k][i] + Cardinality(W) <= Cardinality(RunsOf(k)) + mishaps
    BY DEF RepeatInv, CountsHold
  <2>4. CASE k = m.key /\ i \in m.batch
    <3>1. told'[k][i] = told[k][i] + 1
      BY <1>1, <2>4 DEF Deliver, TypeOK
    <3>2. r \notin A /\ r \in W
      BY <2>4 DEF Arrived, Waits, Deliver
    <3>3. A' = A \cup {r}
      BY <1>2, <1>3, <1>4, <2>4 DEF Arrived
    <3>4. W' = W \ {r}
      BY <1>2, <1>3 DEF Waits
    <3>5. Cardinality(A') = Cardinality(A) + 1 /\ Cardinality(W') = Cardinality(W) - 1
      <4> HIDE DEF A, W
      <4> QED BY <2>2, <3>2, <3>3, <3>4, FS_AddElement, FS_RemoveElement
    <3>6. /\ i \notin marked[k] => told'[k][i] <= Cardinality(A') + mishaps
          /\ told'[k][i] + Cardinality(W') <= Cardinality(RunsOf(k)) + mishaps
      <4> HIDE DEF A, W
      <4> QED BY <2>2, <2>3, <3>1, <3>5
    <3> QED BY <3>6
  <2>5. CASE ~(k = m.key /\ i \in m.batch)
    <3>1. told'[k][i] = told[k][i]
      BY <1>1, <2>5 DEF Deliver, TypeOK
    <3>2. A' = A /\ W' = W
      BY <1>2, <1>3, <2>5 DEF Arrived, Waits
    <3>3. /\ i \notin marked[k] => told'[k][i] <= Cardinality(A') + mishaps
          /\ told'[k][i] + Cardinality(W') <= Cardinality(RunsOf(k)) + mishaps
      <4> HIDE DEF A, W
      <4> QED BY <2>3, <3>1, <3>2
    <3> QED BY <3>3
  <2> QED BY <2>4, <2>5
<1> QED BY <1>5, <1>6 DEF RepeatInv

\* A restart counts every message that arrived and was not marked.
LEMMA RestartKeepsCounts ==
  ASSUME TypeOK, RepeatInv, Restart
  PROVE  RepeatInv'
<1> DEFINE All == {r \in Runs : run[r] # Idle /\ run[r].delivered}
<1>1. mishaps' = mishaps + Cardinality(All) /\ UNCHANGED <<marked, told>>
  BY DEF Restart
<1>2. \A r \in Runs : run'[r] = Idle
  BY DEF Restart
<1>3. RunsMatch'
  BY <1>2 DEF RunsMatch
<1>4. CountsHold'
  <2> SUFFICES ASSUME NEW k \in Keys, NEW i \in Ids
               PROVE  /\ i \notin marked[k] =>
                           told[k][i] <= Cardinality(Arrived(k, i)') + mishaps'
                      /\ told[k][i] + Cardinality(Waits(k, i)')
                           <= Cardinality(RunsOf(k)) + mishaps'
    BY <1>1 DEF CountsHold, RunsOf
  <2> DEFINE A == Arrived(k, i)
             W == Waits(k, i)
  <2>1. A' = {} /\ W' = {}
    BY <1>2 DEF Arrived, Waits
  <2>2. A \in SUBSET All /\ All \in SUBSET Runs /\ W \in SUBSET Runs
    BY DEF Arrived, Waits
  <2>3. Cardinality(A) <= Cardinality(All)
    BY <2>2, RunsFinite, FS_Subset
  <2>4. /\ Cardinality(A) \in Nat /\ Cardinality(W) \in Nat /\ Cardinality(All) \in Nat
        /\ Cardinality(RunsOf(k)) \in Nat /\ told[k][i] \in Nat /\ mishaps \in Nat
    <3>1. RunsOf(k) \subseteq Runs /\ A \subseteq Runs
      BY DEF RunsOf, Runs, Arrived
    <3> QED BY <2>2, <3>1, RunsFinite DEF TypeOK
  <2>5. Cardinality(A') = 0 /\ Cardinality(W') = 0
    BY <2>1, FS_EmptySet
  <2>6. /\ i \notin marked[k] => told[k][i] <= Cardinality(A) + mishaps
        /\ told[k][i] + Cardinality(W) <= Cardinality(RunsOf(k)) + mishaps
    BY DEF RepeatInv, CountsHold
  <2>7. /\ i \notin marked[k] => told[k][i] <= Cardinality(A') + mishaps'
        /\ told[k][i] + Cardinality(W') <= Cardinality(RunsOf(k)) + mishaps'
    <3> HIDE DEF A, W, All
    <3> QED BY <1>1, <2>3, <2>4, <2>5, <2>6
  <2> QED BY <2>7
<1> QED BY <1>3, <1>4 DEF RepeatInv

LEMMA StepKeepsCounts ==
  ASSUME TypeOK, RepeatInv, [Next]_vars
  PROVE  RepeatInv'
<1>0. mishaps \in Nat
  BY DEF TypeOK
<1>1. CASE \E r \in SlaRuns : StartSla(r)
  BY <1>0, <1>1, SlaMayFollow, TurnKeepsCounts DEF StartSla, Runs
<1>2. CASE \E r \in FollowUpRuns : StartFollowUps(r)
  <2>1. PICK r \in FollowUpRuns, batch \in SUBSET Due("follow_up") :
          /\ run[r] = Idle /\ SetRun(r, Message("follow_up", batch))
          /\ UNCHANGED <<leads, marked, told, heard, snoozes, mishaps>>
    BY <1>2 DEF StartFollowUps
  <2>2. "follow_up" \in Keys /\ r \in RunsOf("follow_up") /\ r \in Runs
    BY DEF Keys, RunsOf, Runs
  <2>3. MayFollow(r, Message("follow_up", batch))
    BY <2>2, DueMayFollow
  <2> QED BY <1>0, <2>1, <2>2, <2>3, TurnKeepsCounts
<1>3. CASE \E r \in Runs : SendFails(r)
  <2>1. PICK r \in Runs : SendFails(r)
    BY <1>3
  <2>2. MayFollow(r, AfterMessage(run[r].key))
    BY <2>1, AfterMayFollow DEF SendFails, RepeatInv
  <2>3. AfterMessage(run[r].key) # Idle => AfterMessage(run[r].key).key # run[r].key
    BY DEF AfterMessage, To60m, Message, Idle
  <2>4. /\ mishaps' \in Nat /\ mishaps <= mishaps'
        /\ run[r].delivered => mishaps < mishaps'
    BY <1>0, <2>1 DEF SendFails
  <2> QED BY <2>1, <2>2, <2>3, <2>4, TurnKeepsCounts DEF SendFails
<1>4. CASE \E r \in Runs : Acknowledge(r)
  <2>1. PICK r \in Runs : Acknowledge(r)
    BY <1>4
  <2>2. MayFollow(r, AfterMessage(run[r].key))
    BY <2>1, AfterMayFollow DEF Acknowledge, RepeatInv
  <2>3. AfterMessage(run[r].key) # Idle => AfterMessage(run[r].key).key # run[r].key
    BY DEF AfterMessage, To60m, Message, Idle
  <2>4. /\ \A k \in Keys : marked[k] \subseteq marked'[k]
        /\ run[r].batch \subseteq marked'[run[r].key]
    BY <2>1, SendingType DEF Acknowledge, TypeOK
  <2> QED BY <1>0, <2>1, <2>2, <2>3, <2>4, TurnKeepsCounts DEF Acknowledge
<1>5. CASE \E r \in Runs : Deliver(r)
  BY <1>5, DeliverKeepsCounts
<1>6. CASE Restart
  BY <1>6, RestartKeepsCounts
<1>7. CASE UNCHANGED <<marked, run, told, mishaps>>
  BY <1>7 DEF RepeatInv, RunsMatch, CountsHold, Arrived, Waits, RunsOf
<1> QED
  BY <1>1, <1>2, <1>3, <1>4, <1>5, <1>6, <1>7
  DEF Next, vars, RunStep, LeadStep, CreateLead, SetStatus, Snooze, Reply,
      GrowOlder, FollowUpNears

\* A message of a kind names a lead once, plus once for each further run that
\* overlaps and for each delivery whose answer was lost, for any number of each.
THEOREM RepeatsAreMishapsHolds == Spec => []RepeatsAreMishaps
<1>1. Init => RepeatInv
  <2> SUFFICES ASSUME Init PROVE RepeatInv
    OBVIOUS
  <2>1. RunsMatch
    BY DEF Init, RunsMatch
  <2>2. \A k \in Keys, i \in Ids : Arrived(k, i) = {} /\ Waits(k, i) = {}
    BY DEF Init, Arrived, Waits
  <2>3. \A k \in Keys : Cardinality(RunsOf(k)) \in Nat
    BY RunsFinite DEF RunsOf, Runs
  <2>4. \A k \in Keys, i \in Ids :
          /\ Cardinality(Arrived(k, i)) = 0 /\ Cardinality(Waits(k, i)) = 0
          /\ told[k][i] = 0 /\ mishaps = 0
    BY <2>2, FS_EmptySet DEF Init
  <2>5. CountsHold
    BY <2>3, <2>4 DEF CountsHold
  <2> QED BY <2>1, <2>5 DEF RepeatInv
<1>2. TypeOK /\ RepeatInv /\ [Next]_vars => RepeatInv'
  BY StepKeepsCounts
<1>3. TypeOK /\ RepeatInv => RepeatsAreMishaps
  <2> SUFFICES ASSUME TypeOK, RepeatInv, NEW k \in Keys, NEW i \in Ids
               PROVE  told[k][i] <= Cardinality(RunsOf(k)) + mishaps
    BY DEF RepeatsAreMishaps
  <2>1. /\ Cardinality(RunsOf(k)) \in Nat /\ Cardinality(Waits(k, i)) \in Nat
        /\ told[k][i] \in Nat /\ mishaps \in Nat
    BY RunsFinite DEF RunsOf, Runs, Waits, TypeOK
  <2> QED BY <2>1 DEF RepeatInv, CountsHold
<1> QED BY <1>1, <1>2, <1>3, TypeCorrect, PTL DEF Spec
==============================================================================
