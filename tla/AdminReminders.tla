---------------------------- MODULE AdminReminders ----------------------------
(***************************************************************************)
(* The reminders the admin gets about leads: src/services/                 *)
(* scheduler-service.js, the queries and marks of src/repositories/        *)
(* leads.js it works with, and the admin's buttons that change what is due.*)
(*                                                                         *)
(* A timer starts a run.  A run lists the due leads, awaits one message    *)
(* that names them all, and then marks each of them; an error of the send  *)
(* is caught and marks none.  The run of the SLA timer does so for 15      *)
(* minutes and then for 60, with a fresh list.  Nothing keeps the next     *)
(* timer from starting a run while one still awaits, and the process may   *)
(* die with messages in flight, delivered or not.                          *)
(*                                                                         *)
(* The card the admin gets when a lead is confirmed is sent once, and an   *)
(* error is logged and swallowed: these reminders are all that makes up    *)
(* for it, so the card is left out.  Time is the age class of a lead and   *)
(* the phase of its follow-up, not a clock.  Leads are for products of     *)
(* their own: what the unique index refuses is the subject of LeadFlow.    *)
(***************************************************************************)
EXTENDS Integers, Sequences, FiniteSets

CONSTANTS
  Clients,
  SlaRuns,        \* runs of the SLA timer that may overlap
  FollowUpRuns,   \* runs of the follow-up timer that may overlap
  AdminTargets,   \* statuses the admin sets
  Limit,          \* leads one message may name; 20 in the code
  MaxLeads,       \* bound: rows of the leads table
  MaxSnoozes,     \* bound: times the admin snoozes one lead
  MaxMishaps      \* bound: deliveries whose answer is lost

Runs == SlaRuns \cup FollowUpRuns
Ids == 1..MaxLeads

\* called_back and proposal_sent behave as in_progress, fulfilled as closed.
Statuses == {"new", "in_progress", "closed"}

ASSUME RemindersAssumption ==
  /\ SlaRuns \cap FollowUpRuns = {}
  /\ IsFiniteSet(Runs)
  /\ Limit \in Nat \ {0}
  /\ MaxLeads \in Nat
  /\ AdminTargets \subseteq Statuses
  /\ MaxSnoozes \in Nat
  /\ MaxMishaps \in Nat

\* How long ago a lead was created: under 15 minutes, under 60, or more.
Ages == 0..2

\* A follow-up time: none, to come, past, and past with the UTC day over.
FollowUps == {"none", "waiting", "past", "next_day"}

Lead == [client : Clients, status : Statuses, age : Ages, replied : BOOLEAN,
         followUp : FollowUps]

\* One column of marks for each kind of reminder.
Keys == {"15m", "60m", "follow_up"}

Idle == [key |-> "idle"]

\* What a run holds across its await, and whether the message has arrived.
Sending == [key : Keys, batch : SUBSET Ids, delivered : BOOLEAN]

VARIABLES
  leads,     \* leads table, in the order of created_at; ids are positions
  marked,    \* leads with the mark of a kind set
  run,
  told,      \* history: messages of a kind the admin got that name the lead
  heard,     \* history: leads the admin was reminded of since the last snooze
  snoozes,   \* history: times a lead was snoozed
  mishaps    \* history: messages delivered and not taken note of

vars == <<leads, marked, run, told, heard, snoozes, mishaps>>

TypeOK ==
  /\ leads \in Seq(Lead)
  /\ Len(leads) <= MaxLeads
  /\ marked \in [Keys -> SUBSET Ids]
  /\ run \in [Runs -> Sending \cup {Idle}]
  /\ told \in [Keys -> [Ids -> Nat]]
  /\ heard \subseteq Ids
  /\ snoozes \in [Ids -> 0..MaxSnoozes]
  /\ mishaps \in 0..MaxMishaps

------------------------------------------------------------------------------
(* What is due.                                                            *)

IsOpen(i) == leads[i].status # "closed"

Unanswered(i) == leads[i].status = "new" /\ ~leads[i].replied

\* Fault: the queries do not ask for the mark to be missing.
FaultNoMarkTest(key) ==
  {i \in 1..Len(leads) :
     CASE key = "15m"       -> Unanswered(i) /\ leads[i].age >= 1
       [] key = "60m"       -> Unanswered(i) /\ leads[i].age >= 2
       [] key = "follow_up" -> IsOpen(i) /\ leads[i].followUp = "next_day"}

\* The rows a query returns, but for its LIMIT.  next_follow_up_at is written
\* by toISOString, with a "T" where CURRENT_TIMESTAMP has a space: as texts, it
\* is the smaller one only once the UTC day is over.
Due(key) ==
  {i \in 1..Len(leads) \ marked[key] :
     CASE key = "15m"       -> Unanswered(i) /\ leads[i].age >= 1
       [] key = "60m"       -> Unanswered(i) /\ leads[i].age >= 2
       [] key = "follow_up" -> IsOpen(i) /\ leads[i].followUp = "next_day"}

\* ORDER BY created_at ASC LIMIT.
Oldest(S) == {i \in S : Cardinality({j \in S : j < i}) < Limit}

Message(key, batch) == [key |-> key, batch |-> batch, delivered |-> FALSE]

\* Where a run of the SLA timer goes when it comes to a kind of reminder.
To60m == IF Due("60m") = {} THEN Idle ELSE Message("60m", Oldest(Due("60m")))
To15m == IF Due("15m") = {} THEN To60m ELSE Message("15m", Oldest(Due("15m")))

\* Where a run goes after a message, sent or failed.
AfterMessage(key) == IF key = "15m" THEN To60m ELSE Idle

SetRun(r, s) == run' = [run EXCEPT ![r] = s]

------------------------------------------------------------------------------
(* The timers and their runs.                                              *)

\* Fault: the leads are marked when they are listed, before the send.
FaultMarkFirst(r) ==
  /\ run[r] = Idle
  /\ To15m # Idle
  /\ SetRun(r, To15m)
  /\ marked' = [marked EXCEPT ![To15m.key] = @ \cup To15m.batch]
  /\ UNCHANGED <<leads, told, heard, snoozes, mishaps>>

\* The SLA timer fires and finds something; a run that finds nothing ends.
StartSla(r) ==
  /\ run[r] = Idle
  /\ To15m # Idle
  /\ SetRun(r, To15m)
  /\ UNCHANGED <<leads, marked, told, heard, snoozes, mishaps>>

\* The follow-up timer fires and finds something.  The query orders by the
\* follow-up times, which are not kept here: which leads the LIMIT lets
\* through is left open.
StartFollowUps(r) ==
  /\ run[r] = Idle
  /\ \E batch \in SUBSET Due("follow_up") :
       /\ batch # {}
       /\ Cardinality(batch) <= Limit
       /\ batch = Due("follow_up") \/ Cardinality(batch) = Limit
       /\ SetRun(r, Message("follow_up", batch))
  /\ UNCHANGED <<leads, marked, told, heard, snoozes, mishaps>>

\* Telegram delivers the message; the answer is still under way.
Deliver(r) ==
  /\ run[r] # Idle
  /\ ~run[r].delivered
  /\ SetRun(r, [run[r] EXCEPT !.delivered = TRUE])
  /\ told' = [told EXCEPT ![run[r].key] =
                [i \in Ids |-> IF i \in run[r].batch THEN @[i] + 1 ELSE @[i]]]
  /\ heard' = IF run[r].key = "follow_up" THEN heard \cup run[r].batch ELSE heard
  /\ UNCHANGED <<leads, marked, snoozes, mishaps>>

\* Fault: a run marks its leads in the finally, whether or not the send failed.
FaultMarkFailed(r) ==
  /\ run[r] # Idle
  /\ run[r].delivered => mishaps < MaxMishaps
  /\ SetRun(r, AfterMessage(run[r].key))
  /\ marked' = [marked EXCEPT ![run[r].key] = @ \cup run[r].batch]
  /\ mishaps' = IF run[r].delivered THEN mishaps + 1 ELSE mishaps
  /\ UNCHANGED <<leads, told, heard, snoozes>>

\* The send throws, of a message lost or of a delivered one whose answer is.
SendFails(r) ==
  /\ run[r] # Idle
  /\ run[r].delivered => mishaps < MaxMishaps
  /\ SetRun(r, AfterMessage(run[r].key))
  /\ mishaps' = IF run[r].delivered THEN mishaps + 1 ELSE mishaps
  /\ UNCHANGED <<leads, marked, told, heard, snoozes>>

\* The send resolves: mark every lead of the message, as it may be by now.
Acknowledge(r) ==
  /\ run[r] # Idle
  /\ run[r].delivered
  /\ marked' = [marked EXCEPT ![run[r].key] = @ \cup run[r].batch]
  /\ SetRun(r, AfterMessage(run[r].key))
  /\ UNCHANGED <<leads, told, heard, snoozes, mishaps>>

\* The process dies and starts again; the database stays.
Restart ==
  LET lost == Cardinality({r \in Runs : run[r] # Idle /\ run[r].delivered}) IN
  /\ \E r \in Runs : run[r] # Idle
  /\ mishaps + lost <= MaxMishaps
  /\ mishaps' = mishaps + lost
  /\ run' = [r \in Runs |-> Idle]
  /\ UNCHANGED <<leads, marked, told, heard, snoozes>>

------------------------------------------------------------------------------
(* Leads, the admin, and time.                                             *)

CreateLead(c) ==
  /\ Len(leads) < MaxLeads
  /\ leads' = Append(leads, [client |-> c, status |-> "new", age |-> 0,
                             replied |-> FALSE, followUp |-> "none"])
  /\ UNCHANGED <<marked, run, told, heard, snoozes, mishaps>>

\* Fault: the status is written as it came, an old name not normalised.
FaultRawStatus(i, status, followUp) ==
  leads' = [leads EXCEPT ![i].status =
              IF status = "in_progress" THEN "awaiting_payment" ELSE status,
                         ![i].followUp = followUp]

\* updateStatus of the repository: it writes the follow-up time in any case,
\* null when none is given, and leaves the marks alone.
UpdateStatus(i, status, followUp) ==
  leads' = [leads EXCEPT ![i] = [@ EXCEPT !.status = status, !.followUp = followUp]]

SetStatus(i, status) ==
  /\ UpdateStatus(i, status, "none")
  /\ UNCHANGED <<marked, run, told, heard, snoozes, mishaps>>

\* Button lead_snooze: remind me in two hours.  It takes itself off the card, but for
\* an edit that fails, which is swallowed: only then is there a second snooze.
Snooze(i) ==
  /\ snoozes[i] < MaxSnoozes
  /\ UpdateStatus(i, "in_progress", "waiting")
  /\ heard' = heard \ {i}
  /\ snoozes' = [snoozes EXCEPT ![i] = @ + 1]
  /\ UNCHANGED <<marked, run, told, mishaps>>

\* An answer to a client, counted for the latest open lead of the client.
Reply(i) ==
  /\ IsOpen(i)
  /\ \A j \in i + 1..Len(leads) : leads[j].client = leads[i].client => ~IsOpen(j)
  /\ leads' = [leads EXCEPT ![i].replied = TRUE]
  /\ UNCHANGED <<marked, run, told, heard, snoozes, mishaps>>

\* A lead grows older, never past one created before it.
GrowOlder(i) ==
  /\ leads[i].age < 2
  /\ i > 1 => leads[i - 1].age > leads[i].age
  /\ leads' = [leads EXCEPT ![i].age = @ + 1]
  /\ UNCHANGED <<marked, run, told, heard, snoozes, mishaps>>

\* The follow-up time passes, and then the UTC day.
FollowUpNears(i) ==
  /\ leads[i].followUp \in {"waiting", "past"}
  /\ leads' = [leads EXCEPT ![i].followUp =
                 IF @ = "waiting" THEN "past" ELSE "next_day"]
  /\ UNCHANGED <<marked, run, told, heard, snoozes, mishaps>>

Init ==
  /\ leads = <<>>
  /\ marked = [k \in Keys |-> {}]
  /\ run = [r \in Runs |-> Idle]
  /\ told = [k \in Keys |-> [i \in Ids |-> 0]]
  /\ heard = {}
  /\ snoozes = [i \in Ids |-> 0]
  /\ mishaps = 0

RunStep(r) == Deliver(r) \/ SendFails(r) \/ Acknowledge(r)

LeadStep(i) ==
  \/ \E s \in AdminTargets : SetStatus(i, s)
  \/ Snooze(i)
  \/ Reply(i)
  \/ GrowOlder(i)
  \/ FollowUpNears(i)

Next ==
  \/ \E r \in SlaRuns : StartSla(r)
  \/ \E r \in FollowUpRuns : StartFollowUps(r)
  \/ \E r \in Runs : RunStep(r)
  \/ \E c \in Clients : CreateLead(c)
  \/ \E i \in 1..Len(leads) : LeadStep(i)
  \/ Restart

Spec == Init /\ [][Next]_vars

\* Time passes; timers fire again and again while the process lives; a send
\* that is tried again and again gets through and is answered some time.
Fairness ==
  /\ \A i \in Ids : /\ WF_vars(i <= Len(leads) /\ GrowOlder(i))
                    /\ WF_vars(i <= Len(leads) /\ FollowUpNears(i))
  /\ \A r \in SlaRuns : WF_vars(StartSla(r))
  /\ \A r \in FollowUpRuns : WF_vars(StartFollowUps(r))
  /\ \A r \in Runs : SF_vars(Deliver(r)) /\ SF_vars(Acknowledge(r))

FairSpec == Spec /\ Fairness
------------------------------------------------------------------------------
(* Properties.                                                             *)

\* A lead is marked as reminded of only when the admin got a message that
\* names it, whatever fails, overlaps or is killed in between.
MarkedWasTold ==
  \A k \in Keys : \A i \in marked[k] : told[k][i] > 0

RunsOf(k) == IF k = "follow_up" THEN FollowUpRuns ELSE SlaRuns

\* A message of a kind names a lead once, plus once for each further run that
\* overlaps and for each delivery whose answer was lost.
RepeatsAreMishaps ==
  \A k \in Keys, i \in Ids : told[k][i] <= Cardinality(RunsOf(k)) + mishaps

IsUnanswered(i) == i <= Len(leads) /\ Unanswered(i)
IsSnoozed(i) == i <= Len(leads) /\ IsOpen(i) /\ leads[i].followUp # "none"

\* A lead does not stay new and unanswered for ever with the admin not told of
\* it at 15 minutes and at 60, nor snoozed for ever with its first follow-up not
\* come, however often a send fails and the process restarts.
LeadsAreBroughtUp ==
  \A i \in Ids :
    /\ []<>(~IsUnanswered(i) \/ (told["15m"][i] > 0 /\ told["60m"][i] > 0))
    /\ []<>(~IsSnoozed(i) \/ told["follow_up"][i] > 0)

\* Every snooze is followed by a reminder, as the admin was told it would be.
EverySnoozeIsFollowedUp ==
  \A i \in Ids :
    (IsSnoozed(i) /\ i \notin heard) ~> (~IsSnoozed(i) \/ i \in heard)
==============================================================================
