---------------------------- MODULE DraftReminders ----------------------------
(***************************************************************************)
(* The reminders clients get about drafts they left alone: the draft run   *)
(* of src/services/scheduler-service.js and the sessions rows it lists and *)
(* marks.                                                                  *)
(*                                                                         *)
(* Every five minutes a timer starts a run.  It lists the rows due at 15   *)
(* minutes, then, message by message, awaits the send to each client and   *)
(* marks the row of that client, whatever the row holds by then; after     *)
(* that it does the same for 24 hours with a fresh list.  A failed send is *)
(* caught for each client apart.  Every write of a session clears both     *)
(* marks and starts the wait anew: an episode is the time between two such *)
(* writes, and the reminder a run holds is about the episode it listed.    *)
(*                                                                         *)
(* A row may be written at any await when Overlap is TRUE; when it is      *)
(* FALSE the client leaves its row alone while a run has it in hand.  The  *)
(* lead_abandoned event is a log nothing here reads, and is left out.      *)
(***************************************************************************)
EXTENDS Integers, FiniteSets

CONSTANTS
  Clients,
  Blocked,       \* clients that have blocked the bot: a send to them fails
  Runs,          \* runs of the timer that may overlap
  Overlap,       \* may a row be written while a run has it in hand?
  MaxEpisodes,   \* bound: times a client writes its draft
  MaxMishaps     \* bound: deliveries to one client nobody took note of

Keys == {"15m", "24h"}

\* How long a row has been left alone: less than 15 minutes, less than 24 hours,
\* less than 72, or more, and then get() no longer returns it.
Ages == 0..3
Expired == 3

Row == [flow : {"lead", "other"}, age : Ages, marks : SUBSET Keys]
NoRow == [flow |-> "none"]

Listed == [client : Clients, episode : 0..MaxEpisodes]

Idle == [key |-> "idle"]

\* What a run holds across its await: the reminder it sends, whether that has
\* arrived, and the reminders it has yet to send.
Sending == [key : Keys, to : Listed, todo : SUBSET Listed, delivered : BOOLEAN]

ASSUME DraftsAssumption ==
  /\ Blocked \subseteq Clients
  /\ IsFiniteSet(Runs)
  /\ Overlap \in BOOLEAN
  /\ MaxEpisodes \in Nat
  /\ MaxMishaps \in Nat

VARIABLES
  row,       \* sessions table, by client
  run,
  episode,   \* history: writes of the draft of a client
  told,      \* history: reminders of a kind about the present episode
  mishaps    \* history: of these, the ones delivered and not taken note of

vars == <<row, run, episode, told, mishaps>>

TypeOK ==
  /\ row \in [Clients -> Row \cup {NoRow}]
  /\ run \in [Runs -> Sending \cup {Idle}]
  /\ episode \in [Clients -> 0..MaxEpisodes]
  /\ told \in [Keys -> [Clients -> Nat]]
  /\ mishaps \in [Clients -> 0..MaxMishaps]

------------------------------------------------------------------------------
(* What is due, and where a run goes.                                      *)

DueAge(key) == IF key = "15m" THEN 1 ELSE 2

\* The rows a query returns; neither looks at the 72 hours.
Due(key) ==
  {[client |-> c, episode |-> episode[c]] :
     c \in {x \in Clients : /\ row[x].flow = "lead"
                            /\ row[x].age >= DueAge(key)
                            /\ key \notin row[x].marks}}

\* A run at the head of a list; no query orders its rows.
Over(key, list) ==
  {[key |-> key, to |-> l, todo |-> list \ {l}, delivered |-> FALSE] : l \in list}

Listing24h == IF Due("24h") = {} THEN {Idle} ELSE Over("24h", Due("24h"))
Listing15m == IF Due("15m") = {} THEN Listing24h ELSE Over("15m", Due("15m"))

\* Where a run goes after a reminder, sent or failed.
Following(s) ==
  IF s.todo # {} THEN Over(s.key, s.todo)
  ELSE IF s.key = "15m" THEN Listing24h
  ELSE {Idle}

GoOn(r, states) == \E s \in states : run' = [run EXCEPT ![r] = s]

\* Is the reminder of run r about what the row of its client still is?
IsCurrent(r) == run[r].to.episode = episode[run[r].to.client]

\* May client c write its row now?
Ready(c) ==
  ~Overlap =>
    \A r \in Runs : run[r] # Idle => \A l \in {run[r].to} \cup run[r].todo : l.client # c

\* Deliveries about the present episode of c in flight among runs R.
Unnoted(R, c) ==
  Cardinality({r \in R : /\ run[r] # Idle /\ run[r].delivered
                         /\ run[r].to.client = c /\ IsCurrent(r)})

Count(R) == [c \in Clients |-> mishaps[c] + Unnoted(R, c)]

------------------------------------------------------------------------------
(* The timer and its runs.                                                 *)

\* The timer fires and finds something; a run that finds nothing ends.
Start(r) ==
  /\ run[r] = Idle
  /\ Listing15m # {Idle}
  /\ GoOn(r, Listing15m)
  /\ UNCHANGED <<row, episode, told, mishaps>>

\* Telegram delivers the reminder; the answer is still under way.
Deliver(r) ==
  /\ run[r] # Idle
  /\ ~run[r].delivered
  /\ run[r].to.client \notin Blocked
  /\ run' = [run EXCEPT ![r].delivered = TRUE]
  /\ told' = IF IsCurrent(r)
               THEN [told EXCEPT ![run[r].key][run[r].to.client] = @ + 1]
               ELSE told
  /\ UNCHANGED <<row, episode, mishaps>>

\* Fault: the try encloses the loop over the rows and not its body.
FaultGivesUp(r) ==
  /\ run[r] # Idle
  /\ \A c \in Clients : Count({r})[c] <= MaxMishaps
  /\ mishaps' = Count({r})
  /\ GoOn(r, Following([run[r] EXCEPT !.todo = {}]))
  /\ UNCHANGED <<row, episode, told>>

\* The send throws, of a reminder lost or of a delivered one whose answer is.
SendFails(r) ==
  /\ run[r] # Idle
  /\ \A c \in Clients : Count({r})[c] <= MaxMishaps
  /\ mishaps' = Count({r})
  /\ GoOn(r, Following(run[r]))
  /\ UNCHANGED <<row, episode, told>>

\* Fault: the mark is an upsert, and makes a row where there is none.
FaultUpsertMark(r) ==
  LET c == run[r].to.client
      old == IF row[c] = NoRow THEN [flow |-> "none", age |-> 0, marks |-> {}] ELSE row[c] IN
  /\ run[r] # Idle
  /\ run[r].delivered
  /\ row' = [row EXCEPT ![c] = [old EXCEPT !.marks = @ \cup {run[r].key}]]
  /\ GoOn(r, Following(run[r]))
  /\ UNCHANGED <<episode, told, mishaps>>

\* The send resolves: mark the row of the client, if there is one by now.
Acknowledge(r) ==
  LET c == run[r].to.client IN
  /\ run[r] # Idle
  /\ run[r].delivered
  /\ row' = IF row[c] = NoRow THEN row
              ELSE [row EXCEPT ![c].marks = @ \cup {run[r].key}]
  /\ GoOn(r, Following(run[r]))
  /\ UNCHANGED <<episode, told, mishaps>>

\* The process dies and starts again; the database stays.
Restart ==
  /\ \E r \in Runs : run[r] # Idle
  /\ \A c \in Clients : Count(Runs)[c] <= MaxMishaps
  /\ mishaps' = Count(Runs)
  /\ run' = [r \in Runs |-> Idle]
  /\ UNCHANGED <<row, episode, told>>

------------------------------------------------------------------------------
(* The clients, and time.                                                  *)

\* Fault: the upsert of a session leaves the marks as they are.
FaultKeepMarks(c, flow) ==
  [flow |-> flow, age |-> 0, marks |-> IF row[c] = NoRow THEN {} ELSE row[c].marks]

\* set(): flow and draft are new, the wait starts anew, the marks are cleared.
SetRow(c, flow) == [flow |-> flow, age |-> 0, marks |-> {}]

NewEpisode(c) ==
  /\ told' = [k \in Keys |-> [told[k] EXCEPT ![c] = 0]]
  /\ mishaps' = [mishaps EXCEPT ![c] = 0]

\* Any step of the request flow, or the first one of an order.
WriteDraft(c) ==
  /\ Ready(c)
  /\ episode[c] < MaxEpisodes
  /\ episode' = [episode EXCEPT ![c] = @ + 1]
  /\ row' = [row EXCEPT ![c] = SetRow(c, "lead")]
  /\ NewEpisode(c)
  /\ UNCHANGED run

\* The order is cancelled or confirmed: a home row, by way of none.
EndDraft(c) ==
  /\ Ready(c)
  /\ row[c].flow = "lead"
  /\ \E s \in {NoRow, SetRow(c, "other")} : row' = [row EXCEPT ![c] = s]
  /\ UNCHANGED <<run, episode, told, mishaps>>

GrowOlder(c) ==
  /\ row[c] # NoRow
  /\ row[c].age < Expired
  /\ row' = [row EXCEPT ![c].age = @ + 1]
  /\ UNCHANGED <<run, episode, told, mishaps>>

\* The hourly cleanup finds the row.
ClearExpired(c) ==
  /\ row[c] # NoRow
  /\ row[c].age = Expired
  /\ row' = [row EXCEPT ![c] = NoRow]
  /\ UNCHANGED <<run, episode, told, mishaps>>

Init ==
  /\ row = [c \in Clients |-> NoRow]
  /\ run = [r \in Runs |-> Idle]
  /\ episode = [c \in Clients |-> 0]
  /\ told = [k \in Keys |-> [c \in Clients |-> 0]]
  /\ mishaps = [c \in Clients |-> 0]

RunStep(r) == Start(r) \/ Deliver(r) \/ SendFails(r) \/ Acknowledge(r)

ClientStep(c) ==
  WriteDraft(c) \/ EndDraft(c) \/ GrowOlder(c) \/ ClearExpired(c)

Next ==
  \/ \E r \in Runs : RunStep(r)
  \/ \E c \in Clients : ClientStep(c)
  \/ Restart

Spec == Init /\ [][Next]_vars

\* The first day of a draft passes; the timer fires again and again while the
\* process lives; a run is not killed at the same reminder for ever; a send to
\* a client that has not blocked the bot, tried again and again, gets through
\* and is answered.
At(r, key, c) == run[r] # Idle /\ run[r].key = key /\ run[r].to.client = c

Fairness ==
  /\ \A c \in Clients : WF_vars(row[c].flow = "lead" /\ row[c].age < 2 /\ GrowOlder(c))
  /\ \A r \in Runs : WF_vars(Start(r))
  /\ \A r \in Runs, k \in Keys :
       /\ \A c \in Clients : SF_vars(At(r, k, c) /\ (SendFails(r) \/ Acknowledge(r)))
       /\ \A c \in Clients \ Blocked : /\ SF_vars(At(r, k, c) /\ Deliver(r))
                                       /\ SF_vars(At(r, k, c) /\ Acknowledge(r))

FairSpec == Spec /\ Fairness
------------------------------------------------------------------------------
(* Properties.                                                             *)

IsDraft(c) == row[c].flow = "lead" /\ row[c].age < Expired

\* A mark on a draft says that the client was reminded since it last wrote it,
\* and a draft left alone is reminded of once, plus once for each further run
\* that overlaps and for each delivery nobody took note of.
MarkedWasTold(c, k) ==
  row[c].flow = "lead" /\ k \in row[c].marks => told[k][c] > 0

RepeatsAreMishaps(c, k) == told[k][c] <= Cardinality(Runs) + mishaps[c]

TellingIsAccountedFor ==
  \A c \in Clients, k \in Keys : MarkedWasTold(c, k) /\ RepeatsAreMishaps(c, k)

\* A draft left alone is reminded of, at 15 minutes and at 24 hours, though the
\* sends to another client of the same list fail for ever.
DraftIsBroughtUp ==
  \A c \in Clients \ Blocked, k \in Keys :
    \A n \in 1..MaxEpisodes :
      (IsDraft(c) /\ episode[c] = n) ~>
        (~IsDraft(c) \/ episode[c] # n \/ told[k][c] > 0)
==============================================================================
