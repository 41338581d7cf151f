------------------------------- MODULE Delivery -------------------------------
(***************************************************************************)
(* A broadcast to all clients: broadcastToClients of                       *)
(* src/services/admin-service.js over the bulk jobs of                     *)
(* src/services/queue-service.js, and the direct sends it falls back to.   *)
(*                                                                         *)
(* Bull is external: a job whose run takes longer than its timeout fails   *)
(* while the loop of that run goes on; a job whose worker is lost is       *)
(* started again; a job that fails is tried Attempts times.                *)
(*                                                                         *)
(* One pass over the list is a record: whom it has still to send to, and   *)
(* who answered.  The order of the list is left open, and so is when Bull  *)
(* has a worker free.                                                      *)
(***************************************************************************)
EXTENDS Integers, Sequences, FiniteSets

CONSTANTS
  Clients,
  Broadcasts,  \* bound: /broadcast commands that are ever given
  Attempts,    \* attempts of RETRY_CONFIG, 3
  MaxStalls    \* how often Bull starts a stalled job again, 1

ASSUME DeliveryAssumption ==
  /\ IsFiniteSet(Clients)
  /\ Attempts \in Nat \ {0}
  /\ MaxStalls \in Nat

VARIABLES
  queueUp,   \* did the queue service start?
  paused,    \* is the messages queue paused?
  phase,     \* where the handler of a broadcast is
  list,      \* the clients it read
  job,       \* state of its job in Redis
  fails,     \* attemptsMade of the job
  stalls,    \* how often the job has stalled
  run,       \* the pass Bull takes for the job's run, 0 for none
  passes,    \* runs of the job and the handler's own pass, as they began
  report,    \* whom the answer to the admin counts as sent to
  refused,   \* history: clients for whom some send ended in an error
  copies,    \* history: how often a client has received the text
  mishaps    \* history: timeouts, lost workers, jobs added against the answer

deliveryVars == <<queueUp, paused, phase, list, job, fails, stalls, run,
                  passes, report, refused, copies, mishaps>>

Pass == [by : {"job", "handler"}, todo : SUBSET Clients, ok : SUBSET Clients, on : BOOLEAN]

DeliveryTypeOK ==
  /\ queueUp \in BOOLEAN
  /\ paused \in BOOLEAN
  /\ phase \in [Broadcasts -> {"none", "asking", "waiting", "direct", "reported", "lost"}]
  /\ list \in [Broadcasts -> SUBSET Clients]
  /\ job \in [Broadcasts -> {"none", "waiting", "active", "completed", "failed"}]
  /\ fails \in [Broadcasts -> 0..Attempts]
  /\ stalls \in [Broadcasts -> 0..MaxStalls + 1]
  /\ passes \in [Broadcasts -> Seq(Pass)]
  /\ run \in [Broadcasts -> Nat]
  /\ \A b \in Broadcasts : run[b] <= Len(passes[b])
  /\ report \in [Broadcasts -> SUBSET Clients]
  /\ refused \in [Broadcasts -> SUBSET Clients]
  /\ copies \in [Broadcasts -> [Clients -> Nat]]
  /\ mishaps \in [Broadcasts -> Nat]

------------------------------------------------------------------------------
Move(b, p) == phase' = [phase EXCEPT ![b] = p]

SetJob(b, j) == job' = [job EXCEPT ![b] = j]

Mishap(b) == mishaps' = [mishaps EXCEPT ![b] = @ + 1]

WithPass(b, by, whom) ==
  passes' = [passes EXCEPT ![b] = Append(@, [by |-> by, todo |-> whom, ok |-> {}, on |-> TRUE])]

\* The results of a pass are kept as long as the handler may come to read them.
IsRead(b, k) ==
  \/ phase[b] = "waiting" /\ job[b] = "active" /\ k = run[b]
  \/ phase[b] = "direct" /\ passes[b][k].by = "handler"

Over(p) == [p EXCEPT !.todo = {}, !.ok = {}, !.on = FALSE]

ForgetResults(b) == passes' = [passes EXCEPT ![b][run[b]].ok = {}]

LastAttempt(b) == fails[b] + 1 = Attempts

------------------------------------------------------------------------------
(* The command.                                                            *)

\* The clients that are not blocked are read once; an empty list is no job.
Broadcast(b) ==
  /\ phase[b] = "none"
  /\ \E whom \in SUBSET Clients :
       /\ list' = [list EXCEPT ![b] = whom]
       /\ IF queueUp /\ whom # {}
            THEN Move(b, "asking") /\ UNCHANGED passes
            ELSE Move(b, "direct") /\ WithPass(b, "handler", whom)
  /\ UNCHANGED <<queueUp, paused, job, fails, stalls, run, report, copies, mishaps, refused>>

\* Redis has the job, and says so.
Enqueue(b) ==
  /\ phase[b] = "asking"
  /\ Move(b, "waiting")
  /\ SetJob(b, "waiting")
  /\ UNCHANGED <<queueUp, paused, list, fails, stalls, run,
                 passes, report, copies, mishaps, refused>>

\* Adding the job fails, though Redis may have it all the same.
EnqueueFails(b) ==
  /\ phase[b] = "asking"
  /\ Move(b, "direct")
  /\ WithPass(b, "handler", list[b])
  /\ \/ UNCHANGED <<job, mishaps>>
     \/ SetJob(b, "waiting") /\ Mishap(b)
  /\ UNCHANGED <<queueUp, paused, list, fails, stalls, run, report, copies, refused>>

\* The answer counts what the run that completed returned.
JobFinished(b) ==
  /\ phase[b] = "waiting" /\ job[b] = "completed"
  /\ Move(b, "reported")
  /\ report' = [report EXCEPT ![b] = passes[b][run[b]].ok]
  /\ UNCHANGED <<queueUp, paused, list, job, fails, stalls, run,
                 passes, copies, mishaps, refused>>

\* Fault: only the failure to add a job is caught; nobody is told of this one.
FaultNoFallback(b) ==
  /\ phase[b] = "waiting" /\ job[b] = "failed"
  /\ UNCHANGED deliveryVars

\* The last attempt has failed: everybody is sent to again.
JobFailed(b) ==
  /\ phase[b] = "waiting" /\ job[b] = "failed"
  /\ Move(b, "direct")
  /\ WithPass(b, "handler", list[b])
  /\ UNCHANGED <<queueUp, paused, list, job, fails, stalls, run, report, copies, mishaps, refused>>

------------------------------------------------------------------------------
(* Passes.                                                                 *)

StartRun(b) ==
  /\ job[b] = "waiting" /\ ~paused
  /\ SetJob(b, "active")
  /\ run' = [run EXCEPT ![b] = Len(passes[b]) + 1]
  /\ WithPass(b, "job", list[b])
  /\ UNCHANGED <<queueUp, paused, phase, list, fails, stalls, report, copies, mishaps, refused>>

\* Fault: an error ends the run, and Bull tries the job from its start.
FaultThrow(b, k, c) ==
  /\ passes[b][k].on /\ c \in passes[b][k].todo
  /\ \/ /\ passes' = [passes EXCEPT ![b][k].todo = @ \ {c}, ![b][k].ok = @ \cup {c}]
        /\ copies' = [copies EXCEPT ![b][c] = @ + 1]
        /\ UNCHANGED <<job, fails>>
     \/ /\ job[b] = "active" /\ k = run[b]
        /\ passes' = [passes EXCEPT ![b][k] = Over(@)]
        /\ SetJob(b, IF LastAttempt(b) THEN "failed" ELSE "waiting")
        /\ fails' = [fails EXCEPT ![b] = @ + 1]
        /\ UNCHANGED copies
  /\ UNCHANGED <<queueUp, paused, phase, list, stalls, run, report, mishaps, refused>>

\* Fault: every send counts as a success.
FaultCountAll(b, k, c) ==
  /\ passes[b][k].on /\ c \in passes[b][k].todo
  /\ passes' = [passes EXCEPT ![b][k].todo = @ \ {c}, ![b][k].ok = @ \cup {c}]
  /\ \/ copies' = [copies EXCEPT ![b][c] = @ + 1]
     \/ UNCHANGED copies
  /\ UNCHANGED <<queueUp, paused, phase, list, job, fails, stalls,
                 run, report, mishaps, refused>>

\* One send: it arrives, it does not, or it arrives and its answer is lost.  An
\* error is counted, and the loop goes on.
Send(b, k, c) ==
  /\ passes[b][k].on /\ c \in passes[b][k].todo
  /\ \E arrives, answered \in BOOLEAN :
       /\ answered => arrives
       /\ passes' = [passes EXCEPT ![b][k].todo = @ \ {c},
                                   ![b][k].ok = IF answered /\ IsRead(b, k) THEN @ \cup {c} ELSE @]
       /\ copies' = [copies EXCEPT ![b][c] = IF arrives THEN @ + 1 ELSE @]
       /\ refused' = [refused EXCEPT ![b] = IF answered THEN @ ELSE @ \cup {c}]
  /\ UNCHANGED <<queueUp, paused, phase, list, job, fails, stalls,
                 run, report, mishaps>>

\* A run is past the list.  Bull takes the result of the run it waits for.
EndRun(b, k) ==
  /\ passes[b][k].on /\ passes[b][k].by = "job" /\ passes[b][k].todo = {}
  /\ IF job[b] = "active" /\ k = run[b]
       THEN SetJob(b, "completed") /\ passes' = [passes EXCEPT ![b][k].on = FALSE]
       ELSE passes' = [passes EXCEPT ![b][k] = Over(@)] /\ UNCHANGED job
  /\ UNCHANGED <<queueUp, paused, phase, list, fails, stalls, run,
                 report, copies, mishaps, refused>>

\* The handler is past the list.
EndDirect(b, k) ==
  /\ passes[b][k].on /\ passes[b][k].by = "handler" /\ passes[b][k].todo = {}
  /\ Move(b, "reported")
  /\ report' = [report EXCEPT ![b] = passes[b][k].ok]
  /\ passes' = [passes EXCEPT ![b][k] = Over(@)]
  /\ UNCHANGED <<queueUp, paused, list, job, fails, stalls, run, copies, mishaps, refused>>

------------------------------------------------------------------------------
(* Bull and the process.                                                   *)

\* Fault: a job is tried for ever.
FaultRetryForever(b) ==
  /\ job[b] = "active"
  /\ SetJob(b, "waiting")
  /\ fails' = [fails EXCEPT ![b] = @ + 1]
  /\ ForgetResults(b)
  /\ Mishap(b)
  /\ UNCHANGED <<queueUp, paused, phase, list, stalls, run, report, copies, refused>>

\* The job fails by its timeout, and its loop goes on.  Until its next attempt,
\* after a pause, the job counts as waiting.
TimeOut(b) ==
  /\ job[b] = "active" /\ passes[b][run[b]].on
  /\ SetJob(b, IF LastAttempt(b) THEN "failed" ELSE "waiting")
  /\ fails' = [fails EXCEPT ![b] = @ + 1]
  /\ ForgetResults(b)
  /\ Mishap(b)
  /\ UNCHANGED <<queueUp, paused, phase, list, stalls, run, report, copies, refused>>

\* A worker that does not renew its lock is taken for lost, and the job is
\* started again, or fails when that has happened too often.
Stall(b) ==
  /\ job[b] = "active"
  /\ SetJob(b, IF stalls[b] < MaxStalls THEN "waiting" ELSE "failed")
  /\ stalls' = [stalls EXCEPT ![b] = @ + 1]
  /\ ForgetResults(b)
  /\ Mishap(b)
  /\ UNCHANGED <<queueUp, paused, phase, list, fails, run, report, copies, refused>>

\* POST /api/admin/queues/messages/pause and /resume.
Pause ==
  /\ paused' = ~paused
  /\ UNCHANGED <<queueUp, phase, list, job, fails, stalls, run,
                 passes, report, copies, mishaps, refused>>

\* The process dies and starts again.  Its loops are gone, Redis has the jobs.
Crash ==
  /\ \E b \in Broadcasts : \/ phase[b] \in {"asking", "waiting", "direct"}
                          \/ \E k \in DOMAIN passes[b] : passes[b][k].on
  /\ phase' = [b \in Broadcasts |->
                 IF phase[b] \in {"asking", "waiting", "direct"} THEN "lost" ELSE phase[b]]
  /\ passes' = [b \in Broadcasts |-> [k \in DOMAIN passes[b] |-> Over(passes[b][k])]]
  /\ UNCHANGED <<queueUp, paused, list, job, fails, stalls, run,
                 report, copies, mishaps, refused>>

DeliveryInit ==
  /\ queueUp \in BOOLEAN
  /\ paused = FALSE
  /\ phase = [b \in Broadcasts |-> "none"]
  /\ list = [b \in Broadcasts |-> {}]
  /\ job = [b \in Broadcasts |-> "none"]
  /\ fails = [b \in Broadcasts |-> 0]
  /\ stalls = [b \in Broadcasts |-> 0]
  /\ run = [b \in Broadcasts |-> 0]
  /\ passes = [b \in Broadcasts |-> <<>>]
  /\ report = [b \in Broadcasts |-> {}]
  /\ refused = [b \in Broadcasts |-> {}]
  /\ copies = [b \in Broadcasts |-> [c \in Clients |-> 0]]
  /\ mishaps = [b \in Broadcasts |-> 0]

Handler(b) == Enqueue(b) \/ EnqueueFails(b) \/ JobFinished(b) \/ JobFailed(b)

Walk(b) ==
  \E k \in DOMAIN passes[b] :
    \/ EndRun(b, k) \/ EndDirect(b, k)
    \/ \E c \in Clients : Send(b, k, c)

DeliveryNext ==
  \/ \E b \in Broadcasts : \/ Broadcast(b) \/ Handler(b) \/ Walk(b)
                           \/ StartRun(b) \/ TimeOut(b) \/ Stall(b)
  \/ Pause
  \/ Crash

DeliverySpec == DeliveryInit /\ [][DeliveryNext]_deliveryVars

\* Sends and Redis answer some time, and Bull starts what it can start.  A job
\* whose worker died is found stalled.
FairDelivery ==
  /\ DeliverySpec
  /\ \A b \in Broadcasts :
       /\ WF_deliveryVars(Handler(b))
       /\ WF_deliveryVars(Walk(b))
       /\ WF_deliveryVars(StartRun(b))
       /\ WF_deliveryVars(Stall(b) /\ ~passes[b][run[b]].on)
------------------------------------------------------------------------------
(* Properties.                                                             *)

\* A client gets a text again only for a reason: each copy after the first has
\* a timeout, a lost worker or a lost answer of Redis to explain it; a client
\* who cannot be reached is no such reason.  However things go wrong, the
\* attempts, the restarts of a stalled job and the direct pass bound how often
\* anybody gets it: five times.
RepeatsAreMishaps ==
  \A b \in Broadcasts, c \in Clients :
    /\ copies[b][c] <= 1 + mishaps[b]
    /\ copies[b][c] <= Attempts + MaxStalls + 1

\* What the admin is told of is true, whichever pass it comes from: who counts
\* as sent to has the text, for everybody else some send has failed, and so
\* nobody on the list is left out.
ReportIsTrue ==
  \A b \in Broadcasts :
    phase[b] = "reported" =>
      /\ report[b] \subseteq {c \in list[b] : copies[b][c] > 0}
      /\ list[b] \ report[b] \subseteq refused[b]

\* Unless the queue stays paused, the admin gets an answer or the process died.
BroadcastsEnd ==
  <>[]~paused => \A b \in Broadcasts :
    phase[b] # "none" ~> phase[b] \in {"reported", "lost"}
==============================================================================
