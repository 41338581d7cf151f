------------------------------- MODULE Lifecycle -------------------------------
(***************************************************************************)
(* The processes of the bot, each from its start to its end and its next   *)
(* start: bootstrap, teardown and the handlers of fatal errors in index.js,*)
(* the handlers of signals in src/utils/graceful-shutdown.js, over the     *)
(* database of Migrations.                                                 *)
(*                                                                         *)
(* Processes run on one machine: one file, one port.  Whatever one of them *)
(* awaits, a signal, an error that nobody catches or a kill may come       *)
(* first.  Timers, the memory monitor and the settings are left out.       *)
(***************************************************************************)
EXTENDS Migrations

VARIABLE proc   \* the processes

vars == <<applied, lead, products, db, seen, ups, sound, rival, proc>>

\* The port is given back when the server starts to close, and the server is
\* closed when its last connection has ended.
Resource == {"db", "cache", "queue", "port", "server", "polling"}

Awaited == {"server", "queue", "cache"}

Process ==
  [stage  : {"off", "db", "cache", "queue", "bot", "listen", "launch",
             "ready", "failed"},                    \* what bootstrap does next
   open   : SUBSET Resource,                        \* what it has not tried to close
   mode   : {"none", "polling", "webhook", "idle"}, \* how updates come, if there is a bot
   tear   : Awaited \cup {"none"},                  \* what a teardown awaits
   down   : BOOLEAN,                                \* shutdownInProgress
   left   : SUBSET Awaited,                         \* what a shutdown awaits
   errors : BOOLEAN,                                \* has the shutdown noted any?
   code   : {"none", "0", "1", "killed"},           \* how the last process ended
   faults : 0..2]                                   \* history: errors nobody caught

TypeOK == DbTypeOK /\ proc \in [Processes -> Process]

Off == [stage |-> "off", open |-> {}, mode |-> "none", tear |-> "none", down |-> FALSE,
        left |-> {}, errors |-> FALSE, code |-> "none", faults |-> 0]

------------------------------------------------------------------------------
Running(p) == proc[p].stage # "off"

At(p, s) == proc[p].stage = s

Set(p, r) == proc' = [proc EXCEPT ![p] = r] /\ UNCHANGED dbVars

Go(p, s, gained) == Set(p, [proc[p] EXCEPT !.stage = s, !.open = @ \cup gained])

\* The end of a process, and what it has not tried to close.
End(p, r, c) ==
  /\ proc' = [proc EXCEPT ![p] = [Off EXCEPT !.code = c, !.open = r.open, !.faults = r.faults]]
  /\ CloseDb(p)

PortFree == \A q \in Processes : Running(q) => "port" \notin proc[q].open

------------------------------------------------------------------------------
(* teardown: everything in a row, the database last, then the process ends.*)

\* The bot is stopped without an await, and so is the start of the close of the
\* server, which fails if a shutdown has begun it.
AfterStop(r) ==
  [r EXCEPT !.open = @ \ {"polling", "port"},
            !.mode = "none",
            !.tear = IF "server" \in r.open /\ ~r.down THEN "server"
                     ELSE IF "queue" \in r.open THEN "queue" ELSE "cache"]

\* What is awaited is closed, or its error is logged.
TearStep(p) ==
  /\ Running(p) /\ proc[p].tear # "none"
  /\ LET x == proc[p].tear
         r == [proc[p] EXCEPT !.open = @ \ {x}]
     IN  IF x = "cache" THEN End(p, [r EXCEPT !.open = @ \ {"db"}], "1")
         ELSE Set(p, [r EXCEPT !.tear =
                        IF x = "server" /\ "queue" \in r.open THEN "queue" ELSE "cache"])

------------------------------------------------------------------------------
(* bootstrap.                                                              *)

Start(p) == At(p, "off") /\ Set(p, [Off EXCEPT !.stage = "db"])

CreateDatabase(p) == At(p, "db") /\ DbStep(p) /\ UNCHANGED proc

\* An error before "resources" exists ends the process with all it has open.
Refused(p) == End(p, proc[p], "1")

\* createDatabase has ended; createRepositories comes with it, and may fail too.
DbReady(p) ==
  /\ At(p, "db")
  /\ \/ db[p] = "done" /\ Go(p, "cache", {"db"})
     \/ db[p] = "done" /\ End(p, [proc[p] EXCEPT !.open = {"db"}], "1")
     \/ db[p] = "failed" /\ Refused(p)

\* There is a cache service with Redis or without.
InitCache(p) == At(p, "cache") /\ Go(p, "queue", {"cache"})

\* Without Redis there are no queues.
InitQueue(p) == At(p, "queue") /\ \E q \in SUBSET {"queue"} : Go(p, "bot", q)

CreateBot(p) ==
  /\ At(p, "bot")
  /\ \/ \E m \in {"none", "polling", "webhook"} :
          Set(p, [proc[p] EXCEPT !.stage = "listen", !.mode = m])
     \/ Refused(p)

\* Fault: no teardown of what has been opened.
FaultLeave(p, gained) ==
  End(p, [proc[p] EXCEPT !.stage = "failed", !.open = @ \cup gained], "1")

\* An error after that: teardown(resources, "bootstrap_failed"), and the end.
BootFails(p, gained) ==
  Set(p, AfterStop([proc[p] EXCEPT !.stage = "failed", !.open = @ \cup gained]))

\* Past startHttpServer.  Without a bot bootstrap has no further await, and what
\* is left of it may fail.
AfterListen(p, gained) ==
  \/ proc[p].mode # "none" /\ Go(p, "launch", gained)
  \/ proc[p].mode = "none" /\ (Go(p, "ready", gained) \/ BootFails(p, gained))

Listen(p) == At(p, "listen") /\ PortFree /\ AfterListen(p, {"port", "server"})

\* app.listen() of Express 5 gives an error to the callback too, so that the promise
\* resolves with a server that does not listen, and the start goes on.  What
\* listen() throws, of a bad port, is an error of the start.
ListenFails(p) == At(p, "listen") /\ (AfterListen(p, {}) \/ BootFails(p, {}))

\* Fault: the mode is kept as something to stop.
FaultOpenMode(p) == At(p, "launch") /\ Go(p, "ready", {proc[p].mode})

\* launchTelegramRuntime has a timeout.  After it timers start and the handlers
\* of signals are registered.
Launch(p) == At(p, "launch") /\ Go(p, "ready", {proc[p].mode} \cap {"polling"})

\* An error, of the launch or of what is left of bootstrap after it, ends the start;
\* one of the launch leaves the API alone where that is allowed.
LaunchFails(p) ==
  /\ At(p, "launch")
  /\ BootFails(p, {}) \/ Set(p, [proc[p] EXCEPT !.stage = "ready", !.mode = "idle"])

Boot(p) ==
  \/ CreateDatabase(p) \/ DbReady(p) \/ InitCache(p) \/ InitQueue(p) \/ CreateBot(p)
  \/ Listen(p) \/ ListenFails(p) \/ Launch(p) \/ LaunchFails(p)

------------------------------------------------------------------------------
(* Fatal errors, signals and kills.                                        *)

\* uncaughtException and unhandledRejection.  Before bootstrap has ended there is
\* nothing to tear down, and a teardown that is under way is not waited for.
Fault(p) ==
  /\ Running(p) /\ ~At(p, "db")
  /\ LET r == [proc[p] EXCEPT !.faults = @ + 1] IN
       IF r.stage = "ready" /\ r.tear = "none" THEN Set(p, AfterStop(r)) ELSE End(p, r, "1")

\* shutdown: bot and database are closed at once, whatever else still runs, and
\* the rest side by side.  A bot that does not poll has nothing to stop, which is an
\* error; so is the close of a server that a teardown closes, or that never listened.
Signal(p) ==
  /\ At(p, "ready") /\ ~proc[p].down
  /\ LET r == proc[p] IN
       Set(p, [r EXCEPT
         !.down   = TRUE,
         !.mode   = "none",
         !.open   = @ \ {"db", "port", "polling"},
         !.left   = r.open \cap (IF r.tear = "none" THEN Awaited ELSE {"queue", "cache"}),
         !.errors = \/ r.tear # "none" \/ "server" \notin r.open
                    \/ r.mode \in {"webhook", "idle"}])

\* One of them has been closed, or has failed to.
ShutStep(p) ==
  /\ Running(p)
  /\ \E x \in proc[p].left, fails \in BOOLEAN :
       Set(p, [proc[p] EXCEPT !.left = @ \ {x}, !.open = @ \ {x}, !.errors = @ \/ fails])

\* Fault: without a timeout, all that is left is waited for.
FaultNoTimeout(p) ==
  /\ Running(p) /\ proc[p].down /\ proc[p].left = {}
  /\ End(p, proc[p], IF proc[p].errors THEN "1" ELSE "0")

\* All is closed, or 30 seconds are over.
ShutEnd(p) ==
  /\ Running(p) /\ proc[p].down
  /\ End(p, proc[p], IF proc[p].errors \/ proc[p].left # {} THEN "1" ELSE "0")

\* A kill, and a signal that has no handler yet.
Kill(p) == Running(p) /\ End(p, [proc[p] EXCEPT !.open = {}, !.faults = 0], "killed")

Init == DbInit /\ proc = [p \in Processes |-> Off]

Next ==
  \E p \in Processes : \/ Start(p) \/ Boot(p) \/ TearStep(p) \/ Fault(p)
                       \/ Signal(p) \/ ShutStep(p) \/ ShutEnd(p) \/ Kill(p)

Spec == Init /\ [][Next]_vars

\* A server may wait for a connection that never ends.
TearOn(p) == proc[p].tear # "server" /\ TearStep(p)

\* All else that is awaited returns some time, with a result or with an error, and
\* the timer of a shutdown fires.
FairSpec ==
  Spec /\ \A p \in Processes : WF_vars(Boot(p)) /\ WF_vars(TearOn(p)) /\ WF_vars(ShutEnd(p))
------------------------------------------------------------------------------
(* Properties.                                                             *)

\* What a process leaves open when it ends by itself.  With code 0, nothing; and
\* nothing if its start failed once "resources" was put together, or if one fatal
\* error tore down a process that was ready: all of it has been closed, or tried.
\* A shutdown, even one that ends by its timeout or by an error, has given up
\* the file, the port and the updates.  A start that fails before, in
\* createRepositories or createBot, leaves the file, the cache and the queue.
ExitsAreClean ==
  [][\A p \in Processes :
       LET r == proc[p]  e == proc'[p] IN
         Running(p) /\ e.stage = "off" /\ e.code \in {"0", "1"} =>
           /\ e.code = "0" => e.open = {}
           /\ r.down => e.open \cap {"db", "port", "polling"} = {}
           /\ (/\ ~r.down
               /\ \/ r.stage \in {"listen", "launch", "failed"} /\ e.faults = 0
                  \/ r.stage = "ready" /\ e.faults = 1) => e.open = {}
           /\ r.stage \in {"db", "cache", "queue", "bot"} =>
                e.open \subseteq {"db", "cache", "queue"}]_vars

\* A start, a shutdown, or a teardown that is not waiting for connections to end.
Busy(p) ==
  /\ Running(p)
  /\ proc[p].down \/ (proc[p].tear # "server" /\ (~At(p, "ready") \/ proc[p].tear # "none"))

\* A start comes to an end, and so does a shutdown, with connections that never
\* end too, and a teardown once it has its server closed.
NothingHangs == \A p \in Processes : Busy(p) ~> ~Busy(p)
==============================================================================
