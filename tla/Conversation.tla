----------------------------- MODULE Conversation -----------------------------
(***************************************************************************)
(* The conversations between clients and the admin: handleClientText and   *)
(* handleClientMedia of src/handlers/client.js, the reply, template,       *)
(* suggestion and closing handlers of src/handlers/admin.js, the reply of  *)
(* the dashboard, and src/services/conversation-service.js under them.     *)
(* The two AI services are external: a call that returns some time, with a *)
(* text or with none.                                                      *)
(*                                                                         *)
(* A handler is one action from one await to the next.  A text is a number,*)
(* its position in "texts".  What a prompt is made of is the set of texts  *)
(* on record; the limits of 6, 10 and 20 messages and their order are left *)
(* out, and so are the limit of five messages a minute and the users rows. *)
(***************************************************************************)
EXTENDS Integers, Sequences, FiniteSets

CONSTANTS
  Clients,
  Handlers,    \* updates the bot can be awaiting at once
  MaxTexts,    \* bound: texts that are ever written
  NoClient,    \* no active client
  None         \* no suggestion; a text still to be written

ASSUME ConversationAssumption ==
  /\ MaxTexts \in Nat
  /\ NoClient \notin Clients
  /\ None \notin 1..MaxTexts

VARIABLES
  texts,       \* everything written: its kind, and for which client
  record,      \* messages table, by client
  conv,        \* conversations table: status by client
  unanswered,  \* clients whose open lead has no first reply
  active,      \* admin_state: the client the admin writes to
  pending,     \* the suggestion kept for each client, in memory
  running,     \* updates that wait at an await, with what they hold
  heard,       \* how often a client has received a text
  waits,       \* does the admin wait for every answer?
  meant,       \* history: the client the admin turned to last
  unlucky      \* history: clients whose closing notice was lost

vars == <<texts, record, conv, unanswered, active, pending, running, heard,
          waits, meant, unlucky>>

Texts == 1..MaxTexts

Kinds == {"question", "agent", "auto", "suggestion", "reply", "closing"}

Idle == [at |-> "idle"]

\* Where a handler can wait.
Agent     == [at : {"agent"}, client : Clients, text : Texts]
Prompt    == [at : {"card", "model"}, client : Clients, text : Texts, sees : SUBSET Texts]
Asked     == [at : {"asked", "dialog"}, client : Clients]
Drafting  == [at : {"drafting"}, client : Clients, sees : SUBSET Texts]
Answering == [at : {"answering"}, client : Clients, text : Texts \cup {None}]
Sending   == [at : {"own", "auto", "reply", "web", "closing"}, client : Clients, text : Texts]

Waiting == Agent \cup Prompt \cup Asked \cup Drafting \cup Answering \cup Sending

TypeOK ==
  /\ texts \in Seq([kind : Kinds, client : Clients]) /\ Len(texts) <= MaxTexts
  /\ record \in [Clients -> SUBSET (1..Len(texts))]
  /\ conv \in [Clients -> {"none", "open", "closed"}]
  /\ unanswered \in SUBSET Clients
  /\ active \in Clients \cup {NoClient}
  /\ pending \in [Clients -> (1..Len(texts)) \cup {None}]
  /\ running \in [Handlers -> Waiting \cup {Idle}]
  /\ heard \in [Clients -> [Texts -> Nat]]
  /\ waits \in BOOLEAN
  /\ meant \in Clients \cup {NoClient}
  /\ unlucky \in SUBSET Clients

------------------------------------------------------------------------------
(* Texts, the record, and who waits.                                       *)

Next1 == Len(texts) + 1

Write(kind, c) ==
  /\ Len(texts) < MaxTexts
  /\ texts' = Append(texts, [kind |-> kind, client |-> c])

Wait(h, w) == running' = [running EXCEPT ![h] = w]

\* ensureConversation and messages.create; a closed conversation stays closed.
Store(c, t) ==
  /\ record' = [record EXCEPT ![c] = @ \cup {t}]
  /\ conv' = [conv EXCEPT ![c] = IF @ = "none" THEN "open" ELSE @]

OfAdmin == {"asked", "dialog", "drafting", "answering", "reply", "closing"}

AdminReady(h) ==
  /\ running[h] = Idle
  /\ waits => \A g \in Handlers : running[g].at \notin OfAdmin

\* Fault: the reply is sent first and stored when it has been.
FaultSendFirst(h, c, t, at) ==
  /\ Wait(h, [at |-> at, client |-> c, text |-> t])
  /\ unanswered' = unanswered \ {c}
  /\ UNCHANGED <<record, conv>>

\* sendAdminReply up to its await: stored, booked as the first reply, sent.
Reply(h, c, t, at) ==
  /\ Store(c, t)
  /\ unanswered' = unanswered \ {c}
  /\ Wait(h, [at |-> at, client |-> c, text |-> t])

Select(c) == active' = c /\ meant' = c

------------------------------------------------------------------------------
(* A message of a client.                                                  *)

\* Text outside an order: the agent is tried first, if there is one.
ClientText(h, c) ==
  /\ running[h] = Idle
  /\ Write("question", c)
  /\ Wait(h, [at |-> "agent", client |-> c, text |-> Next1])
  /\ UNCHANGED <<record, conv, unanswered, active, pending, heard, waits, meant, unlucky>>

\* The agent answers by itself: its text is sent, and nothing is recorded.
AgentAnswers(h) ==
  /\ running[h].at = "agent"
  /\ Write("agent", running[h].client)
  /\ Wait(h, [at |-> "own", client |-> running[h].client, text |-> Next1])
  /\ UNCHANGED <<record, conv, unanswered, active, pending, heard, waits, meant, unlucky>>

\* The agent escalates, fails or is not there: forwardClientMessage reads the
\* recent messages, stores this one and sends the card to the admin.
AgentPasses(h) ==
  /\ running[h].at = "agent"
  /\ LET c == running[h].client IN
       /\ Store(c, running[h].text)
       /\ Wait(h, [at |-> "card", client |-> c, text |-> running[h].text,
                   sees |-> record[c]])
  /\ UNCHANGED <<texts, unanswered, active, pending, heard, waits, meant, unlucky>>

\* The card has been sent, or has not: the model is asked either way.
CardSent(h) ==
  /\ running[h].at = "card"
  /\ Wait(h, [running[h] EXCEPT !.at = "model"])
  /\ UNCHANGED <<texts, record, conv, unanswered, active, pending, heard, waits, meant, unlucky>>

\* Fault: the automatic answer goes through sendAdminReply.
FaultAutoIsReply(h) ==
  /\ running[h].at = "model"
  /\ Write("auto", running[h].client)
  /\ Reply(h, running[h].client, Next1, "auto")
  /\ UNCHANGED <<active, pending, heard, waits, meant, unlucky>>

AutoAnswers(h) ==
  /\ running[h].at = "model"
  /\ Write("auto", running[h].client)
  /\ Store(running[h].client, Next1)
  /\ Wait(h, [at |-> "auto", client |-> running[h].client, text |-> Next1])
  /\ UNCHANGED <<unanswered, active, pending, heard, waits, meant, unlucky>>

\* No text, or no such service.
NoAutoAnswer(h) ==
  /\ running[h].at = "model"
  /\ Wait(h, Idle)
  /\ UNCHANGED <<texts, record, conv, unanswered, active, pending, heard, waits, meant, unlucky>>

\* A photo or a document: stored; the awaits after that change nothing.
ClientMedia(c) ==
  /\ Write("question", c)
  /\ Store(c, Next1)
  /\ UNCHANGED <<unanswered, active, pending, running, heard, waits, meant, unlucky>>

------------------------------------------------------------------------------
(* The admin turns to a client and writes to it.                           *)

\* /setclient.
SetClient(c) ==
  /\ \E h \in Handlers : AdminReady(h)
  /\ Select(c)
  /\ UNCHANGED <<texts, record, conv, unanswered, pending, running, heard, waits, unlucky>>

\* The buttons reply and dialog answer the press first and select then.
PressDialog(h, c) ==
  /\ AdminReady(h)
  /\ meant' = c
  /\ Wait(h, [at |-> "dialog", client |-> c])
  /\ UNCHANGED <<texts, record, conv, unanswered, active, pending, heard, waits, unlucky>>

FinishDialog(h) ==
  /\ running[h].at = "dialog"
  /\ active' = running[h].client
  /\ Wait(h, Idle)
  /\ UNCHANGED <<texts, record, conv, unanswered, pending, heard, waits, meant, unlucky>>

\* /stop and the button that clears the dialog.
Stop ==
  /\ \E h \in Handlers : AdminReady(h)
  /\ active' = NoClient
  /\ UNCHANGED <<texts, record, conv, unanswered, pending, running, heard, waits, meant, unlucky>>

\* handleAdminText: to the active client.
AdminText(h) ==
  /\ AdminReady(h)
  /\ active # NoClient
  /\ Write("reply", active)
  /\ Reply(h, active, Next1, "reply")
  /\ UNCHANGED <<active, pending, heard, waits, meant, unlucky>>

\* POST /conversations/:clientId/reply, from a page of the dashboard: the admin of
\* the settings is the author, and no client is selected.
WebReply(h, c) ==
  /\ running[h] = Idle
  /\ Write("reply", c)
  /\ Reply(h, c, Next1, "web")
  /\ UNCHANGED <<active, pending, heard, waits, meant, unlucky>>

\* A template button selects the client, answers the press, and replies.
Template(h, c) ==
  /\ AdminReady(h)
  /\ Select(c)
  /\ Wait(h, [at |-> "answering", client |-> c, text |-> None])
  /\ UNCHANGED <<texts, record, conv, unanswered, pending, heard, waits, unlucky>>

\* Past the answer to a press: the template or the suggestion is the reply.
Answer(h) ==
  /\ running[h].at = "answering"
  /\ LET c == running[h].client IN
       IF running[h].text = None
         THEN Write("reply", c) /\ Reply(h, c, Next1, "reply")
         ELSE Reply(h, c, running[h].text, "reply") /\ UNCHANGED texts
  /\ UNCHANGED <<active, pending, heard, waits, meant, unlucky>>

------------------------------------------------------------------------------
(* Suggestions.                                                            *)

\* Fault: nobody looks whether there is an active client.
FaultSuggestNobody(h) ==
  /\ AdminReady(h)
  /\ Wait(h, [at |-> "asked", client |-> active])
  /\ UNCHANGED <<texts, record, conv, unanswered, active, pending, heard, waits, meant, unlucky>>

\* /suggest reads the active client and tells the admin to wait.
Suggest(h) ==
  /\ AdminReady(h)
  /\ active # NoClient
  /\ Wait(h, [at |-> "asked", client |-> active])
  /\ UNCHANGED <<texts, record, conv, unanswered, active, pending, heard, waits, meant, unlucky>>

\* Then the history of that client is read; with none the handler ends.
ReadHistory(h) ==
  /\ running[h].at = "asked"
  /\ LET c == running[h].client IN
       IF record[c] = {} THEN Wait(h, Idle)
       ELSE Wait(h, [at |-> "drafting", client |-> c, sees |-> record[c]])
  /\ UNCHANGED <<texts, record, conv, unanswered, active, pending, heard, waits, meant, unlucky>>

\* Fault: the suggestion is kept for the client that is active by now.
FaultKeepForActive(h) ==
  /\ running[h].at = "drafting"
  /\ Write("suggestion", running[h].client)
  /\ active # NoClient
  /\ pending' = [pending EXCEPT ![active] = Next1]
  /\ Wait(h, Idle)
  /\ UNCHANGED <<record, conv, unanswered, active, heard, waits, meant, unlucky>>

\* The suggestion replaces the one kept for the client, and is shown.
Keep(h) ==
  /\ running[h].at = "drafting"
  /\ Write("suggestion", running[h].client)
  /\ pending' = [pending EXCEPT ![running[h].client] = Next1]
  /\ Wait(h, Idle)
  /\ UNCHANGED <<record, conv, unanswered, active, heard, waits, meant, unlucky>>

NoSuggestion(h) ==
  /\ running[h].at = "drafting"
  /\ Wait(h, Idle)
  /\ UNCHANGED <<texts, record, conv, unanswered, active, pending, heard, waits, meant, unlucky>>

\* Fault: sending a suggestion does not select its client.
FaultNoSelect(h, c) ==
  /\ AdminReady(h)
  /\ pending[c] # None
  /\ pending' = [pending EXCEPT ![c] = None]
  /\ meant' = c
  /\ Wait(h, [at |-> "answering", client |-> c, text |-> pending[c]])
  /\ UNCHANGED <<texts, record, conv, unanswered, active, heard, waits, unlucky>>

\* Any "send" button of the client takes the suggestion that is kept for it.
SendSuggestion(h, c) ==
  /\ AdminReady(h)
  /\ pending[c] # None
  /\ pending' = [pending EXCEPT ![c] = None]
  /\ Select(c)
  /\ Wait(h, [at |-> "answering", client |-> c, text |-> pending[c]])
  /\ UNCHANGED <<texts, record, conv, unanswered, heard, waits, unlucky>>

------------------------------------------------------------------------------
(* Closing a conversation, and the end of every send.                      *)

\* Fault: the notice goes to the active client, whoever was named.
FaultTellActive(h, c) ==
  /\ AdminReady(h)
  /\ conv[c] = "open"
  /\ active # NoClient
  /\ Write("closing", active)
  /\ record' = [record EXCEPT ![active] = @ \cup {Next1}]
  /\ conv' = [conv EXCEPT ![c] = "closed"]
  /\ unanswered' = unanswered \ {active}
  /\ Wait(h, [at |-> "closing", client |-> active, text |-> Next1])
  /\ UNCHANGED <<active, pending, heard, waits, meant, unlucky>>

\* /resolve, of the client named or of the active one: closed, then told as by
\* any reply.  A second /resolve finds it closed and tells nobody.
Resolve(h, c) ==
  /\ AdminReady(h)
  /\ conv[c] = "open"
  /\ Write("closing", c)
  /\ record' = [record EXCEPT ![c] = @ \cup {Next1}]
  /\ conv' = [conv EXCEPT ![c] = "closed"]
  /\ unanswered' = unanswered \ {c}
  /\ Wait(h, [at |-> "closing", client |-> c, text |-> Next1])
  /\ UNCHANGED <<active, pending, heard, waits, meant, unlucky>>

IsSending(h) == running[h].at \in {"own", "auto", "reply", "web", "closing"}

\* Whatever is selected by the time the notice is out is cleared.
AfterSend(h) ==
  /\ Wait(h, Idle)
  /\ active' = IF running[h].at = "closing" THEN NoClient ELSE active

Deliver(h) ==
  /\ IsSending(h)
  /\ heard' = [heard EXCEPT ![running[h].client][running[h].text] = @ + 1]
  /\ AfterSend(h)
  /\ UNCHANGED <<texts, record, conv, unanswered, pending, waits, meant, unlucky>>

\* safeSendMessage swallows the error: the handler goes on as if it were sent.
SendFails(h) ==
  /\ IsSending(h)
  /\ unlucky' = IF running[h].at = "closing" THEN unlucky \cup {running[h].client}
                                             ELSE unlucky
  /\ AfterSend(h)
  /\ UNCHANGED <<texts, record, conv, unanswered, pending, heard, waits, meant>>

\* An order is confirmed.
NewLead(c) ==
  /\ c \notin unanswered
  /\ unanswered' = unanswered \cup {c}
  /\ UNCHANGED <<texts, record, conv, active, pending, running, heard, waits, meant, unlucky>>

\* The process dies and starts again: the suggestions are gone.  The admin sees
\* no answer to a press that had none yet.
Restart ==
  /\ \E h \in Handlers : running[h] # Idle
  /\ meant' = IF \E h \in Handlers : running[h].at = "dialog" THEN active ELSE meant
  /\ running' = [h \in Handlers |-> Idle]
  /\ pending' = [c \in Clients |-> None]
  /\ unlucky' = unlucky \cup {c \in Clients : \E h \in Handlers :
                                running[h].at = "closing" /\ running[h].client = c}
  /\ UNCHANGED <<texts, record, conv, unanswered, active, heard, waits>>

Init ==
  /\ texts = <<>>
  /\ record = [c \in Clients |-> {}]
  /\ conv = [c \in Clients |-> "none"]
  /\ unanswered = {}
  /\ active = NoClient
  /\ pending = [c \in Clients |-> None]
  /\ running = [h \in Handlers |-> Idle]
  /\ heard = [c \in Clients |-> [t \in Texts |-> 0]]
  /\ waits \in BOOLEAN
  /\ meant = NoClient
  /\ unlucky = {}

Begin(h) ==
  \/ AdminText(h) \/ Suggest(h)
  \/ \E c \in Clients : \/ ClientText(h, c) \/ PressDialog(h, c) \/ Template(h, c)
                        \/ SendSuggestion(h, c) \/ Resolve(h, c) \/ WebReply(h, c)

Continue(h) ==
  \/ AgentAnswers(h) \/ AgentPasses(h) \/ CardSent(h) \/ AutoAnswers(h) \/ NoAutoAnswer(h)
  \/ FinishDialog(h) \/ Answer(h) \/ ReadHistory(h) \/ Keep(h) \/ NoSuggestion(h)
  \/ Deliver(h) \/ SendFails(h)

Next ==
  \/ \E h \in Handlers : Begin(h) \/ Continue(h)
  \/ \E c \in Clients : ClientMedia(c) \/ SetClient(c) \/ NewLead(c)
  \/ Stop
  \/ Restart

Spec == Init /\ [][Next]_vars

\* Telegram and the models answer some time, with a success or with an error.
FairSpec == Spec /\ \A h \in Handlers : WF_vars(Continue(h))
------------------------------------------------------------------------------
(* Properties.                                                             *)

\* What a client hears, and what is kept to be sent to it, was written for it
\* and from its own conversation, however long the model took and whomever the
\* admin turned to meanwhile; and a question is not among its own history.
AnswersKeepTheirClient ==
  \A c \in Clients :
    /\ \A t \in 1..Len(texts) :
         heard[c][t] > 0 \/ t \in record[c] \/ pending[c] = t => texts[t].client = c
    /\ \A h \in Handlers :
         running[h].at \in {"card", "model", "drafting"} /\ running[h].client = c
           => \A t \in running[h].sees : texts[t].client = c
    /\ \A h \in Handlers :
         running[h].at \in {"card", "model"} => running[h].text \notin running[h].sees

\* What the admin and the automatic answer tell a client is on record before it
\* is sent, so that no crash leaves the admin and the models without something
\* that was said in the admin's name; only what the agent answers by itself is
\* said off the record, as was the question.  And nothing is sent twice, with
\* buttons pressed twice and those of older suggestions too.
SaidOnceOnRecord ==
  \A c \in Clients, t \in Texts :
    /\ heard[c][t] > 0 => t \in record[c] \/ texts[t].kind = "agent"
    /\ heard[c][t] <= 1

\* An admin that waits for every answer writes to the client it turned to last,
\* or to nobody.
RepliesGoWhereMeant ==
  waits /\ (\A h \in Handlers : running[h].at \notin OfAdmin)
    => active \in {meant, NoClient}

\* Only what the admin sends answers a lead: an automatic answer, stored under
\* the admin's name too, and the agent's leave it to the reminders.
OnlyTheAdminAnswers ==
  [][\A c \in unanswered : c \notin unanswered' =>
       \E h \in Handlers : /\ running'[h] # running[h]
                           /\ running'[h] \in Sending
                           /\ running'[h].client = c
                           /\ texts'[running'[h].text].kind \notin {"auto", "agent"}]_vars

\* The texts, and the notices of a closing, that were written for client c.
For(c, tx) == {t \in 1..Len(tx) : tx[t].client = c}

Notices(c, tx) == {t \in For(c, tx) : tx[t].kind = "closing"}

IsOut(h, c, t) ==
  running[h].at = "closing" /\ running[h].client = c /\ running[h].text = t

Accounted(c, t) ==
  heard[c][t] = 1 \/ c \in unlucky \/ \E h \in Handlers : IsOut(h, c, t)

\* A conversation is closed exactly if a notice was written for its client, there is
\* never a second one, and the client has heard it once, is about to, or lost it to
\* an error or a restart.
ClosingsAreToldOnce ==
  \A c \in Clients :
    /\ conv[c] = "closed" <=> Notices(c, texts) # {}
    /\ \A t, u \in Notices(c, texts) : t = u
    /\ \A t \in Notices(c, texts) : Accounted(c, t)

\* A closed conversation cannot be closed again, so the one notice it gives
\* rise to must come, unless its send fails or the process dies.
ClosingIsTold ==
  \A c \in Clients :
    conv[c] = "closed" ~> \/ c \in unlucky
                          \/ \E t \in Texts : t <= Len(texts) /\ texts[t].kind = "closing"
                                              /\ heard[c][t] > 0
==============================================================================
