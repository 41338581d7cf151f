------------------------------- MODULE LeadFlow -------------------------------
(***************************************************************************)
(* The single-product request flow of the Telegram bot: the draft a client *)
(* edits in the sessions table, the handlers of src/handlers/client.js     *)
(* that edit it through src/services/lead-service.js, and the leads table  *)
(* a confirmed draft ends up in.                                           *)
(*                                                                         *)
(* The program is single-threaded: a handler runs without interruption     *)
(* from one await to the next, and better-sqlite3 is synchronous.  A       *)
(* handler that reads and writes the session with no await in between is   *)
(* one action.  The buttons that edit a draft read the session, await (the *)
(* answer to Telegram, or the lookup itself) and only then write it: they  *)
(* are two actions with a copy of the draft in between.  The buttons that  *)
(* cancel and confirm await the same answer first and then go by what the  *)
(* session holds; a confirmation moreover awaits the message to the admin. *)
(* Updates of one client may overlap (a polling batch runs its handlers    *)
(* side by side, webhook deliveries meet at any await), but for those of   *)
(* clients that wait for each answer before they go on (patient).          *)
(*                                                                         *)
(* Keyboards stay in the chat, so any button may be pressed at any step.   *)
(* The button handlers are modelled as written past the identifier of      *)
(* client.js:634, which this commit does not import.  Comment text,        *)
(* product titles and the source payload are left out: no guard reads      *)
(* them.  The cart shares the sessions row but not the lead steps, and has *)
(* the module CartFlow.                                                    *)
(***************************************************************************)
EXTENDS Integers, Sequences, FiniteSets

CONSTANTS
  Clients,        \* Telegram clients
  WebClient,      \* the one user every lead of the web form belongs to (id 0)
  Products,
  Handlers,       \* updates the bot can be awaiting at once
  MaxQuantity,    \* 10000 in the code
  MaxLeads,       \* bound: rows of the leads table
  AdminTargets,   \* statuses the admin sets
  NoProduct,      \* no order that the client would want
  NoSession,      \* no row in sessions, or an expired one
  Home            \* the row of the "home" flow

Steps == {"quantity", "comment", "contact", "contact_custom", "confirm"}

\* A quantity of 0 stands for the null of a fresh draft; contact says whether
\* the contact label is non-empty.
Draft == [step : Steps, product : Products, quantity : 0..MaxQuantity,
          contact : BOOLEAN, editing : BOOLEAN]

\* shared/lead-statuses.json
Statuses == {"new", "in_progress", "called_back", "proposal_sent",
             "fulfilled", "closed"}

Owners == Clients \cup {WebClient}

ASSUME ConstantsAssumption ==
  /\ WebClient \notin Clients
  /\ MaxQuantity \in Nat \ {0}
  /\ MaxLeads \in Nat
  /\ AdminTargets \subseteq Statuses
  /\ NoProduct \notin Products
  /\ NoSession \notin Draft
  /\ Home \notin Draft

VARIABLES
  session,        \* sessions table, by client
  leads,          \* leads table; a row's id is its position
  running,        \* updates that wait at an await, with the draft they hold
  patient,        \* do the clients wait for each answer?  Settled at the start
  wanted,         \* history: the product of the order the client has begun and
                  \* has not ended since, by client
  lastQuantity    \* history: the last quantity entered, by client and product

vars == <<session, leads, running, patient, wanted, lastQuantity>>

Lead == [client : Owners, product : Products, quantity : 1..MaxQuantity,
         contact : BOOLEAN, status : Statuses]

Idle == [at |-> "idle"]

\* The buttons that edit a draft: skip the comment, take the Telegram contact,
\* ask for another one, go back, and change a field from the confirmation.
Buttons == {"skip", "telegram", "custom", "back",
            "edit_quantity", "edit_comment", "edit_contact"}

\* What an update holds across its await: the client and its copy of the draft.
\* The endings hold no copy; which order they were meant for is history.
Endings == {"cancel", "confirm"}

Waiting ==
  [at : Buttons, client : Clients, draft : Draft]
    \cup [at : Endings, client : Clients, meant : Products \cup {NoProduct}]
    \cup [at : {"notify"}, client : Clients]

TypeOK ==
  /\ session \in [Clients -> Draft \cup {NoSession, Home}]
  /\ leads \in Seq(Lead)
  /\ Len(leads) <= MaxLeads
  /\ running \in [Handlers -> Waiting \cup {Idle}]
  /\ wanted \in [Clients -> Products \cup {NoProduct}]
  /\ lastQuantity \in [Clients -> [Products -> 0..MaxQuantity]]

------------------------------------------------------------------------------
(* The leads table.                                                        *)

\* The literal list of the partial unique index, and the test of the query.
Indexed(s) == s \in {"new", "in_progress", "called_back", "proposal_sent"}
IsOpen(s) == s \notin {"closed", "fulfilled"}

OpenLeads(c, p) ==
  {i \in 1..Len(leads) : /\ leads[i].client = c
                         /\ leads[i].product = p
                         /\ IsOpen(leads[i].status)}

\* Fault: the database lacks the partial unique index.
FaultNoIndex(i, c, p, s) == FALSE

\* Would row i, holding (c, p) at status s, collide in the unique index?
IndexConflict(i, c, p, s) ==
  /\ Indexed(s)
  /\ \E j \in 1..Len(leads) : /\ j # i
                              /\ leads[j].client = c
                              /\ leads[j].product = p
                              /\ Indexed(leads[j].status)

\* Fault: INSERT OR REPLACE, the older open row gives way to the new one.
FaultInsertReplaces(c, p, q, k) ==
  /\ Len(leads) < MaxLeads
  /\ q # 0
  /\ leads' = Append([i \in 1..Len(leads) |->
                        IF i \in OpenLeads(c, p)
                          THEN [leads[i] EXCEPT !.status = "closed"]
                          ELSE leads[i]],
                     [client |-> c, product |-> p, quantity |-> q,
                      contact |-> k, status |-> "new"])

\* INSERT of a lead: refused by the index and by NOT NULL on quantity.
InsertLead(c, p, q, k) ==
  /\ Len(leads) < MaxLeads
  /\ q # 0
  /\ ~IndexConflict(Len(leads) + 1, c, p, "new")
  /\ leads' = Append(leads, [client |-> c, product |-> p, quantity |-> q,
                             contact |-> k, status |-> "new"])

------------------------------------------------------------------------------
(* The draft.                                                              *)

HasDraft(c) == session[c] \in Draft

\* May a new update of client c be taken up now?
Ready(c) ==
  patient =>
    \A h \in Handlers : running[h] # Idle => running[h].client # c

NewDraft(p) ==
  [step |-> "quantity", product |-> p, quantity |-> 0,
   contact |-> FALSE, editing |-> FALSE]

\* buildDraft + moveToStep to "confirm": the patch over the draft that was read.
ToConfirm(d) == [d EXCEPT !.step = "confirm", !.editing = FALSE]

\* saveQuantity: the contact defaults to the client's Telegram label.
WithQuantity(d, q) ==
  [ToConfirm(d) EXCEPT !.quantity = q, !.contact = TRUE]

\* Fault: the bound 10000 taken as excluded from the refusal.
FaultLargeQuantity(q) == q > 0 /\ q <= MaxQuantity + 1

\* parsePositiveQuantity, on a text that is an integer.
AcceptsQuantity(q) == q > 0 /\ q <= MaxQuantity

WithContact(d) == [ToConfirm(d) EXCEPT !.contact = TRUE]

\* The step "back" leads to; a draft at "quantity" has none.
PreviousStep(d) ==
  CASE d.step = "comment" /\ ~d.editing -> "quantity"
    [] d.step = "comment" /\ d.editing  -> "confirm"
    [] d.step = "contact"               -> "confirm"
    [] d.step = "contact_custom"        -> "contact"
    [] d.step = "confirm"               -> "quantity"
    [] OTHER                            -> "none"

SetSession(c, s) == session' = [session EXCEPT ![c] = s]
SetWanted(c, p) == wanted' = [wanted EXCEPT ![c] = p]
StartWaiting(h, w) == running' = [running EXCEPT ![h] = w]
Return(h) == running' = [running EXCEPT ![h] = Idle]

------------------------------------------------------------------------------
(* Handlers without an await between the read and the write.               *)

\* Fault: choosing another product carries the answers of the old draft over.
FaultKeepAnswers(c, p) ==
  /\ Ready(c)
  /\ SetSession(c, IF HasDraft(c) THEN [session[c] EXCEPT !.product = p]
                     ELSE NewDraft(p))
  /\ SetWanted(c, p)
  /\ UNCHANGED <<leads, running, lastQuantity>>

\* Button lead:product: keep the draft of the same product, else begin a new
\* one over whatever the row held.
ChooseProduct(c, p) ==
  /\ Ready(c)
  /\ SetSession(c, IF HasDraft(c) /\ session[c].product = p
                     THEN session[c] ELSE NewDraft(p))
  /\ SetWanted(c, p)
  /\ UNCHANGED <<leads, running, lastQuantity>>

\* Text at step quantity, accepted by parsePositiveQuantity.
EnterQuantity(c, q) ==
  /\ Ready(c) /\ HasDraft(c)
  /\ session[c].step = "quantity"
  /\ AcceptsQuantity(q)
  /\ SetSession(c, WithQuantity(session[c], q))
  /\ lastQuantity' = [lastQuantity EXCEPT ![c][session[c].product] = q]
  /\ UNCHANGED <<leads, running, wanted>>

\* Text at step comment, neither blank nor too long.
EnterComment(c) ==
  /\ Ready(c) /\ HasDraft(c)
  /\ session[c].step = "comment"
  /\ SetSession(c, ToConfirm(session[c]))
  /\ UNCHANGED <<leads, running, wanted, lastQuantity>>

\* Text at step contact_custom, neither blank nor too long.
EnterContact(c) ==
  /\ Ready(c) /\ HasDraft(c)
  /\ session[c].step = "contact_custom"
  /\ SetSession(c, WithContact(session[c]))
  /\ UNCHANGED <<leads, running, wanted, lastQuantity>>

\* The word "back" as text: read and write in one go.
TypeBack(c) ==
  /\ Ready(c) /\ HasDraft(c)
  /\ PreviousStep(session[c]) # "none"
  /\ SetSession(c, [session[c] EXCEPT !.step = PreviousStep(session[c])])
  /\ UNCHANGED <<leads, running, wanted, lastQuantity>>

\* The cancel word in an order: clear the row and force the home session.
TypeCancel(c) ==
  /\ Ready(c) /\ HasDraft(c)
  /\ SetSession(c, Home)
  /\ SetWanted(c, NoProduct)
  /\ UNCHANGED <<leads, running, lastQuantity>>

\* /start and the menu: the home session, unless an order draft is active.
GoHome(c) ==
  /\ Ready(c)
  /\ ~HasDraft(c)
  /\ SetSession(c, Home)
  /\ UNCHANGED <<leads, running, wanted, lastQuantity>>

\* 72 hours without an interaction: get() no longer returns the row.
Expire(c) ==
  /\ Ready(c)
  /\ session[c] # NoSession
  /\ SetSession(c, NoSession)
  /\ SetWanted(c, NoProduct)
  /\ UNCHANGED <<leads, running, lastQuantity>>

------------------------------------------------------------------------------
(* Buttons that read the session, await, and then write.                   *)

PressButton(h, c, button) ==
  /\ Ready(c) /\ HasDraft(c)
  /\ running[h] = Idle
  /\ StartWaiting(h, [at |-> button, client |-> c, draft |-> session[c]])
  /\ UNCHANGED <<session, leads, wanted, lastQuantity>>

FinishSkipComment(h) ==
  /\ running[h].at = "skip"
  /\ SetSession(running[h].client, ToConfirm(running[h].draft))
  /\ Return(h)
  /\ UNCHANGED <<leads, wanted, lastQuantity>>

FinishTelegramContact(h) ==
  /\ running[h].at = "telegram"
  /\ SetSession(running[h].client, WithContact(running[h].draft))
  /\ Return(h)
  /\ UNCHANGED <<leads, wanted, lastQuantity>>

FinishCustomContact(h) ==
  /\ running[h].at = "custom"
  /\ SetSession(running[h].client, [running[h].draft EXCEPT !.step = "contact_custom"])
  /\ Return(h)
  /\ UNCHANGED <<leads, wanted, lastQuantity>>

EditButton(field) ==
  CASE field = "quantity" -> "edit_quantity"
    [] field = "comment"  -> "edit_comment"
    [] field = "contact"  -> "edit_contact"

\* Buttons lead:edit_*: only a draft at the confirmation can be edited.
FinishEdit(h, field) ==
  LET d == running[h].draft IN
  /\ running[h].at = EditButton(field)
  /\ IF d.step # "confirm"
       THEN UNCHANGED session
       ELSE SetSession(running[h].client, [d EXCEPT !.step = field, !.editing = TRUE])
  /\ Return(h)
  /\ UNCHANGED <<leads, wanted, lastQuantity>>

FinishBack(h) ==
  LET d == running[h].draft IN
  /\ running[h].at = "back"
  /\ IF PreviousStep(d) = "none"
       THEN UNCHANGED session
       ELSE SetSession(running[h].client, [d EXCEPT !.step = PreviousStep(d)])
  /\ Return(h)
  /\ UNCHANGED <<leads, wanted, lastQuantity>>

------------------------------------------------------------------------------
(* Buttons lead:cancel and lead:confirm: the answer to Telegram first,     *)
(* then whatever the row holds by then is cancelled or confirmed.          *)

PressEnding(h, c, button) ==
  /\ Ready(c)
  /\ running[h] = Idle
  /\ StartWaiting(h, [at |-> button, client |-> c, meant |-> wanted[c]])
  /\ UNCHANGED <<session, leads, wanted, lastQuantity>>

\* The order the button was meant for has ended, and no other.
EndMeant(h) ==
  IF wanted[running[h].client] = running[h].meant
    THEN SetWanted(running[h].client, NoProduct)
    ELSE UNCHANGED wanted

\* Clear the row and force the home session, whatever the row holds.
FinishCancel(h) ==
  /\ running[h].at = "cancel"
  /\ SetSession(running[h].client, Home)
  /\ EndMeant(h)
  /\ Return(h)
  /\ UNCHANGED <<leads, lastQuantity>>

\* confirmLead reads the row afresh: is a draft up for confirmation?  Check,
\* transaction and clearing then run without interruption.
Confirms(h) ==
  /\ running[h].at = "confirm"
  /\ HasDraft(running[h].client)
  /\ session[running[h].client].step = "confirm"

\* Fault: the transaction does not delete the session.
FaultConfirmKeepsDraft(h) ==
  LET c == running[h].client
      d == session[c] IN
  /\ Confirms(h)
  /\ OpenLeads(c, d.product) = {}
  /\ InsertLead(c, d.product, d.quantity, d.contact)
  /\ EndMeant(h)
  /\ StartWaiting(h, [at |-> "notify", client |-> c])
  /\ UNCHANGED <<session, lastQuantity>>

\* The draft becomes a lead and the row is deleted, in one transaction; the
\* handler then awaits the card for the admin.
ConfirmCreates(h) ==
  LET c == running[h].client
      d == session[c] IN
  /\ Confirms(h)
  /\ OpenLeads(c, d.product) = {}
  /\ InsertLead(c, d.product, d.quantity, d.contact)
  /\ SetSession(c, NoSession)
  /\ EndMeant(h)
  /\ StartWaiting(h, [at |-> "notify", client |-> c])
  /\ UNCHANGED lastQuantity

\* Fault: the home session is forced, as in the cancel handler.
FaultForceHome(h) ==
  /\ running[h].at = "notify"
  /\ SetSession(running[h].client, Home)
  /\ Return(h)
  /\ UNCHANGED <<leads, wanted, lastQuantity>>

\* Back from the await: home, unless an order draft is active by now.
FinishConfirm(h) ==
  /\ running[h].at = "notify"
  /\ IF HasDraft(running[h].client)
       THEN UNCHANGED session
       ELSE SetSession(running[h].client, Home)
  /\ Return(h)
  /\ UNCHANGED <<leads, wanted, lastQuantity>>

\* An open lead exists: the draft is dropped and the client sent home.
ConfirmDuplicate(h) ==
  LET c == running[h].client IN
  /\ Confirms(h)
  /\ OpenLeads(c, session[c].product) # {}
  /\ SetSession(c, Home)
  /\ EndMeant(h)
  /\ Return(h)
  /\ UNCHANGED <<leads, lastQuantity>>

\* Nothing to confirm, or NOT NULL refuses a draft without a quantity: the row
\* stays as it is.
ConfirmFails(h) ==
  /\ running[h].at = "confirm"
  /\ Confirms(h) =>
       LET d == session[running[h].client] IN
         d.quantity = 0 /\ OpenLeads(running[h].client, d.product) = {}
  /\ Return(h)
  /\ UNCHANGED <<session, leads, wanted, lastQuantity>>

------------------------------------------------------------------------------
(* The admin, the web form, and the process.                               *)

\* Any status may follow any other; only the index can refuse the UPDATE.
AdminSetStatus(i, s) ==
  /\ ~IndexConflict(i, leads[i].client, leads[i].product, s)
  /\ leads' = [leads EXCEPT ![i].status = s]
  /\ UNCHANGED <<session, running, wanted, lastQuantity>>

\* POST /api/lead, once validateWebLead and the product check have passed.
WebLead(p, q) ==
  /\ InsertLead(WebClient, p, q, TRUE)
  /\ UNCHANGED <<session, running, wanted, lastQuantity>>

\* The process dies and starts again: tables stay, awaiting updates are gone.
Restart ==
  /\ \E h \in Handlers : running[h] # Idle
  /\ running' = [h \in Handlers |-> Idle]
  /\ UNCHANGED <<session, leads, wanted, lastQuantity>>

Init ==
  /\ session = [c \in Clients |-> NoSession]
  /\ leads = <<>>
  /\ running = [h \in Handlers |-> Idle]
  /\ patient \in BOOLEAN
  /\ wanted = [c \in Clients |-> NoProduct]
  /\ lastQuantity = [c \in Clients |-> [p \in Products |-> 0]]

ClientStep(c) ==
  \/ \E p \in Products : ChooseProduct(c, p)
  \/ \E q \in 0..MaxQuantity + 1 : EnterQuantity(c, q)
  \/ EnterComment(c)
  \/ EnterContact(c)
  \/ TypeBack(c)
  \/ TypeCancel(c)
  \/ GoHome(c)
  \/ Expire(c)
  \/ \E h \in Handlers :
       \/ \E button \in Buttons : PressButton(h, c, button)
       \/ \E button \in Endings : PressEnding(h, c, button)

HandlerStep(h) ==
  \/ FinishSkipComment(h)
  \/ FinishTelegramContact(h)
  \/ FinishCustomContact(h)
  \/ \E field \in {"quantity", "comment", "contact"} : FinishEdit(h, field)
  \/ FinishBack(h)
  \/ FinishCancel(h)
  \/ ConfirmCreates(h)
  \/ ConfirmDuplicate(h)
  \/ ConfirmFails(h)
  \/ FinishConfirm(h)

Next ==
  /\ UNCHANGED patient
  /\ \/ \E c \in Clients : ClientStep(c)
     \/ \E h \in Handlers : HandlerStep(h)
     \/ \E i \in 1..Len(leads), s \in AdminTargets : AdminSetStatus(i, s)
     \/ \E p \in Products, q \in 1..MaxQuantity : WebLead(p, q)
     \/ Restart

Spec == Init /\ [][Next]_vars
------------------------------------------------------------------------------
(* Properties.                                                             *)

\* A client never has two open leads for one product (nor does the web form),
\* whatever the admin reopens and however updates interleave.
OneOpenLead ==
  \A c \in Owners, p \in Products :
    \A i, j \in OpenLeads(c, p) : i = j

\* Every stored lead can be acted on: the client gave a contact, and a quantity
\* for this very product, though buttons may be pressed at any step and late.
LeadsAreActionable ==
  \A i \in 1..Len(leads) :
    /\ leads[i].contact
    /\ leads[i].client \in Clients =>
         lastQuantity[leads[i].client][leads[i].product] # 0

\* Is the order the client wants, if any, in its session?
HoldsWanted(c) ==
  wanted[c] # NoProduct => HasDraft(c) /\ session[c].product = wanted[c]

\* The order a client wants, once in its session, leaves it only by a late
\* button the client itself pressed before (a cancellation or confirmation of
\* an earlier order, a copy written back), and for no client that waits for
\* each answer.  The home session at the end of a confirmation, a restart,
\* the admin and other clients never take it.
WantedDraftSurvives ==
  [][\A c \in Clients :
       HoldsWanted(c) /\ ~HoldsWanted(c)' =>
         /\ ~patient
         /\ \E h \in Handlers :
              /\ running[h].at \in Buttons \cup Endings
              /\ running[h].client = c
              /\ running'[h] # running[h]]_vars

\* A draft in the session is of the order the client has begun and has since
\* neither cancelled, nor confirmed, nor let expire.
DraftIsWanted == \A c \in Clients : HasDraft(c) => wanted[c] = session[c].product

\* The quantity of a draft is the last one entered for its product.
DraftHoldsLastQuantity ==
  \A c \in Clients :
    HasDraft(c) /\ session[c].quantity # 0 =>
      session[c].quantity = lastQuantity[c][session[c].product]

\* A client that waits for each answer finds its draft as it left it: one it
\* began and has not ended, with the quantity it entered last.
DraftsAreTheirClients == patient => DraftIsWanted /\ DraftHoldsLastQuantity

\* The refinement to the slots of LeadSlots.
Holder ==
  [s \in Owners \X Products |->
     LET open == OpenLeads(s[1], s[2])
     IN  IF open = {} THEN 0 ELSE CHOOSE i \in open : TRUE]

Slots == INSTANCE LeadSlots WITH
           Slots <- Owners \X Products, LeadIds <- 1..MaxLeads, holder <- Holder

\* Every step of the flow is a step of the slots, or none: a slot never passes
\* from one open lead to another directly.
ImplementsSlots == Slots!Spec
==============================================================================
