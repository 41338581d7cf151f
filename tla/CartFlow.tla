------------------------------- MODULE CartFlow -------------------------------
(***************************************************************************)
(* The cart: a request for several products, kept in the same sessions row *)
(* as the request for one, edited by the handlers of src/handlers/client.js*)
(* through src/services/lead-service.js, and confirmed as one lead of the  *)
(* product code "__cart__".                                                *)
(*                                                                         *)
(* As in LeadFlow a handler is one action from one await to the next, and  *)
(* a button that reads the session, awaits and writes is two, with a copy  *)
(* of the row in between.  The request for one product is here only as the *)
(* value LeadDraft of the row: what LeadFlow does inside it is a step from *)
(* LeadDraft to LeadDraft.  Texts, the catalogue page and isConfirmEditing *)
(* are left out: no guard of the cart reads them.                          *)
(*                                                                         *)
(* A patient client presses nothing while an answer is due to it; the      *)
(* updates of the others overlap.                                          *)
(***************************************************************************)
EXTENDS Integers, Sequences, FiniteSets

CONSTANTS
  Clients,
  Products,
  Handlers,       \* updates the bot can be awaiting at once
  MaxQuantity,    \* 10000 in the code, for one entry
  MaxEntered,     \* bound: total a client enters of a product
  MaxLeads,       \* bound: rows of the leads table
  NoSession,      \* no row in sessions, or an expired one
  Home,           \* the row of the "home" flow
  LeadDraft,      \* the row of the request for one product
  None            \* no pending product

CartSteps == {"catalog", "line_qty", "comment", "contact", "contact_custom", "confirm"}

\* items, by product: a quantity of 0 stands for no line.
Lines == [Products -> Nat]

Cart == [step : CartSteps, lines : Lines, pending : Products \cup {None},
         contact : BOOLEAN]

Others == {NoSession, Home, LeadDraft}

ASSUME CartAssumption ==
  /\ MaxQuantity \in Nat \ {0}
  /\ MaxEntered \in Nat
  /\ MaxLeads \in Nat
  /\ None \notin Products
  /\ LeadDraft \notin {NoSession, Home}
  /\ \A x \in Others : x \notin Cart

VARIABLES
  session,   \* sessions table, by client
  leads,     \* the cart leads of the leads table
  running,   \* updates that wait at an await, with the row they hold
  patient,   \* clients that wait for every answer
  basket,    \* history: what a client has entered for its present cart
  entered    \* history: what a client has entered since the beginning

vars == <<session, leads, running, patient, basket, entered>>

Lead == [client : Clients, lines : Lines, contact : BOOLEAN, open : BOOLEAN]

Idle == [at |-> "idle"]

Buttons == {"skip", "telegram", "custom", "back",
            "edit_quantity", "edit_comment", "edit_contact"}

Waiting ==
  [at : Buttons, client : Clients, row : Cart \cup {LeadDraft}]
    \cup [at : {"notify"}, client : Clients]

TypeOK ==
  /\ session \in [Clients -> Cart \cup Others]
  /\ leads \in Seq(Lead)
  /\ running \in [Handlers -> Waiting \cup {Idle}]
  /\ patient \in SUBSET Clients
  /\ basket \in [Clients -> Lines]
  /\ entered \in [Clients -> Lines]

------------------------------------------------------------------------------
(* The row and the carts in it.                                            *)

Empty == [p \in Products |-> 0]
HasCart(c) == session[c] \in Cart
IsFilled(lines) == \E p \in Products : lines[p] > 0
OpenLeads(c) == {i \in 1..Len(leads) : leads[i].client = c /\ leads[i].open}

\* May a new update of client c be taken up now?
Ready(c) ==
  c \in patient => \A h \in Handlers : running[h] # Idle => running[h].client # c

SetSession(c, s) == session' = [session EXCEPT ![c] = s]
Return(h) == running' = [running EXCEPT ![h] = Idle]
EmptyBasket(c) == basket' = [basket EXCEPT ![c] = Empty]

FreshCart == [step |-> "catalog", lines |-> Empty, pending |-> None, contact |-> FALSE]

\* Fault: adding a product starts from a fresh draft.
FaultNewCart(c, p) == [FreshCart EXCEPT !.step = "line_qty", !.pending = p]

\* startCartAddProduct: the product waits for its quantity, in the cart there is.
WithPending(c, p) ==
  [(IF HasCart(c) THEN session[c] ELSE FreshCart)
     EXCEPT !.step = "line_qty", !.pending = p]

\* Fault: a second entry of a product makes the line twice as large.
FaultDoubleLine(cart, q) ==
  [cart EXCEPT !.step = "catalog", !.lines[cart.pending] = 2 * @ + q,
               !.pending = None, !.contact = TRUE]

\* saveCartLineQuantity: a line of the product grows; the contact defaults to
\* the client's Telegram label.
WithLine(cart, q) ==
  [cart EXCEPT !.step = "catalog", !.lines[cart.pending] = @ + q,
               !.pending = None, !.contact = TRUE]

\* parsePositiveQuantity bounds an entry, not the line it is added to.
AcceptsQuantity(q) == q > 0 /\ q <= MaxQuantity

\* Comment and contact return to the confirmation from wherever they are given.
ToConfirm(cart) == [cart EXCEPT !.step = "confirm"]
WithContact(cart) == [ToConfirm(cart) EXCEPT !.contact = TRUE]

\* The step "back" leads to; the catalogue has none.
PreviousStep(cart) ==
  CASE cart.step = "line_qty"       -> "catalog"
    [] cart.step = "comment"        -> "catalog"
    [] cart.step = "contact"        -> "comment"
    [] cart.step = "contact_custom" -> "contact"
    [] cart.step = "confirm"        -> "contact"
    [] OTHER                        -> "none"

\* goBackCart: leaving the quantity of a product drops the product.
Back(cart) ==
  [cart EXCEPT !.step = PreviousStep(cart),
               !.pending = IF cart.step = "line_qty" THEN None ELSE @]

\* startCartConfirmEdit: only a cart at the confirmation can be edited.
EditStep(button) ==
  CASE button = "edit_quantity" -> "catalog"
    [] button = "edit_comment"  -> "comment"
    [] button = "edit_contact"  -> "contact"

Edited(cart, button) ==
  IF cart.step = "confirm" THEN [cart EXCEPT !.step = EditStep(button)] ELSE cart

------------------------------------------------------------------------------
(* Handlers that read the row and write it with no await in between.       *)

\* Fault: the cart is begun over a request for one product.
FaultAddOverLead(c, p) ==
  /\ Ready(c)
  /\ SetSession(c, WithPending(c, p))
  /\ UNCHANGED <<leads, running, patient, basket, entered>>

\* Button cart:add, refused while a request for one product is open.
AddProduct(c, p) ==
  /\ Ready(c)
  /\ session[c] # LeadDraft
  /\ SetSession(c, WithPending(c, p))
  /\ UNCHANGED <<leads, running, patient, basket, entered>>

EnterQuantity(c, q) ==
  /\ Ready(c) /\ HasCart(c)
  /\ session[c].step = "line_qty"
  /\ session[c].pending # None
  /\ AcceptsQuantity(q)
  /\ LET p == session[c].pending IN
       /\ entered[c][p] + q <= MaxEntered
       /\ SetSession(c, WithLine(session[c], q))
       /\ basket' = [basket EXCEPT ![c][p] = @ + q]
       /\ entered' = [entered EXCEPT ![c][p] = @ + q]
  /\ UNCHANGED <<leads, running, patient>>

\* Button cart:checkout.
Checkout(c) ==
  /\ Ready(c) /\ HasCart(c)
  /\ IsFilled(session[c].lines)
  /\ SetSession(c, [session[c] EXCEPT !.step = "comment"])
  /\ UNCHANGED <<leads, running, patient, basket, entered>>

\* Text at step comment or contact_custom, neither blank nor too long.
EnterText(c) ==
  /\ Ready(c) /\ HasCart(c)
  /\ \/ session[c].step = "comment" /\ SetSession(c, ToConfirm(session[c]))
     \/ session[c].step = "contact_custom" /\ SetSession(c, WithContact(session[c]))
  /\ UNCHANGED <<leads, running, patient, basket, entered>>

\* The word "back" as text.
TypeBack(c) ==
  /\ Ready(c) /\ HasCart(c)
  /\ PreviousStep(session[c]) # "none"
  /\ SetSession(c, Back(session[c]))
  /\ UNCHANGED <<leads, running, patient, basket, entered>>

\* The cancel button or word, in either flow.  What the button waits for before it
\* holds nothing, so that a late one is one pressed later; LeadFlow tells the two apart.
Cancel(c) ==
  /\ Ready(c)
  /\ SetSession(c, Home)
  /\ EmptyBasket(c)
  /\ UNCHANGED <<leads, running, patient, entered>>

\* /start, the menu and the support button: home, unless an order is active.
GoHome(c) ==
  /\ Ready(c)
  /\ session[c] = NoSession
  /\ SetSession(c, Home)
  /\ UNCHANGED <<leads, running, patient, basket, entered>>

\* 72 hours without an interaction.
Expire(c) ==
  /\ Ready(c)
  /\ session[c] # NoSession
  /\ SetSession(c, NoSession)
  /\ EmptyBasket(c)
  /\ UNCHANGED <<leads, running, patient, entered>>

\* Button lead:product, refused while a cart is open.
StartLead(c) ==
  /\ Ready(c)
  /\ session[c] \in {NoSession, Home}
  /\ SetSession(c, LeadDraft)
  /\ UNCHANGED <<leads, running, patient, basket, entered>>

\* The request for one product is confirmed.
EndLead(c) ==
  /\ Ready(c)
  /\ session[c] = LeadDraft
  /\ SetSession(c, NoSession)
  /\ UNCHANGED <<leads, running, patient, basket, entered>>

------------------------------------------------------------------------------
(* Buttons that read the row, await, and write the copy they read.         *)

PressButton(h, c, button) ==
  /\ Ready(c)
  /\ session[c] \in Cart \cup {LeadDraft}
  /\ running[h] = Idle
  /\ running' = [running EXCEPT ![h] = [at |-> button, client |-> c, row |-> session[c]]]
  /\ UNCHANGED <<session, leads, patient, basket, entered>>

\* What each button makes of the cart it read.
Pressed(button, cart) ==
  CASE button = "skip"     -> ToConfirm(cart)
    [] button = "telegram" -> WithContact(cart)
    [] button = "custom"   -> [cart EXCEPT !.step = "contact_custom"]
    [] button = "back"     -> Back(cart)
    [] OTHER               -> Edited(cart, button)

\* Fault: goBackCart does not test that there is a previous step.
FaultBackAnyway(button, cart) ==
  button \notin {"edit_quantity", "edit_comment", "edit_contact"} \/ cart.step = "confirm"

\* Does the button write the row at all?
Writes(button, cart) ==
  CASE button = "back" -> PreviousStep(cart) # "none"
    [] button \in {"edit_quantity", "edit_comment", "edit_contact"} -> cart.step = "confirm"
    [] OTHER -> TRUE

FinishButton(h) ==
  LET c == running[h].client
      cart == running[h].row
      button == running[h].at IN
  /\ running[h] # Idle /\ button \in Buttons
  /\ cart \in Cart
  /\ IF Writes(button, cart)
       THEN SetSession(c, Pressed(button, cart))
       ELSE UNCHANGED session
  /\ Return(h)
  /\ UNCHANGED <<leads, patient, basket, entered>>

\* The copy is of a request for one product, and stays one.
FinishLeadButton(h) ==
  /\ running[h] # Idle /\ running[h].at \in Buttons
  /\ running[h].row = LeadDraft
  /\ \/ SetSession(running[h].client, LeadDraft)
     \/ UNCHANGED session
  /\ Return(h)
  /\ UNCHANGED <<leads, patient, basket, entered>>

------------------------------------------------------------------------------
(* Button lead:confirm, past its first await.                              *)

\* Fault: the confirmation does not look at the items.
FaultConfirmEmpty(h, c) ==
  /\ Ready(c) /\ HasCart(c)
  /\ running[h] = Idle
  /\ session[c].step = "confirm"
  /\ OpenLeads(c) = {}
  /\ Len(leads) < MaxLeads
  /\ leads' = Append(leads, [client |-> c, lines |-> session[c].lines,
                             contact |-> session[c].contact, open |-> TRUE])
  /\ SetSession(c, NoSession)
  /\ EmptyBasket(c)
  /\ running' = [running EXCEPT ![h] = [at |-> "notify", client |-> c]]
  /\ UNCHANGED <<patient, entered>>

\* confirmCartLead: the cart becomes a lead and the row is deleted, in one
\* transaction; the handler then awaits the card for the admin.
ConfirmCreates(h, c) ==
  /\ Ready(c) /\ HasCart(c)
  /\ running[h] = Idle
  /\ session[c].step = "confirm"
  /\ IsFilled(session[c].lines)
  /\ OpenLeads(c) = {}
  /\ Len(leads) < MaxLeads
  /\ leads' = Append(leads, [client |-> c, lines |-> session[c].lines,
                             contact |-> session[c].contact, open |-> TRUE])
  /\ SetSession(c, NoSession)
  /\ EmptyBasket(c)
  /\ running' = [running EXCEPT ![h] = [at |-> "notify", client |-> c]]
  /\ UNCHANGED <<patient, entered>>

\* Back from that await: home, unless an order is active by now.
FinishConfirm(h) ==
  /\ running[h] # Idle /\ running[h].at = "notify"
  /\ IF session[running[h].client] \in Cart \cup {LeadDraft}
       THEN UNCHANGED session
       ELSE SetSession(running[h].client, Home)
  /\ Return(h)
  /\ UNCHANGED <<leads, patient, basket, entered>>

\* An open cart lead exists: the cart is dropped and the client sent home.
ConfirmDuplicate(c) ==
  /\ Ready(c) /\ HasCart(c)
  /\ session[c].step = "confirm"
  /\ IsFilled(session[c].lines)
  /\ OpenLeads(c) # {}
  /\ SetSession(c, Home)
  /\ EmptyBasket(c)
  /\ UNCHANGED <<leads, running, patient, entered>>

\* The admin closes a lead, or reopens it if no other is open.
SetOpen(i, b) ==
  /\ b => OpenLeads(leads[i].client) \subseteq {i}
  /\ leads' = [leads EXCEPT ![i].open = b]
  /\ UNCHANGED <<session, running, patient, basket, entered>>

\* The process dies and starts again.
Restart ==
  /\ \E h \in Handlers : running[h] # Idle
  /\ running' = [h \in Handlers |-> Idle]
  /\ UNCHANGED <<session, leads, patient, basket, entered>>

Init ==
  /\ session = [c \in Clients |-> NoSession]
  /\ leads = <<>>
  /\ running = [h \in Handlers |-> Idle]
  /\ patient \in SUBSET Clients
  /\ basket = [c \in Clients |-> Empty]
  /\ entered = [c \in Clients |-> Empty]

ClientStep(c) ==
  \/ \E p \in Products : AddProduct(c, p)
  \/ \E q \in 0..MaxQuantity + 1 : EnterQuantity(c, q)
  \/ Checkout(c) \/ EnterText(c) \/ TypeBack(c)
  \/ Cancel(c) \/ GoHome(c) \/ Expire(c)
  \/ StartLead(c) \/ EndLead(c)
  \/ \E h \in Handlers : \/ \E button \in Buttons : PressButton(h, c, button)
                         \/ ConfirmCreates(h, c)
  \/ ConfirmDuplicate(c)

HandlerStep(h) == FinishButton(h) \/ FinishLeadButton(h) \/ FinishConfirm(h)

Next ==
  \/ \E c \in Clients : ClientStep(c)
  \/ \E h \in Handlers : HandlerStep(h)
  \/ \E i \in 1..Len(leads), b \in BOOLEAN : SetOpen(i, b)
  \/ Restart

Spec == Init /\ [][Next]_vars
------------------------------------------------------------------------------
(* Properties.                                                             *)

\* Every cart lead names a product and a contact, though the keyboards let a
\* client skip to the confirmation of an empty cart, and answer late.
CartLeadsAreWhole ==
  \A i \in 1..Len(leads) : IsFilled(leads[i].lines) /\ leads[i].contact

\* Copies that are written back late lose lines, they never make any up: no
\* line, in a row, a copy or a lead, exceeds what its client has entered.
LinesWereEntered ==
  \A p \in Products :
    /\ \A c \in Clients : HasCart(c) => session[c].lines[p] <= entered[c][p]
    /\ \A h \in Handlers :
         running[h] # Idle /\ running[h].at \in Buttons /\ running[h].row \in Cart
           => running[h].row.lines[p] <= entered[running[h].client][p]
    /\ \A i \in 1..Len(leads) : leads[i].lines[p] <= entered[leads[i].client][p]

\* The cart of a client that waits for its answers holds exactly what it has
\* entered since it began it, through every detour of the keyboards.
CartHoldsEntries ==
  \A c \in patient :
    basket[c] = IF HasCart(c) THEN session[c].lines ELSE Empty

\* Such a client leaves one kind of order before it enters the other.
FlowsStayApart ==
  [][\A c \in patient :
       /\ session[c] = LeadDraft => session'[c] \notin Cart
       /\ session[c] \in Cart => session'[c] # LeadDraft]_vars
==============================================================================
