------------------------------ MODULE Accounts ------------------------------
(***************************************************************************)
(* Users and their blocking: the users table, the test every update of a   *)
(* client passes first (ensureClientAllowed of handlers/client.js), and    *)
(* the admin, who blocks and unblocks by commands of the bot and by the    *)
(* button of the dashboard's user table.                                   *)
(*                                                                         *)
(* The two differ.  A command says what it wants and is refused when that  *)
(* is so already; the button sends a toggle, whatever the label it bears,  *)
(* and the label is of the page, which is as old as its last load.  While  *)
(* a press is answered the button stays enabled.  A press whose answer is  *)
(* lost is alerted and leaves the page as it is; the request may be on its *)
(* way still.                                                              *)
(*                                                                         *)
(* An update is tested once and handled in one go but for its awaits.  The *)
(* handler of a confirmation answers the button first and creates the lead *)
(* afterwards; those of skip, contact and back read the draft, answer, and *)
(* write their copy of it back.  A block that comes between is not seen.   *)
(* Drafts and orders are those of LeadFlow, here only whether and how many.*)
(***************************************************************************)
EXTENDS Naturals, FiniteSets

CONSTANTS
  Clients,
  Handlers,
  Presses,     \* bound: presses of the button under way at once
  None,
  MaxOrders    \* bound: orders of a client

Admission == [kind : {"confirm", "edit"}, who : Clients]

Press == [at : {"sent", "adrift", "done"}, who : Clients]

ASSUME AccountsAssumption ==
  /\ None \notin Admission \cup Press
  /\ IsFiniteSet(Handlers)
  /\ MaxOrders \in Nat

States == {"absent", "active", "blocked"}

VARIABLES
  user,      \* users table: the row's is_blocked
  draft,     \* the client has an order draft
  orders,    \* leads of the client
  running,   \* the button of a client that a handler has admitted
  page,      \* the user table as the browser shows it
  press,     \* the presses of its button: not answered, given up, or none
  careful,   \* the admin waits for answers and does not act on an old page
  fresh,     \* history: the page was loaded since the last change by the
             \* admin or an abandoned press, and with no press unanswered
  asked      \* history: what the admin asked for last, unless it was told
             \* of an error since or an abandoned press interfered

vars == <<user, draft, orders, running, page, press, careful, fresh, asked>>

client == <<draft, orders, running>>
dashboard == <<page, press, careful, fresh>>

TypeOK ==
  /\ user \in [Clients -> States]
  /\ draft \in [Clients -> BOOLEAN]
  /\ orders \in [Clients -> 0..MaxOrders]
  /\ running \in [Handlers -> Admission \cup {None}]
  /\ page \in [Clients -> States]
  /\ press \in [Presses -> Press \cup {None}]
  /\ careful \in BOOLEAN
  /\ fresh \in BOOLEAN
  /\ asked \in [Clients -> {"nothing", "active", "blocked"}]
  /\ \A c \in Clients : draft[c] \/ orders[c] > 0 => user[c] # "absent"

------------------------------------------------------------------------------
(* The client.                                                             *)

SetUser(c, s) == user' = [user EXCEPT ![c] = s]

\* Fault: a row that is not there is not inserted.
FaultUpdateOnly(c) == UNCHANGED user

\* INSERT ... ON CONFLICT DO UPDATE of everything but is_blocked.
Upsert(c) == SetUser(c, IF user[c] = "absent" THEN "active" ELSE user[c])

\* Fault: who has an order draft is let through.
FaultAllowDraft(c) == user[c] # "blocked" \/ draft[c]

Allowed(c) == user[c] # "blocked"

\* Any update that orders nothing: it is answered, or turned away.
Greet(c) ==
  /\ Upsert(c)
  /\ UNCHANGED <<client, dashboard, asked>>

\* The button of a product.
Begin(c) ==
  /\ Allowed(c)
  /\ Upsert(c)
  /\ draft' = [draft EXCEPT ![c] = TRUE]
  /\ UNCHANGED <<orders, running, dashboard, asked>>

\* The buttons of the client that have been admitted and not handled, and the
\* confirmations among them.
UnderWay(c) == {h \in Handlers : running[h] # None /\ running[h].who = c}
Admitted(c) == {h \in UnderWay(c) : running[h].kind = "confirm"}

Admit(h, kind, c) ==
  /\ Allowed(c)
  /\ running[h] = None
  /\ running' = [running EXCEPT ![h] = [kind |-> kind, who |-> c]]
  /\ Upsert(c)
  /\ UNCHANGED <<draft, orders, dashboard, asked>>

\* The button that confirms: tested, then the handler awaits its answer.
PressConfirm(h, c) ==
  /\ orders[c] + Cardinality(Admitted(c)) < MaxOrders
  /\ Admit(h, "confirm", c)

\* The buttons of skip, contact and back: the draft is read before the await.
PressEdit(h, c) == draft[c] /\ Admit(h, "edit", c)

Ends(h, kind) ==
  /\ running[h] # None /\ running[h].kind = kind
  /\ running' = [running EXCEPT ![h] = None]
  /\ UNCHANGED <<user, dashboard, asked>>

\* The lead is created if the draft is still there and not refused as a
\* duplicate or as incomplete.
FinishConfirm(h) ==
  /\ Ends(h, "confirm")
  /\ LET c == running[h].who IN
       \/ /\ draft[c]
          /\ draft' = [draft EXCEPT ![c] = FALSE]
          /\ orders' = [orders EXCEPT ![c] = @ + 1]
       \/ UNCHANGED <<draft, orders>>

\* The copy is written, of a draft that may have ended, or its step asks for none.
FinishEdit(h) ==
  /\ Ends(h, "edit")
  /\ draft' \in {draft, [draft EXCEPT ![running[h].who] = TRUE]}
  /\ UNCHANGED orders

\* /menu, which is not tested, a cancellation, or the draft's time is up.
DropDraft(c) ==
  /\ draft[c]
  /\ draft' = [draft EXCEPT ![c] = FALSE]
  /\ UNCHANGED <<user, orders, running, dashboard, asked>>

------------------------------------------------------------------------------
(* The admin.                                                              *)

Sent == {k \in Presses : press[k] # None /\ press[k].at # "adrift"}

Toggled(s) == IF s = "blocked" THEN "active" ELSE "blocked"

\* The page is opened, reloaded, or another of its pages is turned to.
Load ==
  /\ page' = user
  /\ fresh' = (Sent = {})
  /\ UNCHANGED <<user, client, press, careful, asked>>

\* The button of a row, whose label is what the page does not show.
PressButton(k, c) ==
  /\ press[k] = None
  /\ page[c] # "absent"
  /\ careful => fresh /\ Sent = {}
  /\ press' = [press EXCEPT ![k] = [at |-> "sent", who |-> c]]
  /\ fresh' = FALSE
  /\ asked' = [asked EXCEPT ![c] = Toggled(page[c])]
  /\ UNCHANGED <<user, client, page, careful>>

\* PATCH /users/:id/block.
Toggle(k) ==
  /\ press[k] # None
  /\ press[k].at # "done"
  /\ LET c == press[k].who IN
       /\ SetUser(c, Toggled(user[c]))
       /\ IF press[k].at = "sent"
            THEN /\ press' = [press EXCEPT ![k].at = "done"]
                 /\ UNCHANGED <<fresh, asked>>
            ELSE /\ press' = [press EXCEPT ![k] = None]
                 /\ fresh' = FALSE
                 /\ asked' = [asked EXCEPT ![c] = "nothing"]
  /\ UNCHANGED <<client, page, careful>>

\* Fault: the page is not loaded again.
FaultNoRefresh(k) ==
  /\ press[k] # None /\ press[k].at = "done"
  /\ press' = [press EXCEPT ![k] = None]
  /\ fresh' = TRUE
  /\ UNCHANGED <<user, client, page, careful, asked>>

\* router.refresh().
Answered(k) ==
  /\ press[k] # None /\ press[k].at = "done"
  /\ press' = [press EXCEPT ![k] = None]
  /\ page' = user
  /\ fresh' = TRUE
  /\ UNCHANGED <<user, client, careful, asked>>

\* The alert: the request was refused or lost, or its answer was, or it has
\* not arrived yet.
Lose(k) ==
  /\ press[k] # None /\ press[k].at # "adrift"
  /\ press' \in {[press EXCEPT ![k] = None]} \cup
       (IF press[k].at = "sent" THEN {[press EXCEPT ![k].at = "adrift"]} ELSE {})
  /\ asked' = [asked EXCEPT ![press[k].who] = "nothing"]
  /\ UNCHANGED <<user, client, page, careful, fresh>>

\* What was given up never arrives.
Vanish(k) ==
  /\ press[k] # None /\ press[k].at = "adrift"
  /\ press' = [press EXCEPT ![k] = None]
  /\ UNCHANGED <<user, client, page, careful, fresh, asked>>

\* /blockuser and /unblockuser: not for a user the table does not have; a
\* user that is so already is told of, and nothing is written.
Command(c, s) ==
  /\ user[c] # "absent"
  /\ careful => Sent = {}
  /\ SetUser(c, s)
  /\ fresh' = FALSE
  /\ asked' = [asked EXCEPT ![c] = s]
  /\ UNCHANGED <<client, page, press, careful>>

BlockUser(c) == Command(c, "blocked")
UnblockUser(c) == Command(c, "active")

Init ==
  /\ user = [c \in Clients |-> "absent"]
  /\ draft = [c \in Clients |-> FALSE]
  /\ orders = [c \in Clients |-> 0]
  /\ running = [h \in Handlers |-> None]
  /\ page = user
  /\ press = [k \in Presses |-> None]
  /\ careful \in BOOLEAN
  /\ fresh = TRUE
  /\ asked = [c \in Clients |-> "nothing"]

ClientStep(c) ==
  \/ Greet(c)
  \/ Begin(c)
  \/ \E h \in Handlers : PressConfirm(h, c) \/ PressEdit(h, c)
  \/ DropDraft(c)

PageStep ==
  \/ Load
  \/ \E k \in Presses :
       \/ \E c \in Clients : PressButton(k, c)
       \/ Toggle(k)
       \/ Answered(k)
       \/ Lose(k)
       \/ Vanish(k)

Next ==
  \/ \E c \in Clients : ClientStep(c) \/ BlockUser(c) \/ UnblockUser(c)
  \/ \E h \in Handlers : FinishConfirm(h) \/ FinishEdit(h)
  \/ PageStep

Spec == Init /\ [][Next]_vars
------------------------------------------------------------------------------
(* Properties.                                                             *)

\* What a careful admin asked for last is what is so, by whichever of the two
\* ways it asked, once the press has arrived, and whatever the client does
\* meanwhile: toggling from a page that is up to date amounts to setting.
AskedIsSo ==
  careful =>
    \A c \in Clients :
      /\ asked[c] # "nothing"
      /\ \A k \in Presses : press[k] # None /\ press[k].at = "sent" => press[k].who # c
      => user[c] = asked[c]

\* No button of a client is admitted while it is blocked, whatever it had begun.
\* What was admitted before may still end, and only that: a draft comes of a skip, a
\* contact or a back that writes its copy, an order of a confirmation.  So once
\* they have ended a blocked client begins no order and places none.
BlockedOrderNothing ==
  [][\A c \in Clients :
       user[c] = "blocked" =>
         /\ \A h \in UnderWay(c)' : running'[h] = running[h]
         /\ draft'[c] /\ ~draft[c] =>
              \E h \in UnderWay(c) : running[h].kind = "edit" /\ running'[h] = None
         /\ orders'[c] # orders[c] =>
              \E h \in Admitted(c) : running'[h] = None]_vars
==============================================================================
