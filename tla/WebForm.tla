------------------------------- MODULE WebForm -------------------------------
(***************************************************************************)
(* Orders from the web site: the form of web/components/public/            *)
(* lead-form.tsx in the visitors' browsers, POST /api/lead of              *)
(* src/web/routes/public.js behind its rate limit, the products the admin  *)
(* puts on offer and hides, and the leads that result.                     *)
(*                                                                         *)
(* A form lists the products once, when it is opened, and may stay open    *)
(* for days.  Pressing send takes the values the form shows at that        *)
(* moment; while the answer is awaited the send button is disabled and the *)
(* other buttons are not, so the visitor may go back and edit.  The server *)
(* handles a request without an await.  A request or its answer may get    *)
(* lost, or the request arrive after the visitor was told that it had      *)
(* failed: the visitor is alerted as after a refusal and may send again.   *)
(*                                                                         *)
(* Requests reach the bot through the web server, under its address: all   *)
(* visitors share one key of the limiter, and one user of the leads table. *)
(* The limiter keeps its stamps in the memory of the process, so a process *)
(* that is started again starts with none.                                 *)
(* A tick is a part of the limiter's window.  Texts, titles and prices are *)
(* left out, and so is the contact, without which the form does not reach  *)
(* its confirmation.                                                       *)
(***************************************************************************)
EXTENDS Naturals, Sequences, FiniteSets

CONSTANTS
  Visitors,
  Products,
  NoProduct,      \* the null a form starts with
  MaxQuantity,    \* 10000 in the code
  Entries,        \* what is typed as the quantity; 0 for nothing or a nought
  MaxPosts,       \* requests the limiter lets pass in a window; 10 in the code
  Window,         \* ticks of a window; five minutes in the code
  MaxLeads,       \* bound: rows of the leads table
  MaxRestarts     \* bound: times the process is started again

Steps == {"product", "details", "contact", "confirm", "success"}

ASSUME WebFormAssumption ==
  /\ NoProduct \notin Products
  /\ MaxQuantity \in Nat \ {0}
  /\ Entries \subseteq Nat
  /\ MaxPosts \in Nat \ {0}
  /\ Window \in Nat \ {0}
  /\ MaxLeads \in Nat
  /\ MaxRestarts \in Nat

VARIABLES
  product,   \* products table: not there, on offer, or hidden
  form,      \* the form in each visitor's browser
  request,   \* the visitor's last press of send; shown is what the form said
  adrift,    \* a request each visitor has been told has failed, still on its way
  leads,     \* leads of the web user; a row's tracking token is its position
  hits,      \* the limiter's stamps of the one key, as ages, within the window
  life,      \* history: which start of the process this is, from 0
  age,       \* history: ticks since each start, up to a window
  passed     \* history: ages of the requests each start let past the limiter

limiter == <<hits, life, age, passed>>
vars == <<product, form, request, adrift, leads, limiter>>

Lives == 0..MaxRestarts

Form == [step : Steps, product : Products \cup {NoProduct}, quantity : Entries \cup {1},
         token : 0..MaxLeads]

Request == [at : {"none", "sent", "answered"}, product : Products \cup {NoProduct},
            shown : Nat, quantity : Nat, answer : 0..MaxLeads]

Lead == [visitor : Visitors, product : Products, quantity : 1..MaxQuantity,
         open : BOOLEAN]

TypeOK ==
  /\ product \in [Products -> {"none", "active", "hidden"}]
  /\ form \in [Visitors -> Form]
  /\ request \in [Visitors -> Request]
  /\ adrift \in [Visitors -> Request]
  /\ leads \in Seq(Lead) /\ Len(leads) <= MaxLeads
  /\ hits \in Seq(0..Window - 1)
  /\ life \in Lives
  /\ age \in [Lives -> 0..Window]
  /\ passed \in [Lives -> Seq(0..Window - 1)]

------------------------------------------------------------------------------
(* The form.                                                               *)

SetForm(v, f) == form' = [form EXCEPT ![v] = f]

NoRequest ==
  [at |-> "none", product |-> NoProduct, shown |-> 0, quantity |-> 0, answer |-> 0]

FreshForm ==
  [step |-> "product", product |-> NoProduct, quantity |-> 1, token |-> 0]

\* A product of the list the form was opened with, hidden since or not.
Choose(v, p) ==
  /\ form[v].step = "product"
  /\ product[p] # "none"
  /\ SetForm(v, [form[v] EXCEPT !.step = "details", !.product = p])
  /\ UNCHANGED <<product, request, adrift, leads, limiter>>

\* The quantity is typed, and the visitor goes on or back.
EnterDetails(v, q, next) ==
  /\ form[v].step = "details"
  /\ SetForm(v, [form[v] EXCEPT !.quantity = q, !.step = next])
  /\ UNCHANGED <<product, request, adrift, leads, limiter>>

Turns == {<<"contact", "details">>, <<"contact", "confirm">>,
          <<"confirm", "contact">>}

Turn(v, next) ==
  /\ <<form[v].step, next>> \in Turns
  /\ SetForm(v, [form[v] EXCEPT !.step = next])
  /\ UNCHANGED <<product, request, adrift, leads, limiter>>

\* Number(quantity) || 1.
Posted(q) == IF q = 0 THEN 1 ELSE q

\* The press of send, unless one is awaited.
Send(v) ==
  /\ form[v].step = "confirm"
  /\ request[v].at = "none"
  /\ request' = [request EXCEPT ![v] =
       [at |-> "sent", product |-> form[v].product, shown |-> form[v].quantity,
        quantity |-> Posted(form[v].quantity), answer |-> 0]]
  /\ UNCHANGED <<product, form, adrift, leads, limiter>>

\* The answer comes: the success page with the token, wherever the visitor is
\* by now, or an alert.
Answer(v) ==
  /\ request[v].at = "answered"
  /\ IF request[v].answer = 0
       THEN /\ request' = [request EXCEPT ![v] = NoRequest]
            /\ UNCHANGED form
       ELSE /\ request' = [request EXCEPT ![v].at = "none"]
            /\ SetForm(v, [form[v] EXCEPT !.step = "success", !.token = request[v].answer])
  /\ UNCHANGED <<product, adrift, leads, limiter>>

\* The request or its answer is lost, or the request is only late: an alert.
\* (One late request of a visitor is followed; an earlier one never arrives.)
Lose(v) ==
  /\ request[v].at # "none"
  /\ request' = [request EXCEPT ![v] = NoRequest]
  /\ \/ UNCHANGED adrift
     \/ request[v].at = "sent" /\ adrift' = [adrift EXCEPT ![v] = request[v]]
  /\ UNCHANGED <<product, form, leads, limiter>>

\* From the success page to the catalogue, and into a new form.
NewForm(v) ==
  /\ form[v].step = "success"
  /\ SetForm(v, FreshForm)
  /\ request' = [request EXCEPT ![v] = NoRequest]
  /\ UNCHANGED <<product, adrift, leads, limiter>>

------------------------------------------------------------------------------
(* The server.                                                             *)

Full(h) == Len(h) >= MaxPosts

OpenLeads(p) == {i \in 1..Len(leads) : leads[i].product = p /\ leads[i].open}

Reply(v, n) == request' = [request EXCEPT ![v].at = "answered", ![v].answer = n]

\* 429; the request leaves no stamp.  An answer of 0 carries no token.
TurnAway(n) ==
  /\ Full(hits)
  /\ n = 0
  /\ UNCHANGED <<leads, limiter>>

Pass ==
  /\ ~Full(hits)
  /\ hits' = Append(hits, 0)
  /\ passed' = [passed EXCEPT ![life] = Append(@, 0)]
  /\ UNCHANGED <<life, age>>

\* Fault: the quantity is not looked at.
FaultNoValidation(r) ==
  product[r.product] # "active" \/ OpenLeads(r.product) # {}

\* What is turned down past the limiter: a value that does not validate, a
\* product that is not on offer, and the second open lead of the web user for
\* a product, which the unique index refuses with an error.
Unfit(r) ==
  \/ r.quantity \notin 1..MaxQuantity
  \/ product[r.product] # "active"
  \/ OpenLeads(r.product) # {}

Refuse(r, n) ==
  /\ Pass
  /\ Unfit(r)
  /\ n = 0
  /\ UNCHANGED leads

LeadOf(v, r) ==
  [visitor |-> v, product |-> r.product, quantity |-> r.quantity, open |-> TRUE]

\* Fault: the open lead of the product is given as the answer.
FaultGiveOpenLead(v, r, n) ==
  /\ Pass
  /\ LET open == OpenLeads(r.product) IN
       IF open # {}
         THEN n = (CHOOSE i \in open : TRUE) /\ UNCHANGED leads
         ELSE /\ Len(leads) < MaxLeads
              /\ n = Len(leads) + 1
              /\ leads' = Append(leads, LeadOf(v, r))

\* 201 with the token of the lead.
Create(v, r, n) ==
  /\ Pass
  /\ ~Unfit(r)
  /\ Len(leads) < MaxLeads
  /\ n = Len(leads) + 1
  /\ leads' = Append(leads, LeadOf(v, r))

\* POST /api/lead.
Handle(v, r, n) == TurnAway(n) \/ Refuse(r, n) \/ Create(v, r, n)

Serve(v) ==
  /\ request[v].at = "sent"
  /\ \E n \in 0..MaxLeads : Handle(v, request[v], n) /\ Reply(v, n)
  /\ UNCHANGED <<product, form, adrift>>

\* A request arrives whose visitor no longer waits: nobody hears the answer.
ServeLate(v) ==
  /\ adrift[v] # NoRequest
  /\ \E n \in 0..MaxLeads : Handle(v, adrift[v], n)
  /\ adrift' = [adrift EXCEPT ![v] = NoRequest]
  /\ UNCHANGED <<product, form, request>>

Older(h) == [i \in 1..Len(h) |-> h[i] + 1]

\* Stamps are added at the end: those that are out of the window come first.
Recent(h) ==
  SubSeq(h, Cardinality({i \in 1..Len(h) : h[i] >= Window}) + 1, Len(h))

\* Fault: the timer drops a key once its oldest stamp is out of the window.
FaultDropKey(h) ==
  IF \E i \in 1..Len(h) : h[i] >= Window THEN <<>> ELSE h

\* timestamps.filter((t) => t > cutoff), on each request and by the timer.
Within(h) == Recent(h)

Tick ==
  /\ passed # [n \in Lives |-> <<>>] \/ \E n \in Lives : age[n] # Window
  /\ hits' = Within(Older(hits))
  /\ passed' = [n \in Lives |-> Recent(Older(passed[n]))]
  /\ age' = [n \in Lives |-> IF age[n] < Window THEN age[n] + 1 ELSE Window]
  /\ UNCHANGED <<product, form, request, adrift, leads, life>>

\* The process ends and is started again: the map of stamps is a new one.
Restart ==
  /\ life < MaxRestarts
  /\ life' = life + 1
  /\ hits' = <<>>
  /\ age' = [age EXCEPT ![life + 1] = 0]
  /\ UNCHANGED <<product, form, request, adrift, leads, passed>>

------------------------------------------------------------------------------
(* The admin.                                                              *)

SetProduct(p, s) ==
  /\ product' = [product EXCEPT ![p] = s]
  /\ UNCHANGED <<form, request, adrift, leads, limiter>>

\* /addproduct and POST /api/admin/products: a new code, on offer at once.
AddProduct(p) == product[p] = "none" /\ SetProduct(p, "active")

\* /toggleproduct and PATCH /api/admin/products/:id/toggle.
ToggleProduct(p) ==
  \/ product[p] = "active" /\ SetProduct(p, "hidden")
  \/ product[p] = "hidden" /\ SetProduct(p, "active")

\* The lead gets a status that is open, or one that is not; the index refuses
\* to open the second of a product.
SetOpen(i, b) ==
  /\ leads[i].open # b
  /\ b => OpenLeads(leads[i].product) = {}
  /\ leads' = [leads EXCEPT ![i].open = b]
  /\ UNCHANGED <<product, form, request, adrift, limiter>>

Init ==
  /\ product = [p \in Products |-> "none"]
  /\ form = [v \in Visitors |-> FreshForm]
  /\ request = [v \in Visitors |-> NoRequest]
  /\ adrift = [v \in Visitors |-> NoRequest]
  /\ leads = <<>>
  /\ hits = <<>>
  /\ life = 0
  /\ age = [n \in Lives |-> Window]
  /\ passed = [n \in Lives |-> <<>>]

VisitorStep(v) ==
  \/ \E p \in Products : Choose(v, p)
  \/ \E q \in Entries, next \in {"product", "contact"} : EnterDetails(v, q, next)
  \/ \E next \in Steps : Turn(v, next)
  \/ Send(v)
  \/ Answer(v)
  \/ Lose(v)
  \/ NewForm(v)

AdminStep ==
  \/ \E p \in Products : AddProduct(p) \/ ToggleProduct(p)
  \/ \E i \in 1..Len(leads), b \in BOOLEAN : SetOpen(i, b)

Next ==
  \/ \E v \in Visitors : VisitorStep(v) \/ Serve(v) \/ ServeLate(v)
  \/ AdminStep
  \/ Tick
  \/ Restart

Spec == Init /\ [][Next]_vars
------------------------------------------------------------------------------
(* Properties.                                                             *)

\* The token a visitor is shown is that of a lead of its own, with what its
\* confirmation showed when it pressed send: whatever it edited during the
\* wait, whoever else ordered the product, and however often it had to retry.
\* A quantity of nought is the exception: the form shows it and orders one.
TokenIsOwn ==
  \A v \in Visitors :
    form[v].step = "success" =>
      LET lead == leads[form[v].token] IN
        /\ lead.visitor = v
        /\ lead.product = request[v].product
        /\ request[v].shown # 0 => lead.quantity = request[v].shown

\* One start of the process lets no more requests through in a window of the
\* limiter's length than the limit, wherever the window begins and whatever
\* became of the requests; and what an earlier start let through lies in one
\* window with what later ones do only if the restart does too.  So a window
\* with k restarts in it sees at most k + 1 times the limit.
WindowHolds ==
  \A n \in 0..life :
    /\ Len(passed[n]) <= MaxPosts
    /\ n < life /\ passed[n] # <<>> => age[n + 1] < Window
==============================================================================
