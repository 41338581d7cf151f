--------------------------- MODULE CartFlow_proofs ---------------------------
(* Theorems about CartFlow.                                                *)
EXTENDS CartFlow, TLAPS

(* What the helpers make of a cart.                                        *)

\* The steps and buttons keep a cart a cart, with its lines, and never take
\* its contact away.
LEMMA BackKeepsLines ==
  ASSUME NEW cart \in Cart, PreviousStep(cart) # "none"
  PROVE  /\ Back(cart) \in Cart
         /\ Back(cart).lines = cart.lines
         /\ Back(cart).contact = cart.contact
<1>1. PreviousStep(cart) \in CartSteps
  BY DEF PreviousStep, Cart, CartSteps
<1>2. QED
  BY <1>1 DEF Back, Cart

LEMMA PressedKeepsLines ==
  ASSUME NEW cart \in Cart, NEW button \in Buttons, Writes(button, cart)
  PROVE  /\ Pressed(button, cart) \in Cart
         /\ Pressed(button, cart).lines = cart.lines
         /\ cart.contact => Pressed(button, cart).contact
<1>1. CASE button = "back"
  <2>1. PreviousStep(cart) # "none"
    BY <1>1 DEF Writes
  <2>2. Pressed(button, cart) = Back(cart)
    BY <1>1 DEF Pressed
  <2>3. QED
    BY <2>1, <2>2, BackKeepsLines
<1>2. CASE button \in {"skip", "telegram", "custom"}
  BY <1>2 DEF Pressed, ToConfirm, WithContact, Cart, CartSteps
<1>3. CASE button \in {"edit_quantity", "edit_comment", "edit_contact"}
  <2>1. Pressed(button, cart) = Edited(cart, button)
    BY <1>3 DEF Pressed
  <2>2. EditStep(button) \in CartSteps
    BY <1>3 DEF EditStep, CartSteps
  <2>3. QED
    BY <2>1, <2>2 DEF Edited, Cart
<1>4. QED
  BY <1>1, <1>2, <1>3 DEF Buttons

LEMMA WithLineGrows ==
  ASSUME NEW cart \in Cart, NEW q \in Nat, cart.pending # None
  PROVE  /\ WithLine(cart, q) \in Cart
         /\ WithLine(cart, q).lines = [cart.lines EXCEPT ![cart.pending] = @ + q]
         /\ WithLine(cart, q).contact
<1>1. cart.pending \in Products /\ cart.lines \in [Products -> Nat]
  BY DEF Cart, Lines
<1>2. [cart.lines EXCEPT ![cart.pending] = @ + q] \in [Products -> Nat]
  BY <1>1
<1>3. QED
  BY <1>1, <1>2 DEF WithLine, Cart, Lines, CartSteps

LEMMA TextKeepsLines ==
  ASSUME NEW cart \in Cart
  PROVE  /\ ToConfirm(cart) \in Cart /\ WithContact(cart) \in Cart
         /\ ToConfirm(cart).lines = cart.lines /\ WithContact(cart).lines = cart.lines
         /\ ToConfirm(cart).contact = cart.contact /\ WithContact(cart).contact
BY DEF ToConfirm, WithContact, Cart, CartSteps

LEMMA EmptyIsLines == Empty \in Lines /\ ~IsFilled(Empty)
BY DEF Empty, Lines, IsFilled

LEMMA FreshIsCart == FreshCart \in Cart
BY EmptyIsLines DEF FreshCart, Cart, CartSteps

LEMMA PendingIsCart ==
  ASSUME NEW c \in Clients, NEW p \in Products, TypeOK
  PROVE  /\ WithPending(c, p) \in Cart
         /\ WithPending(c, p).lines = IF HasCart(c) THEN session[c].lines ELSE Empty
         /\ WithPending(c, p).contact = IF HasCart(c) THEN session[c].contact ELSE FALSE
<1>1. CASE HasCart(c)
  BY <1>1 DEF WithPending, HasCart, Cart, CartSteps
<1>2. CASE ~HasCart(c)
  BY <1>2, FreshIsCart DEF WithPending, FreshCart, Cart, CartSteps
<1>3. QED
  BY <1>1, <1>2

------------------------------------------------------------------------------
(* Types.                                                                  *)

LEMMA InitTyped == Init => TypeOK
BY EmptyIsLines DEF Init, TypeOK, Others

LEMMA CartIsWaiting ==
  ASSUME TypeOK, NEW h \in Handlers, running[h] # Idle, running[h].at \in Buttons
  PROVE  /\ running[h].client \in Clients
         /\ running[h].row \in Cart \cup {LeadDraft}
BY DEF TypeOK, Waiting, Buttons

LEMMA NotifyIsWaiting ==
  ASSUME TypeOK, NEW h \in Handlers, running[h] # Idle
  PROVE  running[h].client \in Clients
BY DEF TypeOK, Waiting

LEMMA NextTyped == TypeOK /\ [Next]_vars => TypeOK'
<1> SUFFICES ASSUME TypeOK, [Next]_vars PROVE TypeOK'
  OBVIOUS
<1> USE DEF TypeOK
<1>1. ASSUME NEW c \in Clients, ClientStep(c) PROVE TypeOK'
  <2>1. ASSUME NEW p \in Products, AddProduct(c, p) PROVE TypeOK'
    BY <2>1, PendingIsCart DEF AddProduct, SetSession
  <2>2. ASSUME NEW q \in 0..MaxQuantity + 1, EnterQuantity(c, q) PROVE TypeOK'
    <3>1. session[c] \in Cart /\ q \in Nat /\ session[c].pending \in Products
      BY <2>2, CartAssumption DEF EnterQuantity, HasCart, Cart
    <3>2. WithLine(session[c], q) \in Cart
      BY <3>1, <2>2, WithLineGrows DEF EnterQuantity
    <3>3. /\ session' \in [Clients -> Cart \cup Others]
          /\ UNCHANGED <<leads, running, patient>>
      BY <2>2, <3>2 DEF EnterQuantity, SetSession
    <3>4. basket' \in [Clients -> Lines] /\ entered' \in [Clients -> Lines]
      BY <2>2, <3>1 DEF EnterQuantity, Lines
    <3>5. QED
      BY <3>3, <3>4
  <2>3. CASE Checkout(c)
    BY <2>3 DEF Checkout, HasCart, SetSession, Cart, CartSteps
  <2>4. CASE EnterText(c)
    <3>1. session[c] \in Cart
      BY <2>4 DEF EnterText, HasCart
    <3>2. ToConfirm(session[c]) \in Cart /\ WithContact(session[c]) \in Cart
      BY <3>1, TextKeepsLines
    <3>3. QED
      BY <2>4, <3>2 DEF EnterText, SetSession
  <2>5. CASE TypeBack(c)
    BY <2>5, BackKeepsLines DEF TypeBack, HasCart, SetSession
  <2>6. CASE Cancel(c) \/ Expire(c)
    BY <2>6, EmptyIsLines DEF Cancel, Expire, SetSession, EmptyBasket, Others
  <2>7. CASE GoHome(c) \/ StartLead(c) \/ EndLead(c)
    BY <2>7 DEF GoHome, StartLead, EndLead, SetSession, Others
  <2>8. ASSUME NEW h \in Handlers, NEW button \in Buttons, PressButton(h, c, button)
        PROVE  TypeOK'
    BY <2>8 DEF PressButton, Waiting
  <2>9. ASSUME NEW h \in Handlers, ConfirmCreates(h, c) PROVE TypeOK'
    <3>1. session[c].lines \in Lines /\ session[c].contact \in BOOLEAN
      BY <2>9 DEF ConfirmCreates, HasCart, Cart
    <3>2. leads' \in Seq(Lead)
      BY <2>9, <3>1 DEF ConfirmCreates, Lead
    <3>3. /\ session' \in [Clients -> Cart \cup Others]
          /\ basket' \in [Clients -> Lines]
      BY <2>9, EmptyIsLines DEF ConfirmCreates, SetSession, EmptyBasket, Others
    <3>4. running' \in [Handlers -> Waiting \cup {Idle}]
      BY <2>9 DEF ConfirmCreates, Waiting
    <3>5. QED
      BY <2>9, <3>2, <3>3, <3>4 DEF ConfirmCreates
  <2>10. CASE ConfirmDuplicate(c)
    BY <2>10, EmptyIsLines DEF ConfirmDuplicate, SetSession, EmptyBasket, Others
  <2>11. QED
    BY <1>1, <2>1, <2>2, <2>3, <2>4, <2>5, <2>6, <2>7, <2>8, <2>9, <2>10 DEF ClientStep
<1>2. ASSUME NEW h \in Handlers, HandlerStep(h) PROVE TypeOK'
  <2>1. CASE FinishButton(h)
    BY <2>1, CartIsWaiting, PressedKeepsLines DEF FinishButton, SetSession, Return
  <2>2. CASE FinishLeadButton(h)
    BY <2>2 DEF FinishLeadButton, SetSession, Return, Others
  <2>3. CASE FinishConfirm(h)
    BY <2>3 DEF FinishConfirm, SetSession, Return, Others
  <2>4. QED
    BY <1>2, <2>1, <2>2, <2>3 DEF HandlerStep
<1>3. ASSUME NEW i \in 1..Len(leads), NEW b \in BOOLEAN, SetOpen(i, b) PROVE TypeOK'
  <2>1. leads[i] \in Lead
    OBVIOUS
  <2>2. [leads[i] EXCEPT !.open = b] \in Lead
    BY <2>1 DEF Lead
  <2>3. leads' = [leads EXCEPT ![i] = [leads[i] EXCEPT !.open = b]]
    BY <1>3 DEF SetOpen
  <2>4. leads' \in Seq(Lead)
    BY <2>2, <2>3
  <2>5. QED
    BY <1>3, <2>4 DEF SetOpen
<1>4. CASE Restart
  BY <1>4 DEF Restart
<1>5. CASE UNCHANGED vars
  BY <1>5 DEF vars
<1>6. QED
  BY <1>1, <1>2, <1>3, <1>4, <1>5 DEF Next

\* The rows, the copies that updates hold, the cart leads and the entries keep
\* their types, for any numbers of clients, products, updates and leads.
THEOREM TypeCorrect == Spec => []TypeOK
<1>1. QED
  BY InitTyped, NextTyped, PTL DEF Spec

------------------------------------------------------------------------------
(* What a cart may hold: no more than was entered, and a contact as soon as *)
(* there is a line.  The same is asked of the copies, which come back late. *)

Sound(cart, bag) ==
  /\ \A p \in Products : cart.lines[p] <= bag[p]
  /\ IsFilled(cart.lines) => cart.contact

IsCopy(r) == r # Idle /\ r.at \in Buttons /\ r.row \in Cart

CartsAreSound ==
  /\ \A c \in Clients : HasCart(c) => Sound(session[c], entered[c])
  /\ \A h \in Handlers : IsCopy(running[h])
       => Sound(running[h].row, entered[running[h].client])
  /\ \A i \in 1..Len(leads) :
       IsFilled(leads[i].lines) /\ Sound(leads[i], entered[leads[i].client])

LEMMA SoundKept ==
  ASSUME NEW cart, NEW new, NEW bag, Sound(cart, bag),
         new.lines = cart.lines, cart.contact => new.contact
  PROVE  Sound(new, bag)
BY DEF Sound

LEMMA EmptyIsSound ==
  ASSUME NEW cart, cart.lines = Empty, NEW bag \in Lines
  PROVE  Sound(cart, bag)
BY EmptyIsLines DEF Sound, Empty, Lines

\* The row of one client is replaced, and no copy is taken.
LEMMA RowReplaced ==
  ASSUME TypeOK, CartsAreSound, NEW c \in Clients, NEW new, SetSession(c, new),
         UNCHANGED <<leads, entered>>,
         \A h \in Handlers : IsCopy(running'[h]) => running'[h] = running[h],
         new \in Cart => Sound(new, entered[c])
  PROVE  CartsAreSound'
<1>1. \A d \in Clients : session'[d] = IF d = c THEN new ELSE session[d]
  BY DEF TypeOK, SetSession
<1>2. \A d \in Clients : HasCart(d)' => Sound(session'[d], entered'[d])
  BY <1>1 DEF CartsAreSound, HasCart
<1>3. \A h \in Handlers : IsCopy(running'[h])
        => Sound(running'[h].row, entered'[running'[h].client])
  BY DEF CartsAreSound
<1>4. \A i \in 1..Len(leads') :
        IsFilled(leads'[i].lines) /\ Sound(leads'[i], entered'[leads'[i].client])
  BY DEF CartsAreSound
<1>5. QED
  BY <1>2, <1>3, <1>4 DEF CartsAreSound, HasCart

LEMMA InitSound == Init => CartsAreSound
BY CartAssumption DEF Init, CartsAreSound, HasCart, Others, IsCopy

LEMMA EnterQuantitySound ==
  ASSUME TypeOK, CartsAreSound, NEW c \in Clients, NEW q \in 0..MaxQuantity + 1,
         EnterQuantity(c, q)
  PROVE  CartsAreSound'
<1> DEFINE cart == session[c]
           prod == cart.pending
<1>1. /\ cart \in Cart /\ q \in Nat /\ prod \in Products
      /\ entered[c] \in [Products -> Nat] /\ cart.lines \in [Products -> Nat]
  BY CartAssumption DEF EnterQuantity, HasCart, Cart, TypeOK, Lines
<1>2. entered' = [entered EXCEPT ![c] = [entered[c] EXCEPT ![prod] = @ + q]]
  BY <1>1 DEF EnterQuantity
<1>3. \A d \in Clients, p \in Products :
        entered'[d][p] = IF d = c /\ p = prod THEN entered[d][p] + q ELSE entered[d][p]
  BY <1>1, <1>2 DEF TypeOK, Lines
<1>4. \A d \in Clients, any \in Lines :
        (\A p \in Products : any[p] <= entered[d][p])
          => \A p \in Products : any[p] <= entered'[d][p]
  <2> SUFFICES ASSUME NEW d \in Clients, NEW any \in [Products -> Nat],
                      \A p \in Products : any[p] <= entered[d][p], NEW p \in Products
               PROVE  any[p] <= entered'[d][p]
    BY DEF Lines
  <2>1. entered[d][p] \in Nat /\ any[p] \in Nat
    BY DEF TypeOK, Lines
  <2>2. QED
    BY <2>1, <1>1, <1>3
<1>5. Sound(WithLine(cart, q), entered'[c])
  <2>1. /\ WithLine(cart, q).lines = [cart.lines EXCEPT ![prod] = @ + q]
        /\ WithLine(cart, q).contact
    BY <1>1, WithLineGrows DEF EnterQuantity
  <2>2. ASSUME NEW p \in Products
        PROVE  [cart.lines EXCEPT ![prod] = @ + q][p] <= entered'[c][p]
    <3>1. cart.lines[p] <= entered[c][p]
      BY <1>1 DEF CartsAreSound, HasCart, Sound
    <3>2. cart.lines[p] \in Nat /\ entered[c][p] \in Nat
      BY <1>1
    <3>3. QED
      BY <1>1, <1>3, <3>1, <3>2
  <2>3. QED
    BY <2>1, <2>2 DEF Sound
<1>6. \A d \in Clients : session'[d] = IF d = c THEN WithLine(cart, q) ELSE session[d]
  BY DEF EnterQuantity, SetSession, TypeOK
<1>7. \A d \in Clients : HasCart(d)' => Sound(session'[d], entered'[d])
  <2> SUFFICES ASSUME NEW d \in Clients, HasCart(d)' PROVE Sound(session'[d], entered'[d])
    OBVIOUS
  <2>1. CASE d = c
    BY <2>1, <1>5, <1>6
  <2>2. CASE d # c
    <3>1. session'[d] = session[d] /\ session[d] \in Cart
      BY <2>2, <1>6 DEF HasCart
    <3>2. Sound(session[d], entered[d]) /\ session[d].lines \in Lines
      BY <3>1 DEF CartsAreSound, HasCart, Cart
    <3>3. QED
      BY <3>1, <3>2, <1>4 DEF Sound
  <2>3. QED
    BY <2>1, <2>2
<1>8. \A h \in Handlers : IsCopy(running'[h])
        => Sound(running'[h].row, entered'[running'[h].client])
  <2> SUFFICES ASSUME NEW h \in Handlers, IsCopy(running[h])
               PROVE  Sound(running[h].row, entered'[running[h].client])
    BY DEF EnterQuantity
  <2>1. running[h].client \in Clients /\ running[h].row.lines \in Lines
    BY CartIsWaiting DEF IsCopy, Cart
  <2>2. Sound(running[h].row, entered[running[h].client])
    BY DEF CartsAreSound
  <2>3. QED
    BY <2>1, <2>2, <1>4 DEF Sound
<1>9. \A i \in 1..Len(leads') :
        IsFilled(leads'[i].lines) /\ Sound(leads'[i], entered'[leads'[i].client])
  <2> SUFFICES ASSUME NEW i \in 1..Len(leads)
               PROVE  IsFilled(leads[i].lines) /\ Sound(leads[i], entered'[leads[i].client])
    BY DEF EnterQuantity
  <2>0. leads[i] \in Lead
    BY DEF TypeOK
  <2>1. leads[i].client \in Clients /\ leads[i].lines \in Lines
    BY <2>0 DEF Lead
  <2>2. IsFilled(leads[i].lines) /\ Sound(leads[i], entered[leads[i].client])
    BY DEF CartsAreSound
  <2>3. QED
    BY <2>1, <2>2, <1>4 DEF Sound
<1>10. QED
  BY <1>7, <1>8, <1>9 DEF CartsAreSound

LEMMA NextSound ==
  ASSUME TypeOK, CartsAreSound, [Next]_vars
  PROVE  CartsAreSound'
<1>1. ASSUME NEW c \in Clients, ClientStep(c) PROVE CartsAreSound'
  <2> entered[c] \in Lines
    BY DEF TypeOK
  <2>1. ASSUME NEW p \in Products, AddProduct(c, p) PROVE CartsAreSound'
    <3>1. Sound(WithPending(c, p), entered[c])
      <4>1. CASE HasCart(c)
        BY <4>1, PendingIsCart, SoundKept DEF CartsAreSound
      <4>2. CASE ~HasCart(c)
        BY <4>2, PendingIsCart, EmptyIsSound
      <4>3. QED
        BY <4>1, <4>2
    <3>2. QED
      BY <2>1, <3>1, RowReplaced DEF AddProduct
  <2>2. ASSUME NEW q \in 0..MaxQuantity + 1, EnterQuantity(c, q) PROVE CartsAreSound'
    BY <2>2, EnterQuantitySound
  <2>3. CASE Checkout(c)
    <3> DEFINE new == [session[c] EXCEPT !.step = "comment"]
    <3>1. session[c] \in Cart /\ Sound(session[c], entered[c])
      BY <2>3 DEF Checkout, HasCart, CartsAreSound
    <3>2. new.lines = session[c].lines /\ new.contact = session[c].contact
      BY <3>1 DEF Cart
    <3>3. Sound(new, entered[c])
      BY <3>1, <3>2, SoundKept
    <3>4. QED
      BY <2>3, <3>3, RowReplaced DEF Checkout
  <2>4. CASE EnterText(c)
    <3>1. session[c] \in Cart /\ Sound(session[c], entered[c])
      BY <2>4 DEF EnterText, HasCart, CartsAreSound
    <3>2. /\ Sound(ToConfirm(session[c]), entered[c])
          /\ Sound(WithContact(session[c]), entered[c])
      BY <3>1, TextKeepsLines, SoundKept
    <3>3. CASE SetSession(c, ToConfirm(session[c]))
      BY <2>4, <3>2, <3>3, RowReplaced DEF EnterText
    <3>4. CASE SetSession(c, WithContact(session[c]))
      BY <2>4, <3>2, <3>4, RowReplaced DEF EnterText
    <3>5. QED
      BY <2>4, <3>3, <3>4 DEF EnterText
  <2>5. CASE TypeBack(c)
    <3>1. session[c] \in Cart /\ Sound(session[c], entered[c])
      BY <2>5 DEF TypeBack, HasCart, CartsAreSound
    <3>2. Sound(Back(session[c]), entered[c])
      BY <2>5, <3>1, BackKeepsLines, SoundKept DEF TypeBack
    <3>3. QED
      BY <2>5, <3>2, RowReplaced DEF TypeBack
  <2>6. CASE Cancel(c) \/ Expire(c) \/ GoHome(c) \/ StartLead(c) \/ EndLead(c)
    <3>1. PICK s \in Others : SetSession(c, s) /\ UNCHANGED <<leads, running, entered>>
      BY <2>6 DEF Cancel, Expire, GoHome, StartLead, EndLead, Others
    <3>2. s \notin Cart
      BY CartAssumption
    <3>3. QED
      BY <3>1, <3>2, RowReplaced
  <2>7. ASSUME NEW h \in Handlers, NEW button \in Buttons, PressButton(h, c, button)
        PROVE  CartsAreSound'
    <3>1. \A g \in Handlers : IsCopy(running'[g]) =>
            Sound(running'[g].row, entered'[running'[g].client])
      <4> SUFFICES ASSUME NEW g \in Handlers, IsCopy(running'[g])
                   PROVE  Sound(running'[g].row, entered[running'[g].client])
        BY <2>7 DEF PressButton
      <4>1. CASE g = h
        <5>1. running'[g] = [at |-> button, client |-> c, row |-> session[c]]
          BY <2>7, <4>1 DEF PressButton, TypeOK
        <5>2. HasCart(c)
          BY <5>1 DEF IsCopy, HasCart
        <5>3. QED
          BY <5>1, <5>2 DEF CartsAreSound
      <4>2. CASE g # h
        BY <2>7, <4>2 DEF PressButton, TypeOK, CartsAreSound
      <4>3. QED
        BY <4>1, <4>2
    <3>2. QED
      BY <2>7, <3>1 DEF PressButton, CartsAreSound, HasCart
  <2>8. ASSUME NEW h \in Handlers, ConfirmCreates(h, c) PROVE CartsAreSound'
    <3> DEFINE lead == [client |-> c, lines |-> session[c].lines,
                        contact |-> session[c].contact, open |-> TRUE]
    <3>1. leads' = Append(leads, lead) /\ UNCHANGED entered
      BY <2>8 DEF ConfirmCreates
    <3>2. IsFilled(lead.lines) /\ Sound(lead, entered[c])
      BY <2>8, SoundKept DEF ConfirmCreates, CartsAreSound
    <3>3. \A i \in 1..Len(leads') :
            IsFilled(leads'[i].lines) /\ Sound(leads'[i], entered'[leads'[i].client])
      <4> SUFFICES ASSUME NEW i \in 1..Len(leads')
                   PROVE IsFilled(leads'[i].lines) /\ Sound(leads'[i], entered[leads'[i].client])
        BY <3>1
      <4>1. /\ Len(leads) \in Nat /\ Len(leads') = Len(leads) + 1
            /\ leads'[i] = IF i = Len(leads) + 1 THEN lead ELSE leads[i]
        BY <3>1 DEF TypeOK
      <4>2. CASE i = Len(leads) + 1
        BY <3>2, <4>1, <4>2
      <4>3. CASE i \in 1..Len(leads)
        BY <4>1, <4>3 DEF CartsAreSound
      <4>4. QED
        BY <4>1, <4>2, <4>3
    <3>4. \A d \in Clients : HasCart(d)' => Sound(session'[d], entered'[d])
      BY <2>8, CartAssumption
        DEF ConfirmCreates, SetSession, HasCart, CartsAreSound, TypeOK, Others
    <3>5. \A g \in Handlers : IsCopy(running'[g]) =>
            Sound(running'[g].row, entered'[running'[g].client])
      BY <2>8 DEF ConfirmCreates, IsCopy, Buttons, CartsAreSound, TypeOK
    <3>6. QED
      BY <3>3, <3>4, <3>5 DEF CartsAreSound
  <2>9. CASE ConfirmDuplicate(c)
    <3>1. Home \notin Cart
      BY CartAssumption DEF Others
    <3>2. QED
      BY <2>9, <3>1, RowReplaced DEF ConfirmDuplicate
  <2>10. QED
    BY <1>1, <2>1, <2>2, <2>3, <2>4, <2>5, <2>6, <2>7, <2>8, <2>9 DEF ClientStep
<1>2. ASSUME NEW h \in Handlers, HandlerStep(h) PROVE CartsAreSound'
  <2>1. \A g \in Handlers : IsCopy(running'[g]) => running'[g] = running[g]
    BY <1>2 DEF HandlerStep, FinishButton, FinishLeadButton, FinishConfirm, Return,
                IsCopy, TypeOK
  <2>2. UNCHANGED <<leads, entered>>
    BY <1>2 DEF HandlerStep, FinishButton, FinishLeadButton, FinishConfirm
  <2>3. CASE UNCHANGED session
    BY <2>1, <2>2, <2>3 DEF CartsAreSound, HasCart
  <2>4. CASE FinishButton(h) /\ Writes(running[h].at, running[h].row)
    <3> DEFINE c == running[h].client
               new == Pressed(running[h].at, running[h].row)
    <3>1. IsCopy(running[h]) /\ running[h].at \in Buttons /\ running[h].row \in Cart
      BY <2>4 DEF FinishButton, IsCopy
    <3>2. c \in Clients /\ Sound(running[h].row, entered[c])
      BY <3>1, CartIsWaiting DEF IsCopy, CartsAreSound
    <3>3. Sound(new, entered[c])
      BY <2>4, <3>1, <3>2, PressedKeepsLines, SoundKept
    <3>4. SetSession(c, new)
      BY <2>4 DEF FinishButton
    <3>5. QED
      BY <2>1, <2>2, <3>2, <3>3, <3>4, RowReplaced
  <2>5. CASE \E s \in Others : SetSession(running[h].client, s) /\ running[h] # Idle
    BY <2>1, <2>2, <2>5, NotifyIsWaiting, CartAssumption, RowReplaced
  <2>6. QED
    BY <1>2, <2>3, <2>4, <2>5
      DEF HandlerStep, FinishButton, FinishLeadButton, FinishConfirm, Others
<1>3. ASSUME NEW i \in 1..Len(leads), NEW b \in BOOLEAN, SetOpen(i, b)
      PROVE  CartsAreSound'
  <2>1. /\ Len(leads') = Len(leads)
        /\ \A j \in 1..Len(leads) : /\ leads'[j].client = leads[j].client
                                    /\ leads'[j].lines = leads[j].lines
                                    /\ leads'[j].contact = leads[j].contact
    BY <1>3 DEF SetOpen, TypeOK, Lead
  <2>2. \A j \in 1..Len(leads') :
          IsFilled(leads'[j].lines) /\ Sound(leads'[j], entered[leads'[j].client])
    BY <2>1, SoundKept DEF CartsAreSound
  <2>3. QED
    BY <1>3, <2>2 DEF SetOpen, CartsAreSound, HasCart
<1>4. CASE Restart
  BY <1>4 DEF Restart, CartsAreSound, HasCart, IsCopy
<1>5. CASE UNCHANGED vars
  BY <1>5 DEF vars, CartsAreSound, HasCart
<1>6. QED
  BY <1>1, <1>2, <1>3, <1>4, <1>5 DEF Next

LEMMA SoundIsWhole == CartsAreSound => CartLeadsAreWhole
BY DEF CartsAreSound, CartLeadsAreWhole, Sound

LEMMA SoundWasEntered == CartsAreSound => LinesWereEntered
BY DEF CartsAreSound, LinesWereEntered, Sound, IsCopy

\* Whatever is pressed and however late it is answered, a cart that becomes a
\* lead has a line and a contact (saveCartLineQuantity gives the contact with
\* the first line).
THEOREM CartLeadsAreWholeHolds == Spec => []CartLeadsAreWhole
<1>1. Init => TypeOK /\ CartsAreSound
  BY InitTyped, InitSound
<1>2. TypeOK /\ CartsAreSound /\ [Next]_vars => (TypeOK /\ CartsAreSound)'
  BY NextTyped, NextSound
<1>3. QED
  BY <1>1, <1>2, SoundIsWhole, PTL DEF Spec

\* No row, copy or lead holds more of a product than its client has entered.
THEOREM LinesWereEnteredHolds == Spec => []LinesWereEntered
<1>1. Init => TypeOK /\ CartsAreSound
  BY InitTyped, InitSound
<1>2. TypeOK /\ CartsAreSound /\ [Next]_vars => (TypeOK /\ CartsAreSound)'
  BY NextTyped, NextSound
<1>3. QED
  BY <1>1, <1>2, SoundWasEntered, PTL DEF Spec

------------------------------------------------------------------------------
(* Clients that wait.  At most one update of theirs is under way, and the   *)
(* copy it holds is still the row: nothing else writes the row meanwhile.   *)

Mine(r, c) == r # Idle /\ r.client = c

CopiesAreFresh ==
  \A c \in patient : \A h \in Handlers : Mine(running[h], c) =>
    /\ running[h].at \in Buttons => running[h].row = session[c]
    /\ \A g \in Handlers \ {h} : ~Mine(running[g], c)

Held(c) == IF HasCart(c) THEN session[c].lines ELSE Empty

Waits == TypeOK /\ CopiesAreFresh /\ CartHoldsEntries

\* A step of a client that starts no update and gives the row a new content.
LEMMA RowRewritten ==
  ASSUME Waits, NEW c \in Clients, NEW new, Ready(c), SetSession(c, new),
         UNCHANGED <<running, patient>>,
         \A d \in Clients \ {c} : basket'[d] = basket[d],
         c \in patient => basket'[c] = IF new \in Cart THEN new.lines ELSE Empty
  PROVE  CopiesAreFresh' /\ CartHoldsEntries'
<1>1. \A d \in Clients : session'[d] = IF d = c THEN new ELSE session[d]
  BY DEF Waits, TypeOK, SetSession
<1>2. patient \subseteq Clients
  BY DEF Waits, TypeOK
<1>3. \A h \in Handlers : c \in patient => ~Mine(running[h], c)
  BY DEF Ready, Mine
<1>4. CopiesAreFresh'
  BY <1>1, <1>2, <1>3 DEF CopiesAreFresh, Waits
<1>5. CartHoldsEntries'
  BY <1>1, <1>2 DEF CartHoldsEntries, HasCart, Waits
<1>6. QED
  BY <1>4, <1>5

\* The end of an update, which leaves the lines of a client that waits alone.
LEMMA UpdateEnds ==
  ASSUME Waits, NEW h \in Handlers, running[h] # Idle, NEW c, c = running[h].client,
         NEW new, SetSession(c, new), Return(h), UNCHANGED <<patient, basket>>,
         c \in patient => (IF new \in Cart THEN new.lines ELSE Empty) = Held(c)
  PROVE  CopiesAreFresh' /\ CartHoldsEntries'
<1>1. c \in Clients
  BY NotifyIsWaiting DEF Waits
<1>2. \A d \in Clients : session'[d] = IF d = c THEN new ELSE session[d]
  BY <1>1 DEF Waits, TypeOK, SetSession
<1>3. \A g \in Handlers : running'[g] = IF g = h THEN Idle ELSE running[g]
  BY DEF Waits, TypeOK, Return
<1>4. patient \subseteq Clients
  BY DEF Waits, TypeOK
<1>5. CopiesAreFresh'
  <2> SUFFICES ASSUME NEW d \in patient, NEW g \in Handlers, Mine(running'[g], d)
               PROVE  /\ running'[g].at \in Buttons => running'[g].row = session'[d]
                      /\ \A f \in Handlers \ {g} : ~Mine(running'[f], d)
    BY DEF CopiesAreFresh
  <2>1. g # h /\ running'[g] = running[g] /\ Mine(running[g], d)
    BY <1>3 DEF Mine
  <2>2. d # c
    BY <2>1 DEF Waits, CopiesAreFresh, Mine
  <2>3. session'[d] = session[d]
    BY <1>2, <1>4, <2>2
  <2>4. QED
    BY <1>3, <2>1, <2>3 DEF Waits, CopiesAreFresh, Mine
<1>6. CartHoldsEntries'
  BY <1>2, <1>4 DEF CartHoldsEntries, HasCart, Held, Waits
<1>7. QED
  BY <1>5, <1>6

LEMMA InitWaits == Init => CopiesAreFresh /\ CartHoldsEntries
BY CartAssumption
  DEF Init, CopiesAreFresh, CartHoldsEntries, HasCart, Mine, Others

LEMMA NextWaits ==
  ASSUME Waits, [Next]_vars
  PROVE  CopiesAreFresh' /\ CartHoldsEntries'
<1> TypeOK /\ patient \subseteq Clients
  BY DEF Waits, TypeOK
<1>1. ASSUME NEW c \in Clients, ClientStep(c)
      PROVE  CopiesAreFresh' /\ CartHoldsEntries'
  <2> c \in patient => basket[c] = Held(c)
    BY DEF Waits, CartHoldsEntries, Held
  <2>1. ASSUME NEW p \in Products, AddProduct(c, p)
        PROVE  CopiesAreFresh' /\ CartHoldsEntries'
    BY <2>1, PendingIsCart, RowRewritten DEF AddProduct, Held
  <2>2. ASSUME NEW q \in 0..MaxQuantity + 1, EnterQuantity(c, q)
        PROVE  CopiesAreFresh' /\ CartHoldsEntries'
    <3> DEFINE prod == session[c].pending
    <3>1. /\ session[c] \in Cart /\ q \in Nat /\ prod \in Products
          /\ basket[c] \in [Products -> Nat]
      BY <2>2, CartAssumption DEF EnterQuantity, HasCart, Cart, TypeOK, Lines
    <3>2. /\ WithLine(session[c], q) \in Cart
          /\ WithLine(session[c], q).lines = [session[c].lines EXCEPT ![prod] = @ + q]
      BY <2>2, <3>1, WithLineGrows DEF EnterQuantity
    <3>3. basket' = [basket EXCEPT ![c] = [basket[c] EXCEPT ![prod] = @ + q]]
      BY <2>2, <3>1 DEF EnterQuantity
    <3>4. /\ basket'[c] = [basket[c] EXCEPT ![prod] = @ + q]
          /\ \A d \in Clients \ {c} : basket'[d] = basket[d]
      BY <3>3 DEF TypeOK
    <3>5. c \in patient => basket[c] = session[c].lines
      BY <3>1 DEF Held, HasCart
    <3>6. QED
      BY <2>2, <3>2, <3>4, <3>5, RowRewritten DEF EnterQuantity
  <2>3. CASE Checkout(c)
    <3> DEFINE new == [session[c] EXCEPT !.step = "comment"]
    <3>1. new \in Cart /\ new.lines = Held(c)
      BY <2>3 DEF Checkout, HasCart, Held, Cart, CartSteps
    <3>2. QED
      BY <2>3, <3>1, RowRewritten DEF Checkout
  <2>4. CASE EnterText(c)
    <3>1. /\ ToConfirm(session[c]) \in Cart /\ WithContact(session[c]) \in Cart
          /\ ToConfirm(session[c]).lines = Held(c)
          /\ WithContact(session[c]).lines = Held(c)
      BY <2>4, TextKeepsLines DEF EnterText, HasCart, Held
    <3>2. CASE SetSession(c, ToConfirm(session[c]))
      BY <2>4, <3>1, <3>2, RowRewritten DEF EnterText
    <3>3. CASE SetSession(c, WithContact(session[c]))
      BY <2>4, <3>1, <3>3, RowRewritten DEF EnterText
    <3>4. QED
      BY <2>4, <3>2, <3>3 DEF EnterText
  <2>5. CASE TypeBack(c)
    <3>1. Back(session[c]) \in Cart /\ Back(session[c]).lines = Held(c)
      BY <2>5, BackKeepsLines DEF TypeBack, HasCart, Held
    <3>2. QED
      BY <2>5, <3>1, RowRewritten DEF TypeBack
  <2>6. CASE Cancel(c) \/ Expire(c) \/ ConfirmDuplicate(c)
    <3>1. PICK s \in Others : SetSession(c, s)
      BY <2>6 DEF Cancel, Expire, ConfirmDuplicate, Others
    <3>2. s \notin Cart
      BY CartAssumption
    <3>3. basket'[c] = Empty /\ \A d \in Clients \ {c} : basket'[d] = basket[d]
      BY <2>6 DEF Cancel, Expire, ConfirmDuplicate, EmptyBasket, TypeOK
    <3>4. QED
      BY <2>6, <3>1, <3>2, <3>3, RowRewritten DEF Cancel, Expire, ConfirmDuplicate
  <2>7. CASE GoHome(c) \/ StartLead(c) \/ EndLead(c)
    <3>1. PICK s \in Others : SetSession(c, s)
      BY <2>7 DEF GoHome, StartLead, EndLead, Others
    <3>2. s \notin Cart /\ Held(c) = Empty
      BY <2>7, CartAssumption DEF GoHome, StartLead, EndLead, Held, HasCart, Others
    <3>3. QED
      BY <2>7, <3>1, <3>2, RowRewritten DEF GoHome, StartLead, EndLead
  <2>8. ASSUME NEW h \in Handlers, NEW button \in Buttons, PressButton(h, c, button)
        PROVE  CopiesAreFresh' /\ CartHoldsEntries'
    <3>1. \A g \in Handlers : running'[g] =
            IF g = h THEN [at |-> button, client |-> c, row |-> session[c]] ELSE running[g]
      BY <2>8 DEF PressButton, TypeOK
    <3>2. \A g \in Handlers : c \in patient => ~Mine(running[g], c)
      BY <2>8 DEF PressButton, Ready, Mine
    <3>3. running[h] = Idle
      BY <2>8 DEF PressButton
    <3>4. CopiesAreFresh'
      BY <2>8, <3>1, <3>2, <3>3 DEF CopiesAreFresh, Waits, Mine, PressButton
    <3>5. QED
      BY <2>8, <3>4 DEF PressButton, CartHoldsEntries, HasCart, Waits
  <2>9. ASSUME NEW h \in Handlers, ConfirmCreates(h, c)
        PROVE  CopiesAreFresh' /\ CartHoldsEntries'
    <3>1. \A g \in Handlers : running'[g] =
            IF g = h THEN [at |-> "notify", client |-> c] ELSE running[g]
      BY <2>9 DEF ConfirmCreates, TypeOK
    <3>2. \A g \in Handlers : c \in patient => ~Mine(running[g], c)
      BY <2>9 DEF ConfirmCreates, Ready, Mine
    <3>3. \A d \in Clients : session'[d] = IF d = c THEN NoSession ELSE session[d]
      BY <2>9 DEF ConfirmCreates, SetSession, TypeOK
    <3>4. \A d \in Clients : basket'[d] = IF d = c THEN Empty ELSE basket[d]
      BY <2>9 DEF ConfirmCreates, EmptyBasket, TypeOK
    <3>5. CopiesAreFresh'
      BY <2>9, <3>1, <3>2, <3>3 DEF CopiesAreFresh, Waits, Mine, ConfirmCreates, Buttons
    <3>6. CartHoldsEntries'
      BY <2>9, <3>3, <3>4, CartAssumption
        DEF CartHoldsEntries, HasCart, Waits, ConfirmCreates, Others
    <3>7. QED
      BY <3>5, <3>6
  <2>10. QED
    BY <1>1, <2>1, <2>2, <2>3, <2>4, <2>5, <2>6, <2>7, <2>8, <2>9 DEF ClientStep
<1>2. ASSUME NEW h \in Handlers, HandlerStep(h)
      PROVE  CopiesAreFresh' /\ CartHoldsEntries'
  <2> DEFINE c == running[h].client
  <2>1. running[h] # Idle /\ c \in Clients
    BY <1>2, NotifyIsWaiting DEF HandlerStep, FinishButton, FinishLeadButton, FinishConfirm
  <2>2. CASE FinishButton(h)
    <3>1. /\ running[h].row \in Cart /\ running[h].at \in Buttons
          /\ c \in patient => session[c] = running[h].row
      BY <2>1, <2>2 DEF FinishButton, Waits, CopiesAreFresh, Mine
    <3>2. CASE Writes(running[h].at, running[h].row)
      <4>1. /\ Pressed(running[h].at, running[h].row) \in Cart
            /\ c \in patient => Pressed(running[h].at, running[h].row).lines = Held(c)
        BY <3>1, <3>2, PressedKeepsLines DEF Held, HasCart
      <4>2. SetSession(c, Pressed(running[h].at, running[h].row))
        BY <2>2, <3>2 DEF FinishButton
      <4>3. QED
        BY <2>1, <2>2, <4>1, <4>2, UpdateEnds DEF FinishButton
    <3>3. CASE UNCHANGED session
      <4>1. SetSession(c, session[c])
        BY <2>1, <3>3 DEF SetSession, TypeOK
      <4>2. QED
        BY <2>1, <2>2, <4>1, UpdateEnds DEF FinishButton, Held, HasCart
    <3>4. QED
      BY <2>2, <3>2, <3>3 DEF FinishButton
  <2>3. CASE FinishLeadButton(h)
    <3>1. c \in patient => session[c] = LeadDraft
      BY <2>1, <2>3 DEF FinishLeadButton, Waits, CopiesAreFresh, Mine
    <3>2. LeadDraft \notin Cart
      BY CartAssumption DEF Others
    <3>3. SetSession(c, LeadDraft) \/ SetSession(c, session[c])
      BY <2>1, <2>3 DEF FinishLeadButton, SetSession, TypeOK
    <3>4. QED
      BY <2>1, <2>3, <3>1, <3>2, <3>3, UpdateEnds DEF FinishLeadButton, Held, HasCart
  <2>4. CASE FinishConfirm(h)
    <3>1. CASE session[c] \in Cart \cup {LeadDraft}
      <4>1. SetSession(c, session[c])
        BY <2>1, <2>4, <3>1 DEF FinishConfirm, SetSession, TypeOK
      <4>2. QED
        BY <2>1, <2>4, <4>1, UpdateEnds DEF FinishConfirm, Held, HasCart
    <3>2. CASE session[c] \notin Cart \cup {LeadDraft}
      <4>1. SetSession(c, Home) /\ Home \notin Cart
        BY <2>4, <3>2, CartAssumption DEF FinishConfirm, Others
      <4>2. QED
        BY <2>1, <2>4, <3>2, <4>1, UpdateEnds DEF FinishConfirm, Held, HasCart
    <3>3. QED
      BY <3>1, <3>2
  <2>5. QED
    BY <1>2, <2>2, <2>3, <2>4 DEF HandlerStep
<1>3. CASE \E i \in 1..Len(leads), b \in BOOLEAN : SetOpen(i, b)
  BY <1>3 DEF SetOpen, CopiesAreFresh, CartHoldsEntries, HasCart, Waits
<1>4. CASE Restart
  BY <1>4 DEF Restart, CopiesAreFresh, CartHoldsEntries, HasCart, Mine, Waits
<1>5. CASE UNCHANGED vars
  BY <1>5 DEF vars, CopiesAreFresh, CartHoldsEntries, HasCart, Waits
<1>6. QED
  BY <1>1, <1>2, <1>3, <1>4, <1>5 DEF Next

LEMMA AlwaysWaits == Spec => []Waits
<1>1. Init => Waits
  BY InitTyped, InitWaits DEF Waits
<1>2. Waits /\ [Next]_vars => Waits'
  BY NextTyped, NextWaits DEF Waits
<1>3. QED
  BY <1>1, <1>2, PTL DEF Spec

\* Whatever it presses, a client that waits for its answers finds in its cart
\* exactly what it has entered since it began it.
THEOREM CartHoldsEntriesHolds == Spec => []CartHoldsEntries
<1>1. Waits => CartHoldsEntries
  BY DEF Waits
<1>2. QED
  BY <1>1, AlwaysWaits, PTL

LEMMA StepKeepsApart ==
  ASSUME Waits, [Next]_vars, NEW c \in patient
  PROVE  /\ session[c] = LeadDraft => session'[c] \notin Cart
         /\ session[c] \in Cart => session'[c] # LeadDraft
<1> /\ TypeOK /\ c \in Clients /\ LeadDraft \notin Cart
    /\ LeadDraft # Home /\ LeadDraft # NoSession
    /\ Home \notin Cart /\ NoSession \notin Cart
  BY CartAssumption DEF Waits, TypeOK, Others
<1>1. ASSUME NEW d \in Clients, ClientStep(d)
      PROVE  /\ session[c] = LeadDraft => session'[c] \notin Cart
             /\ session[c] \in Cart => session'[c] # LeadDraft
  <2>1. CASE \E new : /\ SetSession(d, new)
                      /\ new \in Cart => session[d] # LeadDraft
                      /\ new = LeadDraft => session[d] \notin Cart
    BY <2>1 DEF SetSession, TypeOK
  <2>2. ASSUME NEW p \in Products, AddProduct(d, p)
        PROVE  \E new : /\ SetSession(d, new)
                        /\ new \in Cart => session[d] # LeadDraft
                        /\ new = LeadDraft => session[d] \notin Cart
    <3>1. WithPending(d, p) \in Cart /\ session[d] # LeadDraft
      BY <2>2, PendingIsCart DEF AddProduct
    <3>2. SetSession(d, WithPending(d, p))
      BY <2>2 DEF AddProduct
    <3>3. QED
      BY <3>1, <3>2
  <2>3. CASE \E q \in 0..MaxQuantity + 1 : EnterQuantity(d, q)
    <3>1. PICK q \in 0..MaxQuantity + 1 : EnterQuantity(d, q)
      BY <2>3
    <3>2. q \in Nat /\ session[d] \in Cart /\ session[d].pending # None
      BY <3>1, CartAssumption DEF EnterQuantity, HasCart
    <3>3. WithLine(session[d], q) \in Cart
      BY <3>2, WithLineGrows
    <3>4. QED
      BY <2>1, <3>1, <3>2, <3>3 DEF EnterQuantity
  <2>4. CASE Checkout(d)
    BY <2>1, <2>4 DEF Checkout, HasCart, Cart, CartSteps
  <2>5. CASE EnterText(d)
    BY <2>1, <2>5, TextKeepsLines DEF EnterText, HasCart
  <2>6. CASE TypeBack(d)
    BY <2>1, <2>6, BackKeepsLines DEF TypeBack, HasCart
  <2>7. CASE Cancel(d) \/ GoHome(d) \/ Expire(d) \/ EndLead(d) \/ ConfirmDuplicate(d)
             \/ \E h \in Handlers : ConfirmCreates(h, d)
    BY <2>1, <2>7
      DEF Cancel, GoHome, Expire, EndLead, ConfirmDuplicate, ConfirmCreates
  <2>8. CASE StartLead(d)
    BY <2>1, <2>8 DEF StartLead
  <2>9. CASE \E h \in Handlers, button \in Buttons : PressButton(h, d, button)
    BY <2>9 DEF PressButton
  <2>10. QED
    BY <1>1, <2>1, <2>2, <2>3, <2>4, <2>5, <2>6, <2>7, <2>8, <2>9 DEF ClientStep
<1>2. ASSUME NEW h \in Handlers, HandlerStep(h)
      PROVE  /\ session[c] = LeadDraft => session'[c] \notin Cart
             /\ session[c] \in Cart => session'[c] # LeadDraft
  <2> DEFINE d == running[h].client
  <2>1. running[h] # Idle /\ d \in Clients
    BY <1>2, NotifyIsWaiting DEF HandlerStep, FinishButton, FinishLeadButton, FinishConfirm
  <2>2. CASE d = c
    <3>1. running[h].at \in Buttons => session[c] = running[h].row
      BY <2>1, <2>2 DEF Waits, CopiesAreFresh, Mine
    <3>2. CASE FinishButton(h)
      BY <2>1, <2>2, <3>1, <3>2, PressedKeepsLines DEF FinishButton, SetSession, TypeOK
    <3>3. CASE FinishLeadButton(h)
      BY <2>1, <2>2, <3>1, <3>3 DEF FinishLeadButton, SetSession, TypeOK
    <3>4. CASE FinishConfirm(h)
      BY <2>1, <2>2, <3>4 DEF FinishConfirm, SetSession, TypeOK
    <3>5. QED
      BY <1>2, <3>2, <3>3, <3>4 DEF HandlerStep
  <2>3. CASE d # c
    <3>1. session'[c] = session[c]
      BY <1>2, <2>1, <2>3
        DEF HandlerStep, FinishButton, FinishLeadButton, FinishConfirm, SetSession, TypeOK
    <3>2. QED
      BY <3>1
  <2>4. QED
    BY <2>2, <2>3
<1>3. CASE UNCHANGED session
  BY <1>3
<1>4. QED
  BY <1>1, <1>2, <1>3 DEF Next, SetOpen, Restart, vars

\* A client that waits never passes from one kind of order to the other
\* without ending the first.
THEOREM FlowsStayApartHolds == Spec => FlowsStayApart
<1>1. Waits /\ [Next]_vars =>
        [\A c \in patient :
           /\ session[c] = LeadDraft => session'[c] \notin Cart
           /\ session[c] \in Cart => session'[c] # LeadDraft]_vars
  BY StepKeepsApart
<1>2. QED
  BY <1>1, AlwaysWaits, PTL DEF Spec, FlowsStayApart

=============================================================================
