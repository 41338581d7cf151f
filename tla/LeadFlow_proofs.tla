---------------------------- MODULE LeadFlow_proofs ----------------------------
(***************************************************************************)
(* Theorems about LeadFlow, for every value of its constants: any number   *)
(* of clients, products, overlapping updates and leads.                    *)
(***************************************************************************)
EXTENDS LeadFlow, TLAPS

USE DEF Idle, Buttons, Endings

------------------------------------------------------------------------------
(* Facts about the operators.                                              *)

\* The statuses the unique index lists are the statuses the query calls open.
LEMMA IndexedIsOpen ==
  ASSUME NEW s \in Statuses
  PROVE  Indexed(s) <=> IsOpen(s)
BY DEF Statuses, Indexed, IsOpen

LEMMA QuantityRange ==
  ASSUME NEW q \in 1..MaxQuantity
  PROVE  q \in 0..MaxQuantity
BY ConstantsAssumption

\* The edits of a draft yield drafts.
LEMMA ConfirmedType ==
  ASSUME NEW d \in Draft
  PROVE  ToConfirm(d) \in Draft /\ WithContact(d) \in Draft
BY DEF Draft, Steps, ToConfirm, WithContact

LEMMA QuantityType ==
  ASSUME NEW d \in Draft, NEW q \in 1..MaxQuantity
  PROVE  WithQuantity(d, q) \in Draft
<1>1. q \in 0..MaxQuantity
  BY QuantityRange
<1> QED BY <1>1, ConfirmedType DEF WithQuantity, Draft

\* What a waiting update holds.
LEMMA WaitingType ==
  ASSUME TypeOK, NEW h \in Handlers
  PROVE  /\ running[h].at \in Buttons =>
              running[h].client \in Clients /\ running[h].draft \in Draft
         /\ running[h].at \in Endings =>
              running[h].client \in Clients /\ running[h].meant \in Products \cup {NoProduct}
         /\ running[h].at = "notify" => running[h].client \in Clients
<1>1. running[h] \in Waiting \cup {Idle}
  BY DEF TypeOK
<1> QED BY <1>1 DEF Waiting

LEMMA EditType ==
  ASSUME NEW d \in Draft, NEW field \in {"quantity", "comment", "contact"}
  PROVE  [d EXCEPT !.step = field, !.editing = TRUE] \in Draft
<1>1. field \in Steps
  BY DEF Steps
<1> QED BY <1>1 DEF Draft

LEMMA EditWaits ==
  ASSUME NEW h, NEW field \in {"quantity", "comment", "contact"}, FinishEdit(h, field)
  PROVE  running[h].at \in Buttons
BY DEF FinishEdit, EditButton

LEMMA CustomContactType ==
  ASSUME NEW d \in Draft
  PROVE  [d EXCEPT !.step = "contact_custom"] \in Draft
BY DEF Draft, Steps

LEMMA PreviousStepType ==
  ASSUME NEW d \in Draft, PreviousStep(d) # "none"
  PROVE  [d EXCEPT !.step = PreviousStep(d)] \in Draft
<1>1. PreviousStep(d) \in Steps
  BY DEF Draft, Steps, PreviousStep
<1> QED BY <1>1 DEF Draft

------------------------------------------------------------------------------
(* Type correctness.                                                       *)

LEMMA InsertType ==
  ASSUME leads \in Seq(Lead), Len(leads) <= MaxLeads,
         NEW c \in Owners, NEW p \in Products, NEW q \in 0..MaxQuantity,
         NEW k \in BOOLEAN, InsertLead(c, p, q, k)
  PROVE  leads' \in Seq(Lead) /\ Len(leads') <= MaxLeads
<1> DEFINE row == [client |-> c, product |-> p, quantity |-> q,
                   contact |-> k, status |-> "new"]
<1>1. row \in Lead
  BY ConstantsAssumption DEF InsertLead, Lead, Statuses
<1>2. leads' = Append(leads, row) /\ Len(leads) < MaxLeads
  BY DEF InsertLead
<1> HIDE DEF row
<1> QED BY <1>1, <1>2, ConstantsAssumption

LEMMA ClientStepType ==
  ASSUME TypeOK, NEW c \in Clients, ClientStep(c)
  PROVE  TypeOK'
<1> USE DEF SetSession, SetWanted, StartWaiting, HasDraft
<1>1. CASE \E p \in Products : ChooseProduct(c, p)
  <2>1. PICK p \in Products : ChooseProduct(c, p)
    BY <1>1
  <2>2. NewDraft(p) \in Draft
    BY ConstantsAssumption DEF NewDraft, Draft, Steps
  <2> QED BY <2>1, <2>2 DEF ChooseProduct, TypeOK
<1>2. CASE \E q \in 0..MaxQuantity + 1 : EnterQuantity(c, q)
  <2>1. PICK q \in 1..MaxQuantity : EnterQuantity(c, q)
    <3>1. PICK q \in 0..MaxQuantity + 1 : EnterQuantity(c, q)
      BY <1>2
    <3>2. q \in 1..MaxQuantity
      BY <3>1, ConstantsAssumption DEF EnterQuantity, AcceptsQuantity
    <3> QED BY <3>1, <3>2
  <2>2. WithQuantity(session[c], q) \in Draft
    BY <2>1, QuantityType DEF EnterQuantity
  <2>3. lastQuantity' \in [Clients -> [Products -> 0..MaxQuantity]]
    BY <2>1, QuantityRange DEF EnterQuantity, TypeOK
  <2> QED BY <2>1, <2>2, <2>3 DEF EnterQuantity, TypeOK
<1>3. CASE EnterComment(c)
  BY <1>3, ConfirmedType DEF EnterComment, TypeOK
<1>4. CASE EnterContact(c)
  BY <1>4, ConfirmedType DEF EnterContact, TypeOK
<1>5. CASE TypeBack(c)
  BY <1>5, PreviousStepType DEF TypeBack, TypeOK
<1>6. CASE TypeCancel(c)
  BY <1>6 DEF TypeCancel, TypeOK
<1>7. CASE GoHome(c)
  BY <1>7 DEF GoHome, TypeOK
<1>8. CASE Expire(c)
  BY <1>8 DEF Expire, TypeOK
<1>9. CASE \E h \in Handlers, button \in Buttons :
              PressButton(h, c, button)
  BY <1>9 DEF PressButton, TypeOK, Waiting
<1>10. CASE \E h \in Handlers, button \in Endings : PressEnding(h, c, button)
  BY <1>10 DEF PressEnding, TypeOK, Waiting
<1> QED
  BY <1>1, <1>2, <1>3, <1>4, <1>5, <1>6, <1>7, <1>8, <1>9, <1>10 DEF ClientStep

LEMMA HandlerStepType ==
  ASSUME TypeOK, NEW h \in Handlers, HandlerStep(h)
  PROVE  TypeOK'
<1> USE DEF SetSession, Return, HasDraft, TypeOK
<1>1. CASE FinishSkipComment(h)
  BY <1>1, WaitingType, ConfirmedType DEF FinishSkipComment
<1>2. CASE FinishTelegramContact(h)
  BY <1>2, WaitingType, ConfirmedType DEF FinishTelegramContact
<1>3. CASE FinishBack(h)
  <2> DEFINE d == running[h].draft
  <2>1. running[h].client \in Clients /\ d \in Draft
    BY <1>3, WaitingType DEF FinishBack
  <2>2. CASE PreviousStep(d) = "none"
    BY <1>3, <2>2 DEF FinishBack
  <2>3. CASE PreviousStep(d) # "none"
    <3>1. [d EXCEPT !.step = PreviousStep(d)] \in Draft
      BY <2>1, <2>3, PreviousStepType
    <3> QED BY <1>3, <2>1, <2>3, <3>1 DEF FinishBack
  <2> QED BY <2>2, <2>3
<1>4. CASE FinishConfirm(h)
  <2>1. running[h].client \in Clients
    BY <1>4, WaitingType DEF FinishConfirm
  <2>2. CASE HasDraft(running[h].client)
    BY <1>4, <2>2 DEF FinishConfirm
  <2>3. CASE ~HasDraft(running[h].client)
    BY <1>4, <2>1, <2>3 DEF FinishConfirm
  <2> QED BY <2>2, <2>3
<1>5. CASE FinishCustomContact(h)
  BY <1>5, WaitingType, CustomContactType DEF FinishCustomContact
<1>6. ASSUME NEW field \in {"quantity", "comment", "contact"}, FinishEdit(h, field)
      PROVE  TypeOK'
  <2> DEFINE d == running[h].draft
             s == [d EXCEPT !.step = field, !.editing = TRUE]
  <2>1. running[h].client \in Clients /\ d \in Draft /\ s \in Draft
    <3>1. running[h].client \in Clients /\ d \in Draft
      BY <1>6, EditWaits, WaitingType
    <3> QED BY <3>1, EditType
  <2>2. CASE d.step # "confirm"
    BY <1>6, <2>2 DEF FinishEdit
  <2>3. CASE d.step = "confirm"
    <3>1. session' = [session EXCEPT ![running[h].client] = s]
      BY <1>6, <2>3 DEF FinishEdit
    <3> HIDE DEF d, s
    <3> QED BY <1>6, <2>1, <3>1 DEF FinishEdit
  <2> QED BY <2>2, <2>3
<1>7. CASE FinishCancel(h)
  BY <1>7, WaitingType DEF FinishCancel, EndMeant, SetWanted
<1>8. CASE ConfirmCreates(h)
  <2> DEFINE c == running[h].client
             d == session[c]
  <2>1. c \in Clients /\ d \in Draft /\ InsertLead(c, d.product, d.quantity, d.contact)
    BY <1>8, WaitingType DEF ConfirmCreates, Confirms
  <2>2. leads' \in Seq(Lead) /\ Len(leads') <= MaxLeads
    BY <2>1, InsertType DEF Draft, Owners
  <2> QED BY <1>8, <2>1, <2>2 DEF ConfirmCreates, StartWaiting, EndMeant, SetWanted, Waiting
<1>9. CASE ConfirmDuplicate(h)
  BY <1>9, WaitingType DEF ConfirmDuplicate, Confirms, EndMeant, SetWanted
<1>10. CASE ConfirmFails(h)
  BY <1>10 DEF ConfirmFails
<1> QED
  BY <1>1, <1>2, <1>3, <1>4, <1>5, <1>6, <1>7, <1>8, <1>9, <1>10 DEF HandlerStep

LEMMA StepType ==
  ASSUME TypeOK, [Next]_vars
  PROVE  TypeOK'
<1>1. CASE \E c \in Clients : ClientStep(c)
  BY <1>1, ClientStepType
<1>2. CASE \E h \in Handlers : HandlerStep(h)
  BY <1>2, HandlerStepType
<1>3. CASE \E i \in 1..Len(leads), s \in AdminTargets : AdminSetStatus(i, s)
  <2>1. PICK i \in 1..Len(leads), s \in Statuses : AdminSetStatus(i, s)
    BY <1>3, ConstantsAssumption
  <2>a. leads[i] \in Lead
    BY DEF TypeOK
  <2>2. [leads[i] EXCEPT !.status = s] \in Lead
    BY <2>a DEF Lead
  <2>3. leads' \in Seq(Lead) /\ Len(leads') = Len(leads)
    BY <2>1, <2>2 DEF TypeOK, AdminSetStatus
  <2> QED BY <2>1, <2>3 DEF TypeOK, AdminSetStatus
<1>4. CASE \E p \in Products, q \in 1..MaxQuantity : WebLead(p, q)
  <2>1. PICK p \in Products, q \in 0..MaxQuantity : WebLead(p, q)
    BY <1>4, QuantityRange
  <2>2. leads' \in Seq(Lead) /\ Len(leads') <= MaxLeads
    BY <2>1, InsertType DEF WebLead, TypeOK, Owners
  <2> QED BY <2>1, <2>2 DEF WebLead, TypeOK
<1>5. CASE Restart
  BY <1>5 DEF Restart, TypeOK
<1>6. CASE UNCHANGED vars
  BY <1>6 DEF vars, TypeOK
<1> QED BY <1>1, <1>2, <1>3, <1>4, <1>5, <1>6 DEF Next

\* TypeOK holds of every reachable state: sessions hold drafts or home rows,
\* rows of the leads table are complete, awaiting updates hold whole drafts.
THEOREM TypeCorrect == Spec => []TypeOK
<1>1. Init => TypeOK
  BY ConstantsAssumption DEF Init, TypeOK
<1>2. TypeOK /\ [Next]_vars => TypeOK'
  BY StepType
<1> QED BY <1>1, <1>2, PTL DEF Spec

------------------------------------------------------------------------------
(* One open lead for each client and product.                              *)

\* OneOpenLead read row against row.
RowsDisagree ==
  \A i, j \in 1..Len(leads) :
    /\ leads[i].client = leads[j].client
    /\ leads[i].product = leads[j].product
    /\ IsOpen(leads[i].status)
    /\ IsOpen(leads[j].status)
    => i = j

LEMMA RowsDisagreeIsOneOpenLead ==
  ASSUME TypeOK
  PROVE  RowsDisagree <=> OneOpenLead
<1>1. ASSUME RowsDisagree PROVE OneOpenLead
  BY <1>1 DEF RowsDisagree, OneOpenLead, OpenLeads
<1>2. ASSUME OneOpenLead PROVE RowsDisagree
  <2> SUFFICES ASSUME NEW i \in 1..Len(leads), NEW j \in 1..Len(leads),
                      leads[i].client = leads[j].client,
                      leads[i].product = leads[j].product,
                      IsOpen(leads[i].status), IsOpen(leads[j].status)
               PROVE  i = j
    BY DEF RowsDisagree
  <2>1. leads[i] \in Lead
    BY DEF TypeOK
  <2>2. leads[i].client \in Owners /\ leads[i].product \in Products
    BY <2>1 DEF Lead
  <2>3. /\ i \in OpenLeads(leads[i].client, leads[i].product)
        /\ j \in OpenLeads(leads[i].client, leads[i].product)
    BY DEF OpenLeads
  <2> QED BY <1>2, <2>2, <2>3 DEF OneOpenLead
<1> QED BY <1>1, <1>2

\* A row the index lets in at an open status meets no open row of its slot.
LEMMA NoConflictNoOpen ==
  ASSUME TypeOK, NEW i \in Nat, NEW c, NEW p, NEW s \in Statuses,
         ~IndexConflict(i, c, p, s), IsOpen(s),
         NEW j \in 1..Len(leads), j # i
  PROVE  ~(leads[j].client = c /\ leads[j].product = p /\ IsOpen(leads[j].status))
<1>1. leads[j] \in Lead
  BY DEF TypeOK
<1>2. leads[j].status \in Statuses
  BY <1>1 DEF Lead
<1>3. Indexed(s) /\ (IsOpen(leads[j].status) => Indexed(leads[j].status))
  BY <1>2, IndexedIsOpen
<1> QED BY <1>3 DEF IndexConflict

\* What an INSERT does to the rows.
LEMMA InsertedRows ==
  ASSUME TypeOK, NEW c \in Owners, NEW p \in Products, NEW q, NEW k,
         InsertLead(c, p, q, k)
  PROVE  /\ Len(leads') = Len(leads) + 1
         /\ \A i \in 1..Len(leads) : leads'[i] = leads[i]
         /\ leads'[Len(leads) + 1] = [client |-> c, product |-> p, quantity |-> q,
                                      contact |-> k, status |-> "new"]
<1> DEFINE row == [client |-> c, product |-> p, quantity |-> q,
                   contact |-> k, status |-> "new"]
<1>1. leads' = Append(leads, row)
  BY DEF InsertLead
<1>2. leads \in Seq(Lead)
  BY DEF TypeOK
<1> HIDE DEF row
<1>3. /\ Len(leads') = Len(leads) + 1
      /\ \A i \in 1..Len(leads) : leads'[i] = leads[i]
      /\ leads'[Len(leads) + 1] = row
  BY <1>1, <1>2
<1> QED BY <1>3 DEF row

LEMMA InsertKeepsRows ==
  ASSUME TypeOK, RowsDisagree, NEW c \in Owners, NEW p \in Products,
         NEW q, NEW k, InsertLead(c, p, q, k)
  PROVE  RowsDisagree'
<1> DEFINE n == Len(leads) + 1
<1>1. n \in Nat /\ Len(leads) \in Nat
  BY DEF TypeOK
<1>2. /\ Len(leads') = n
      /\ \A i \in 1..Len(leads) : leads'[i] = leads[i]
      /\ leads'[n].client = c /\ leads'[n].product = p
  <2>1. /\ Len(leads') = n
        /\ \A i \in 1..Len(leads) : leads'[i] = leads[i]
        /\ leads'[n] = [client |-> c, product |-> p, quantity |-> q,
                        contact |-> k, status |-> "new"]
    BY InsertedRows, Zenon
  <2> QED BY <2>1
<1>3. \A j \in 1..Len(leads) :
        ~(leads[j].client = c /\ leads[j].product = p /\ IsOpen(leads[j].status))
  <2>1. ~IndexConflict(n, c, p, "new")
    BY DEF InsertLead
  <2>2. "new" \in Statuses /\ IsOpen("new")
    BY DEF Statuses, IsOpen
  <2> QED BY <1>1, <2>1, <2>2, NoConflictNoOpen
<1> HIDE DEF n
<1> SUFFICES ASSUME NEW i \in 1..n, NEW j \in 1..n,
                    leads'[i].client = leads'[j].client,
                    leads'[i].product = leads'[j].product,
                    IsOpen(leads'[i].status), IsOpen(leads'[j].status)
             PROVE  i = j
  BY <1>2 DEF RowsDisagree, IsOpen
<1>4. \A m \in 1..n : m = n \/ m \in 1..Len(leads)
  BY <1>1 DEF n
<1>5. CASE i \in 1..Len(leads) /\ j \in 1..Len(leads)
  BY <1>2, <1>5 DEF RowsDisagree
<1>6. CASE i = n /\ j \in 1..Len(leads)
  BY <1>2, <1>3, <1>6
<1>7. CASE j = n /\ i \in 1..Len(leads)
  BY <1>2, <1>3, <1>7
<1> QED BY <1>4, <1>5, <1>6, <1>7

\* What an UPDATE of the status does to the rows.
LEMMA UpdatedRows ==
  ASSUME TypeOK, NEW i \in 1..Len(leads), NEW s \in Statuses, AdminSetStatus(i, s)
  PROVE  /\ Len(leads') = Len(leads)
         /\ \A j \in 1..Len(leads) :
              /\ leads'[j].client = leads[j].client
              /\ leads'[j].product = leads[j].product
              /\ leads'[j].quantity = leads[j].quantity
              /\ leads'[j].contact = leads[j].contact
              /\ leads'[j].status = IF j = i THEN s ELSE leads[j].status
<1>1. \A j \in 1..Len(leads) : leads[j] \in Lead
  BY DEF TypeOK
<1>2. /\ Len(leads') = Len(leads)
      /\ \A j \in 1..Len(leads) :
           leads'[j] = IF j = i THEN [leads[i] EXCEPT !.status = s] ELSE leads[j]
  BY DEF AdminSetStatus, TypeOK
<1> QED BY <1>1, <1>2 DEF Lead

LEMMA UpdateKeepsRows ==
  ASSUME TypeOK, RowsDisagree, NEW i \in 1..Len(leads), NEW s \in Statuses,
         AdminSetStatus(i, s)
  PROVE  RowsDisagree'
<1>1. i \in Nat
  OBVIOUS
<1>2. ASSUME IsOpen(s), NEW j \in 1..Len(leads), j # i
      PROVE  ~(/\ leads[j].client = leads[i].client
               /\ leads[j].product = leads[i].product
               /\ IsOpen(leads[j].status))
  BY <1>1, <1>2, NoConflictNoOpen DEF AdminSetStatus
<1> QED BY <1>2, UpdatedRows DEF RowsDisagree, IsOpen

LEMMA StepOneOpen ==
  ASSUME TypeOK, RowsDisagree, [Next]_vars
  PROVE  RowsDisagree'
<1>1. CASE \E h \in Handlers : ConfirmCreates(h)
  <2>1. PICK h \in Handlers : ConfirmCreates(h)
    BY <1>1
  <2>2. running[h].client \in Owners /\ session[running[h].client].product \in Products
    BY <2>1, WaitingType DEF ConfirmCreates, Confirms, HasDraft, Draft, Owners
  <2> QED BY <2>1, <2>2, InsertKeepsRows DEF ConfirmCreates
<1>2. CASE \E p \in Products, q \in 1..MaxQuantity : WebLead(p, q)
  BY <1>2, InsertKeepsRows DEF WebLead, Owners
<1>3. CASE \E i \in 1..Len(leads), s \in AdminTargets : AdminSetStatus(i, s)
  BY <1>3, UpdateKeepsRows, ConstantsAssumption
<1>4. CASE UNCHANGED leads
  BY <1>4 DEF RowsDisagree
<1> QED
  BY <1>1, <1>2, <1>3, <1>4
  DEF Next, vars, ClientStep, HandlerStep, ChooseProduct, EnterQuantity,
      EnterComment, EnterContact, TypeBack, TypeCancel, GoHome, Expire, PressButton,
      PressEnding, FinishSkipComment, FinishTelegramContact, FinishCustomContact,
      FinishEdit, FinishBack, FinishCancel, ConfirmDuplicate, ConfirmFails,
      FinishConfirm, Restart

\* Whatever the admin reopens and however updates overlap, a client has at
\* most one open lead for a product.
THEOREM OneOpenLeadHolds == Spec => []OneOpenLead
<1>1. Init => RowsDisagree
  BY DEF Init, RowsDisagree
<1>2. TypeOK /\ RowsDisagree /\ [Next]_vars => RowsDisagree'
  BY StepOneOpen
<1>3. TypeOK /\ RowsDisagree => OneOpenLead
  BY RowsDisagreeIsOneOpenLead
<1> QED BY <1>1, <1>2, <1>3, TypeCorrect, PTL DEF Spec

------------------------------------------------------------------------------
(* Every lead can be acted on.                                             *)

\* A draft that has a quantity has a contact, and its client entered a
\* quantity for its product.
Answered(c, d) ==
  d.quantity # 0 => d.contact /\ lastQuantity[c][d.product] # 0

DraftsAnswered == \A c \in Clients : HasDraft(c) => Answered(c, session[c])

CopiesAnswered ==
  \A h \in Handlers :
    running[h].at \in Buttons =>
      Answered(running[h].client, running[h].draft)

AnswersInv == DraftsAnswered /\ CopiesAnswered /\ LeadsAreActionable

\* The edits that leave the quantity alone keep a draft answered.
LEMMA EditsKeepAnswers ==
  ASSUME NEW c, NEW d \in Draft, Answered(c, d), NEW field, NEW b
  PROVE  /\ Answered(c, ToConfirm(d))
         /\ Answered(c, WithContact(d))
         /\ Answered(c, [d EXCEPT !.step = field])
         /\ Answered(c, [d EXCEPT !.step = field, !.editing = b])
BY DEF Answered, Draft, ToConfirm, WithContact

\* A step that writes one session row, a draft only if it is answered.
LEMMA WriteKeepsDrafts ==
  ASSUME TypeOK, DraftsAnswered, NEW c \in Clients, NEW d,
         d \in Draft => Answered(c, d), SetSession(c, d), UNCHANGED lastQuantity
  PROVE  DraftsAnswered'
<1>1. \A x \in Clients : session'[x] = IF x = c THEN d ELSE session[x]
  BY DEF SetSession, TypeOK
<1> QED BY <1>1 DEF DraftsAnswered, HasDraft, Answered

LEMMA SameCopies ==
  ASSUME CopiesAnswered, UNCHANGED <<running, lastQuantity>>
  PROVE  CopiesAnswered'
BY DEF CopiesAnswered, Answered

LEMMA ReturnKeepsCopies ==
  ASSUME TypeOK, CopiesAnswered, NEW h \in Handlers, Return(h),
         UNCHANGED lastQuantity
  PROVE  CopiesAnswered'
<1>1. \A x \in Handlers : running'[x] = IF x = h THEN Idle ELSE running[x]
  BY DEF Return, TypeOK
<1> QED BY <1>1 DEF CopiesAnswered, Answered

LEMMA SameLeads ==
  ASSUME LeadsAreActionable, UNCHANGED <<leads, lastQuantity>>
  PROVE  LeadsAreActionable'
BY DEF LeadsAreActionable

LEMMA InsertKeepsActionable ==
  ASSUME TypeOK, LeadsAreActionable, NEW c \in Owners, NEW p \in Products,
         NEW q, InsertLead(c, p, q, TRUE), UNCHANGED lastQuantity,
         c \in Clients => lastQuantity[c][p] # 0
  PROVE  LeadsAreActionable'
<1> DEFINE n == Len(leads) + 1
<1>1. /\ Len(leads') = n
      /\ \A i \in 1..Len(leads) : leads'[i] = leads[i]
      /\ leads'[n] = [client |-> c, product |-> p, quantity |-> q,
                      contact |-> TRUE, status |-> "new"]
  BY InsertedRows, Zenon
<1>2. leads'[n].client = c /\ leads'[n].product = p /\ leads'[n].contact
  BY <1>1
<1>3. \A i \in 1..n : i = n \/ i \in 1..Len(leads)
  BY DEF TypeOK
<1> HIDE DEF n
<1> QED BY <1>1, <1>2, <1>3 DEF LeadsAreActionable

LEMMA EnterQuantityAnswers ==
  ASSUME TypeOK, AnswersInv, NEW c \in Clients, NEW q \in 0..MaxQuantity + 1,
         EnterQuantity(c, q)
  PROVE  AnswersInv'
<1> DEFINE d == session[c]
<1>1. d \in Draft /\ d.product \in Products /\ q # 0
  BY ConstantsAssumption DEF EnterQuantity, HasDraft, AcceptsQuantity, Draft
<1>2. \A x \in Clients, p \in Products :
        lastQuantity'[x][p] = IF x = c /\ p = d.product THEN q
                                ELSE lastQuantity[x][p]
  BY <1>1 DEF EnterQuantity, TypeOK
<1>3. \A x \in Clients, p \in Products :
        lastQuantity[x][p] # 0 => lastQuantity'[x][p] # 0
  BY <1>1, <1>2
<1>4. \A x \in Clients : session'[x] = IF x = c THEN WithQuantity(d, q) ELSE session[x]
  BY DEF EnterQuantity, SetSession, TypeOK
<1>5. WithQuantity(d, q).contact /\ WithQuantity(d, q).product = d.product
  BY <1>1 DEF WithQuantity, ToConfirm, Draft
<1>6. DraftsAnswered'
  <2> SUFFICES ASSUME NEW x \in Clients, session'[x] \in Draft,
                      session'[x].quantity # 0
               PROVE  /\ session'[x].contact
                      /\ lastQuantity'[x][session'[x].product] # 0
    BY DEF DraftsAnswered, HasDraft, Answered
  <2>1. CASE x = c
    BY <1>1, <1>2, <1>4, <1>5, <2>1
  <2>2. CASE x # c
    <3>1. session[x].product \in Products
      BY <1>4, <2>2 DEF Draft
    <3> QED BY <1>3, <1>4, <2>2, <3>1 DEF AnswersInv, DraftsAnswered, HasDraft, Answered
  <2> QED BY <2>1, <2>2
<1>7. CopiesAnswered'
  <2>1. running' = running
    BY DEF EnterQuantity
  <2>2. \A h \in Handlers : running[h].at \in Buttons =>
          running[h].client \in Clients /\ running[h].draft.product \in Products
    BY WaitingType DEF Draft
  <2> QED BY <1>3, <2>1, <2>2 DEF AnswersInv, CopiesAnswered, Answered
<1>8. LeadsAreActionable'
  <2>1. leads' = leads /\ \A i \in 1..Len(leads) : leads[i].product \in Products
    <3>1. \A i \in 1..Len(leads) : leads[i] \in Lead
      BY DEF TypeOK
    <3> QED BY <3>1 DEF EnterQuantity, Lead
  <2> QED BY <1>3, <2>1 DEF AnswersInv, LeadsAreActionable
<1> QED BY <1>6, <1>7, <1>8 DEF AnswersInv

LEMMA ClientStepAnswers ==
  ASSUME TypeOK, AnswersInv, NEW c \in Clients, ClientStep(c)
  PROVE  AnswersInv'
<1> USE DEF AnswersInv
<1>a. ASSUME NEW d, d \in Draft => Answered(c, d), SetSession(c, d),
             UNCHANGED <<leads, running, lastQuantity>>
      PROVE  AnswersInv'
  BY <1>a, WriteKeepsDrafts, SameCopies, SameLeads
<1>b. HasDraft(c) => session[c] \in Draft /\ Answered(c, session[c])
  BY DEF DraftsAnswered, HasDraft
<1>c. Home \notin Draft /\ NoSession \notin Draft
  BY ConstantsAssumption
<1>1. ASSUME NEW p \in Products, ChooseProduct(c, p) PROVE AnswersInv'
  <2>1. Answered(c, NewDraft(p))
    BY DEF Answered, NewDraft
  <2> QED BY <1>1, <1>a, <1>b, <2>1 DEF ChooseProduct
<1>2. ASSUME NEW q \in 0..MaxQuantity + 1, EnterQuantity(c, q) PROVE AnswersInv'
  BY <1>2, EnterQuantityAnswers
<1>3. CASE EnterComment(c)
  BY <1>3, <1>a, <1>b, EditsKeepAnswers DEF EnterComment
<1>4. CASE EnterContact(c)
  BY <1>4, <1>a, <1>b, EditsKeepAnswers DEF EnterContact
<1>5. CASE TypeBack(c)
  BY <1>5, <1>a, <1>b, EditsKeepAnswers DEF TypeBack
<1>6. CASE TypeCancel(c)
  BY <1>6, <1>a, <1>c DEF TypeCancel
<1>7. CASE GoHome(c)
  BY <1>7, <1>a, <1>c DEF GoHome
<1>8. CASE Expire(c)
  BY <1>8, <1>a, <1>c DEF Expire
<1>9. ASSUME NEW h \in Handlers, NEW button \in Buttons,
              PressButton(h, c, button)
       PROVE  AnswersInv'
  <2> DEFINE w == [at |-> button, client |-> c, draft |-> session[c]]
  <2>1. \A x \in Handlers : running'[x] = IF x = h THEN w ELSE running[x]
    BY <1>9 DEF PressButton, StartWaiting, TypeOK
  <2>2. Answered(w.client, w.draft)
    BY <1>9, <1>b DEF PressButton
  <2>3. CopiesAnswered'
    <3> HIDE DEF w
    <3>1. UNCHANGED lastQuantity
      BY <1>9 DEF PressButton
    <3> QED BY <2>1, <2>2, <3>1 DEF CopiesAnswered, Answered
  <2>4. DraftsAnswered'
    BY <1>9 DEF PressButton, DraftsAnswered, HasDraft, Answered
  <2> QED BY <1>9, <2>3, <2>4, SameLeads DEF PressButton
<1>10. ASSUME NEW h \in Handlers, NEW button \in Endings, PressEnding(h, c, button)
       PROVE  AnswersInv'
  <2> DEFINE w == [at |-> button, client |-> c, meant |-> wanted[c]]
  <2>1. \A x \in Handlers : running'[x] = IF x = h THEN w ELSE running[x]
    BY <1>10 DEF PressEnding, StartWaiting, TypeOK
  <2>2. UNCHANGED <<session, leads, lastQuantity>> /\ w.at \notin Buttons
    BY <1>10 DEF PressEnding
  <2>3. CopiesAnswered'
    <3> HIDE DEF w
    <3> QED BY <2>1, <2>2 DEF CopiesAnswered, Answered
  <2>4. DraftsAnswered'
    BY <2>2 DEF DraftsAnswered, HasDraft, Answered
  <2> QED BY <2>2, <2>3, <2>4, SameLeads
<1> QED
  BY <1>1, <1>2, <1>3, <1>4, <1>5, <1>6, <1>7, <1>8, <1>9, <1>10 DEF ClientStep

LEMMA HandlerStepAnswers ==
  ASSUME TypeOK, AnswersInv, NEW h \in Handlers, HandlerStep(h)
  PROVE  AnswersInv'
<1> USE DEF AnswersInv
<1> DEFINE c == running[h].client
           d == running[h].draft
<1>a. ASSUME NEW s, c \in Clients, s \in Draft => Answered(c, s), SetSession(c, s),
             Return(h), UNCHANGED <<leads, lastQuantity>>
      PROVE  AnswersInv'
  BY <1>a, WriteKeepsDrafts, ReturnKeepsCopies, SameLeads
<1>b. ASSUME Return(h), UNCHANGED <<session, leads, lastQuantity>>
      PROVE  AnswersInv'
  BY <1>b, ReturnKeepsCopies, SameLeads DEF DraftsAnswered, HasDraft, Answered
<1>c. running[h].at \in Buttons =>
        c \in Clients /\ d \in Draft /\ Answered(c, d)
  BY WaitingType DEF CopiesAnswered
<1>1. CASE FinishSkipComment(h)
  BY <1>1, <1>a, <1>c, EditsKeepAnswers DEF FinishSkipComment
<1>2. CASE FinishTelegramContact(h)
  BY <1>2, <1>a, <1>c, EditsKeepAnswers DEF FinishTelegramContact
<1>3. CASE FinishBack(h)
  <2>1. CASE PreviousStep(d) = "none"
    BY <1>3, <1>b, <2>1 DEF FinishBack
  <2>2. CASE PreviousStep(d) # "none"
    <3> DEFINE s == [d EXCEPT !.step = PreviousStep(d)]
    <3>1. c \in Clients /\ Answered(c, s)
      BY <1>3, <1>c, EditsKeepAnswers DEF FinishBack
    <3>2. SetSession(c, s) /\ Return(h) /\ UNCHANGED <<leads, lastQuantity>>
      BY <1>3, <2>2 DEF FinishBack
    <3> HIDE DEF s
    <3> QED BY <1>a, <3>1, <3>2
  <2> QED BY <2>1, <2>2
<1>4. CASE FinishConfirm(h)
  <2>1. c \in Clients /\ Home \notin Draft
    BY <1>4, WaitingType, ConstantsAssumption DEF FinishConfirm
  <2> QED BY <1>4, <1>a, <1>b, <2>1 DEF FinishConfirm
<1>5. CASE FinishCustomContact(h)
  BY <1>5, <1>a, <1>c, EditsKeepAnswers DEF FinishCustomContact
<1>6. ASSUME NEW field \in {"quantity", "comment", "contact"}, FinishEdit(h, field)
      PROVE  AnswersInv'
  <2> DEFINE s == [d EXCEPT !.step = field, !.editing = TRUE]
  <2>1. c \in Clients /\ d \in Draft /\ Answered(c, d)
    BY <1>6, <1>c, EditWaits
  <2>2. Answered(c, s)
    BY <2>1, EditsKeepAnswers
  <2>3. CASE d.step # "confirm"
    BY <1>6, <1>b, <2>3 DEF FinishEdit
  <2>4. CASE d.step = "confirm"
    <3>1. SetSession(c, s) /\ Return(h) /\ UNCHANGED <<leads, lastQuantity>>
      BY <1>6, <2>4 DEF FinishEdit
    <3> HIDE DEF s
    <3> QED BY <1>a, <2>1, <2>2, <3>1
  <2> QED BY <2>3, <2>4
<1>7. CASE FinishCancel(h)
  <2>1. c \in Clients /\ Home \notin Draft
    BY <1>7, WaitingType, ConstantsAssumption DEF FinishCancel
  <2> QED BY <1>7, <1>a, <2>1 DEF FinishCancel
<1>8. CASE ConfirmCreates(h)
  <2> DEFINE s == session[c]
  <2>1. /\ c \in Clients /\ c \in Owners /\ s \in Draft /\ s.product \in Products
        /\ s.quantity # 0 /\ s.contact = TRUE /\ lastQuantity[c][s.product] # 0
    BY <1>8, WaitingType
    DEF ConfirmCreates, Confirms, InsertLead, DraftsAnswered, HasDraft, Answered, Draft, Owners
  <2>2. InsertLead(c, s.product, s.quantity, TRUE) /\ UNCHANGED lastQuantity
    BY <1>8, <2>1 DEF ConfirmCreates
  <2>3. LeadsAreActionable'
    BY <2>1, <2>2, InsertKeepsActionable
  <2>4. DraftsAnswered'
    BY <1>8, <2>1, ConstantsAssumption, WriteKeepsDrafts DEF ConfirmCreates
  <2>5. CopiesAnswered'
    <3>1. \A x \in Handlers :
            running'[x] = IF x = h THEN [at |-> "notify", client |-> c] ELSE running[x]
      BY <1>8 DEF ConfirmCreates, StartWaiting, TypeOK
    <3> QED BY <2>2, <3>1 DEF CopiesAnswered, Answered
  <2> QED BY <2>3, <2>4, <2>5
<1>9. CASE ConfirmDuplicate(h)
  <2>1. c \in Clients /\ Home \notin Draft
    BY <1>9, WaitingType, ConstantsAssumption DEF ConfirmDuplicate, Confirms
  <2> QED BY <1>9, <1>a, <2>1 DEF ConfirmDuplicate
<1>10. CASE ConfirmFails(h)
  BY <1>10, <1>b DEF ConfirmFails
<1> QED
  BY <1>1, <1>2, <1>3, <1>4, <1>5, <1>6, <1>7, <1>8, <1>9, <1>10 DEF HandlerStep

LEMMA StepAnswers ==
  ASSUME TypeOK, AnswersInv, [Next]_vars
  PROVE  AnswersInv'
<1> USE DEF AnswersInv
<1>a. ASSUME UNCHANGED <<session, lastQuantity>> PROVE DraftsAnswered'
  BY <1>a DEF DraftsAnswered, HasDraft, Answered
<1>1. CASE \E c \in Clients : ClientStep(c)
  BY <1>1, ClientStepAnswers
<1>2. CASE \E h \in Handlers : HandlerStep(h)
  BY <1>2, HandlerStepAnswers
<1>3. CASE \E i \in 1..Len(leads), s \in AdminTargets : AdminSetStatus(i, s)
  <2>1. PICK i \in 1..Len(leads), s \in Statuses : AdminSetStatus(i, s)
    BY <1>3, ConstantsAssumption
  <2>2. LeadsAreActionable'
    <3>1. UNCHANGED lastQuantity
      BY <2>1 DEF AdminSetStatus
    <3> QED BY <2>1, <3>1, UpdatedRows DEF LeadsAreActionable
  <2> QED BY <1>a, <2>1, <2>2, SameCopies DEF AdminSetStatus
<1>4. CASE \E p \in Products, q \in 1..MaxQuantity : WebLead(p, q)
  <2>1. WebClient \in Owners /\ WebClient \notin Clients
    BY ConstantsAssumption DEF Owners
  <2>2. LeadsAreActionable'
    BY <1>4, <2>1, InsertKeepsActionable DEF WebLead
  <2> QED BY <1>4, <1>a, <2>2, SameCopies DEF WebLead
<1>5. CASE Restart
  <2>1. CopiesAnswered'
    BY <1>5 DEF Restart, CopiesAnswered
  <2> QED BY <1>5, <1>a, <2>1, SameLeads DEF Restart
<1>6. CASE UNCHANGED vars
  BY <1>6, <1>a, SameCopies, SameLeads DEF vars
<1> QED BY <1>1, <1>2, <1>3, <1>4, <1>5, <1>6 DEF Next

\* Every lead carries a contact, and a quantity its client entered for its very
\* product, though the buttons of any step may be pressed at any other.
THEOREM LeadsAreActionableHolds == Spec => []LeadsAreActionable
<1>1. Init => AnswersInv
  BY ConstantsAssumption
  DEF Init, AnswersInv, DraftsAnswered, HasDraft, CopiesAnswered, LeadsAreActionable
<1>2. TypeOK /\ AnswersInv /\ [Next]_vars => AnswersInv'
  BY StepAnswers
<1>3. AnswersInv => LeadsAreActionable
  BY DEF AnswersInv
<1> QED BY <1>1, <1>2, <1>3, TypeCorrect, PTL DEF Spec

(***************************************************************************)
(* What LeadFlow promises a patient client, whose updates never overlap.   *)
(***************************************************************************)
------------------------------------------------------------------------------
(* The invariant.                                                          *)

\* The copy a waiting button holds is still the draft in the session, and the
\* order a waiting ending was meant for is still the order its client wants.
Fresh(r, rows, orders) ==
  /\ r.at \in Buttons => rows[r.client] = r.draft
  /\ r.at \in Endings => orders[r.client] = r.meant

CopiesAreFresh == \A h \in Handlers : Fresh(running[h], session, wanted)

\* No two updates of one client wait.
OneUpdateEach ==
  \A h, g \in Handlers :
    running[h] # Idle /\ running[g] # Idle /\ running[h].client = running[g].client
      => h = g

PatientInv ==
  CopiesAreFresh /\ OneUpdateEach /\ DraftIsWanted /\ DraftHoldsLastQuantity

\* A session row that the two promises allow.
Allowed(c, s, order, last) ==
  s \in Draft =>
    order = s.product /\ (s.quantity # 0 => s.quantity = last[s.product])

LEMMA AllowedRows ==
  ASSUME PatientInv, NEW c \in Clients
  PROVE  Allowed(c, session[c], wanted[c], lastQuantity[c])
BY DEF PatientInv, DraftIsWanted, DraftHoldsLastQuantity, HasDraft, Allowed

LEMMA EditsStayAllowed ==
  ASSUME NEW c, NEW d \in Draft, NEW w, NEW l, Allowed(c, d, w, l), NEW field, NEW b
  PROVE  /\ Allowed(c, ToConfirm(d), w, l)
         /\ Allowed(c, WithContact(d), w, l)
         /\ Allowed(c, [d EXCEPT !.step = field], w, l)
         /\ Allowed(c, [d EXCEPT !.step = field, !.editing = b], w, l)
BY DEF Allowed, Draft, ToConfirm, WithContact

------------------------------------------------------------------------------
(* Two forms of step.                                                      *)

\* Nobody waits for client c, and a step changes what c has and nothing else.
LEMMA ReadyWrite ==
  ASSUME TypeOK, PatientInv, patient, NEW c \in Clients, Ready(c),
         \A x \in Clients \ {c} : /\ session'[x] = session[x]
                                  /\ wanted'[x] = wanted[x]
                                  /\ lastQuantity'[x] = lastQuantity[x],
         Allowed(c, session'[c], wanted'[c], lastQuantity'[c])
  PROVE  /\ DraftIsWanted' /\ DraftHoldsLastQuantity'
         /\ UNCHANGED running => PatientInv'
<1>1. DraftIsWanted' /\ DraftHoldsLastQuantity'
  BY DEF PatientInv, DraftIsWanted, DraftHoldsLastQuantity, HasDraft, Allowed
<1>2. ASSUME UNCHANGED running PROVE CopiesAreFresh' /\ OneUpdateEach'
  <2>1. OneUpdateEach'
    BY <1>2 DEF PatientInv, OneUpdateEach
  <2>2. CopiesAreFresh'
    <3> SUFFICES ASSUME NEW h \in Handlers, running[h].at \in Buttons \cup Endings
                 PROVE  Fresh(running[h], session', wanted')
      BY <1>2 DEF CopiesAreFresh, Fresh
    <3>1. running[h].client \in Clients \ {c}
      BY WaitingType DEF Ready
    <3> QED BY <3>1 DEF PatientInv, CopiesAreFresh, Fresh
  <2> QED BY <2>1, <2>2
<1> QED BY <1>1, <1>2 DEF PatientInv

\* Nobody waits for client c, and an update of c begins to wait.
LEMMA ReadyWait ==
  ASSUME TypeOK, PatientInv, patient, NEW c \in Clients, Ready(c),
         NEW h \in Handlers, running[h] = Idle, NEW w,
         w.client = c, Fresh(w, session, wanted), StartWaiting(h, w),
         UNCHANGED <<session, wanted, lastQuantity>>
  PROVE  PatientInv'
<1>1. \A x \in Handlers : running'[x] = IF x = h THEN w ELSE running[x]
  BY DEF StartWaiting, TypeOK
<1>2. \A x \in Handlers : running[x] # Idle => running[x].client # c
  BY DEF Ready
<1>3. OneUpdateEach'
  BY <1>1, <1>2 DEF PatientInv, OneUpdateEach
<1>4. CopiesAreFresh'
  BY <1>1 DEF PatientInv, CopiesAreFresh
<1>5. DraftIsWanted' /\ DraftHoldsLastQuantity'
  BY DEF PatientInv, DraftIsWanted, DraftHoldsLastQuantity, HasDraft
<1> QED BY <1>3, <1>4, <1>5 DEF PatientInv

\* The update that waits for client c goes on, writes what c may have, and ends
\* or waits for the card to the admin.
LEMMA WaiterWrite ==
  ASSUME TypeOK, PatientInv, NEW h \in Handlers, running[h] # Idle, NEW c \in Clients,
         running[h].client = c, NEW w,
         w = Idle \/ (w.at = "notify" /\ w.client = c), StartWaiting(h, w),
         UNCHANGED lastQuantity,
         \A x \in Clients \ {c} : session'[x] = session[x] /\ wanted'[x] = wanted[x],
         Allowed(c, session'[c], wanted'[c], lastQuantity[c])
  PROVE  PatientInv'
<1>1. \A x \in Handlers : running'[x] = IF x = h THEN w ELSE running[x]
  BY DEF StartWaiting, TypeOK
<1>2. DraftIsWanted' /\ DraftHoldsLastQuantity'
  BY DEF PatientInv, DraftIsWanted, DraftHoldsLastQuantity, HasDraft, Allowed
<1>3. OneUpdateEach'
  BY <1>1 DEF PatientInv, OneUpdateEach
<1>4. CopiesAreFresh'
  <2> SUFFICES ASSUME NEW x \in Handlers, running'[x].at \in Buttons \cup Endings
               PROVE  Fresh(running'[x], session', wanted')
    BY DEF CopiesAreFresh, Fresh
  <2>1. x # h /\ running'[x] = running[x]
    BY <1>1
  <2>2. running[x].client \in Clients /\ running[x] # Idle
    BY <2>1, WaitingType
  <2>3. running[x].client # c
    BY <2>1, <2>2 DEF PatientInv, OneUpdateEach
  <2> QED BY <2>1, <2>2, <2>3 DEF PatientInv, CopiesAreFresh, Fresh
<1> QED BY <1>2, <1>3, <1>4 DEF PatientInv

------------------------------------------------------------------------------
(* Steps.                                                                  *)

LEMMA ClientStepPatient ==
  ASSUME TypeOK, PatientInv, patient, NEW c \in Clients, ClientStep(c)
  PROVE  PatientInv'
<1> DEFINE d == session[c]
<1>a. ASSUME NEW s, SetSession(c, s), Ready(c), Allowed(c, s, wanted[c], lastQuantity[c]),
             UNCHANGED <<running, wanted, lastQuantity>>
      PROVE  PatientInv'
  BY <1>a, ReadyWrite DEF SetSession, TypeOK
<1>b. ASSUME NEW s, SetSession(c, s), NEW p, SetWanted(c, p), Ready(c),
             Allowed(c, s, p, lastQuantity[c]), UNCHANGED <<running, lastQuantity>>
      PROVE  PatientInv'
  BY <1>b, ReadyWrite DEF SetSession, SetWanted, TypeOK
<1>c. Allowed(c, d, wanted[c], lastQuantity[c])
  BY AllowedRows
<1>d. \A w, l : Allowed(c, Home, w, l) /\ Allowed(c, NoSession, w, l)
  BY ConstantsAssumption DEF Allowed
<1>e. HasDraft(c) => d \in Draft
  BY DEF HasDraft
<1>1. ASSUME NEW p \in Products, ChooseProduct(c, p) PROVE PatientInv'
  <2>1. Allowed(c, NewDraft(p), p, lastQuantity[c])
    BY DEF Allowed, NewDraft
  <2>2. d.product = p => Allowed(c, d, p, lastQuantity[c])
    BY <1>c DEF Allowed
  <2> QED BY <1>1, <1>b, <2>1, <2>2 DEF ChooseProduct
<1>2. ASSUME NEW q \in 0..MaxQuantity + 1, EnterQuantity(c, q) PROVE PatientInv'
  <2>1. d \in Draft /\ d.product \in Products /\ Ready(c)
    BY <1>2, <1>e DEF EnterQuantity, Draft
  <2>2. /\ lastQuantity'[c][d.product] = q
        /\ \A x \in Clients \ {c} : lastQuantity'[x] = lastQuantity[x]
    BY <1>2, <2>1 DEF EnterQuantity, TypeOK
  <2>3. WithQuantity(d, q).quantity = q /\ WithQuantity(d, q).product = d.product
    BY <2>1 DEF WithQuantity, ToConfirm, Draft
  <2>4. wanted[c] = d.product
    BY <1>c, <2>1 DEF Allowed
  <2>5. Allowed(c, WithQuantity(d, q), wanted[c], lastQuantity'[c])
    BY <2>2, <2>3, <2>4 DEF Allowed
  <2>6. /\ session'[c] = WithQuantity(d, q)
        /\ \A x \in Clients \ {c} : session'[x] = session[x]
        /\ UNCHANGED <<running, wanted>>
    BY <1>2 DEF EnterQuantity, SetSession, TypeOK
  <2> QED BY <2>1, <2>2, <2>5, <2>6, ReadyWrite
<1>3. CASE EnterComment(c)
  BY <1>3, <1>a, <1>c, <1>e, EditsStayAllowed DEF EnterComment
<1>4. CASE EnterContact(c)
  BY <1>4, <1>a, <1>c, <1>e, EditsStayAllowed DEF EnterContact
<1>5. CASE TypeBack(c)
  BY <1>5, <1>a, <1>c, <1>e, EditsStayAllowed DEF TypeBack
<1>6. CASE TypeCancel(c)
  BY <1>6, <1>b, <1>d DEF TypeCancel
<1>7. CASE GoHome(c)
  BY <1>7, <1>a, <1>d DEF GoHome
<1>8. CASE Expire(c)
  BY <1>8, <1>b, <1>d DEF Expire
<1>9. ASSUME NEW h \in Handlers, NEW button \in Buttons, PressButton(h, c, button)
      PROVE  PatientInv'
  <2> DEFINE w == [at |-> button, client |-> c, draft |-> d]
  <2>1. Ready(c) /\ running[h] = Idle /\ StartWaiting(h, w)
        /\ UNCHANGED <<session, wanted, lastQuantity>>
    BY <1>9 DEF PressButton
  <2>2. w.client = c /\ Fresh(w, session, wanted)
    BY DEF Fresh
  <2> HIDE DEF w
  <2> QED BY <2>1, <2>2, ReadyWait
<1>10. ASSUME NEW h \in Handlers, NEW button \in Endings, PressEnding(h, c, button)
       PROVE  PatientInv'
  <2> DEFINE w == [at |-> button, client |-> c, meant |-> wanted[c]]
  <2>1. Ready(c) /\ running[h] = Idle /\ StartWaiting(h, w)
        /\ UNCHANGED <<session, wanted, lastQuantity>>
    BY <1>10 DEF PressEnding
  <2>2. w.client = c /\ Fresh(w, session, wanted)
    BY DEF Fresh
  <2> HIDE DEF w
  <2> QED BY <2>1, <2>2, ReadyWait
<1> QED
  BY <1>1, <1>2, <1>3, <1>4, <1>5, <1>6, <1>7, <1>8, <1>9, <1>10 DEF ClientStep

\* The handler that takes a step waits for a client.
LEMMA HandlerWaits ==
  ASSUME TypeOK, NEW h \in Handlers, HandlerStep(h)
  PROVE  running[h].client \in Clients /\ running[h] # Idle
BY WaitingType
DEF HandlerStep, FinishSkipComment, FinishTelegramContact, FinishCustomContact,
    FinishEdit, EditButton, FinishBack, FinishCancel, Confirms, ConfirmCreates,
    ConfirmDuplicate, ConfirmFails, FinishConfirm

\* A patient client's ending ends the order the client wants.
LEMMA PatientEnds ==
  ASSUME TypeOK, PatientInv, NEW h \in Handlers, running[h].at \in Endings, EndMeant(h)
  PROVE  wanted' = [wanted EXCEPT ![running[h].client] = NoProduct]
BY DEF PatientInv, CopiesAreFresh, Fresh, EndMeant, SetWanted

LEMMA HandlerStepPatient ==
  ASSUME TypeOK, PatientInv, NEW h \in Handlers, HandlerStep(h)
  PROVE  PatientInv'
<1> DEFINE c == running[h].client
           d == running[h].draft
<1>1. c \in Clients /\ running[h] # Idle
  BY HandlerWaits
<1>2. Allowed(c, session[c], wanted[c], lastQuantity[c])
  BY <1>1, AllowedRows
<1>3. running[h].at \in Buttons => d = session[c] /\ d \in Draft
  BY WaitingType DEF PatientInv, CopiesAreFresh, Fresh
<1>a. Return(h) => StartWaiting(h, Idle)
  BY DEF Return, StartWaiting
<1>b. \A w, l : Allowed(c, Home, w, l) /\ Allowed(c, NoSession, w, l)
  BY ConstantsAssumption DEF Allowed
<1>4. ASSUME NEW s, SetSession(c, s), Allowed(c, s, wanted[c], lastQuantity[c]),
             Return(h), UNCHANGED <<wanted, lastQuantity>>
      PROVE  PatientInv'
  BY <1>1, <1>4, <1>a, WaiterWrite DEF SetSession, TypeOK
<1>5. ASSUME Return(h), UNCHANGED <<session, wanted, lastQuantity>>
      PROVE  PatientInv'
  BY <1>1, <1>2, <1>5, <1>a, WaiterWrite
<1>c. ASSUME NEW s \in {Home, NoSession}, SetSession(c, s), running[h].at \in Endings,
             EndMeant(h), NEW w, w = Idle \/ (w.at = "notify" /\ w.client = c),
             StartWaiting(h, w), UNCHANGED lastQuantity
      PROVE  PatientInv'
  <2>1. \A x \in Clients \ {c} : session'[x] = session[x] /\ wanted'[x] = wanted[x]
    BY <1>c, PatientEnds DEF SetSession, TypeOK
  <2>2. session'[c] = s
    BY <1>1, <1>c DEF SetSession, TypeOK
  <2>3. Allowed(c, session'[c], wanted'[c], lastQuantity[c])
    BY <1>b, <1>c, <2>2
  <2> QED BY <1>1, <1>c, <2>1, <2>3, WaiterWrite
<1>6. CASE FinishSkipComment(h)
  BY <1>2, <1>3, <1>4, <1>6, EditsStayAllowed DEF FinishSkipComment
<1>7. CASE FinishTelegramContact(h)
  BY <1>2, <1>3, <1>4, <1>7, EditsStayAllowed DEF FinishTelegramContact
<1>8. CASE FinishBack(h)
  BY <1>2, <1>3, <1>4, <1>5, <1>8, EditsStayAllowed DEF FinishBack
<1>9. CASE FinishConfirm(h)
  BY <1>4, <1>5, <1>9, <1>b DEF FinishConfirm
<1>10. CASE FinishCustomContact(h)
  BY <1>2, <1>3, <1>4, <1>10, EditsStayAllowed DEF FinishCustomContact
<1>11. ASSUME NEW field \in {"quantity", "comment", "contact"}, FinishEdit(h, field)
       PROVE  PatientInv'
  <2>1. d = session[c] /\ d \in Draft
    BY <1>1, <1>3, <1>11 DEF FinishEdit, EditButton
  <2>2. Allowed(c, [d EXCEPT !.step = field, !.editing = TRUE], wanted[c], lastQuantity[c])
    BY <1>2, <2>1, EditsStayAllowed
  <2> QED BY <1>4, <1>5, <1>11, <2>2 DEF FinishEdit
<1>12. CASE FinishCancel(h)
  BY <1>12, <1>a, <1>c DEF FinishCancel
<1>13. CASE ConfirmCreates(h)
  <2> DEFINE w == [at |-> "notify", client |-> c]
  <2>1. /\ SetSession(c, NoSession) /\ EndMeant(h) /\ StartWaiting(h, w)
        /\ running[h].at \in Endings /\ UNCHANGED lastQuantity
    BY <1>13 DEF ConfirmCreates, Confirms
  <2>2. w.at = "notify" /\ w.client = c
    OBVIOUS
  <2> HIDE DEF w
  <2> QED BY <1>c, <2>1, <2>2
<1>14. CASE ConfirmDuplicate(h)
  BY <1>14, <1>a, <1>c DEF ConfirmDuplicate, Confirms
<1>15. CASE ConfirmFails(h)
  BY <1>15, <1>5 DEF ConfirmFails
<1> QED
  BY <1>6, <1>7, <1>8, <1>9, <1>10, <1>11, <1>12, <1>13, <1>14, <1>15 DEF HandlerStep

LEMMA StepPatient ==
  ASSUME TypeOK, PatientInv, patient, [Next]_vars
  PROVE  PatientInv'
<1>1. CASE \E c \in Clients : ClientStep(c)
  BY <1>1, ClientStepPatient
<1>2. CASE \E h \in Handlers : HandlerStep(h)
  BY <1>2, HandlerStepPatient
<1>3. CASE Restart
  BY <1>3 DEF Restart, PatientInv, CopiesAreFresh, Fresh, OneUpdateEach, DraftIsWanted,
              DraftHoldsLastQuantity, HasDraft
<1>4. CASE UNCHANGED <<session, running, wanted, lastQuantity>>
  BY <1>4 DEF PatientInv, CopiesAreFresh, Fresh, OneUpdateEach, DraftIsWanted,
              DraftHoldsLastQuantity, HasDraft
<1> QED BY <1>1, <1>2, <1>3, <1>4 DEF Next, vars, AdminSetStatus, WebLead

LEMMA PatientInvHolds == Spec => [](patient => PatientInv)
<1>1. Init => PatientInv
  BY ConstantsAssumption
  DEF Init, PatientInv, CopiesAreFresh, Fresh, OneUpdateEach, DraftIsWanted,
      DraftHoldsLastQuantity, HasDraft
<1>2. ASSUME TypeOK, patient => PatientInv, [Next]_vars
      PROVE  (patient => PatientInv)'
  <2>1. patient' = patient
    BY <1>2 DEF Next, vars
  <2>2. CASE patient
    BY <1>2, <2>2, StepPatient
  <2>3. CASE ~patient
    BY <2>1, <2>3
  <2> QED BY <2>2, <2>3
<1> QED BY <1>1, <1>2, TypeCorrect, PTL DEF Spec

\* A draft a patient client has is one it began and has not ended since, and its
\* quantity is the last one the client entered for the product.
THEOREM DraftsAreTheirClientsHolds == Spec => []DraftsAreTheirClients
<1>1. (patient => PatientInv) => DraftsAreTheirClients
  BY DEF PatientInv, DraftsAreTheirClients
<1> QED BY <1>1, PatientInvHolds, PTL

------------------------------------------------------------------------------
(* The order a client wants stays in its session.                          *)

LEMMA ClientStepKeepsWanted ==
  ASSUME TypeOK, NEW c \in Clients, ClientStep(c), NEW x \in Clients, HoldsWanted(x)
  PROVE  HoldsWanted(x)'
<1>a. ASSUME NEW s, SetSession(c, s), HasDraft(c), s \in Draft,
             s.product = session[c].product, UNCHANGED wanted
      PROVE  HoldsWanted(x)'
  BY <1>a DEF SetSession, HoldsWanted, HasDraft, TypeOK
<1>b. ASSUME NEW s, SetSession(c, s), NEW p, SetWanted(c, p),
             p # NoProduct => s \in Draft /\ s.product = p
      PROVE  HoldsWanted(x)'
  BY <1>b DEF SetSession, SetWanted, HoldsWanted, HasDraft, TypeOK
<1>e. HasDraft(c) => session[c] \in Draft
  BY DEF HasDraft
<1>1. ASSUME NEW p \in Products, ChooseProduct(c, p) PROVE HoldsWanted(x)'
  <2>1. NewDraft(p) \in Draft /\ NewDraft(p).product = p
    BY ConstantsAssumption DEF NewDraft, Draft, Steps
  <2> QED BY <1>1, <1>b, <1>e, <2>1 DEF ChooseProduct
<1>2. ASSUME NEW q \in 0..MaxQuantity + 1, EnterQuantity(c, q) PROVE HoldsWanted(x)'
  <2>1. q \in 1..MaxQuantity
    BY <1>2, ConstantsAssumption DEF EnterQuantity, AcceptsQuantity
  <2>2. WithQuantity(session[c], q) \in Draft
        /\ WithQuantity(session[c], q).product = session[c].product
    BY <1>2, <1>e, <2>1, QuantityType DEF EnterQuantity, WithQuantity, ToConfirm, Draft
  <2> QED BY <1>2, <1>a, <2>2 DEF EnterQuantity
<1>c. HasDraft(c) => /\ ToConfirm(session[c]).product = session[c].product
                     /\ WithContact(session[c]).product = session[c].product
  BY <1>e DEF ToConfirm, WithContact, Draft
<1>3. CASE EnterComment(c)
  BY <1>3, <1>a, <1>c, <1>e, ConfirmedType DEF EnterComment
<1>4. CASE EnterContact(c)
  BY <1>4, <1>a, <1>c, <1>e, ConfirmedType DEF EnterContact
<1>5. CASE TypeBack(c)
  <2>1. [session[c] EXCEPT !.step = PreviousStep(session[c])].product = session[c].product
    BY <1>5, <1>e DEF TypeBack, Draft
  <2> QED BY <1>5, <1>a, <1>e, <2>1, PreviousStepType DEF TypeBack
<1>6. CASE TypeCancel(c)
  BY <1>6, <1>b DEF TypeCancel
<1>7. CASE GoHome(c)
  BY <1>7 DEF GoHome, SetSession, HoldsWanted, HasDraft, TypeOK
<1>8. CASE Expire(c)
  BY <1>8, <1>b DEF Expire
<1>9. CASE UNCHANGED <<session, wanted>>
  BY <1>9 DEF HoldsWanted, HasDraft
<1> QED
  BY <1>1, <1>2, <1>3, <1>4, <1>5, <1>6, <1>7, <1>8, <1>9
  DEF ClientStep, PressButton, PressEnding

\* A handler takes the order a client wants out of its session only as a button
\* of that very client.
LEMMA OnlyItsButtons ==
  ASSUME TypeOK, NEW h \in Handlers, HandlerStep(h), NEW x \in Clients,
         HoldsWanted(x), ~HoldsWanted(x)'
  PROVE  /\ running[h].at \in Buttons \cup Endings
         /\ running[h].client = x
         /\ running'[h] # running[h]
<1> DEFINE c == running[h].client
<1>1. c \in Clients
  BY HandlerWaits
<1>2. /\ UNCHANGED session \/ \E s : SetSession(c, s)
      /\ UNCHANGED wanted \/ SetWanted(c, NoProduct)
  BY DEF HandlerStep, FinishSkipComment, FinishTelegramContact, FinishCustomContact,
         FinishEdit, FinishBack, FinishCancel, ConfirmCreates, ConfirmDuplicate,
         ConfirmFails, FinishConfirm, EndMeant
<1>3. c = x
  BY <1>1, <1>2 DEF SetSession, SetWanted, HoldsWanted, HasDraft, TypeOK
<1>4. ~FinishConfirm(h)
  BY <1>1, <1>3 DEF FinishConfirm, SetSession, HoldsWanted, HasDraft, TypeOK
<1>5. \A field \in {"quantity", "comment", "contact"} :
        FinishEdit(h, field) => running[h].at \in Buttons
  BY EditWaits
<1>6. /\ running[h].at \in Buttons \cup Endings
      /\ Return(h) \/ StartWaiting(h, [at |-> "notify", client |-> c])
  BY <1>4, <1>5
  DEF HandlerStep, FinishSkipComment, FinishTelegramContact, FinishCustomContact,
      FinishEdit, FinishBack, FinishCancel, Confirms, ConfirmCreates, ConfirmDuplicate,
      ConfirmFails
<1>7. running'[h].at \notin Buttons \cup Endings
  BY <1>6 DEF Return, StartWaiting, TypeOK
<1> QED BY <1>3, <1>6, <1>7

\* And of a patient client no handler takes it at all.
LEMMA PatientKeepsWanted ==
  ASSUME TypeOK, PatientInv, NEW h \in Handlers, HandlerStep(h), NEW x \in Clients,
         HoldsWanted(x)
  PROVE  HoldsWanted(x)'
<1> DEFINE c == running[h].client
           d == running[h].draft
<1>1. c \in Clients /\ running[h] # Idle
  BY HandlerWaits
<1>2. running[h].at \in Buttons => d = session[c] /\ d \in Draft
  BY WaitingType DEF PatientInv, CopiesAreFresh, Fresh
<1>a. ASSUME NEW s, SetSession(c, s), d = session[c], d \in Draft, s \in Draft,
             s.product = d.product, UNCHANGED wanted
      PROVE  HoldsWanted(x)'
  BY <1>1, <1>a DEF SetSession, HoldsWanted, HasDraft, TypeOK
<1>b. ASSUME NEW s, SetSession(c, s), running[h].at \in Endings, EndMeant(h)
      PROVE  HoldsWanted(x)'
  BY <1>1, <1>b, PatientEnds DEF SetSession, HoldsWanted, HasDraft, TypeOK
<1>c. d \in Draft => /\ ToConfirm(d).product = d.product
                     /\ WithContact(d).product = d.product
                     /\ \A f : [d EXCEPT !.step = f].product = d.product
                     /\ \A f, b : [d EXCEPT !.step = f, !.editing = b].product = d.product
  BY DEF ToConfirm, WithContact, Draft
<1>3. CASE UNCHANGED <<session, wanted>>
  BY <1>3 DEF HoldsWanted, HasDraft
<1>4. CASE FinishSkipComment(h)
  BY <1>4, <1>2, <1>a, <1>c, ConfirmedType DEF FinishSkipComment
<1>5. CASE FinishTelegramContact(h)
  BY <1>5, <1>2, <1>a, <1>c, ConfirmedType DEF FinishTelegramContact
<1>6. CASE FinishCustomContact(h)
  BY <1>6, <1>2, <1>a, <1>c, CustomContactType DEF FinishCustomContact
<1>7. CASE FinishBack(h)
  BY <1>7, <1>2, <1>3, <1>a, <1>c, PreviousStepType DEF FinishBack
<1>8. ASSUME NEW field \in {"quantity", "comment", "contact"}, FinishEdit(h, field)
      PROVE  HoldsWanted(x)'
  <2>1. d = session[c] /\ d \in Draft
    BY <1>8, <1>2, EditWaits
  <2>2. [d EXCEPT !.step = field, !.editing = TRUE] \in Draft
    BY <2>1, EditType
  <2> QED BY <1>8, <1>3, <1>a, <1>c, <2>1, <2>2 DEF FinishEdit
<1>9. CASE FinishCancel(h)
  BY <1>9, <1>b DEF FinishCancel
<1>10. CASE ConfirmCreates(h)
  BY <1>10, <1>b DEF ConfirmCreates, Confirms
<1>11. CASE ConfirmDuplicate(h)
  BY <1>11, <1>b DEF ConfirmDuplicate, Confirms
<1>12. CASE ConfirmFails(h)
  BY <1>12, <1>3 DEF ConfirmFails
<1>13. CASE FinishConfirm(h)
  BY <1>13, <1>1 DEF FinishConfirm, SetSession, HoldsWanted, HasDraft, TypeOK
<1> QED
  BY <1>4, <1>5, <1>6, <1>7, <1>8, <1>9, <1>10, <1>11, <1>12, <1>13 DEF HandlerStep

\* The order a client wants leaves its session only by a late button of that
\* client, and never while the client waits for each answer.
THEOREM WantedDraftSurvivesHolds == Spec => WantedDraftSurvives
<1> DEFINE Lost(c) ==
      HoldsWanted(c) /\ ~HoldsWanted(c)' =>
        /\ ~patient
        /\ \E h \in Handlers :
             /\ running[h].at \in Buttons \cup Endings
             /\ running[h].client = c
             /\ running'[h] # running[h]
<1>1. ASSUME TypeOK, patient => PatientInv, [Next]_vars, NEW c \in Clients
      PROVE  Lost(c)
  <2> SUFFICES ASSUME HoldsWanted(c), ~HoldsWanted(c)' PROVE Lost(c)
    OBVIOUS
  <2>1. ~UNCHANGED <<session, wanted>>
    BY DEF HoldsWanted, HasDraft
  <2>2. ~\E x \in Clients : ClientStep(x)
    BY <1>1, ClientStepKeepsWanted
  <2>3. PICK h \in Handlers : HandlerStep(h)
    BY <1>1, <2>1, <2>2 DEF Next, vars, AdminSetStatus, WebLead, Restart
  <2>4. ~patient
    BY <1>1, <2>3, PatientKeepsWanted
  <2> QED BY <1>1, <2>3, <2>4, OnlyItsButtons
<1>2. TypeOK /\ (patient => PatientInv) /\ [Next]_vars =>
        [\A c \in Clients : Lost(c)]_vars
  BY <1>1
<1> QED
  BY <1>2, TypeCorrect, PatientInvHolds, PTL DEF Spec, WantedDraftSurvives

(***************************************************************************)
(* LeadFlow implements LeadSlots: seen through the open lead of each slot, *)
(* every step of the request flow is a step of the slots or no step.       *)
(***************************************************************************)
------------------------------------------------------------------------------
(* The holder of one slot, as a function of the table alone.               *)

OpenIn(L, c, p) ==
  {i \in 1..Len(L) : L[i].client = c /\ L[i].product = p /\ IsOpen(L[i].status)}

HolderOf(S) == IF S = {} THEN 0 ELSE CHOOSE i \in S : TRUE

LEMMA OnlyHolder ==
  ASSUME NEW S, NEW i, S = {i}
  PROVE  HolderOf(S) = i
BY DEF HolderOf

LEMMA HolderIs ==
  /\ Holder = [s \in Owners \X Products |-> HolderOf(OpenIn(leads, s[1], s[2]))]
  /\ Holder' = [s \in Owners \X Products |-> HolderOf(OpenIn(leads', s[1], s[2]))]
BY DEF Holder, OpenLeads, OpenIn, HolderOf, IsOpen

\* What a step changes when only the open leads of slot s change.
LEMMA OneSlotChanges ==
  ASSUME NEW s \in Owners \X Products, NEW before, NEW after,
         HolderOf(OpenIn(leads, s[1], s[2])) = before,
         HolderOf(OpenIn(leads', s[1], s[2])) = after,
         \A t \in Owners \X Products : t # s =>
           OpenIn(leads', t[1], t[2]) = OpenIn(leads, t[1], t[2])
  PROVE  Holder[s] = before /\ Holder'[s] = after /\ Holder' = [Holder EXCEPT ![s] = after]
BY HolderIs

\* A slot without an open lead is free; one with an open lead is held by it.
LEMMA FreeOrHeld ==
  ASSUME NEW L, NEW s, NEW i, OpenIn(L, s[1], s[2]) \subseteq {i}
  PROVE  HolderOf(OpenIn(L, s[1], s[2])) =
           IF i \in OpenIn(L, s[1], s[2]) THEN i ELSE 0
<1>1. OpenIn(L, s[1], s[2]) = {} \/ OpenIn(L, s[1], s[2]) = {i}
  OBVIOUS
<1> QED BY <1>1, OnlyHolder DEF HolderOf

------------------------------------------------------------------------------
(* Steps.                                                                  *)

LEMMA InsertAcquires ==
  ASSUME TypeOK, NEW c \in Owners, NEW p \in Products, NEW q, NEW k,
         InsertLead(c, p, q, k)
  PROVE  Slots!Next
<1> DEFINE n == Len(leads) + 1
           s == <<c, p>>
<1>1. /\ Len(leads') = n
      /\ \A i \in 1..Len(leads) : leads'[i] = leads[i]
      /\ leads'[n] = [client |-> c, product |-> p, quantity |-> q,
                      contact |-> k, status |-> "new"]
  BY InsertedRows, Zenon
<1>2. leads'[n].client = c /\ leads'[n].product = p /\ leads'[n].status = "new"
  BY <1>1
<1>3. n \in 1..MaxLeads /\ Len(leads) \in Nat /\ n \in Nat
  BY ConstantsAssumption DEF TypeOK, InsertLead
<1>4. OpenIn(leads, c, p) = {}
  <2>1. ~IndexConflict(n, c, p, "new") /\ "new" \in Statuses /\ IsOpen("new")
    BY DEF InsertLead, Statuses, IsOpen
  <2>2. \A j \in 1..Len(leads) : j # n
    BY <1>3
  <2> QED BY <1>3, <2>1, <2>2, NoConflictNoOpen DEF OpenIn
<1>5. \A i \in 1..n : i = n \/ i \in 1..Len(leads)
  BY <1>3
<1>6. n \in 1..n /\ n \notin 1..Len(leads) /\ \A i \in 1..Len(leads) : i \in 1..n
  BY <1>3
<1> HIDE DEF n
<1>7. OpenIn(leads', c, p) = {n}
  BY <1>1, <1>2, <1>4, <1>5, <1>6 DEF OpenIn, IsOpen
<1>8. \A t \in Owners \X Products : t # s =>
        OpenIn(leads', t[1], t[2]) = OpenIn(leads, t[1], t[2])
  <2> SUFFICES ASSUME NEW x \in Owners, NEW y \in Products, x # c \/ y # p
               PROVE  OpenIn(leads', x, y) = OpenIn(leads, x, y)
    OBVIOUS
  <2> QED BY <1>1, <1>2, <1>5, <1>6 DEF OpenIn
<1>9. s \in Owners \X Products /\ s[1] = c /\ s[2] = p
  OBVIOUS
<1>10. Holder[s] = 0 /\ Holder'[s] = n /\ Holder' = [Holder EXCEPT ![s] = n]
  BY <1>4, <1>7, <1>8, <1>9, OneSlotChanges, OnlyHolder DEF HolderOf
<1> QED BY <1>3, <1>9, <1>10 DEF Slots!Next, Slots!Acquire

LEMMA UpdateMoves ==
  ASSUME TypeOK, RowsDisagree, NEW i \in 1..Len(leads), NEW st \in Statuses,
         AdminSetStatus(i, st)
  PROVE  Slots!Next \/ UNCHANGED Holder
<1> DEFINE s == <<leads[i].client, leads[i].product>>
<1>1. s \in Owners \X Products /\ i \in 1..MaxLeads /\ i \in Nat \ {0}
  <2>1. leads[i] \in Lead
    BY DEF TypeOK
  <2> QED BY <2>1, ConstantsAssumption DEF Lead, TypeOK
<1>2. /\ Len(leads') = Len(leads)
      /\ \A j \in 1..Len(leads) :
           /\ leads'[j].client = leads[j].client
           /\ leads'[j].product = leads[j].product
           /\ leads'[j].status = IF j = i THEN st ELSE leads[j].status
  BY UpdatedRows
<1>3. \A t \in Owners \X Products : t # s =>
        OpenIn(leads', t[1], t[2]) = OpenIn(leads, t[1], t[2])
  <2> SUFFICES ASSUME NEW x \in Owners, NEW y \in Products,
                      x # leads[i].client \/ y # leads[i].product
               PROVE  OpenIn(leads', x, y) = OpenIn(leads, x, y)
    OBVIOUS
  <2> QED BY <1>2 DEF OpenIn
<1>4. /\ i \in OpenIn(leads, s[1], s[2]) <=> IsOpen(leads[i].status)
      /\ i \in OpenIn(leads', s[1], s[2]) <=> IsOpen(st)
  BY <1>2 DEF OpenIn
<1>5. \A j \in 1..Len(leads) : j # i =>
        (j \in OpenIn(leads', s[1], s[2]) <=> j \in OpenIn(leads, s[1], s[2]))
  BY <1>2 DEF OpenIn
<1>6. CASE ~IsOpen(leads[i].status) /\ ~IsOpen(st)
  <2>1. OpenIn(leads', s[1], s[2]) = OpenIn(leads, s[1], s[2])
    BY <1>2, <1>4, <1>5, <1>6 DEF OpenIn
  <2> QED BY <1>3, <2>1, HolderIs
<1>7. CASE IsOpen(leads[i].status) \/ IsOpen(st)
  <2>1. OpenIn(leads, s[1], s[2]) \subseteq {i}
    <3> SUFFICES ASSUME NEW j \in OpenIn(leads, s[1], s[2]), j # i PROVE FALSE
      OBVIOUS
    <3>1. /\ j \in 1..Len(leads) /\ leads[j].client = leads[i].client
          /\ leads[j].product = leads[i].product /\ IsOpen(leads[j].status)
      BY DEF OpenIn
    <3>2. CASE IsOpen(leads[i].status)
      BY <3>1, <3>2 DEF RowsDisagree
    <3>3. CASE IsOpen(st)
      BY <1>1, <3>1, <3>3, NoConflictNoOpen DEF AdminSetStatus
    <3> QED BY <1>7, <3>2, <3>3
  <2>2. OpenIn(leads', s[1], s[2]) \subseteq {i}
    BY <1>2, <1>5, <2>1 DEF OpenIn
  <2>3. /\ Holder[s] = IF IsOpen(leads[i].status) THEN i ELSE 0
        /\ Holder'[s] = IF IsOpen(st) THEN i ELSE 0
        /\ Holder' = [Holder EXCEPT ![s] = IF IsOpen(st) THEN i ELSE 0]
    <3>1. /\ HolderOf(OpenIn(leads, s[1], s[2])) = IF IsOpen(leads[i].status) THEN i ELSE 0
          /\ HolderOf(OpenIn(leads', s[1], s[2])) = IF IsOpen(st) THEN i ELSE 0
      BY <1>4, <2>1, <2>2, FreeOrHeld
    <3> HIDE DEF s
    <3> QED BY <1>1, <1>3, <3>1, OneSlotChanges
  <2> HIDE DEF s
  <2>4. CASE IsOpen(leads[i].status) /\ IsOpen(st)
    <3>1. Holder' = Holder
      BY <2>3, <2>4, <1>1, HolderIs
    <3> QED BY <3>1
  <2>5. CASE IsOpen(leads[i].status) /\ ~IsOpen(st)
    BY <1>1, <2>3, <2>5 DEF Slots!Next, Slots!Release
  <2>6. CASE ~IsOpen(leads[i].status) /\ IsOpen(st)
    BY <1>1, <2>3, <2>6 DEF Slots!Next, Slots!Acquire
  <2> QED BY <1>7, <2>4, <2>5, <2>6
<1> QED BY <1>6, <1>7

LEMMA StepOfSlots ==
  ASSUME TypeOK, RowsDisagree, [Next]_vars
  PROVE  Slots!Next \/ UNCHANGED Holder
<1>1. CASE \E h \in Handlers : ConfirmCreates(h)
  <2>1. PICK h \in Handlers : ConfirmCreates(h)
    BY <1>1
  <2>2. running[h].client \in Owners /\ session[running[h].client].product \in Products
    BY <2>1, WaitingType DEF ConfirmCreates, Confirms, HasDraft, Draft, Owners
  <2> QED BY <2>1, <2>2, InsertAcquires DEF ConfirmCreates
<1>2. CASE \E p \in Products, q \in 1..MaxQuantity : WebLead(p, q)
  BY <1>2, InsertAcquires DEF WebLead, Owners
<1>3. CASE \E i \in 1..Len(leads), s \in AdminTargets : AdminSetStatus(i, s)
  BY <1>3, UpdateMoves, ConstantsAssumption
<1>4. CASE UNCHANGED leads
  BY <1>4, HolderIs
<1> QED
  BY <1>1, <1>2, <1>3, <1>4
  DEF Next, vars, ClientStep, HandlerStep, ChooseProduct, EnterQuantity,
      EnterComment, EnterContact, TypeBack, TypeCancel, GoHome, Expire, PressButton,
      PressEnding, FinishSkipComment, FinishTelegramContact, FinishCustomContact,
      FinishEdit, FinishBack, FinishCancel, ConfirmDuplicate, ConfirmFails,
      FinishConfirm, Restart

\* RowsDisagree is invariant.
LEMMA RowsDisagreeHolds == Spec => []RowsDisagree
<1>1. Init => RowsDisagree
  BY DEF Init, RowsDisagree
<1>2. TypeOK /\ RowsDisagree /\ [Next]_vars => RowsDisagree'
  BY StepOneOpen
<1> QED BY <1>1, <1>2, TypeCorrect, PTL DEF Spec

\* The request flow, the web form and the admin together keep the promise of
\* LeadSlots: a slot passes from one open lead to another only by being free.
THEOREM FlowImplementsSlots == Spec => ImplementsSlots
<1>1. Init => Slots!Init
  <2>1. ASSUME leads = <<>>, NEW c, NEW p PROVE HolderOf(OpenIn(leads, c, p)) = 0
    BY <2>1 DEF HolderOf, OpenIn
  <2> QED BY <2>1, HolderIs DEF Init, Slots!Init
<1>2. TypeOK /\ RowsDisagree /\ [Next]_vars => [Slots!Next]_Holder
  BY StepOfSlots
<1> QED
  BY <1>1, <1>2, TypeCorrect, RowsDisagreeHolds, PTL
  DEF Spec, ImplementsSlots, Slots!Spec
==============================================================================
