---------------------------- MODULE Accounts_proofs ----------------------------
(***************************************************************************)
(* Theorems about Accounts, for any number of clients, of handlers and of  *)
(* presses under way at once, and any bound on orders.                     *)
(***************************************************************************)
EXTENDS Accounts, FiniteSetTheorems, TLAPS

------------------------------------------------------------------------------
(* Type correctness.  An admitted button is of a known client, and a       *)
(* confirmation leaves room for its order.                                 *)

AdmittedFit ==
  /\ \A h \in Handlers : running[h] # None => user[running[h].who] # "absent"
  /\ \A c \in Clients : orders[c] + Cardinality(Admitted(c)) <= MaxOrders

TypeInv == TypeOK /\ AdmittedFit

LEMMA AdmittedFinite ==
  ASSUME NEW c
  PROVE  IsFiniteSet(Admitted(c)) /\ Cardinality(Admitted(c)) \in Nat
<1>1. Admitted(c) \subseteq Handlers
  BY DEF Admitted, UnderWay
<1> QED BY <1>1, AccountsAssumption, FS_Subset, FS_CardinalityType

\* What a handler has admitted is a button of a client, and no other changes when
\* it is admitted or ends.
LEMMA AdmissionFields ==
  /\ None \notin Admission
  /\ \A a \in Admission : a.kind \in {"confirm", "edit"} /\ a.who \in Clients
  /\ \A k \in {"confirm", "edit"}, c \in Clients :
       /\ [kind |-> k, who |-> c] \in Admission
       /\ [kind |-> k, who |-> c].kind = k /\ [kind |-> k, who |-> c].who = c
BY AccountsAssumption DEF Admission

LEMMA Running ==
  ASSUME TypeInv, NEW h \in Handlers, NEW a \in Admission \cup {None},
         running' = [running EXCEPT ![h] = a]
  PROVE  /\ running' \in [Handlers -> Admission \cup {None}]
         /\ \A g \in Handlers : running'[g] = IF g = h THEN a ELSE running[g]
         /\ \A g \in Handlers : running[g] # None =>
              running[g] \in Admission /\ running[g].who \in Clients
BY AdmissionFields DEF TypeInv, TypeOK

\* Every change of the users table leaves the row of a known client.
LEMMA RowsStay ==
  ASSUME TypeInv, user' \in [Clients -> States], UNCHANGED client,
         \A c \in Clients : user[c] # "absent" => user'[c] # "absent"
  PROVE  /\ AdmittedFit'
         /\ \A c \in Clients : draft'[c] \/ orders'[c] > 0 => user'[c] # "absent"
<1>1. \A h \in Handlers : running[h] # None => running[h].who \in Clients
  BY AdmissionFields DEF TypeInv, TypeOK
<1>2. \A c \in Clients : Admitted(c)' = Admitted(c)
  BY DEF Admitted, UnderWay, client
<1> QED BY <1>1, <1>2 DEF TypeInv, TypeOK, AdmittedFit, client

LEMMA SetUserType ==
  ASSUME TypeInv, NEW c \in Clients, NEW s \in States, SetUser(c, s),
         user[c] # "absent" => s # "absent"
  PROVE  /\ user' \in [Clients -> States]
         /\ \A d \in Clients : user[d] # "absent" => user'[d] # "absent"
BY DEF SetUser, TypeInv, TypeOK

LEMMA UpsertType ==
  ASSUME TypeInv, NEW c \in Clients, Upsert(c)
  PROVE  /\ user' \in [Clients -> States]
         /\ user'[c] # "absent"
         /\ \A d \in Clients : user[d] # "absent" => user'[d] = user[d]
BY DEF Upsert, SetUser, TypeInv, TypeOK, States

LEMMA ClientStepType ==
  ASSUME TypeInv, NEW c \in Clients, ClientStep(c)
  PROVE  TypeInv'
<1> USE DEF dashboard
<1>1. CASE Greet(c)
  BY <1>1, UpsertType, RowsStay DEF Greet, TypeInv, TypeOK, client
<1>2. CASE Begin(c)
  <2>1. UNCHANGED <<orders, running>> /\ \A d \in Clients : Admitted(d)' = Admitted(d)
    BY <1>2 DEF Begin, Admitted, UnderWay
  <2>2. \A h \in Handlers : running[h] # None => running[h].who \in Clients
    BY AdmissionFields DEF TypeInv, TypeOK
  <2> QED BY <1>2, <2>1, <2>2, UpsertType DEF Begin, TypeInv, TypeOK, AdmittedFit
<1>3. CASE \E h \in Handlers : PressConfirm(h, c) \/ PressEdit(h, c)
  <2>1. PICK h \in Handlers, k \in {"confirm", "edit"} :
          Admit(h, k, c) /\ (k = "confirm" => orders[c] + Cardinality(Admitted(c)) < MaxOrders)
    BY <1>3 DEF PressConfirm, PressEdit
  <2> DEFINE a == [kind |-> k, who |-> c]
  <2>2. a \in Admission /\ a # None /\ a.kind = k /\ a.who = c
    BY AdmissionFields
  <2>a. running' = [running EXCEPT ![h] = a] /\ running[h] = None
    BY <2>1 DEF Admit
  <2> HIDE DEF a
  <2>3. /\ running' \in [Handlers -> Admission \cup {None}] /\ running[h] = None
        /\ \A g \in Handlers : running'[g] = IF g = h THEN a ELSE running[g]
        /\ \A g \in Handlers : running[g] # None => running[g].who \in Clients
    BY <2>2, <2>a, Running
  <2>4. \A d \in Clients : orders[d] + Cardinality(Admitted(d)') <= MaxOrders
    <3> SUFFICES ASSUME NEW d \in Clients
                 PROVE  orders[d] + Cardinality(Admitted(d)') <= MaxOrders
      OBVIOUS
    <3>1. CASE d = c /\ k = "confirm"
      <4>1. Admitted(d)' = Admitted(d) \cup {h} /\ h \notin Admitted(d)
        BY <2>2, <2>3, <3>1 DEF Admitted, UnderWay
      <4>2. Cardinality(Admitted(d)') = Cardinality(Admitted(d)) + 1
        <5>1. IsFiniteSet(Admitted(d)) /\ h \notin Admitted(d)
          BY <4>1, AdmittedFinite
        <5>2. Cardinality(Admitted(d) \cup {h}) = Cardinality(Admitted(d)) + 1
          BY <5>1, FS_AddElement
        <5> QED BY <4>1, <5>2, Zenon
      <4>3. orders[d] \in Nat /\ MaxOrders \in Nat /\ Cardinality(Admitted(d)) \in Nat
        BY AdmittedFinite, AccountsAssumption DEF TypeInv, TypeOK
      <4> QED BY <2>1, <3>1, <4>2, <4>3
    <3>2. CASE ~(d = c /\ k = "confirm")
      <4>1. Admitted(d)' = Admitted(d)
        BY <2>2, <2>3, <3>2 DEF Admitted, UnderWay
      <4> QED BY <4>1 DEF TypeInv, AdmittedFit
    <3> QED BY <3>1, <3>2
  <2>5. UNCHANGED <<draft, orders, page, press, careful, fresh, asked>>
    BY <2>1 DEF Admit
  <2>6. user' \in [Clients -> States] /\ user'[c] # "absent"
        /\ \A d \in Clients : user[d] # "absent" => user'[d] = user[d]
    BY <2>1, UpsertType DEF Admit
  <2>7. AdmittedFit'
    BY <2>2, <2>3, <2>4, <2>5, <2>6 DEF TypeInv, AdmittedFit
  <2>8. TypeOK'
    BY <2>3, <2>5, <2>6 DEF TypeInv, TypeOK
  <2> QED BY <2>7, <2>8 DEF TypeInv
<1>4. CASE DropDraft(c)
  <2>1. UNCHANGED <<user, orders, running>> /\ \A d \in Clients : Admitted(d)' = Admitted(d)
    BY <1>4 DEF DropDraft, Admitted, UnderWay
  <2> QED BY <1>4, <2>1 DEF DropDraft, TypeInv, TypeOK, AdmittedFit
<1> QED BY <1>1, <1>2, <1>3, <1>4 DEF ClientStep

LEMMA FinishConfirmType ==
  ASSUME TypeInv, NEW h \in Handlers, FinishConfirm(h)
  PROVE  TypeInv'
<1>1. PICK c \in Clients : c = running[h].who /\ user[c] # "absent" /\ h \in Admitted(c)
  BY AdmissionFields DEF FinishConfirm, Ends, TypeInv, TypeOK, AdmittedFit, Admitted, UnderWay
<1>2. /\ running' \in [Handlers -> Admission \cup {None}]
      /\ \A g \in Handlers : running'[g] = IF g = h THEN None ELSE running[g]
  BY Running DEF FinishConfirm, Ends
<1>3. Admitted(c)' = Admitted(c) \ {h}
  BY <1>2 DEF Admitted, UnderWay
<1>4. \A d \in Clients \ {c} : Admitted(d)' = Admitted(d)
  BY <1>1, <1>2 DEF Admitted, UnderWay
<1>5. Cardinality(Admitted(c)') = Cardinality(Admitted(c)) - 1
  <2>1. IsFiniteSet(Admitted(c)) /\ h \in Admitted(c)
    BY <1>1, AdmittedFinite
  <2>2. Cardinality(Admitted(c) \ {h}) = Cardinality(Admitted(c)) - 1
    BY <2>1, FS_RemoveElement
  <2> QED BY <1>3, <2>2, Zenon
<1>6. \A d \in Clients : /\ orders[d] \in Nat /\ Cardinality(Admitted(d)) \in Nat
                          /\ orders[d] + Cardinality(Admitted(d)) <= MaxOrders
  BY AdmittedFinite DEF TypeInv, TypeOK, AdmittedFit
<1>7. Cardinality(Admitted(c)') \in Nat
  <2>1. IsFiniteSet(Admitted(c) \ {h})
    BY AdmittedFinite, FS_Subset
  <2> QED BY <1>3, <2>1, FS_CardinalityType
<1>8. /\ orders' \in [Clients -> Nat] /\ draft' \in [Clients -> BOOLEAN]
      /\ \A d \in Clients \ {c} : orders'[d] = orders[d] /\ draft'[d] = draft[d]
      /\ orders'[c] \in {orders[c], orders[c] + 1}
  <2>1. draft \in [Clients -> BOOLEAN] /\ orders \in [Clients -> Nat]
    BY AccountsAssumption DEF TypeInv, TypeOK
  <2>2. \/ /\ draft' = [draft EXCEPT ![c] = FALSE]
           /\ orders' = [orders EXCEPT ![c] = @ + 1]
        \/ UNCHANGED <<draft, orders>>
    BY <1>1 DEF FinishConfirm
  <2>3. /\ draft' \in [Clients -> BOOLEAN]
        /\ \A d \in Clients \ {c} : orders'[d] = orders[d] /\ draft'[d] = draft[d]
    BY <2>1, <2>2
  <2>4. orders' \in [Clients -> Nat] /\ orders'[c] \in {orders[c], orders[c] + 1}
    BY <2>1, <2>2
  <2> QED BY <2>3, <2>4
<1>9. \A d \in Clients : /\ orders'[d] + Cardinality(Admitted(d)') <= MaxOrders
                          /\ orders'[d] \in 0..MaxOrders
  <2>1. MaxOrders \in Nat
    BY AccountsAssumption
  <2>2. /\ orders'[c] + Cardinality(Admitted(c)') <= MaxOrders
        /\ orders'[c] \in 0..MaxOrders
    BY <1>1, <1>5, <1>6, <1>7, <1>8, <2>1
  <2>3. \A d \in Clients \ {c} : /\ orders'[d] + Cardinality(Admitted(d)') <= MaxOrders
                                  /\ orders'[d] \in 0..MaxOrders
    BY <1>4, <1>6, <1>8, <2>1
  <2> QED BY <2>2, <2>3
<1>10. UNCHANGED <<user, page, press, careful, fresh, asked>>
  BY DEF FinishConfirm, Ends, dashboard
<1>11. orders' \in [Clients -> 0..MaxOrders]
  BY <1>8, <1>9
<1>12. \A d \in Clients : draft'[d] \/ orders'[d] > 0 => user[d] # "absent"
  BY <1>1, <1>8 DEF TypeInv, TypeOK
<1>13. TypeOK'
  BY <1>2, <1>8, <1>10, <1>11, <1>12 DEF TypeInv, TypeOK
<1>14. AdmittedFit'
  BY <1>2, <1>9, <1>10 DEF TypeInv, AdmittedFit
<1> QED BY <1>13, <1>14 DEF TypeInv

LEMMA FinishEditType ==
  ASSUME TypeInv, NEW h \in Handlers, FinishEdit(h)
  PROVE  TypeInv'
<1>1. PICK c \in Clients :
        c = running[h].who /\ user[c] # "absent" /\ h \notin Admitted(c)
  BY AdmissionFields DEF FinishEdit, Ends, TypeInv, TypeOK, AdmittedFit, Admitted
<1>2. /\ running' \in [Handlers -> Admission \cup {None}]
      /\ \A g \in Handlers : running'[g] = IF g = h THEN None ELSE running[g]
  BY Running DEF FinishEdit, Ends
<1>3. \A d \in Clients : Admitted(d)' = Admitted(d)
  BY <1>1, <1>2 DEF FinishEdit, Ends, Admitted, UnderWay
<1>4. UNCHANGED <<user, orders, page, press, careful, fresh, asked>>
  BY DEF FinishEdit, Ends, dashboard
<1>5. /\ draft' \in [Clients -> BOOLEAN]
      /\ \A d \in Clients : draft'[d] => draft[d] \/ d = c
  BY <1>1 DEF FinishEdit, TypeInv, TypeOK
<1>6. AdmittedFit'
  BY <1>2, <1>3, <1>4 DEF TypeInv, AdmittedFit
<1>7. TypeOK'
  BY <1>1, <1>2, <1>4, <1>5 DEF TypeInv, TypeOK
<1> QED BY <1>6, <1>7 DEF TypeInv

\* A press of the button, and what becomes of it.
LEMMA PressType ==
  ASSUME TypeInv, NEW k \in Presses
  PROVE  /\ [press EXCEPT ![k] = None] \in [Presses -> Press \cup {None}]
         /\ \A c \in Clients :
              [press EXCEPT ![k] = [at |-> "sent", who |-> c]] \in [Presses -> Press \cup {None}]
         /\ press[k] # None =>
              /\ press[k].who \in Clients /\ press[k].at \in {"sent", "adrift", "done"}
              /\ \A a \in {"adrift", "done"} :
                   [press EXCEPT ![k].at = a] \in [Presses -> Press \cup {None}]
<1>1. press \in [Presses -> Press \cup {None}]
  BY DEF TypeInv, TypeOK
<1>2. press[k] # None =>
        /\ press[k] \in Press
        /\ \A a \in {"adrift", "done"} : [press[k] EXCEPT !.at = a] \in Press
  BY <1>1 DEF Press
<1>3. \A c \in Clients : [at |-> "sent", who |-> c] \in Press
  BY DEF Press
<1> QED BY <1>1, <1>2, <1>3 DEF Press

LEMMA ToggledType == \A s : Toggled(s) \in {"active", "blocked"}
BY DEF Toggled

LEMMA PageStepType ==
  ASSUME TypeInv, PageStep
  PROVE  TypeInv'
<1> USE DEF client
<1>1. CASE Load
  BY <1>1, RowsStay DEF Load, TypeInv, TypeOK
<1>2. ASSUME NEW k \in Presses, NEW c \in Clients, PressButton(k, c)
      PROVE  TypeInv'
  <2>1. asked' \in [Clients -> {"nothing", "active", "blocked"}]
    BY <1>2, ToggledType DEF PressButton, TypeInv, TypeOK
  <2> QED BY <1>2, <2>1, PressType, RowsStay DEF PressButton, TypeInv, TypeOK
<1>3. ASSUME NEW k \in Presses, Toggle(k)
      PROVE  TypeInv'
  <2> DEFINE c == press[k].who
  <2>1. c \in Clients /\ SetUser(c, Toggled(user[c]))
    BY <1>3, PressType DEF Toggle
  <2>2. /\ user' \in [Clients -> States]
        /\ \A d \in Clients : user[d] # "absent" => user'[d] # "absent"
    BY <2>1, SetUserType, ToggledType DEF States
  <2>3. /\ press' \in [Presses -> Press \cup {None}]
        /\ asked' \in [Clients -> {"nothing", "active", "blocked"}]
        /\ fresh' \in BOOLEAN
    <3>1. /\ press' = [press EXCEPT ![k].at = "done"] \/ press' = [press EXCEPT ![k] = None]
          /\ fresh' = fresh \/ fresh' = FALSE
          /\ asked' = asked \/ asked' = [asked EXCEPT ![c] = "nothing"]
      BY <1>3 DEF Toggle
    <3>2. press' \in [Presses -> Press \cup {None}]
      BY <1>3, <3>1, PressType DEF Toggle
    <3> QED BY ONLY <2>1, <3>1, <3>2, TypeInv DEF TypeInv, TypeOK
  <2> QED BY <1>3, <2>2, <2>3, RowsStay DEF Toggle, TypeInv, TypeOK
<1>4. ASSUME NEW k \in Presses, Answered(k)
      PROVE  TypeInv'
  BY <1>4, PressType, RowsStay DEF Answered, TypeInv, TypeOK
<1>5. ASSUME NEW k \in Presses, Lose(k)
      PROVE  TypeInv'
  <2>1. press' \in [Presses -> Press \cup {None}]
    BY <1>5, PressType DEF Lose
  <2>2. asked' \in [Clients -> {"nothing", "active", "blocked"}]
    BY <1>5, PressType DEF Lose, TypeInv, TypeOK
  <2> QED BY <1>5, <2>1, <2>2, RowsStay DEF Lose, TypeInv, TypeOK
<1>6. ASSUME NEW k \in Presses, Vanish(k)
      PROVE  TypeInv'
  BY <1>6, PressType, RowsStay DEF Vanish, TypeInv, TypeOK
<1> QED BY <1>1, <1>2, <1>3, <1>4, <1>5, <1>6 DEF PageStep

LEMMA CommandType ==
  ASSUME TypeInv, NEW c \in Clients, NEW s \in {"active", "blocked"}, Command(c, s)
  PROVE  TypeInv'
<1>1. /\ user' \in [Clients -> States]
      /\ \A d \in Clients : user[d] # "absent" => user'[d] # "absent"
  BY SetUserType DEF Command, States
<1>2. asked' \in [Clients -> {"nothing", "active", "blocked"}]
  BY DEF Command, TypeInv, TypeOK
<1> QED BY <1>1, <1>2, RowsStay DEF Command, TypeInv, TypeOK, client

LEMMA InitType == Init => TypeInv
<1> SUFFICES ASSUME Init PROVE TypeInv
  OBVIOUS
<1>1. TypeOK
  BY AccountsAssumption DEF Init, TypeOK, States
<1>2. \A c \in Clients : Admitted(c) = {}
  BY DEF Init, Admitted, UnderWay
<1>3. \A c \in Clients : orders[c] + Cardinality(Admitted(c)) <= MaxOrders
  BY <1>2, FS_EmptySet, AccountsAssumption DEF Init
<1> QED BY <1>1, <1>3 DEF TypeInv, AdmittedFit, Init

LEMMA StepType == TypeInv /\ [Next]_vars => TypeInv'
<1> SUFFICES ASSUME TypeInv, [Next]_vars PROVE TypeInv'
  OBVIOUS
<1>1. CASE UNCHANGED vars
  BY <1>1 DEF vars, TypeInv, TypeOK, AdmittedFit, Admitted, UnderWay
<1> QED BY <1>1, ClientStepType, CommandType, FinishConfirmType, FinishEditType,
           PageStepType
        DEF Next, BlockUser, UnblockUser

LEMMA TypeInvariant == Spec => []TypeInv
BY InitType, StepType, PTL DEF Spec

\* The rows, the drafts, the orders, the presses and the page keep their types,
\* and whoever has a draft or an order is in the users table.
THEOREM TypeCorrect == Spec => []TypeOK
<1>1. TypeInv => TypeOK
  BY DEF TypeInv
<1> QED BY <1>1, TypeInvariant, PTL

------------------------------------------------------------------------------
(* The careful admin.                                                      *)

\* One press at a time, of a row the page shows as it is; so a press under way
\* toggles to what the admin asked for.
OnePress == \A j, k \in Sent : j = k

PageIsTrue ==
  fresh => Sent = {} /\ \A c \in Clients : page[c] # "absent" => page[c] = user[c]

PressIsMeant ==
  \A k \in Presses : press[k] # None /\ press[k].at = "sent" =>
    asked[press[k].who] \in {"nothing", Toggled(user[press[k].who])}

AskedHolds(c) ==
  /\ asked[c] # "nothing"
  /\ \A k \in Presses : press[k] # None /\ press[k].at = "sent" => press[k].who # c
  => user[c] = asked[c]

CarefulInv ==
  careful => OnePress /\ PageIsTrue /\ PressIsMeant /\ \A c \in Clients : AskedHolds(c)

\* The client's own updates put its row into the table, and no more.
LEMMA UpsertKeepsCareful ==
  ASSUME TypeInv, CarefulInv, UNCHANGED <<dashboard, asked>>,
         user' \in [Clients -> States],
         \A c \in Clients : \/ user'[c] = user[c]
                            \/ user[c] = "absent" /\ user'[c] = "active"
  PROVE  CarefulInv'
<1>1. UNCHANGED <<page, press, careful, fresh, asked>> /\ Sent' = Sent
  BY DEF dashboard, Sent
<1>2. \A k \in Presses : press[k] # None => press[k].who \in Clients
  BY PressType
<1>3. \A c \in Clients : Toggled(user'[c]) = Toggled(user[c])
  BY DEF Toggled
<1>4. \A c \in Clients : asked[c] # "absent"
  BY DEF TypeInv, TypeOK
<1> SUFFICES ASSUME careful
             PROVE  (OnePress /\ PageIsTrue /\ PressIsMeant /\ \A c \in Clients : AskedHolds(c))'
  BY <1>1 DEF CarefulInv
<1>5. OnePress'
  BY <1>1 DEF CarefulInv, OnePress
<1>6. PageIsTrue'
  BY <1>1 DEF CarefulInv, PageIsTrue
<1>7. PressIsMeant'
  BY <1>1, <1>2, <1>3 DEF CarefulInv, PressIsMeant
<1>8. \A c \in Clients : AskedHolds(c)'
  BY <1>1, <1>4 DEF CarefulInv, AskedHolds
<1> QED BY <1>5, <1>6, <1>7, <1>8

LEMMA PageStepKeepsCareful ==
  ASSUME TypeInv, CarefulInv, PageStep
  PROVE  CarefulInv'
<1>0. /\ press \in [Presses -> Press \cup {None}] /\ user \in [Clients -> States]
      /\ asked \in [Clients -> {"nothing", "active", "blocked"}]
      /\ careful' = careful
      /\ \A k \in Presses : press[k] # None => press[k] \in Press /\ press[k].who \in Clients
  <2>1. careful' = careful
    BY DEF PageStep, Load, PressButton, Toggle, Answered, Lose, Vanish
  <2> QED BY <2>1, PressType DEF TypeInv, TypeOK
<1> SUFFICES ASSUME careful
             PROVE  (OnePress /\ PageIsTrue /\ PressIsMeant /\ \A c \in Clients : AskedHolds(c))'
  BY <1>0 DEF CarefulInv
<1>h. OnePress /\ PageIsTrue /\ PressIsMeant /\ \A c \in Clients : AskedHolds(c)
  BY DEF CarefulInv
<1>1. CASE Load
  <2>1. Sent' = Sent
    BY <1>1 DEF Load, Sent
  <2> QED BY <1>1, <1>h, <2>1
          DEF Load, OnePress, PageIsTrue, PressIsMeant, AskedHolds
<1>2. ASSUME NEW k \in Presses, NEW c \in Clients, PressButton(k, c)
      PROVE  (OnePress /\ PageIsTrue /\ PressIsMeant /\ \A d \in Clients : AskedHolds(d))'
  <2> DEFINE new == [at |-> "sent", who |-> c]
  <2>1. /\ fresh /\ Sent = {} /\ page[c] = user[c] /\ press[k] = None /\ ~fresh'
        /\ user' = user /\ new # None
    BY <1>2, <1>h, AccountsAssumption DEF PressButton, PageIsTrue, Press
  <2>2. \A j \in Presses : press'[j] = IF j = k THEN new ELSE press[j]
    BY <1>0, <1>2 DEF PressButton
  <2>3. \A d \in Clients : asked'[d] = IF d = c THEN Toggled(user[c]) ELSE asked[d]
    BY <1>0, <1>2, <2>1 DEF PressButton
  <2>4. \A j \in Presses : j # k => press[j] = None \/ press[j].at = "adrift"
    BY <2>1 DEF Sent
  <2>5. OnePress'
    BY <2>2, <2>4 DEF OnePress, Sent
  <2>6. PageIsTrue'
    BY <2>1 DEF PageIsTrue
  <2>7. PressIsMeant'
    BY <2>1, <2>2, <2>3, <2>4 DEF PressIsMeant
  <2>8. \A d \in Clients : AskedHolds(d)'
    <3> SUFFICES ASSUME NEW d \in Clients PROVE AskedHolds(d)'
      OBVIOUS
    <3>1. CASE d = c
      BY <2>1, <2>2, <3>1 DEF AskedHolds
    <3>2. CASE d # c
      BY <1>h, <2>1, <2>2, <2>3, <2>4, <3>2 DEF AskedHolds
    <3> QED BY <3>1, <3>2
  <2> QED BY <2>5, <2>6, <2>7, <2>8
<1>3. ASSUME NEW k \in Presses, Toggle(k)
      PROVE  (OnePress /\ PageIsTrue /\ PressIsMeant /\ \A d \in Clients : AskedHolds(d))'
  <2>1. PICK c \in Clients : c = press[k].who
    BY <1>0, <1>3 DEF Toggle
  <2>2. /\ press[k] # None /\ press[k].at \in {"sent", "adrift"} /\ page' = page
        /\ \A d \in Clients : user'[d] = IF d = c THEN Toggled(user[c]) ELSE user[d]
    BY <1>0, <1>3, <2>1 DEF Toggle, SetUser, Press
  <2>3. CASE press[k].at = "sent"
    <3> DEFINE done == [press[k] EXCEPT !.at = "done"]
    <3>1. /\ done.at = "done" /\ done # None /\ UNCHANGED <<fresh, asked>>
          /\ \A j \in Presses : press'[j] = IF j = k THEN done ELSE press[j]
      BY <1>0, <1>3, <2>2, <2>3, AccountsAssumption DEF Toggle, Press
    <3>2. k \in Sent /\ ~fresh
      BY <1>h, <2>2, <2>3 DEF Sent, PageIsTrue
    <3>3. Sent' = Sent
      BY <2>2, <2>3, <3>1, <3>2 DEF Sent
    <3>4. \A j \in Presses : j # k => press[j] = None \/ press[j].at = "adrift"
      BY <1>h, <3>2 DEF OnePress, Sent
    <3>5. asked[c] \in {"nothing", Toggled(user[c])}
      BY <1>h, <2>1, <2>2, <2>3 DEF PressIsMeant
    <3>6. OnePress' /\ PageIsTrue'
      BY <1>h, <3>1, <3>2, <3>3 DEF OnePress, PageIsTrue
    <3>7. PressIsMeant'
      BY <3>1, <3>4 DEF PressIsMeant
    <3>8. \A d \in Clients : AskedHolds(d)'
      <4> SUFFICES ASSUME NEW d \in Clients PROVE AskedHolds(d)'
        OBVIOUS
      <4>1. CASE d = c
        BY <2>2, <3>1, <3>5, <4>1 DEF AskedHolds
      <4>2. CASE d # c
        BY <1>h, <2>1, <2>2, <2>3, <3>1, <4>2 DEF AskedHolds
      <4> QED BY <4>1, <4>2
    <3> QED BY <3>6, <3>7, <3>8
  <2>4. CASE press[k].at = "adrift"
    <3>1. /\ ~fresh'
          /\ \A j \in Presses : press'[j] = IF j = k THEN None ELSE press[j]
          /\ \A d \in Clients : asked'[d] = IF d = c THEN "nothing" ELSE asked[d]
      BY <1>0, <1>3, <2>1, <2>4 DEF Toggle
    <3>2. Sent' = Sent
      BY <2>4, <3>1 DEF Sent
    <3>3. OnePress' /\ PageIsTrue'
      BY <1>h, <3>1, <3>2 DEF OnePress, PageIsTrue
    <3>4. PressIsMeant'
      <4> SUFFICES ASSUME NEW j \in Presses, press'[j] # None, press'[j].at = "sent"
                   PROVE  asked'[press'[j].who] \in {"nothing", Toggled(user'[press'[j].who])}
        BY DEF PressIsMeant
      <4>1. press'[j] = press[j] /\ press[j].who \in Clients
        BY <1>0, <3>1
      <4> QED BY <1>h, <2>2, <3>1, <4>1 DEF PressIsMeant
    <3>5. \A d \in Clients : AskedHolds(d)'
      BY <1>h, <2>2, <2>4, <3>1 DEF AskedHolds
    <3> QED BY <3>3, <3>4, <3>5
  <2> QED BY <2>2, <2>3, <2>4
<1>4. ASSUME NEW k \in Presses, Answered(k)
      PROVE  (OnePress /\ PageIsTrue /\ PressIsMeant /\ \A d \in Clients : AskedHolds(d))'
  <2>1. /\ press[k] # None /\ press[k].at = "done" /\ UNCHANGED <<user, asked>>
        /\ page' = user
        /\ \A j \in Presses : press'[j] = IF j = k THEN None ELSE press[j]
    BY <1>0, <1>4 DEF Answered
  <2>2. Sent' = {}
    BY <1>h, <2>1 DEF Sent, OnePress
  <2>3. PressIsMeant'
    BY <1>h, <2>1 DEF PressIsMeant
  <2>4. \A d \in Clients : AskedHolds(d)'
    BY <1>h, <2>1 DEF AskedHolds
  <2> QED BY <2>1, <2>2, <2>3, <2>4 DEF OnePress, PageIsTrue
<1>5. ASSUME NEW k \in Presses, Lose(k)
      PROVE  (OnePress /\ PageIsTrue /\ PressIsMeant /\ \A d \in Clients : AskedHolds(d))'
  <2>1. PICK c \in Clients : c = press[k].who
    BY <1>0, <1>5 DEF Lose
  <2>2. /\ press[k] # None /\ press[k].at # "adrift" /\ UNCHANGED <<user, page, fresh>>
        /\ \A d \in Clients : asked'[d] = IF d = c THEN "nothing" ELSE asked[d]
    BY <1>0, <1>5, <2>1 DEF Lose
  <2>3. /\ \A j \in Presses : j # k => press'[j] = press[j]
        /\ press'[k] = None \/ press'[k].at = "adrift"
    BY <1>0, <1>5 DEF Lose, Press
  <2>4. k \in Sent /\ ~fresh
    BY <1>h, <2>2 DEF Sent, PageIsTrue
  <2>5. Sent' = {}
    BY <1>h, <2>3, <2>4 DEF Sent, OnePress
  <2>6. OnePress' /\ PageIsTrue'
    BY <2>2, <2>4, <2>5 DEF OnePress, PageIsTrue
  <2>7. PressIsMeant'
    BY <2>5 DEF PressIsMeant, Sent
  <2>8. \A d \in Clients : AskedHolds(d)'
    BY <1>h, <2>1, <2>2, <2>3 DEF AskedHolds
  <2> QED BY <2>6, <2>7, <2>8
<1>6. ASSUME NEW k \in Presses, Vanish(k)
      PROVE  (OnePress /\ PageIsTrue /\ PressIsMeant /\ \A d \in Clients : AskedHolds(d))'
  <2>1. /\ press[k] # None /\ press[k].at = "adrift" /\ UNCHANGED <<user, page, fresh, asked>>
        /\ \A j \in Presses : press'[j] = IF j = k THEN None ELSE press[j]
    BY <1>0, <1>6 DEF Vanish
  <2>2. Sent' = Sent
    BY <2>1 DEF Sent
  <2> QED BY <1>h, <2>1, <2>2 DEF OnePress, PageIsTrue, PressIsMeant, AskedHolds
<1> QED BY <1>1, <1>2, <1>3, <1>4, <1>5, <1>6 DEF PageStep

LEMMA CommandKeepsCareful ==
  ASSUME TypeInv, CarefulInv, NEW c \in Clients, NEW s \in {"active", "blocked"}, Command(c, s)
  PROVE  CarefulInv'
<1> SUFFICES ASSUME careful
             PROVE  (OnePress /\ PageIsTrue /\ PressIsMeant /\ \A d \in Clients : AskedHolds(d))'
  BY DEF CarefulInv, Command
<1>1. OnePress /\ PageIsTrue /\ PressIsMeant /\ \A d \in Clients : AskedHolds(d)
  BY DEF CarefulInv
<1>2. Sent = {} /\ ~fresh' /\ UNCHANGED <<page, press>> /\ Sent' = Sent
  BY DEF Command, Sent
<1>3. \A d \in Clients : /\ user'[d] = (IF d = c THEN s ELSE user[d])
                          /\ asked'[d] = (IF d = c THEN s ELSE asked[d])
  BY DEF Command, SetUser, TypeInv, TypeOK
<1>4. PressIsMeant'
  BY <1>2 DEF PressIsMeant, Sent
<1>5. \A d \in Clients : AskedHolds(d)'
  BY <1>1, <1>2, <1>3 DEF AskedHolds
<1> QED BY <1>2, <1>4, <1>5 DEF OnePress, PageIsTrue

LEMMA StepKeepsCareful ==
  ASSUME TypeInv, CarefulInv, [Next]_vars
  PROVE  CarefulInv'
<1>1. CASE \E c \in Clients : ClientStep(c)
  <2>1. PICK c \in Clients : ClientStep(c)
    BY <1>1
  <2>2. UNCHANGED <<dashboard, asked>> /\ (Upsert(c) \/ UNCHANGED user)
    BY <2>1 DEF ClientStep, Greet, Begin, PressConfirm, PressEdit, Admit, DropDraft
  <2>3. user' \in [Clients -> States]
    BY <2>2, UpsertType DEF TypeInv, TypeOK
  <2>4. \A d \in Clients : \/ user'[d] = user[d]
                           \/ user[d] = "absent" /\ user'[d] = "active"
    BY <2>2 DEF Upsert, SetUser, TypeInv, TypeOK
  <2> QED BY <2>2, <2>3, <2>4, UpsertKeepsCareful
<1>2. CASE (\E h \in Handlers : FinishConfirm(h) \/ FinishEdit(h)) \/ UNCHANGED vars
  <2>1. UNCHANGED <<user, dashboard, asked>>
    BY <1>2 DEF FinishConfirm, FinishEdit, Ends, vars, dashboard
  <2> QED BY <2>1, UpsertKeepsCareful DEF TypeInv, TypeOK
<1> QED BY <1>1, <1>2, CommandKeepsCareful, PageStepKeepsCareful
        DEF Next, BlockUser, UnblockUser

\* An admin that waits for answers and presses only what an up-to-date page shows
\* gets what it asked for, though the button toggles and commands set, and
\* though clients write and abandoned presses arrive late.
THEOREM AskedIsSoHolds == Spec => []AskedIsSo
<1>1. Init => CarefulInv
  BY DEF Init, CarefulInv, OnePress, PageIsTrue, PressIsMeant, AskedHolds, Sent
<1>2. TypeInv /\ CarefulInv /\ [Next]_vars => CarefulInv'
  BY StepKeepsCareful
<1>3. CarefulInv => AskedIsSo
  BY DEF CarefulInv, AskedIsSo, AskedHolds
<1> QED BY <1>1, <1>2, <1>3, TypeInvariant, PTL DEF Spec

------------------------------------------------------------------------------
(* Blocking.                                                               *)

\* While a client is blocked nothing of it is admitted; an order of it needs a
\* confirmation, and a draft an edit, that was admitted before, for any number of
\* handlers.
THEOREM BlockedOrderNothingHolds == Spec => BlockedOrderNothing
<1> DEFINE Nothing(c) ==
      /\ \A h \in UnderWay(c)' : running'[h] = running[h]
      /\ draft'[c] /\ ~draft[c] =>
           \E h \in UnderWay(c) : running[h].kind = "edit" /\ running'[h] = None
      /\ orders'[c] # orders[c] => \E h \in Admitted(c) : running'[h] = None
<1>1. ASSUME TypeInv, [Next]_vars, NEW c \in Clients, user[c] = "blocked"
      PROVE  Nothing(c)
  <2>1. CASE UNCHANGED client
    BY <2>1 DEF client, UnderWay
  <2>2. ASSUME NEW d \in Clients, ClientStep(d)
        PROVE  Nothing(c)
    <3>1. CASE Greet(d)
      BY <2>1, <3>1 DEF Greet
    <3>2. CASE Begin(d) \/ DropDraft(d)
      <4>1. UNCHANGED <<orders, running>> /\ (draft'[c] => draft[c])
        BY <1>1, <3>2 DEF Begin, DropDraft, Allowed, TypeInv, TypeOK
      <4> QED BY <4>1 DEF UnderWay
    <3>3. ASSUME NEW h \in Handlers, PressConfirm(h, d) \/ PressEdit(h, d)
          PROVE  Nothing(c)
      <4>1. PICK k \in {"confirm", "edit"} : Admit(h, k, d)
        BY <3>3 DEF PressConfirm, PressEdit
      <4>2. d # c /\ UNCHANGED <<draft, orders>>
        BY <1>1, <4>1 DEF Admit, Allowed
      <4>3. \A g \in Handlers :
              running'[g] = IF g = h THEN [kind |-> k, who |-> d] ELSE running[g]
        BY <1>1, <4>1, AdmissionFields, Running DEF Admit
      <4> QED BY <4>2, <4>3, AdmissionFields DEF UnderWay
    <3> QED BY <2>2, <3>1, <3>2, <3>3 DEF ClientStep
  <2>3. ASSUME NEW h \in Handlers, FinishConfirm(h) \/ FinishEdit(h)
        PROVE  Nothing(c)
    <3>1. /\ \A g \in Handlers : running'[g] = IF g = h THEN None ELSE running[g]
          /\ running[h] # None /\ running[h].who \in Clients
      BY <1>1, <2>3, Running DEF FinishConfirm, FinishEdit, Ends
    <3>2. CASE running[h].who # c
      <4>1. orders'[c] = orders[c] /\ draft'[c] = draft[c]
        BY <1>1, <2>3, <3>1, <3>2 DEF FinishConfirm, FinishEdit, TypeInv, TypeOK
      <4> QED BY <3>1, <4>1 DEF UnderWay
    <3>3. CASE running[h].who = c
      <4>1. h \in UnderWay(c) /\ running'[h] = None
        BY <3>1, <3>3 DEF UnderWay
      <4>2. \A g \in UnderWay(c)' : running'[g] = running[g]
        BY <3>1 DEF UnderWay
      <4>3. CASE FinishConfirm(h)
        <5>1. h \in Admitted(c)
          BY <4>1, <4>3 DEF FinishConfirm, Ends, Admitted
        <5>2. draft'[c] => draft[c]
          BY <1>1, <3>3, <4>3 DEF FinishConfirm, TypeInv, TypeOK
        <5> QED BY <4>1, <4>2, <5>1, <5>2
      <4>4. CASE FinishEdit(h)
        BY <4>1, <4>2, <4>4 DEF FinishEdit, Ends
      <4> QED BY <2>3, <4>3, <4>4
    <3> QED BY <3>2, <3>3
  <2>4. CASE PageStep \/ \E d \in Clients : BlockUser(d) \/ UnblockUser(d)
    BY <2>1, <2>4 DEF PageStep, Load, PressButton, Toggle, Answered, Lose, Vanish,
                      BlockUser, UnblockUser, Command
  <2>5. CASE UNCHANGED vars
    BY <2>1, <2>5 DEF vars, client
  <2> QED BY <1>1, <2>2, <2>3, <2>4, <2>5 DEF Next
<1>2. TypeInv /\ [Next]_vars => [\A c \in Clients : user[c] = "blocked" => Nothing(c)]_vars
  BY <1>1
<1> QED BY <1>2, TypeInvariant, PTL DEF Spec, BlockedOrderNothing
==============================================================================
