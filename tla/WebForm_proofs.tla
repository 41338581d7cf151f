---------------------------- MODULE WebForm_proofs ----------------------------
(***************************************************************************)
(* Theorems about WebForm, for any number of visitors and products, any    *)
(* quantities and any limit.                                               *)
(***************************************************************************)
EXTENDS WebForm, FiniteSetTheorems, SequenceTheorems, TLAPS

------------------------------------------------------------------------------
(* The token is the visitor's own.                                         *)

\* What of the types the argument needs.
Forms == [step : Steps, product : Products \cup {NoProduct}, quantity : Nat,
          token : Nat]

Answers == [at : {"none", "sent", "answered"}, product : Products \cup {NoProduct},
            shown : Nat, quantity : Nat, answer : Nat]

Row == [visitor : Visitors, product : Products \cup {NoProduct}, quantity : Nat,
        open : BOOLEAN]

Typed ==
  /\ form \in [Visitors -> Forms]
  /\ request \in [Visitors -> Answers]
  /\ adrift \in [Visitors -> Answers]
  /\ leads \in Seq(Row)

\* Row n was made from this request.
MadeOf(n, v) ==
  /\ n \in 1..Len(leads)
  /\ leads[n].visitor = v
  /\ leads[n].product = request[v].product
  /\ leads[n].quantity = request[v].quantity

\* A request carries what its form said, and an answer the row made of it; the
\* success page shows the last answer, which no other press has replaced.
RequestIsTrue(v) ==
  /\ request[v].shown # 0 => request[v].quantity = request[v].shown
  /\ request[v].at = "sent" => request[v].answer = 0
  /\ request[v].answer # 0 => MadeOf(request[v].answer, v)
  /\ form[v].step = "success" => /\ request[v].at = "none"
                                 /\ request[v].answer # 0
                                 /\ form[v].token = request[v].answer

TokenInv == Typed /\ \A v \in Visitors : RequestIsTrue(v)

\* Rows stay and keep what they were made of, but for being open.
RowsStay ==
  /\ leads' \in Seq(Row)
  /\ Len(leads) <= Len(leads')
  /\ \A n \in 1..Len(leads) :
       /\ leads'[n].visitor = leads[n].visitor
       /\ leads'[n].product = leads[n].product
       /\ leads'[n].quantity = leads[n].quantity

\* What the others and the admin do leaves a visitor's request true.
LEMMA OthersKeep ==
  ASSUME Typed, RowsStay, NEW v \in Visitors, RequestIsTrue(v),
         form'[v] = form[v], request'[v] = request[v]
  PROVE  RequestIsTrue(v)'
BY DEF Typed, RowsStay, RequestIsTrue, MadeOf

\* A form and a request that change together, with no row touched.
LEMMA Moved ==
  ASSUME TokenInv, NEW v \in Visitors, UNCHANGED leads,
         NEW f \in Forms, NEW r \in Answers,
         form' = [form EXCEPT ![v] = f],
         request' = [request EXCEPT ![v] = r],
         adrift' \in [Visitors -> Answers],
         r.shown # 0 => r.quantity = r.shown,
         r.at = "sent" => r.answer = 0,
         r.answer # 0 => /\ r.answer = request[v].answer
                         /\ r.product = request[v].product
                         /\ r.quantity = request[v].quantity,
         f.step = "success" => r.at = "none" /\ r.answer # 0 /\ f.token = r.answer
  PROVE  TokenInv'
<1>1. Typed'
  BY DEF TokenInv, Typed
<1>2. ASSUME NEW u \in Visitors, u # v
      PROVE  RequestIsTrue(u)'
  <2>1. RowsStay
    BY DEF TokenInv, Typed, RowsStay
  <2>2. form'[u] = form[u] /\ request'[u] = request[u]
    BY <1>2 DEF TokenInv, Typed
  <2> QED BY <2>1, <2>2, OthersKeep DEF TokenInv
<1>3. form'[v] = f /\ request'[v] = r /\ RequestIsTrue(v)
  BY DEF TokenInv, Typed
<1>4. RequestIsTrue(v)'
  BY <1>3 DEF RequestIsTrue, MadeOf
<1> QED BY <1>1, <1>2, <1>4 DEF TokenInv

LEMMA VisitorKeeps ==
  ASSUME TokenInv, NEW v \in Visitors, VisitorStep(v)
  PROVE  TokenInv'
<1>1. /\ form[v] \in Forms
      /\ request[v] \in Answers
      /\ RequestIsTrue(v)
      /\ form = [form EXCEPT ![v] = form[v]]
      /\ request = [request EXCEPT ![v] = request[v]]
      /\ adrift \in [Visitors -> Answers]
  BY DEF TokenInv, Typed
\* The visitor turns pages: the request is as it was.
<1>2. ASSUME NEW f \in Forms, f.step # "success", SetForm(v, f), UNCHANGED <<request, adrift, leads>>
      PROVE  TokenInv'
  <2>1. form' = [form EXCEPT ![v] = f] /\ request' = [request EXCEPT ![v] = request[v]]
    BY <1>1, <1>2 DEF SetForm
  <2> QED BY <1>1, <1>2, <2>1, Moved DEF RequestIsTrue
<1>3. CASE \E p \in Products : Choose(v, p)
  <2>1. PICK p \in Products : Choose(v, p)
    BY <1>3
  <2> DEFINE f == [form[v] EXCEPT !.step = "details", !.product = p]
  <2>2. f \in Forms /\ f.step # "success"
    BY <1>1 DEF Forms, Steps
  <2> HIDE DEF f
  <2> QED BY <1>2, <2>1, <2>2 DEF Choose, f
<1>4. CASE \E q \in Entries, next \in {"product", "contact"} : EnterDetails(v, q, next)
  <2>1. PICK q \in Entries, next \in {"product", "contact"} : EnterDetails(v, q, next)
    BY <1>4
  <2> DEFINE f == [form[v] EXCEPT !.quantity = q, !.step = next]
  <2>2. f \in Forms /\ f.step # "success"
    BY <1>1, WebFormAssumption DEF Forms, Steps
  <2> HIDE DEF f
  <2> QED BY <1>2, <2>1, <2>2 DEF EnterDetails, f
<1>5. CASE \E next \in Steps : Turn(v, next)
  <2>1. PICK next \in Steps : Turn(v, next)
    BY <1>5
  <2> DEFINE f == [form[v] EXCEPT !.step = next]
  <2>2. next # "success"
    BY <2>1 DEF Turn, Turns
  <2>3. f \in Forms /\ f.step # "success"
    BY <1>1, <2>2 DEF Forms
  <2> HIDE DEF f
  <2> QED BY <1>2, <2>1, <2>3 DEF Turn, f
<1>6. CASE Send(v)
  <2> DEFINE r == [at |-> "sent", product |-> form[v].product, shown |-> form[v].quantity,
                   quantity |-> Posted(form[v].quantity), answer |-> 0]
  <2>1. /\ r \in Answers
        /\ (r.shown # 0 => r.quantity = r.shown) /\ r.answer = 0
    BY <1>1 DEF Forms, Answers, Posted
  <2>2. form[v].step = "confirm" /\ UNCHANGED <<form, adrift, leads>>
        /\ request' = [request EXCEPT ![v] = r]
    BY <1>6 DEF Send
  <2> HIDE DEF r
  <2> QED BY <1>1, <2>1, <2>2, Moved
<1>7. CASE Answer(v) /\ request[v].answer # 0
  <2> DEFINE f == [form[v] EXCEPT !.step = "success", !.token = request[v].answer]
             r == [request[v] EXCEPT !.at = "none"]
  <2>1. /\ f \in Forms /\ f.step = "success" /\ f.token = request[v].answer
        /\ r \in Answers /\ r.at = "none"
        /\ r.answer = request[v].answer /\ r.product = request[v].product
        /\ r.quantity = request[v].quantity /\ r.shown = request[v].shown
    BY <1>1 DEF Forms, Answers, Steps
  <2>2. /\ UNCHANGED <<adrift, leads>>
        /\ form' = [form EXCEPT ![v] = f]
        /\ request' = [request EXCEPT ![v] = r]
    BY <1>1, <1>7 DEF Answer, SetForm, TokenInv, Typed
  <2>3. r.shown # 0 => r.quantity = r.shown
    BY <1>1, <2>1 DEF RequestIsTrue
  <2> HIDE DEF f, r
  <2> QED BY <1>1, <1>7, <2>1, <2>2, <2>3, Moved
<1>8. CASE \/ Answer(v) /\ request[v].answer = 0
           \/ Lose(v) \/ NewForm(v)
  <2>1. NoRequest \in Answers /\ NoRequest.shown = 0
        /\ NoRequest.answer = 0
    BY DEF NoRequest, Answers
  <2>2. /\ UNCHANGED leads
        /\ request' = [request EXCEPT ![v] = NoRequest]
        /\ adrift' \in [Visitors -> Answers]
    BY <1>1, <1>8 DEF Answer, Lose, NewForm
  <2>3. CASE UNCHANGED form /\ form[v].step # "success"
    BY <1>1, <2>1, <2>2, <2>3, Moved
  <2>4. CASE form' = [form EXCEPT ![v] = FreshForm]
    <3>1. FreshForm \in Forms /\ FreshForm.step # "success"
      BY DEF FreshForm, Forms, Steps
    <3> QED BY <2>1, <2>2, <2>4, <3>1, Moved
  <2> QED BY <1>1, <1>8, <2>3, <2>4 DEF Answer, Lose, NewForm, SetForm, RequestIsTrue
<1> QED BY <1>3, <1>4, <1>5, <1>6, <1>7, <1>8 DEF VisitorStep

\* What the handler makes of a request: nothing, or a row of it.
LEMMA HandleRows ==
  ASSUME TokenInv, NEW v \in Visitors, NEW r \in Answers, NEW n \in Nat, Handle(v, r, n)
  PROVE  /\ RowsStay
         /\ n # 0 => /\ n \in 1..Len(leads')
                     /\ leads'[n].visitor = v
                     /\ leads'[n].product = r.product
                     /\ leads'[n].quantity = r.quantity
<1>1. CASE UNCHANGED leads /\ n = 0
  BY <1>1 DEF TokenInv, Typed, RowsStay
<1>2. CASE Create(v, r, n)
  <2> DEFINE row == LeadOf(v, r)
  <2>1. leads' = Append(leads, row) /\ n = Len(leads) + 1
    BY <1>2 DEF Create
  <2>2. /\ row \in Row
        /\ row.visitor = v /\ row.product = r.product /\ row.quantity = r.quantity
    BY DEF Answers, Row, LeadOf
  <2> HIDE DEF row
  <2>3. leads \in Seq(Row) /\ Len(leads) \in Nat
    BY DEF TokenInv, Typed
  <2>4. /\ leads' \in Seq(Row)
        /\ Len(leads') = Len(leads) + 1
        /\ leads'[Len(leads) + 1] = row
        /\ \A i \in 1..Len(leads) : leads'[i] = leads[i]
    BY <2>1, <2>2, <2>3
  <2> QED BY <2>1, <2>2, <2>3, <2>4 DEF RowsStay
<1> QED BY <1>1, <1>2 DEF Handle, TurnAway, Refuse

LEMMA ServerKeeps ==
  ASSUME TokenInv, NEW v \in Visitors, Serve(v)
  PROVE  TokenInv'
<1>1. PICK n \in 0..MaxLeads : Handle(v, request[v], n) /\ Reply(v, n)
  BY DEF Serve
<1>2. /\ UNCHANGED <<form, adrift>>
      /\ request[v].at = "sent" /\ form[v].step # "success"
      /\ request[v] \in Answers /\ form[v] \in Forms /\ RequestIsTrue(v)
  BY DEF Serve, TokenInv, Typed, RequestIsTrue
<1> DEFINE r == [request[v] EXCEPT !.at = "answered", !.answer = n]
<1>3. n \in Nat
  BY <1>1, WebFormAssumption
<1>4. /\ r \in Answers /\ r.at = "answered" /\ r.answer = n
      /\ r.product = request[v].product
      /\ r.quantity = request[v].quantity /\ r.shown = request[v].shown
  BY <1>2, <1>3 DEF Answers
<1>5. /\ request' = [request EXCEPT ![v] = r]
      /\ request'[v] = r /\ \A u \in Visitors : u # v => request'[u] = request[u]
  BY <1>1 DEF Reply, TokenInv, Typed
<1> HIDE DEF r
<1>6. /\ RowsStay
      /\ n # 0 => /\ n \in 1..Len(leads')
                  /\ leads'[n].visitor = v
                  /\ leads'[n].product = request[v].product
                  /\ leads'[n].quantity = request[v].quantity
  BY <1>1, <1>2, <1>3, HandleRows
<1>7. Typed'
  BY <1>2, <1>4, <1>5, <1>6 DEF TokenInv, Typed, RowsStay
<1>8. RequestIsTrue(v)'
  BY <1>2, <1>4, <1>5, <1>6 DEF RequestIsTrue, MadeOf
<1>9. \A u \in Visitors : u # v => RequestIsTrue(u)'
  BY <1>2, <1>5, <1>6, OthersKeep DEF TokenInv
<1> QED BY <1>7, <1>8, <1>9 DEF TokenInv

\* A late request adds a row at most; nobody waits for its token.
LEMMA LateKeeps ==
  ASSUME TokenInv, NEW v \in Visitors, ServeLate(v)
  PROVE  TokenInv'
<1>1. PICK n \in 0..MaxLeads : Handle(v, adrift[v], n)
  BY DEF ServeLate
<1>2. n \in Nat /\ adrift[v] \in Answers
  BY <1>1, WebFormAssumption DEF TokenInv, Typed
<1>3. RowsStay
  BY <1>1, <1>2, HandleRows
<1>4. UNCHANGED <<form, request>> /\ adrift' = [adrift EXCEPT ![v] = NoRequest]
  BY DEF ServeLate
<1>5. NoRequest \in Answers
  BY DEF NoRequest, Answers
<1>6. Typed'
  BY <1>3, <1>4, <1>5 DEF TokenInv, Typed, RowsStay
<1>7. \A u \in Visitors : RequestIsTrue(u)'
  BY <1>3, <1>4, OthersKeep DEF TokenInv
<1> QED BY <1>6, <1>7 DEF TokenInv

LEMMA AdminAndTimeKeep ==
  ASSUME TokenInv, AdminStep \/ Tick \/ Restart \/ UNCHANGED vars
  PROVE  TokenInv'
<1>1. UNCHANGED <<form, request, adrift>>
  BY DEF AdminStep, AddProduct, ToggleProduct, SetProduct, SetOpen, Tick, Restart, vars
<1>2. RowsStay
  <2>1. CASE UNCHANGED leads
    BY <2>1 DEF TokenInv, Typed, RowsStay
  <2>2. CASE \E i \in 1..Len(leads), b \in BOOLEAN : SetOpen(i, b)
    <3>1. PICK i \in 1..Len(leads), b \in BOOLEAN : SetOpen(i, b)
      BY <2>2
    <3> DEFINE row == [leads[i] EXCEPT !.open = b]
    <3>2. /\ row \in Row
          /\ row.visitor = leads[i].visitor
          /\ row.product = leads[i].product
          /\ row.quantity = leads[i].quantity
      <4>1. leads[i] \in Row
        BY DEF TokenInv, Typed
      <4> QED BY <4>1 DEF Row
    <3>3. leads' = [leads EXCEPT ![i] = row]
      BY <3>1 DEF SetOpen
    <3> HIDE DEF row
    <3> QED BY <3>2, <3>3 DEF TokenInv, Typed, RowsStay
  <2> QED
    BY <2>1, <2>2 DEF AdminStep, AddProduct, ToggleProduct, SetProduct, Tick, Restart, vars
<1>3. \A v \in Visitors : RequestIsTrue(v)'
  BY <1>1, <1>2, OthersKeep DEF TokenInv
<1> QED BY <1>1, <1>2, <1>3 DEF TokenInv, Typed, RowsStay

\* The token on a success page is of the visitor's own lead, as its confirmation
\* showed it, for any number of visitors and products and any limit.
THEOREM TokenIsOwnHolds == Spec => []TokenIsOwn
<1>1. Init => TokenInv
  <2>1. FreshForm \in Forms /\ NoRequest \in Answers
    BY DEF FreshForm, NoRequest, Forms, Answers, Steps
  <2>2. FreshForm.step # "success" /\ NoRequest.answer = 0
        /\ NoRequest.shown = 0
    BY DEF FreshForm, NoRequest
  <2> QED BY <2>1, <2>2 DEF Init, TokenInv, Typed, RequestIsTrue
<1>2. TokenInv /\ [Next]_vars => TokenInv'
  BY VisitorKeeps, ServerKeeps, LateKeeps, AdminAndTimeKeep DEF Next
<1>3. TokenInv => TokenIsOwn
  BY DEF TokenInv, Typed, RequestIsTrue, MadeOf, TokenIsOwn
<1> QED BY <1>1, <1>2, <1>3, PTL DEF Spec

------------------------------------------------------------------------------
(* The stamps of the limiter.                                              *)

\* The oldest first.
Ordered(h) == \A i, j \in 1..Len(h) : i <= j => h[j] <= h[i]

\* What of the types the argument needs.
StampTypes ==
  /\ hits \in Seq(0..Window - 1)
  /\ life \in Lives
  /\ age \in [Lives -> 0..Window]
  /\ passed \in [Lives -> Seq(0..Window - 1)]

\* What start n let through is in order and within the limit; it is older than
\* the start that came next, and nothing if n is still to come.
LifeHolds(n) ==
  /\ Ordered(passed[n])
  /\ Len(passed[n]) <= MaxPosts
  /\ n < life => \A i \in 1..Len(passed[n]) : age[n + 1] <= passed[n][i]
  /\ n > life => passed[n] = <<>>

\* The limiter has forgotten nothing of this start that the window still holds.
StampsInv ==
  /\ StampTypes
  /\ passed[life] = hits
  /\ \A n \in Lives : LifeHolds(n)

\* A set of positions that has all positions before its own is an initial segment.
LEMMA Segment ==
  ASSUME NEW n \in Nat, NEW S \in SUBSET (1..n), \A i \in S, j \in 1..n : j <= i => j \in S
  PROVE  Cardinality(S) \in 0..n /\ S = 1..Cardinality(S)
<1> DEFINE k == Cardinality(S)
<1>1. IsFiniteSet(1..n) /\ Cardinality(1..n) = n
  BY FS_Interval
<1>2. IsFiniteSet(S) /\ k <= n /\ k \in Nat
  BY <1>1, FS_Subset, FS_CardinalityType
<1>3. ASSUME NEW i \in S
      PROVE  i \in 1..k
  <2>1. 1..i \in SUBSET S
    OBVIOUS
  <2>2. Cardinality(1..i) <= k
    BY <1>2, <2>1, FS_Subset
  <2>3. Cardinality(1..i) = i
    BY FS_Interval
  <2> HIDE DEF k
  <2> QED BY <1>2, <2>2, <2>3
<1>4. IsFiniteSet(1..k) /\ Cardinality(1..k) = k
  <2> HIDE DEF k
  <2>1. IsFiniteSet(1..k) /\ Cardinality(1..k) = IF 1 > k THEN 0 ELSE k - 1 + 1
    BY <1>2, FS_Interval
  <2> QED BY <1>2, <2>1
<1>5. S = 1..k
  <2>1. S \in SUBSET (1..k)
    BY <1>3
  <2> QED BY <1>4, <2>1, FS_Subset
<1> QED BY <1>2, <1>5

\* A tick leaves the stamps typed, in their order, and no more of them.
LEMMA RecentFacts ==
  ASSUME NEW h \in Seq(0..Window - 1), Ordered(h)
  PROVE  /\ Recent(Older(h)) \in Seq(0..Window - 1)
         /\ Ordered(Recent(Older(h)))
         /\ Len(Recent(Older(h))) <= Len(h)
         /\ \A i \in 1..Len(Recent(Older(h))) :
              \E j \in 1..Len(h) : Recent(Older(h))[i] = h[j] + 1
<1> DEFINE g == Older(h)
           n == Len(h)
           S == {i \in 1..n : g[i] >= Window}
           k == Cardinality(S)
           r == SubSeq(g, k + 1, n)
<1>1. Window \in Nat \ {0} /\ n \in Nat
  BY WebFormAssumption
<1>2. /\ g \in Seq(Nat) /\ Len(g) = n
      /\ \A i \in 1..n : g[i] = h[i] + 1 /\ h[i] \in 0..Window - 1
  BY <1>1 DEF Older
<1>3. \A i, j \in 1..n : i <= j => g[j] <= g[i]
  BY <1>1, <1>2 DEF Ordered
<1> HIDE DEF g, n
<1>4. S \in SUBSET (1..n) /\ \A i \in S, j \in 1..n : j <= i => j \in S
  <2>1. ASSUME NEW i \in S, NEW j \in 1..n, j <= i
        PROVE  j \in S
    <3>1. i \in 1..n /\ g[i] >= Window /\ g[i] \in Nat /\ g[j] \in Nat
      BY <1>2
    <3>2. g[i] <= g[j]
      BY <1>3, <2>1, <3>1
    <3> QED BY <1>1, <3>1, <3>2
  <2> QED BY <2>1
<1>5. k \in 0..n /\ S = 1..k
  BY <1>1, <1>4, Segment
<1>6. Recent(g) = r
  BY <1>2 DEF Recent
<1>7. \A i \in 1..n : i > k => g[i] \in 0..Window - 1
  <2> SUFFICES ASSUME NEW i \in 1..n, i > k
               PROVE  g[i] \in 0..Window - 1
    OBVIOUS
  <2>1. i \notin S
    <3> HIDE DEF S, k
    <3> QED BY <1>5
  <2>2. g[i] \in Nat /\ ~(g[i] >= Window)
    BY <1>2, <2>1
  <2> QED BY <1>1, <2>2
<1> HIDE DEF S, k
<1>8. /\ r \in Seq(Nat) /\ Len(r) = n - k
      /\ \A i \in 1..(n - k) : r[i] = g[k + i]
  <2>1. k + 1 \in 1..n + 1
    BY <1>1, <1>5
  <2>2. g \in Seq(Nat) /\ k + 1 \in Nat /\ k \in Nat
    BY <1>1, <1>2, <1>5
  <2> QED BY <1>1, <1>2, <1>5, <2>1, <2>2
<1>9. \A i \in 1..Len(r) : k + i \in 1..n /\ k + i > k
  BY <1>1, <1>5, <1>8
<1>10. \A i \in 1..Len(r) : r[i] \in 0..Window - 1
  BY <1>7, <1>8, <1>9
<1>11. r \in Seq(0..Window - 1)
  <2>1. r \in [1..Len(r) -> Nat] /\ Len(r) \in Nat
    BY <1>8, LenProperties
  <2> HIDE DEF r
  <2>2. r \in [1..Len(r) -> 0..Window - 1]
    BY <1>10, <2>1
  <2> QED BY <2>1, <2>2, SeqDef
<1>12. Ordered(r)
  <2> SUFFICES ASSUME NEW i \in 1..Len(r), NEW j \in 1..Len(r), i <= j
               PROVE  r[j] <= r[i]
    BY DEF Ordered
  <2>1. r[i] = g[k + i] /\ r[j] = g[k + j]
    BY <1>8
  <2>2. k + i \in 1..n /\ k + j \in 1..n /\ k + i <= k + j
    BY <1>1, <1>5, <1>8, <1>9
  <2> QED BY <1>3, <2>1, <2>2
<1>13. Len(r) <= n
  BY <1>1, <1>5, <1>8
<1>14. \A i \in 1..Len(r) : \E j \in 1..n : r[i] = h[j] + 1
  BY <1>2, <1>8, <1>9
<1> QED BY <1>6, <1>11, <1>12, <1>13, <1>14 DEF g, n

\* A stamp of this moment at the end keeps the order.
LEMMA AppendFacts ==
  ASSUME NEW h \in Seq(0..Window - 1), Ordered(h)
  PROVE  /\ Append(h, 0) \in Seq(0..Window - 1)
         /\ Ordered(Append(h, 0))
         /\ Len(Append(h, 0)) = Len(h) + 1
<1> DEFINE g == Append(h, 0)
<1>1. Len(h) \in Nat /\ 0 \in 0..Window - 1
  BY WebFormAssumption
<1>2. /\ g \in Seq(0..Window - 1) /\ Len(g) = Len(h) + 1
      /\ \A i \in 1..Len(h) : g[i] = h[i]
      /\ g[Len(h) + 1] = 0
  BY <1>1
<1> HIDE DEF g
<1>3. Ordered(g)
  <2> SUFFICES ASSUME NEW i \in 1..Len(g), NEW j \in 1..Len(g), i <= j
               PROVE  g[j] <= g[i]
    BY DEF Ordered
  <2>1. CASE j = Len(h) + 1
    <3>1. g[i] \in 0..Window - 1
      BY <1>2, ElementOfSeq
    <3> QED BY <1>2, <2>1, <3>1, WebFormAssumption
  <2>2. CASE j # Len(h) + 1
    <3>1. i \in 1..Len(h) /\ j \in 1..Len(h)
      BY <1>1, <1>2, <2>2
    <3> QED BY <1>2, <3>1 DEF Ordered
  <2> QED BY <2>1, <2>2
<1> QED BY <1>2, <1>3 DEF g

LEMMA PassKeepsStamps ==
  ASSUME StampsInv, Pass
  PROVE  StampsInv'
<1>1. /\ hits' = Append(hits, 0) /\ passed' = [passed EXCEPT ![life] = Append(hits, 0)]
      /\ UNCHANGED <<life, age>>
      /\ ~(Len(hits) >= MaxPosts)
  BY DEF Pass, Full, StampsInv
<1>2. StampTypes /\ Ordered(hits) /\ Len(hits) \in Nat
  BY DEF StampsInv, StampTypes, LifeHolds
<1>3. /\ hits' \in Seq(0..Window - 1) /\ Ordered(hits') /\ Len(hits') = Len(hits) + 1
  BY <1>1, <1>2, AppendFacts DEF StampTypes
<1>4. Len(hits') <= MaxPosts
  BY <1>1, <1>2, <1>3, WebFormAssumption
<1>5. /\ passed'[life] = hits'
      /\ \A n \in Lives : n # life => passed'[n] = passed[n]
      /\ passed' \in [Lives -> Seq(0..Window - 1)]
  BY <1>1, <1>2, <1>3 DEF StampTypes
<1>6. StampTypes'
  BY <1>1, <1>2, <1>3, <1>5 DEF StampTypes
<1>7. ASSUME NEW n \in Lives PROVE LifeHolds(n)'
  <2>1. n \in Nat /\ life \in Nat
    BY <1>2, WebFormAssumption DEF Lives, StampTypes
  <2>2. CASE n = life
    BY <1>1, <1>3, <1>4, <1>5, <2>1, <2>2 DEF LifeHolds
  <2>3. CASE n # life
    BY <1>1, <1>5, <2>3 DEF StampsInv, LifeHolds
  <2> QED BY <2>2, <2>3
<1> QED BY <1>1, <1>5, <1>6, <1>7 DEF StampsInv

LEMMA TickKeepsStamps ==
  ASSUME StampsInv, Tick
  PROVE  StampsInv'
<1>1. /\ hits' = Recent(Older(hits)) /\ UNCHANGED life
      /\ passed' = [n \in Lives |-> Recent(Older(passed[n]))]
      /\ age' = [n \in Lives |-> IF age[n] < Window THEN age[n] + 1 ELSE Window]
  BY DEF Tick, Within
<1>2. Window \in Nat \ {0} /\ MaxPosts \in Nat /\ Lives = 0..MaxRestarts
      /\ MaxRestarts \in Nat
  BY WebFormAssumption DEF Lives
<1>3. StampTypes /\ passed[life] = hits /\ life \in Lives
  BY DEF StampsInv, StampTypes
<1>4. ASSUME NEW n \in Lives
      PROVE  passed'[n] \in Seq(0..Window - 1) /\ LifeHolds(n)'
  <2> DEFINE h == passed[n]
             r == passed'[n]
  <2>1. h \in Seq(0..Window - 1) /\ Ordered(h) /\ Len(h) <= MaxPosts /\ Len(h) \in Nat
    BY <1>3 DEF StampsInv, StampTypes, LifeHolds
  <2>2. r = Recent(Older(h))
    BY <1>1
  <2>3. LifeHolds(n)
    BY DEF StampsInv
  <2> HIDE DEF h, r
  <2>4. /\ r \in Seq(0..Window - 1) /\ Ordered(r) /\ Len(r) <= Len(h)
        /\ \A i \in 1..Len(r) : \E j \in 1..Len(h) : r[i] = h[j] + 1
    BY <2>1, <2>2, RecentFacts
  <2>5. Len(r) \in Nat /\ Len(r) <= MaxPosts
    BY <1>2, <2>1, <2>4
  <2>6. ASSUME n < life, NEW i \in 1..Len(r)
        PROVE  age'[n + 1] <= r[i]
    <3>1. PICK j \in 1..Len(h) : r[i] = h[j] + 1
      BY <2>4
    <3>2. h[j] \in 0..Window - 1 /\ age[n + 1] <= h[j]
      <4>1. h[j] \in 0..Window - 1
        BY <2>1, ElementOfSeq
      <4>2. age[n + 1] <= h[j]
        BY <2>3, <2>6 DEF LifeHolds, h
      <4> QED BY <4>1, <4>2
    <3>3. n + 1 \in Lives
      BY <1>2, <1>3, <2>6
    <3>4. age[n + 1] \in 0..Window
      BY <1>3, <3>3 DEF StampTypes
    <3>5. age'[n + 1] = IF age[n + 1] < Window THEN age[n + 1] + 1 ELSE Window
      BY <1>1, <3>3
    <3>6. age'[n + 1] = age[n + 1] + 1
      <4> DEFINE a == age[n + 1]
      <4>1. a \in 0..Window /\ h[j] \in 0..Window - 1 /\ a <= h[j]
        BY <3>2, <3>4
      <4> HIDE DEF a, h
      <4>2. a < Window
        BY <1>2, <4>1
      <4> QED BY <3>5, <4>2 DEF a
    <3> HIDE DEF h
    <3> QED BY <1>2, <3>1, <3>2, <3>4, <3>6
  <2>7. n > life => r = <<>>
    <3> SUFFICES ASSUME n > life PROVE r = <<>>
      OBVIOUS
    <3>1. h = <<>>
      BY <2>3 DEF LifeHolds, h
    <3>2. Len(r) = 0
      BY <2>4, <2>5, <3>1
    <3> QED BY <2>4, <3>2, EmptySeq
  <2> QED BY <1>1, <2>4, <2>5, <2>6, <2>7 DEF LifeHolds, r
<1>5. StampTypes'
  <2>1. hits' \in Seq(0..Window - 1)
    BY <1>1, <1>3, RecentFacts DEF StampTypes, StampsInv, LifeHolds
  <2>2. age' \in [Lives -> 0..Window]
    BY <1>1, <1>2, <1>3 DEF StampTypes
  <2>3. passed' \in [Lives -> Seq(0..Window - 1)]
    BY <1>1, <1>4
  <2> QED BY <1>1, <1>3, <2>1, <2>2, <2>3 DEF StampTypes
<1>6. passed'[life] = hits'
  BY <1>1, <1>3
<1> QED BY <1>1, <1>4, <1>5, <1>6 DEF StampsInv

\* What the earlier start let through is not younger than the new one.
LEMMA RestartKeepsStamps ==
  ASSUME StampsInv, Restart
  PROVE  StampsInv'
<1>1. /\ life < MaxRestarts /\ life' = life + 1 /\ hits' = <<>>
      /\ age' = [age EXCEPT ![life + 1] = 0] /\ UNCHANGED passed
  BY DEF Restart
<1>2. /\ Window \in Nat \ {0} /\ MaxRestarts \in Nat /\ Lives = 0..MaxRestarts
      /\ StampTypes /\ life \in Lives /\ life + 1 \in Lives
  BY <1>1, WebFormAssumption DEF StampsInv, StampTypes, Lives
<1>3. age' \in [Lives -> 0..Window] /\ age'[life + 1] = 0
      /\ \A n \in Lives : n # life + 1 => age'[n] = age[n]
  BY <1>1, <1>2 DEF StampTypes
<1>4. StampTypes'
  BY <1>1, <1>2, <1>3 DEF StampTypes
<1>5. passed'[life'] = hits'
  BY <1>1, <1>2 DEF StampsInv, LifeHolds
<1>6. ASSUME NEW n \in Lives PROVE LifeHolds(n)'
  <2>1. LifeHolds(n) /\ n \in Nat /\ life \in Nat /\ passed[n] \in Seq(0..Window - 1)
    BY <1>2 DEF StampsInv, StampTypes
  <2>2. ASSUME n < life', NEW i \in 1..Len(passed[n])
        PROVE  age'[n + 1] <= passed[n][i]
    <3>1. CASE n = life
      <4>1. passed[n][i] \in 0..Window - 1
        BY <2>1, ElementOfSeq
      <4> QED BY <1>2, <1>3, <3>1, <4>1
    <3>2. CASE n # life
      <4>1. n < life /\ n + 1 \in Lives /\ n + 1 # life + 1
        BY <1>1, <1>2, <2>1, <2>2, <3>2
      <4> QED BY <1>3, <2>1, <4>1 DEF LifeHolds
    <3> QED BY <3>1, <3>2
  <2> QED BY <1>1, <2>1, <2>2 DEF LifeHolds
<1> QED BY <1>4, <1>5, <1>6 DEF StampsInv

LEMMA StepStamps ==
  ASSUME StampsInv, [Next]_vars
  PROVE  StampsInv'
<1>1. CASE UNCHANGED limiter
  BY <1>1 DEF limiter, StampsInv, StampTypes, LifeHolds
<1>2. \A v \in Visitors : VisitorStep(v) => UNCHANGED limiter
  BY DEF VisitorStep, Choose, EnterDetails, Turn, Send, Answer, Lose, NewForm
<1>3. \A v \in Visitors : Serve(v) \/ ServeLate(v) => Pass \/ UNCHANGED limiter
  BY DEF Serve, ServeLate, Handle, TurnAway, Refuse, Create
<1>4. AdminStep => UNCHANGED limiter
  BY DEF AdminStep, AddProduct, ToggleProduct, SetProduct, SetOpen
<1> QED
  BY <1>1, <1>2, <1>3, <1>4, PassKeepsStamps, TickKeepsStamps, RestartKeepsStamps
  DEF Next, vars

LEMMA StampsHold == Spec => []StampsInv
<1>1. Init => StampsInv
  <2> SUFFICES ASSUME Init PROVE StampsInv
    OBVIOUS
  <2>1. 0 \in Lives /\ Window \in 0..Window /\ <<>> \in Seq(0..Window - 1)
        /\ MaxPosts \in Nat /\ \A n \in Lives : ~(n < 0)
    BY WebFormAssumption DEF Lives
  <2>2. StampTypes /\ passed[life] = hits
    BY <2>1 DEF Init, StampTypes
  <2>3. Ordered(<<>>) /\ Len(<<>>) <= MaxPosts
    BY <2>1 DEF Ordered
  <2>4. \A n \in Lives : LifeHolds(n)
    BY <2>1, <2>3 DEF Init, LifeHolds
  <2> QED BY <2>2, <2>4 DEF StampsInv
<1>2. StampsInv /\ [Next]_vars => StampsInv'
  BY StepStamps
<1> QED BY <1>1, <1>2, PTL DEF Spec

\* No start of the process lets more requests through in a window than the
\* limit, with any limit and window and however requests fall in it; and what
\* two starts let through meets in one window only with the restart between.
THEOREM WindowHoldsAlways == Spec => []WindowHolds
<1>1. StampsInv => WindowHolds
  <2> SUFFICES ASSUME StampsInv, NEW n \in 0..life
               PROVE  /\ Len(passed[n]) <= MaxPosts
                      /\ n < life /\ passed[n] # <<>> => age[n + 1] < Window
    BY DEF WindowHolds
  <2>1. n \in Lives /\ n + 1 \in Nat /\ life \in Nat /\ life <= MaxRestarts
        /\ MaxRestarts \in Nat /\ Window \in Nat
    BY WebFormAssumption DEF StampsInv, StampTypes, Lives
  <2>2. LifeHolds(n) /\ passed[n] \in Seq(0..Window - 1)
    BY <2>1 DEF StampsInv, StampTypes
  <2>3. ASSUME n < life, passed[n] # <<>>
        PROVE  age[n + 1] < Window
    <3>1. 1 \in 1..Len(passed[n])
      BY <2>2, <2>3, EmptySeq
    <3>2. passed[n][1] \in 0..Window - 1 /\ age[n + 1] <= passed[n][1]
      BY <2>2, <2>3, <3>1, ElementOfSeq DEF LifeHolds
    <3>3. age[n + 1] \in 0..Window
      BY <2>1, <2>3 DEF StampsInv, StampTypes, Lives
    <3> QED BY <2>1, <3>2, <3>3
  <2> QED BY <2>2, <2>3 DEF LifeHolds
<1> QED BY <1>1, StampsHold, PTL

------------------------------------------------------------------------------
(* Types.                                                                  *)

\* A form past its first page, and a request on its way, have a product.
Chosen(f, r) ==
  /\ f.step \in {"details", "contact", "confirm"} => f.product \in Products
  /\ r.at = "sent" => r.product \in Products

\* So has a late one.
Drifts(late) ==
  /\ late \in [Visitors -> Request]
  /\ \A v \in Visitors : late[v] # NoRequest => late[v].product \in Products

Table(L) == L \in Seq(Lead) /\ Len(L) <= MaxLeads

TypesInv ==
  /\ product \in [Products -> {"none", "active", "hidden"}]
  /\ form \in [Visitors -> Form]
  /\ request \in [Visitors -> Request]
  /\ Drifts(adrift)
  /\ Table(leads)
  /\ \A v \in Visitors : Chosen(form[v], request[v])

\* A form and a request change together; the request may leave a lead behind.
LEMMA TypesMoved ==
  ASSUME TypesInv, NEW v \in Visitors, NEW f \in Form, NEW r \in Request,
         form' = [form EXCEPT ![v] = f], request' = [request EXCEPT ![v] = r],
         UNCHANGED product, Drifts(adrift'), Table(leads'), Chosen(f, r)
  PROVE  TypesInv'
<1>1. /\ form'[v] = f /\ \A u \in Visitors \ {v} : form'[u] = form[u]
      /\ form' \in [Visitors -> Form]
  BY DEF TypesInv
<1>2. /\ request'[v] = r /\ \A u \in Visitors \ {v} : request'[u] = request[u]
      /\ request' \in [Visitors -> Request]
  BY DEF TypesInv
<1>3. \A u \in Visitors : Chosen(form'[u], request'[u])
  BY <1>1, <1>2 DEF TypesInv
<1> QED BY <1>1, <1>2, <1>3 DEF TypesInv

LEMMA VisitorTypes ==
  ASSUME TypesInv, NEW v \in Visitors, VisitorStep(v)
  PROVE  TypesInv'
<1>1. /\ form[v] \in Form /\ request[v] \in Request /\ Chosen(form[v], request[v])
      /\ form = [form EXCEPT ![v] = form[v]]
      /\ request = [request EXCEPT ![v] = request[v]]
      /\ Table(leads) /\ Drifts(adrift)
  BY DEF TypesInv
\* The visitor turns pages: the request is as it was.
<1>2. ASSUME NEW f \in Form, SetForm(v, f), UNCHANGED <<product, request, adrift, leads>>,
             f.step \in {"details", "contact", "confirm"} => f.product \in Products
      PROVE  TypesInv'
  <2>1. form' = [form EXCEPT ![v] = f] /\ request' = [request EXCEPT ![v] = request[v]]
    BY <1>1, <1>2 DEF SetForm
  <2>2. Chosen(f, request[v])
    BY <1>1, <1>2 DEF Chosen
  <2> QED BY <1>1, <1>2, <2>1, <2>2, TypesMoved
<1>3. CASE \E p \in Products : Choose(v, p)
  <2>1. PICK p \in Products : Choose(v, p)
    BY <1>3
  <2> DEFINE f == [form[v] EXCEPT !.step = "details", !.product = p]
  <2>2. f \in Form /\ f.product = p
    BY <1>1 DEF Form, Steps
  <2> HIDE DEF f
  <2> QED BY <1>2, <2>1, <2>2 DEF Choose, f
<1>4. CASE \E q \in Entries, next \in {"product", "contact"} : EnterDetails(v, q, next)
  <2>1. PICK q \in Entries, next \in {"product", "contact"} : EnterDetails(v, q, next)
    BY <1>4
  <2> DEFINE f == [form[v] EXCEPT !.quantity = q, !.step = next]
  <2>2. f \in Form /\ f.product = form[v].product
    BY <1>1 DEF Form, Steps
  <2>3. form[v].product \in Products
    BY <1>1, <2>1 DEF EnterDetails, Chosen
  <2> HIDE DEF f
  <2> QED BY <1>2, <2>1, <2>2, <2>3 DEF EnterDetails, f
<1>5. CASE \E next \in Steps : Turn(v, next)
  <2>1. PICK next \in Steps : Turn(v, next)
    BY <1>5
  <2> DEFINE f == [form[v] EXCEPT !.step = next]
  <2>2. form[v].step \in {"details", "contact", "confirm"}
    BY <2>1 DEF Turn, Turns
  <2>3. f \in Form /\ f.product = form[v].product
    BY <1>1 DEF Form
  <2>4. form[v].product \in Products
    BY <1>1, <2>2 DEF Chosen
  <2> HIDE DEF f
  <2> QED BY <1>2, <2>1, <2>3, <2>4 DEF Turn, f
<1>6. CASE Send(v)
  <2> DEFINE r == [at |-> "sent", product |-> form[v].product, shown |-> form[v].quantity,
                   quantity |-> Posted(form[v].quantity), answer |-> 0]
  <2>1. form[v].quantity \in Nat /\ form[v].product \in Products \cup {NoProduct}
    BY <1>1, WebFormAssumption DEF Form
  <2>2. Posted(form[v].quantity) \in Nat /\ 0 \in 0..MaxLeads
    BY <2>1, WebFormAssumption DEF Posted
  <2>3. r \in Request /\ r.at = "sent" /\ r.product = form[v].product
    BY <2>1, <2>2 DEF Request
  <2>4. /\ form[v].step = "confirm" /\ UNCHANGED <<product, form, adrift, leads>>
        /\ request' = [request EXCEPT ![v] = r]
    BY <1>6 DEF Send
  <2> HIDE DEF r
  <2>5. Chosen(form[v], r)
    BY <1>1, <2>3, <2>4 DEF Chosen
  <2> QED BY <1>1, <2>3, <2>4, <2>5, TypesMoved
<1>7. CASE Answer(v) /\ request[v].answer # 0
  <2> DEFINE f == [form[v] EXCEPT !.step = "success", !.token = request[v].answer]
             r == [request[v] EXCEPT !.at = "none"]
  <2>1. f \in Form /\ f.step = "success" /\ r \in Request /\ r.at = "none"
    BY <1>1 DEF Form, Request, Steps
  <2>2. /\ UNCHANGED <<product, adrift, leads>>
        /\ form' = [form EXCEPT ![v] = f]
        /\ request' = [request EXCEPT ![v] = r]
    BY <1>1, <1>7 DEF Answer, SetForm, TypesInv
  <2> HIDE DEF f, r
  <2>3. Chosen(f, r)
    BY <2>1 DEF Chosen
  <2> QED BY <1>1, <2>1, <2>2, <2>3, TypesMoved
<1>8. CASE \/ Answer(v) /\ request[v].answer = 0
           \/ Lose(v) \/ NewForm(v)
  <2>1. NoRequest \in Request /\ NoRequest.at = "none"
    BY WebFormAssumption DEF NoRequest, Request
  <2>2. FreshForm \in Form /\ FreshForm.step = "product"
    BY WebFormAssumption DEF FreshForm, Form, Steps
  <2>3. /\ UNCHANGED <<product, leads>> /\ request' = [request EXCEPT ![v] = NoRequest]
        /\ \/ UNCHANGED adrift
           \/ request[v].at = "sent" /\ adrift' = [adrift EXCEPT ![v] = request[v]]
    BY <1>8 DEF Answer, Lose, NewForm
  <2>6. Drifts(adrift')
    <3>1. CASE UNCHANGED adrift
      BY <1>1, <3>1
    <3>2. CASE request[v].at = "sent" /\ adrift' = [adrift EXCEPT ![v] = request[v]]
      BY <1>1, <3>2 DEF Drifts, Chosen
    <3> QED BY <2>3, <3>1, <3>2
  <2>4. CASE UNCHANGED form
    <3>1. Chosen(form[v], NoRequest)
      BY <1>1, <2>1 DEF Chosen
    <3> QED BY <1>1, <2>1, <2>3, <2>4, <2>6, <3>1, TypesMoved
  <2>5. CASE form' = [form EXCEPT ![v] = FreshForm]
    <3>1. Chosen(FreshForm, NoRequest)
      BY <2>1, <2>2 DEF Chosen
    <3> QED BY <1>1, <2>1, <2>2, <2>3, <2>5, <2>6, <3>1, TypesMoved
  <2> QED BY <1>8, <2>4, <2>5 DEF Answer, Lose, NewForm, SetForm
<1> QED BY <1>3, <1>4, <1>5, <1>6, <1>7, <1>8 DEF VisitorStep

\* What the handler makes of a request that has a product.
LEMMA HandleTypes ==
  ASSUME TypesInv, NEW v \in Visitors, NEW r \in Request, r.product \in Products,
         NEW n, Handle(v, r, n)
  PROVE  Table(leads')
<1>1. CASE UNCHANGED leads
  BY <1>1 DEF TypesInv
<1>2. CASE Create(v, r, n)
  <2>1. r.quantity \in 1..MaxQuantity
    BY <1>2 DEF Create, Unfit
  <2> DEFINE row == LeadOf(v, r)
  <2>2. row \in Lead
    BY <2>1 DEF Lead, LeadOf
  <2>3. leads' = Append(leads, row) /\ Len(leads) < MaxLeads
    BY <1>2 DEF Create
  <2>4. leads \in Seq(Lead) /\ Len(leads) \in Nat /\ MaxLeads \in Nat
    BY WebFormAssumption DEF TypesInv, Table
  <2> HIDE DEF row
  <2>5. leads' \in Seq(Lead) /\ Len(leads') = Len(leads) + 1
    BY <2>2, <2>3, <2>4
  <2> QED BY <2>3, <2>4, <2>5 DEF Table
<1> QED BY <1>1, <1>2 DEF Handle, TurnAway, Refuse

LEMMA ServerTypes ==
  ASSUME TypesInv, NEW v \in Visitors, Serve(v)
  PROVE  TypesInv'
<1>1. /\ form[v] \in Form /\ request[v] \in Request /\ Chosen(form[v], request[v])
      /\ form = [form EXCEPT ![v] = form[v]] /\ Drifts(adrift)
  BY DEF TypesInv
<1>2. PICK n \in 0..MaxLeads : Handle(v, request[v], n) /\ Reply(v, n)
  BY DEF Serve
<1>3. UNCHANGED <<product, form, adrift>> /\ request[v].at = "sent"
  BY DEF Serve
<1> DEFINE r == [request[v] EXCEPT !.at = "answered", !.answer = n]
<1>4. r \in Request /\ r.at = "answered"
  BY <1>1 DEF Request
<1>5. request' = [request EXCEPT ![v] = r]
  BY <1>2 DEF Reply, TypesInv
<1> HIDE DEF r
<1>6. Chosen(form[v], r)
  BY <1>1, <1>4 DEF Chosen
<1>7. Table(leads')
  BY <1>1, <1>2, <1>3, HandleTypes DEF Chosen
<1> QED BY <1>1, <1>3, <1>4, <1>5, <1>6, <1>7, TypesMoved

LEMMA LateTypes ==
  ASSUME TypesInv, NEW v \in Visitors, ServeLate(v)
  PROVE  TypesInv'
<1>1. PICK n \in 0..MaxLeads : Handle(v, adrift[v], n)
  BY DEF ServeLate
<1>2. adrift[v] \in Request /\ adrift[v].product \in Products
  BY DEF ServeLate, TypesInv, Drifts
<1>3. Table(leads')
  BY <1>1, <1>2, HandleTypes
<1>4. UNCHANGED <<product, form, request>> /\ adrift' = [adrift EXCEPT ![v] = NoRequest]
  BY DEF ServeLate
<1>5. NoRequest \in Request
  BY WebFormAssumption DEF NoRequest, Request
<1>6. Drifts(adrift')
  BY <1>4, <1>5 DEF TypesInv, Drifts
<1> QED BY <1>3, <1>4, <1>6 DEF TypesInv

LEMMA AdminTypes ==
  ASSUME TypesInv, AdminStep \/ Tick \/ Restart \/ UNCHANGED vars
  PROVE  TypesInv'
<1>1. UNCHANGED <<form, request, adrift>>
  BY DEF AdminStep, AddProduct, ToggleProduct, SetProduct, SetOpen, Tick, Restart, vars
<1>2. product' \in [Products -> {"none", "active", "hidden"}]
  BY DEF AdminStep, AddProduct, ToggleProduct, SetProduct, SetOpen, Tick, Restart, vars,
         TypesInv
<1>3. Table(leads')
  <2>1. CASE UNCHANGED leads
    BY <2>1 DEF TypesInv
  <2>2. CASE \E i \in 1..Len(leads), b \in BOOLEAN : SetOpen(i, b)
    <3>1. PICK i \in 1..Len(leads), b \in BOOLEAN : SetOpen(i, b)
      BY <2>2
    <3> DEFINE row == [leads[i] EXCEPT !.open = b]
    <3>2. row \in Lead
      <4>1. leads[i] \in Lead
        BY DEF TypesInv, Table
      <4> QED BY <4>1 DEF Lead
    <3>3. leads' = [leads EXCEPT ![i] = row]
      BY <3>1 DEF SetOpen
    <3> HIDE DEF row
    <3> QED BY <3>2, <3>3, ExceptSeq DEF TypesInv, Table
  <2> QED
    BY <2>1, <2>2 DEF AdminStep, AddProduct, ToggleProduct, SetProduct, Tick, Restart, vars
<1> QED BY <1>1, <1>2, <1>3 DEF TypesInv

\* Every variable keeps its type: so a lead has a product that was on offer and a
\* quantity the bot takes, and no stamp outlives its window.
THEOREM TypeCorrect == Spec => []TypeOK
<1>1. Init => TypesInv
  <2> SUFFICES ASSUME Init PROVE TypesInv
    OBVIOUS
  <2>1. FreshForm \in Form /\ NoRequest \in Request
    BY WebFormAssumption DEF FreshForm, NoRequest, Form, Request, Steps
  <2>2. FreshForm.step = "product" /\ NoRequest.at = "none"
    BY DEF FreshForm, NoRequest
  <2>3. Table(<<>>)
    BY WebFormAssumption DEF Table
  <2>4. Drifts(adrift)
    BY <2>1 DEF Init, Drifts
  <2> QED BY <2>1, <2>2, <2>3, <2>4 DEF Init, TypesInv, Chosen
<1>2. TypesInv /\ [Next]_vars => TypesInv'
  BY VisitorTypes, ServerTypes, LateTypes, AdminTypes DEF Next
<1>3. TypesInv /\ StampsInv => TypeOK
  BY DEF TypesInv, Drifts, Table, StampsInv, StampTypes, TypeOK
<1> QED BY <1>1, <1>2, <1>3, StampsHold, PTL DEF Spec

------------------------------------------------------------------------------
(***************************************************************************)
(* WebForm implements LeadSlots: the web user holds a slot for each        *)
(* product, whoever of the visitors ordered it.                            *)
(***************************************************************************)
OpenRows(L, p) == {i \in 1..Len(L) : L[i].product = p /\ L[i].open}

HolderOf(L, p) ==
  IF OpenRows(L, p) = {} THEN 0 ELSE CHOOSE i \in OpenRows(L, p) : TRUE

Slots == INSTANCE LeadSlots WITH
           Slots <- Products, LeadIds <- 1..MaxLeads,
           holder <- [p \in Products |-> HolderOf(leads, p)]

\* A product never passes from one open lead of the web user to another directly.
ImplementsSlots == Slots!Spec

Holders == [p \in Products |-> HolderOf(leads, p)]

\* Two open leads of the web user are of different products.
RowsDiffer ==
  \A i, j \in 1..Len(leads) :
    leads[i].open /\ leads[j].open /\ leads[i].product = leads[j].product => i = j

\* The open leads of a product, when they are the row i or none.
LEMMA FreeOrHeld ==
  ASSUME NEW L, NEW p, NEW i \in 1..Len(L), L[i].product = p, L[i].open \in BOOLEAN,
         \A j \in 1..Len(L) : L[j].product = p /\ L[j].open => j = i
  PROVE  HolderOf(L, p) = IF L[i].open THEN i ELSE 0
<1>1. CASE L[i].open
  <2>1. OpenRows(L, p) = {i}
    BY <1>1 DEF OpenRows
  <2> QED BY <1>1, <2>1 DEF HolderOf
<1>2. CASE ~L[i].open
  <2>1. OpenRows(L, p) = {}
    BY <1>2 DEF OpenRows
  <2> QED BY <1>2, <2>1 DEF HolderOf
<1> QED BY <1>1, <1>2

\* Tables that agree on the leads of a product agree on its holder.
LEMMA SameHolder ==
  ASSUME NEW L, NEW M, NEW p,
         \A i : i \in 1..Len(L) /\ L[i].product = p /\ L[i].open
                  <=> i \in 1..Len(M) /\ M[i].product = p /\ M[i].open
  PROVE  HolderOf(L, p) = HolderOf(M, p)
<1>1. OpenRows(L, p) = OpenRows(M, p)
  BY DEF OpenRows
<1> QED BY <1>1 DEF HolderOf

LEMMA CreateAcquires ==
  ASSUME TypeOK, TypeOK', RowsDiffer, NEW v \in Visitors, NEW r, NEW n, Create(v, r, n)
  PROVE  RowsDiffer' /\ Slots!Next
<1> DEFINE p == r.product
<1>1. OpenLeads(p) = {}
  BY DEF Create, Unfit
<1>2. /\ leads \in Seq(Lead) /\ Len(leads) \in Nat /\ Len(leads') = n
      /\ leads' \in Seq(Lead) /\ Len(leads') <= MaxLeads
      /\ n = Len(leads) + 1
      /\ \A i \in 1..Len(leads) : leads'[i] = leads[i]
      /\ leads'[n].product = p /\ leads'[n].open
  BY DEF TypeOK, Create, LeadOf
<1>3. n \in 1..MaxLeads /\ n \in 1..Len(leads') /\ n # 0
  BY <1>2, WebFormAssumption
<1>4. p \in Products
  <2>1. leads'[n] \in Lead
    BY <1>2, <1>3, ElementOfSeq
  <2>2. leads'[n].product \in Products
    BY <2>1 DEF Lead
  <2> QED BY <1>2, <2>2
<1>5. \A i \in 1..Len(leads') : i # n => i \in 1..Len(leads)
  BY <1>2
<1>6. \A i \in 1..Len(leads) : i \in 1..Len(leads') /\ i # n
  BY <1>2
<1> HIDE DEF p
<1>7. \A i \in 1..Len(leads') : leads'[i].product = p /\ leads'[i].open => i = n
  BY <1>1, <1>2, <1>5 DEF OpenLeads
<1>8. RowsDiffer'
  <2> SUFFICES ASSUME NEW i \in 1..Len(leads'), NEW j \in 1..Len(leads'), i # j,
                      leads'[i].open, leads'[j].open, leads'[i].product = leads'[j].product
               PROVE  FALSE
    BY DEF RowsDiffer
  <2>1. CASE i = n \/ j = n
    BY <1>2, <1>7, <2>1
  <2>2. CASE i # n /\ j # n
    BY <1>2, <1>5, <2>2 DEF RowsDiffer
  <2> QED BY <2>1, <2>2
<1>9. HolderOf(leads, p) = 0 /\ HolderOf(leads', p) = n
  <2>1. HolderOf(leads, p) = 0
    BY <1>1 DEF OpenLeads, HolderOf, OpenRows
  <2> QED BY <1>2, <1>3, <1>7, <2>1, FreeOrHeld
<1>10. ASSUME NEW q \in Products, q # p PROVE HolderOf(leads', q) = HolderOf(leads, q)
  <2>1. ASSUME NEW i
        PROVE  i \in 1..Len(leads) /\ leads[i].product = q /\ leads[i].open
                 <=> i \in 1..Len(leads') /\ leads'[i].product = q /\ leads'[i].open
    <3>1. CASE i \in 1..Len(leads)
      BY <1>2, <1>6, <3>1
    <3>2. CASE i \notin 1..Len(leads)
      BY <1>2, <1>5, <1>10, <3>2
    <3> QED BY <3>1, <3>2
  <2> QED BY <2>1, SameHolder
<1>11. Holders[p] = 0 /\ Holders' = [Holders EXCEPT ![p] = n] /\ Holders'[p] = n
  BY <1>4, <1>9, <1>10 DEF Holders
<1> QED BY <1>3, <1>4, <1>8, <1>11 DEF Slots!Next, Slots!Acquire, Holders

LEMMA SetOpenMoves ==
  ASSUME TypeOK, RowsDiffer, NEW i \in 1..Len(leads), NEW b \in BOOLEAN, SetOpen(i, b)
  PROVE  RowsDiffer' /\ Slots!Next
<1> DEFINE p == leads[i].product
<1>1. /\ leads \in Seq(Lead) /\ leads[i] \in Lead /\ p \in Products
      /\ leads[i].open \in BOOLEAN /\ i \in 1..MaxLeads /\ i # 0
  <2>1. leads \in Seq(Lead) /\ Len(leads) <= MaxLeads
    BY DEF TypeOK
  <2>2. leads[i] \in Lead
    BY <2>1, ElementOfSeq
  <2>3. i \in 1..MaxLeads /\ i # 0
    BY <2>1, WebFormAssumption
  <2> QED BY <2>1, <2>2, <2>3 DEF Lead
<1>2. /\ Len(leads') = Len(leads)
      /\ \A j \in 1..Len(leads) : j # i => leads'[j] = leads[j]
      /\ leads'[i].product = p /\ leads'[i].open = b
  BY <1>1 DEF SetOpen, Lead
<1>3. leads[i].open # b
  BY DEF SetOpen
<1>4. \A j \in 1..Len(leads) : leads[j].product = p /\ leads[j].open => j = i
  BY <1>1, <1>3 DEF SetOpen, OpenLeads, RowsDiffer
<1> HIDE DEF p
<1>5. \A j \in 1..Len(leads') : leads'[j].product = p /\ leads'[j].open => j = i
  BY <1>2, <1>4
<1>6. RowsDiffer'
  <2> SUFFICES ASSUME NEW j \in 1..Len(leads), NEW k \in 1..Len(leads), j # k,
                      leads'[j].open, leads'[k].open, leads'[j].product = leads'[k].product
               PROVE  FALSE
    BY <1>2 DEF RowsDiffer
  <2>1. CASE j = i \/ k = i
    BY <1>2, <1>5, <2>1
  <2>2. CASE j # i /\ k # i
    BY <1>2, <2>2 DEF RowsDiffer
  <2> QED BY <2>1, <2>2
<1>7. /\ HolderOf(leads, p) = IF leads[i].open THEN i ELSE 0
      /\ HolderOf(leads', p) = IF b THEN i ELSE 0
  <2>1. leads[i].product = p /\ i \in 1..Len(leads')
    BY <1>2 DEF p
  <2> QED BY <1>1, <1>2, <1>4, <1>5, <2>1, FreeOrHeld
<1>8. ASSUME NEW q \in Products, q # p PROVE HolderOf(leads', q) = HolderOf(leads, q)
  <2>1. leads[i].product # q
    BY <1>8 DEF p
  <2> QED BY <1>2, <1>8, <2>1, SameHolder
<1>9. /\ Holders[p] = IF leads[i].open THEN i ELSE 0
      /\ Holders' = [Holders EXCEPT ![p] = IF b THEN i ELSE 0]
      /\ Holders'[p] = IF b THEN i ELSE 0
  BY <1>1, <1>7, <1>8 DEF Holders
<1>10. CASE b
  BY <1>1, <1>3, <1>6, <1>9, <1>10 DEF Slots!Next, Slots!Acquire, Holders
<1>11. CASE ~b
  BY <1>1, <1>3, <1>6, <1>9, <1>11 DEF Slots!Next, Slots!Release, Holders
<1> QED BY <1>10, <1>11

\* The form, the limiter and the admin together keep the promise of LeadSlots, of
\* which the request flow is the other half: whatever visitors send and however
\* often they retry, the web user never has two open leads of one product, and
\* the second is accepted only after the first was closed.
THEOREM WebImplementsSlots == Spec => ImplementsSlots
<1>1. Init => RowsDiffer /\ Slots!Init
  BY DEF Init, RowsDiffer, Slots!Init, HolderOf, OpenRows
<1>2. TypeOK /\ TypeOK' /\ RowsDiffer /\ [Next]_vars =>
        RowsDiffer' /\ (Slots!Next \/ UNCHANGED Holders)
  <2> SUFFICES ASSUME TypeOK, TypeOK', RowsDiffer, [Next]_vars
               PROVE  RowsDiffer' /\ (Slots!Next \/ UNCHANGED Holders)
    OBVIOUS
  <2>1. ASSUME NEW v \in Visitors, NEW r, NEW n, Create(v, r, n)
        PROVE  RowsDiffer' /\ Slots!Next
    BY <2>1, CreateAcquires
  <2>2. CASE \E i \in 1..Len(leads), b \in BOOLEAN : SetOpen(i, b)
    BY <2>2, SetOpenMoves
  <2>3. CASE UNCHANGED leads
    BY <2>3 DEF RowsDiffer, Holders, HolderOf, OpenRows
  <2>4. ASSUME NEW v \in Visitors, Serve(v) \/ ServeLate(v)
        PROVE  RowsDiffer' /\ (Slots!Next \/ UNCHANGED Holders)
    <3>1. PICK r, n : Handle(v, r, n)
      BY <2>4 DEF Serve, ServeLate
    <3> QED BY <2>1, <2>3, <3>1 DEF Handle, TurnAway, Refuse
  <2>5. ASSUME NEW v \in Visitors, VisitorStep(v) PROVE UNCHANGED leads
    BY <2>5 DEF VisitorStep, Choose, EnterDetails, Turn, Send, Answer, Lose, NewForm
  <2> QED
    BY <2>2, <2>3, <2>4, <2>5
    DEF Next, vars, AdminStep, AddProduct, ToggleProduct, SetProduct, Tick, Restart
<1> QED
  BY <1>1, <1>2, TypeCorrect, PTL DEF Spec, ImplementsSlots, Slots!Spec, Holders
==============================================================================
