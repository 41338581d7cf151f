-------------------------- MODULE Conversation_proofs --------------------------
(***************************************************************************)
(* Theorems about Conversation, for every value of its constants: any      *)
(* number of clients, of updates awaited at once and of texts.             *)
(***************************************************************************)
EXTENDS Conversation, TLAPS

------------------------------------------------------------------------------
(* The inductive invariant.                                                *)

WithText == {"agent", "card", "model", "answering", "own", "auto", "reply", "web", "closing"}
WithSees == {"card", "model", "drafting"}
Sends    == {"auto", "reply", "web", "closing"}

\* A waiting handler holds a text that is still to be recorded or to be sent.
Carries(w) == w.at \in {"agent", "answering", "own"} \cup Sends /\ w.text # None

\* What a handler that waits as w may rely on, given the state.
Sure(w, tx, rec, hrd, pend) ==
  /\ w.at \in WithText /\ w.text # None => w.text \in For(w.client, tx)
  /\ w.at \in WithSees => w.sees \subseteq For(w.client, tx)
  /\ w.at \in {"card", "model"} => w.text \notin w.sees
  /\ w.at = "agent" => w.text \notin rec[w.client]
  /\ w.at \in Sends => w.text \in rec[w.client]
  /\ w.at = "own" => tx[w.text].kind = "agent"
  /\ w.at = "answering" /\ w.text # None => tx[w.text].kind = "suggestion"
  /\ Carries(w) => \A c \in Clients : hrd[c][w.text] = 0 /\ pend[c] # w.text

HandlersAreSure == \A h \in Handlers : Sure(running[h], texts, record, heard, pending)

\* No two handlers hold the same text to send it.
OneCarrier ==
  \A h, g \in Handlers :
    Carries(running[h]) /\ Carries(running[g]) /\ running[h].text = running[g].text => h = g

\* What is on record for a client, was heard by it or is kept for it.
Kept(c, tx, rec, hrd, pend) ==
  /\ rec[c] \subseteq For(c, tx)
  /\ pend[c] # None => /\ pend[c] \in For(c, tx)
                       /\ tx[pend[c]].kind = "suggestion"
                       /\ \A d \in Clients : hrd[d][pend[c]] = 0
  /\ \A t \in Texts :
       /\ hrd[c][t] <= 1
       /\ hrd[c][t] > 0 => t \in For(c, tx) /\ (t \in rec[c] \/ tx[t].kind = "agent")

ClientsAreKept == \A c \in Clients : Kept(c, texts, record, heard, pending)

TextsInv == HandlersAreSure /\ OneCarrier /\ ClientsAreKept

\* An admin that waits has one handler at a time, and the client it turned to
\* last is the one a press of "dialog" is about to select, or the active one.
WaitsInv ==
  waits =>
    /\ \A h, g \in Handlers :
         running[h].at \in OfAdmin /\ running[g].at \in OfAdmin => h = g
    /\ \A h \in Handlers : running[h].at = "dialog" => running[h].client = meant
    /\ (\A h \in Handlers : running[h].at # "dialog") => active \in {meant, NoClient}
------------------------------------------------------------------------------
(* Facts about the operators.                                              *)

Slot == Waiting \cup {Idle}

\* What a handler holds at each of its awaits.
LEMMA WaitShape ==
  ASSUME NEW w \in Slot
  PROVE  /\ w.at \in WithText => w.client \in Clients
         /\ w.at \in WithText \ {"answering"} => w.text \in Texts
         /\ w.at = "answering" => w.text \in Texts \cup {None}
         /\ w.at \in WithSees => w.client \in Clients /\ w.sees \in SUBSET Texts
         /\ w.at \in {"asked", "dialog"} => w.client \in Clients
         /\ w.at = "idle" => w = Idle
BY DEF Slot, Waiting, Idle, Agent, Prompt, Asked, Drafting, Answering, Sending,
       WithText, WithSees, Sends

LEMMA NoneIsNoText == None \notin Texts
BY ConversationAssumption DEF Texts

\* The places of a handler that may follow an action.
LEMMA WaitPlaces ==
  /\ Idle \in Slot
  /\ \A c \in Clients, t \in Texts :
       /\ [at |-> "agent", client |-> c, text |-> t] \in Slot
       /\ [at |-> "own", client |-> c, text |-> t] \in Slot
       /\ \A a \in Sends : [at |-> a, client |-> c, text |-> t] \in Slot
       /\ \A S \in SUBSET Texts :
            /\ [at |-> "card", client |-> c, text |-> t, sees |-> S] \in Slot
            /\ [at |-> "model", client |-> c, text |-> t, sees |-> S] \in Slot
  /\ \A c \in Clients :
       /\ \A a \in {"asked", "dialog"} : [at |-> a, client |-> c] \in Slot
       /\ \A S \in SUBSET Texts : [at |-> "drafting", client |-> c, sees |-> S] \in Slot
       /\ \A t \in Texts \cup {None} :
            [at |-> "answering", client |-> c, text |-> t] \in Slot
BY DEF Slot, Waiting, Agent, Prompt, Asked, Drafting, Answering, Sending, Sends

LEMMA IdleIsSure ==
  ASSUME NEW tx, NEW rec, NEW hrd, NEW pend
  PROVE  Sure(Idle, tx, rec, hrd, pend) /\ ~Carries(Idle)
BY DEF Sure, Idle, Carries, WithText, WithSees, Sends

\* Of the types, what the proofs about one handler need.
LEMMA RunningShape ==
  ASSUME TypeOK, NEW h \in Handlers
  PROVE  running[h] \in Slot
BY DEF TypeOK, Slot

LEMMA Waited ==
  ASSUME TypeOK, NEW h \in Handlers, NEW w, Wait(h, w)
  PROVE  /\ running'[h] = w
         /\ \A g \in Handlers \ {h} : running'[g] = running[g]
         /\ w \in Slot => running' \in [Handlers -> Slot]
BY DEF TypeOK, Wait, Slot

Text == [kind : Kinds, client : Clients]

LEMMA Written ==
  ASSUME TypeOK, NEW kind \in Kinds, NEW c \in Clients, Write(kind, c)
  PROVE  /\ Next1 \in Texts /\ Next1 \notin 1..Len(texts) /\ Next1 # None
         /\ texts' \in Seq(Text) /\ Len(texts') = Next1 /\ Len(texts') <= MaxTexts
         /\ 1..Len(texts) \subseteq 1..Len(texts') /\ Next1 \in 1..Len(texts')
         /\ \A t \in 1..Len(texts) : texts'[t] = texts[t]
         /\ texts'[Next1] = [kind |-> kind, client |-> c]
<1> DEFINE t0 == [kind |-> kind, client |-> c]
<1>1. t0 \in Text
  BY DEF Text
<1>2. texts \in Seq(Text) /\ Len(texts) <= MaxTexts
  BY DEF TypeOK, Text
<1>3. Len(texts) < MaxTexts /\ texts' = Append(texts, t0)
  BY DEF Write
<1> HIDE DEF t0
<1>4. Len(texts) \in Nat /\ MaxTexts \in Nat
  BY <1>2, ConversationAssumption
<1>5. /\ texts' \in Seq(Text) /\ Len(texts') = Len(texts) + 1
      /\ \A t \in 1..Len(texts) : texts'[t] = texts[t]
      /\ texts'[Len(texts) + 1] = t0
  BY <1>1, <1>2, <1>3
<1>6. Next1 \in Texts /\ Next1 \notin 1..Len(texts) /\ Len(texts') <= MaxTexts
  BY <1>3, <1>4, <1>5 DEF Next1, Texts
<1>7. 1..Len(texts) \subseteq 1..Len(texts') /\ Next1 \in 1..Len(texts')
  BY <1>4, <1>5 DEF Next1
<1> QED BY <1>5, <1>6, <1>7, NoneIsNoText DEF Next1, t0

LEMMA Stored ==
  ASSUME TypeOK, NEW c \in Clients, NEW t, record' = [record EXCEPT ![c] = @ \cup {t}]
  PROVE  /\ record'[c] = record[c] \cup {t}
         /\ \A d \in Clients \ {c} : record'[d] = record[d]
BY DEF TypeOK

------------------------------------------------------------------------------
(* Types.                                                                  *)

\* The handlers that run hold texts that have been written.
LEMMA HeldAreWritten ==
  ASSUME TypeOK, TextsInv, NEW h \in Handlers
  PROVE  /\ running[h] \in Slot
         /\ running[h].at \in WithText =>
              running[h].client \in Clients
         /\ running[h].at \in WithText /\ running[h].text # None =>
              /\ running[h].text \in 1..Len(texts)
              /\ running[h].text \in Texts
              /\ texts[running[h].text].client = running[h].client
<1>1. running[h] \in Slot
  BY RunningShape
<1>2. Sure(running[h], texts, record, heard, pending)
  BY DEF TextsInv, HandlersAreSure
<1>3. running[h].at \in WithText /\ running[h].text # None =>
        /\ running[h].text \in 1..Len(texts)
        /\ texts[running[h].text].client = running[h].client
  BY <1>2 DEF Sure, For
<1>4. running[h].at \in WithText => running[h].client \in Clients
  BY <1>1, WaitShape
<1>5. 1..Len(texts) \subseteq Texts
  BY ConversationAssumption DEF TypeOK, Texts
<1> QED BY <1>1, <1>3, <1>4, <1>5

LEMMA WrittenTexts ==
  ASSUME TypeOK
  PROVE  1..Len(texts) \subseteq Texts
BY ConversationAssumption DEF TypeOK, Texts

\* Nothing but the handler of an update, its admin and its lists of clients moves.
LEMMA TypeLight ==
  ASSUME TypeOK, NEW h \in Handlers, NEW w \in Slot, Wait(h, w),
         UNCHANGED <<texts, record, conv, pending, heard, waits>>,
         unanswered' \in SUBSET Clients, unlucky' \in SUBSET Clients,
         active' \in Clients \cup {NoClient}, meant' \in Clients \cup {NoClient}
  PROVE  TypeOK'
<1>1. running' \in [Handlers -> Slot]
  BY Waited
<1> QED BY <1>1 DEF TypeOK, Slot

\* A text that has been written is put on record.
LEMMA TypeStore ==
  ASSUME TypeOK, NEW c \in Clients, NEW t \in 1..Len(texts'),
         1..Len(texts) \subseteq 1..Len(texts'),
         record' = [record EXCEPT ![c] = @ \cup {t}]
  PROVE  record' \in [Clients -> SUBSET (1..Len(texts'))]
BY DEF TypeOK

\* A text is written, put on record and sent by handler h.
LEMMA TypeSay ==
  ASSUME TypeOK, NEW h \in Handlers, NEW c \in Clients, NEW kind \in Kinds, NEW at \in Sends,
         Write(kind, c), Wait(h, [at |-> at, client |-> c, text |-> Next1]),
         record' = [record EXCEPT ![c] = @ \cup {Next1}],
         conv' \in [Clients -> {"none", "open", "closed"}],
         unanswered' \in SUBSET Clients,
         UNCHANGED <<active, pending, heard, waits, meant, unlucky>>
  PROVE  TypeOK'
<1>1. /\ Next1 \in Texts /\ Next1 \in 1..Len(texts')
      /\ texts' \in Seq(Text) /\ Len(texts') <= MaxTexts
      /\ 1..Len(texts) \subseteq 1..Len(texts')
  BY Written
<1>2. record' \in [Clients -> SUBSET (1..Len(texts'))]
  BY <1>1, TypeStore
<1>3. running' \in [Handlers -> Slot]
  <2> DEFINE v == [at |-> at, client |-> c, text |-> Next1]
  <2>1. v \in Slot
    BY <1>1, WaitPlaces
  <2> QED BY <2>1, Waited
<1>4. pending' \in [Clients -> (1..Len(texts')) \cup {None}]
  BY <1>1 DEF TypeOK
<1> QED BY <1>1, <1>2, <1>3, <1>4 DEF TypeOK, Slot, Text

\* A text is written that is on no record: h holds it.
LEMMA TypeWrite ==
  ASSUME TypeOK, NEW h \in Handlers, NEW c \in Clients, NEW kind \in Kinds,
         NEW at \in {"agent", "own"},
         Write(kind, c), Wait(h, [at |-> at, client |-> c, text |-> Next1]),
         UNCHANGED <<record, conv, unanswered, active, pending, heard, waits, meant, unlucky>>
  PROVE  TypeOK'
<1> DEFINE v == [at |-> at, client |-> c, text |-> Next1]
<1>1. /\ Next1 \in Texts /\ texts' \in Seq(Text) /\ Len(texts') <= MaxTexts
      /\ 1..Len(texts) \subseteq 1..Len(texts')
  BY Written
<1>2. v \in Slot
  BY <1>1, WaitPlaces
<1>3. running' \in [Handlers -> Slot]
  BY <1>2, Waited
<1>4. record' \in [Clients -> SUBSET (1..Len(texts'))]
  BY <1>1 DEF TypeOK
<1>5. pending' \in [Clients -> (1..Len(texts')) \cup {None}]
  BY <1>1 DEF TypeOK
<1> QED BY <1>1, <1>3, <1>4, <1>5 DEF TypeOK, Slot, Text

LEMMA ConvStored ==
  ASSUME TypeOK, NEW c \in Clients, NEW t, Store(c, t)
  PROVE  /\ record' = [record EXCEPT ![c] = @ \cup {t}]
         /\ conv' \in [Clients -> {"none", "open", "closed"}]
BY DEF TypeOK, Store

LEMMA StepType ==
  ASSUME TypeOK, TextsInv, [Next]_vars
  PROVE  TypeOK'
<1> USE HeldAreWritten, WrittenTexts
<1>1. ASSUME NEW h \in Handlers, Begin(h)
      PROVE  TypeOK'
  <2>1. CASE AdminText(h)
    <3>1. active \in Clients
      BY <2>1 DEF AdminText, TypeOK
    <3>2. /\ record' = [record EXCEPT ![active] = @ \cup {Next1}]
          /\ conv' \in [Clients -> {"none", "open", "closed"}]
      BY <2>1, <3>1, ConvStored DEF AdminText, Reply
    <3>3. /\ Write("reply", active)
          /\ Wait(h, [at |-> "reply", client |-> active, text |-> Next1])
          /\ unanswered' \in SUBSET Clients
          /\ UNCHANGED <<active, pending, heard, waits, meant, unlucky>>
      BY <2>1 DEF AdminText, Reply, TypeOK
    <3> QED BY <3>1, <3>2, <3>3, TypeSay DEF Kinds, Sends
  <2>2. CASE Suggest(h)
    <3>1. active \in Clients
      BY <2>2 DEF Suggest, TypeOK
    <3>2. [at |-> "asked", client |-> active] \in Slot
      BY <3>1, WaitPlaces
    <3> QED BY <2>2, <3>2, TypeLight DEF Suggest, TypeOK
  <2>3. ASSUME NEW c \in Clients, ClientText(h, c)
        PROVE  TypeOK'
    BY <2>3, TypeWrite DEF ClientText, Kinds
  <2>4. ASSUME NEW c \in Clients, PressDialog(h, c)
        PROVE  TypeOK'
    <3>1. [at |-> "dialog", client |-> c] \in Slot
      BY WaitPlaces
    <3> QED BY <2>4, <3>1, TypeLight DEF PressDialog, TypeOK
  <2>5. ASSUME NEW c \in Clients, Template(h, c)
        PROVE  TypeOK'
    <3>1. [at |-> "answering", client |-> c, text |-> None] \in Slot
      BY WaitPlaces
    <3> QED BY <2>5, <3>1, TypeLight DEF Template, Select, TypeOK
  <2>6. ASSUME NEW c \in Clients, SendSuggestion(h, c)
        PROVE  TypeOK'
    <3>1. pending[c] \in Texts
      BY <2>6 DEF SendSuggestion, TypeOK
    <3>2. [at |-> "answering", client |-> c, text |-> pending[c]] \in Slot
      BY <3>1, WaitPlaces
    <3>3. running' \in [Handlers -> Slot]
      BY <2>6, <3>2, Waited DEF SendSuggestion
    <3> QED BY <2>6, <3>3 DEF SendSuggestion, Select, TypeOK, Slot
  <2>7. ASSUME NEW c \in Clients, Resolve(h, c)
        PROVE  TypeOK'
    <3>1. /\ conv' \in [Clients -> {"none", "open", "closed"}]
          /\ unanswered' \in SUBSET Clients
      BY <2>7 DEF Resolve, TypeOK
    <3> QED BY <2>7, <3>1, TypeSay DEF Resolve, Kinds, Sends
  <2>8. ASSUME NEW c \in Clients, WebReply(h, c)
        PROVE  TypeOK'
    <3>1. /\ record' = [record EXCEPT ![c] = @ \cup {Next1}]
          /\ conv' \in [Clients -> {"none", "open", "closed"}]
      BY <2>8, ConvStored DEF WebReply, Reply
    <3>2. unanswered' \in SUBSET Clients
      BY <2>8 DEF WebReply, Reply, TypeOK
    <3> QED BY <2>8, <3>1, <3>2, TypeSay DEF WebReply, Reply, Kinds, Sends
  <2> QED BY <1>1, <2>1, <2>2, <2>3, <2>4, <2>5, <2>6, <2>7, <2>8 DEF Begin
<1>2. ASSUME NEW h \in Handlers, Continue(h)
      PROVE  TypeOK'
  <2> DEFINE w == running[h]
  <2>0. CASE AgentAnswers(h)
    <3>1. w.client \in Clients
      BY <2>0 DEF AgentAnswers, WithText
    <3> QED BY <2>0, <3>1, TypeWrite DEF AgentAnswers, Kinds
  <2>1. CASE NoAutoAnswer(h) \/ NoSuggestion(h)
    BY <2>1, TypeLight, WaitPlaces DEF NoAutoAnswer, NoSuggestion, TypeOK
  <2>2. CASE AgentPasses(h)
    <3>1. w.client \in Clients /\ w.text \in 1..Len(texts) /\ w.text \in Texts
      BY <2>2, WaitShape, NoneIsNoText DEF AgentPasses, WithText
    <3>2. record[w.client] \in SUBSET Texts
      BY <3>1 DEF TypeOK
    <3>3. running' \in [Handlers -> Slot]
      <4> DEFINE v == [at |-> "card", client |-> w.client, text |-> w.text,
                       sees |-> record[w.client]]
      <4>1. v \in Slot
        BY <3>1, <3>2, WaitPlaces
      <4>2. Wait(h, v)
        BY <2>2 DEF AgentPasses
      <4> QED BY <4>1, <4>2, Waited
    <3>4. /\ record' = [record EXCEPT ![w.client] = @ \cup {w.text}]
          /\ conv' \in [Clients -> {"none", "open", "closed"}]
      BY <2>2, <3>1, ConvStored DEF AgentPasses
    <3>5. texts' = texts
      BY <2>2 DEF AgentPasses
    <3>6. record' \in [Clients -> SUBSET (1..Len(texts'))]
      BY <3>1, <3>4, <3>5, TypeStore
    <3> QED BY <2>2, <3>3, <3>4, <3>5, <3>6 DEF AgentPasses, TypeOK, Slot
  <2>3. CASE CardSent(h)
    <3>1. w \in Prompt
      BY <2>3 DEF CardSent, Slot, Waiting, Idle, Agent, Asked, Drafting, Answering, Sending
    <3>2. [w EXCEPT !.at = "model"] \in Slot
      BY <3>1 DEF Prompt, Slot, Waiting
    <3> QED BY <2>3, <3>2, TypeLight DEF CardSent, TypeOK
  <2>4. CASE AutoAnswers(h)
    <3>1. w.client \in Clients
      BY <2>4 DEF AutoAnswers, WithText
    <3>2. /\ record' = [record EXCEPT ![w.client] = @ \cup {Next1}]
          /\ conv' \in [Clients -> {"none", "open", "closed"}]
      BY <2>4, <3>1, ConvStored DEF AutoAnswers
    <3>3. unanswered' \in SUBSET Clients
      BY <2>4 DEF AutoAnswers, TypeOK
    <3> QED BY <2>4, <3>1, <3>2, <3>3, TypeSay DEF AutoAnswers, Kinds, Sends
  <2>5. CASE FinishDialog(h)
    <3>1. w.client \in Clients
      BY <2>5, WaitShape DEF FinishDialog
    <3> QED BY <2>5, <3>1, TypeLight, WaitPlaces DEF FinishDialog, TypeOK
  <2>6. CASE Answer(h)
    <3>1. w.client \in Clients /\ w.at = "answering"
      BY <2>6 DEF Answer, WithText
    <3>2. unanswered' \in SUBSET Clients
      BY <2>6 DEF Answer, Reply, TypeOK
    <3>3. CASE w.text = None
      <4>1. Reply(h, w.client, Next1, "reply") /\ Write("reply", w.client)
        BY <2>6, <3>3 DEF Answer
      <4>2. /\ record' = [record EXCEPT ![w.client] = @ \cup {Next1}]
            /\ conv' \in [Clients -> {"none", "open", "closed"}]
        BY <3>1, <4>1, ConvStored DEF Reply
      <4> QED BY <2>6, <3>1, <3>2, <4>1, <4>2, TypeSay DEF Answer, Reply, Kinds, Sends
    <3>4. CASE w.text # None
      <4>1. Reply(h, w.client, w.text, "reply") /\ UNCHANGED texts
        BY <2>6, <3>4 DEF Answer
      <4>2. w.text \in 1..Len(texts) /\ w.text \in Texts
        BY <3>1, <3>4 DEF WithText
      <4>3. /\ record' = [record EXCEPT ![w.client] = @ \cup {w.text}]
            /\ conv' \in [Clients -> {"none", "open", "closed"}]
        BY <3>1, <4>1, ConvStored DEF Reply
      <4>4. record' \in [Clients -> SUBSET (1..Len(texts'))]
        BY <3>1, <4>1, <4>2, <4>3, TypeStore
      <4>5. running' \in [Handlers -> Slot]
        <5> DEFINE v == [at |-> "reply", client |-> w.client, text |-> w.text]
        <5>1. v \in Slot
          BY <3>1, <4>2, WaitPlaces DEF Sends
        <5> QED BY <4>1, <5>1, Waited DEF Reply
      <4> QED BY <2>6, <3>2, <4>1, <4>3, <4>4, <4>5 DEF Answer, TypeOK, Slot
    <3> QED BY <3>3, <3>4
  <2>7. CASE ReadHistory(h)
    <3>1. w.client \in Clients
      BY <2>7, WaitShape DEF ReadHistory
    <3>2. record[w.client] \in SUBSET Texts
      BY <3>1 DEF TypeOK
    <3>3. [at |-> "drafting", client |-> w.client, sees |-> record[w.client]] \in Slot
      BY <3>1, <3>2, WaitPlaces
    <3>4. PICK v \in Slot : Wait(h, v)
      BY <2>7, <3>3, WaitPlaces DEF ReadHistory
    <3> QED BY <2>7, <3>4, TypeLight DEF ReadHistory, TypeOK
  <2>8. CASE Keep(h)
    <3>1. w.client \in Clients
      BY <2>8, WaitShape DEF Keep, WithSees
    <3>2. /\ Next1 \in 1..Len(texts') /\ texts' \in Seq(Text) /\ Len(texts') <= MaxTexts
          /\ 1..Len(texts) \subseteq 1..Len(texts')
      BY <2>8, <3>1, Written DEF Keep, Kinds
    <3>3. running' \in [Handlers -> Slot]
      BY <2>8, Waited, WaitPlaces DEF Keep
    <3>4. record' \in [Clients -> SUBSET (1..Len(texts'))]
      BY <2>8, <3>2 DEF Keep, TypeOK
    <3>5. pending' \in [Clients -> (1..Len(texts')) \cup {None}]
      BY <2>8, <3>1, <3>2 DEF Keep, TypeOK
    <3> QED BY <2>8, <3>2, <3>3, <3>4, <3>5 DEF Keep, TypeOK, Slot, Text
  <2>9. CASE Deliver(h)
    <3>1. w.client \in Clients /\ w.text \in Texts
      BY <2>9, WaitShape DEF Deliver, IsSending, WithText
    <3>2. heard' \in [Clients -> [Texts -> Nat]]
      <4>1. heard' = [heard EXCEPT ![w.client][w.text] = @ + 1]
        BY <2>9 DEF Deliver
      <4>2. heard \in [Clients -> [Texts -> Nat]]
        BY DEF TypeOK
      <4>3. [heard[w.client] EXCEPT ![w.text] = @ + 1] \in [Texts -> Nat]
        BY <3>1, <4>2
      <4> QED BY ONLY <3>1, <4>1, <4>2, <4>3
    <3>3. running' \in [Handlers -> Slot]
      BY <2>9, Waited, WaitPlaces DEF Deliver, AfterSend
    <3> QED BY <2>9, <3>2, <3>3 DEF Deliver, AfterSend, TypeOK, Slot
  <2>10. CASE SendFails(h)
    <3>1. w.client \in Clients
      BY <2>10 DEF SendFails, IsSending, WithText
    <3> QED BY <2>10, <3>1, TypeLight, WaitPlaces DEF SendFails, AfterSend, TypeOK
  <2> QED BY <1>2, <2>0, <2>1, <2>2, <2>3, <2>4, <2>5, <2>6, <2>7, <2>8, <2>9, <2>10
          DEF Continue
<1>3. ASSUME NEW c \in Clients, ClientMedia(c)
      PROVE  TypeOK'
  <2>1. /\ Next1 \in 1..Len(texts') /\ texts' \in Seq(Text) /\ Len(texts') <= MaxTexts
        /\ 1..Len(texts) \subseteq 1..Len(texts')
    BY <1>3, Written DEF ClientMedia, Kinds
  <2>2. /\ record' = [record EXCEPT ![c] = @ \cup {Next1}]
        /\ conv' \in [Clients -> {"none", "open", "closed"}]
    BY <1>3, ConvStored DEF ClientMedia
  <2>3. record' \in [Clients -> SUBSET (1..Len(texts'))]
    BY <2>1, <2>2, TypeStore
  <2>4. pending' \in [Clients -> (1..Len(texts')) \cup {None}]
    BY <1>3, <2>1 DEF ClientMedia, TypeOK
  <2> QED BY <1>3, <2>1, <2>2, <2>3, <2>4 DEF ClientMedia, TypeOK, Text
<1>4. ASSUME NEW c \in Clients, SetClient(c) \/ NewLead(c)
      PROVE  TypeOK'
  BY <1>4 DEF SetClient, NewLead, Select, TypeOK
<1>5. CASE Stop
  BY <1>5 DEF Stop, TypeOK
<1>6. CASE Restart
  BY <1>6 DEF Restart, TypeOK
<1>7. CASE UNCHANGED vars
  BY <1>7 DEF vars, TypeOK
<1> QED BY <1>1, <1>2, <1>3, <1>4, <1>5, <1>6, <1>7 DEF Next

------------------------------------------------------------------------------
(* Texts keep their client, and are said once.                             *)

\* Texts are only added, to what is written and to what is on record.
Grows ==
  /\ \A t \in 1..Len(texts) : t \in 1..Len(texts') /\ texts'[t] = texts[t]
  /\ \A c \in Clients : record[c] \subseteq record'[c]

\* Nothing is recorded, heard or kept of text t that was not.
Untouched(t) ==
  \A c \in Clients : /\ t \in record'[c] => t \in record[c]
                     /\ heard'[c][t] = heard[c][t]
                     /\ pending'[c] = t => pending[c] = t

\* A text that nobody but h holds to send it.
Free(h, t) ==
  \A g \in Handlers \ {h} : Carries(running[g]) => running[g].text # t

LEMMA SureStays ==
  ASSUME TypeOK, NEW w \in Slot, Sure(w, texts, record, heard, pending), Grows,
         Carries(w) => Untouched(w.text)
  PROVE  Sure(w, texts', record', heard', pending')
<1>1. w.at \in WithText => w.client \in Clients
  BY WaitShape
<1>2. w.at \in WithSees => w.client \in Clients
  BY WaitShape
<1>3. w.at = "agent" \/ (w.at = "answering" /\ w.text # None) => Carries(w)
  BY WaitShape, NoneIsNoText DEF Carries, WithText
<1> USE DEF Sure
<1>4. w.at \in WithText /\ w.text # None => w.text \in For(w.client, texts')
  BY <1>1 DEF Grows, For
<1>5. w.at \in WithSees => w.sees \subseteq For(w.client, texts')
  BY <1>2 DEF Grows, For
<1>6. w.at = "agent" => w.text \notin record'[w.client]
  <2> SUFFICES ASSUME w.at = "agent"
               PROVE  w.text \notin record'[w.client]
    OBVIOUS
  <2>1. w.client \in Clients
    BY <1>1 DEF WithText
  <2>2. w.text \notin record[w.client]
    OBVIOUS
  <2>3. Untouched(w.text)
    BY <1>3
  <2> QED BY <2>1, <2>2, <2>3 DEF Untouched
<1>7. w.at \in Sends => w.text \in record'[w.client]
  BY <1>1 DEF Grows, WithText, Sends
<1>8. w.at = "answering" /\ w.text # None => texts'[w.text].kind = "suggestion"
  BY DEF Grows, WithText, For
<1>9. Carries(w) => \A c \in Clients : heard'[c][w.text] = 0 /\ pending'[c] # w.text
  BY DEF Untouched
<1>10. w.at = "own" => texts'[w.text].kind = "agent"
  <2>1. w.at = "own" => w.text \in For(w.client, texts)
    BY WaitShape, NoneIsNoText DEF WithText
  <2> QED BY <2>1 DEF Grows, For
<1> QED BY <1>4, <1>5, <1>6, <1>7, <1>8, <1>9, <1>10

\* What an action has to show of the handlers: that the texts it touches are
\* free, and that what it leaves in h is sure.
LEMMA HandlersStaySure ==
  ASSUME TypeOK, TextsInv, NEW h \in Handlers,
         \A g \in Handlers \ {h} : running'[g] = running[g],
         Grows, \A t : Free(h, t) \/ Untouched(t),
         Sure(running'[h], texts', record', heard', pending'),
         Carries(running'[h]) => Free(h, running'[h].text)
  PROVE  (HandlersAreSure /\ OneCarrier)'
<1>1. ASSUME NEW g \in Handlers \ {h}
      PROVE  Sure(running'[g], texts', record', heard', pending')
  <2>1. running[g] \in Slot /\ Sure(running[g], texts, record, heard, pending)
    BY RunningShape DEF TextsInv, HandlersAreSure
  <2>2. Carries(running[g]) => Untouched(running[g].text)
    BY DEF Free
  <2>3. Sure(running[g], texts', record', heard', pending')
    BY <2>1, <2>2, SureStays
  <2> QED BY <2>3
<1>2. HandlersAreSure'
  BY <1>1 DEF HandlersAreSure
<1>3. OneCarrier'
  BY DEF OneCarrier, TextsInv, Free
<1> QED BY <1>2, <1>3

\* A text not yet written, the text h holds, and a kept suggestion are free.
LEMMA FreeTexts ==
  ASSUME TypeOK, TextsInv, NEW h \in Handlers
  PROVE  /\ Free(h, Next1)
         /\ Carries(running[h]) => Free(h, running[h].text)
         /\ \A c \in Clients : Free(h, pending[c])
<1>1. \A g \in Handlers : Carries(running[g]) => running[g].text \in 1..Len(texts)
  BY HeldAreWritten DEF Carries, WithText, Sends
<1>2. Next1 \notin 1..Len(texts)
  BY DEF Next1, TypeOK
<1>3. Free(h, Next1)
  BY <1>1, <1>2 DEF Free
<1>4. Carries(running[h]) => Free(h, running[h].text)
  BY DEF Free, TextsInv, OneCarrier
<1>5. \A c \in Clients : Free(h, pending[c])
  BY DEF Free, TextsInv, HandlersAreSure, Sure
<1> QED BY <1>3, <1>4, <1>5

\* Nobody has heard or kept, and nothing records, a text that is not written.
LEMMA NewText ==
  ASSUME TypeOK, TextsInv, NEW c \in Clients
  PROVE  /\ Next1 \notin record[c] /\ Next1 \notin For(c, texts)
         /\ Next1 \in Texts => heard[c][Next1] = 0
         /\ pending[c] # Next1 \/ Next1 = None
<1>1. Next1 \notin 1..Len(texts) /\ record[c] \subseteq 1..Len(texts)
  BY DEF Next1, TypeOK
<1>2. Next1 \in Texts => heard[c][Next1] \in Nat /\ ~(heard[c][Next1] > 0)
  BY <1>1 DEF TypeOK, TextsInv, ClientsAreKept, Kept, For
<1>3. pending[c] \in (1..Len(texts)) \cup {None}
  BY DEF TypeOK
<1> QED BY <1>1, <1>2, <1>3 DEF For

\* What is kept of the clients as texts grow, with no other change or with one.
LEMMA KeptStays ==
  ASSUME TypeOK, TextsInv, NEW c \in Clients, Grows, UNCHANGED <<heard, pending>>,
         record'[c] \subseteq For(c, texts')
  PROVE  Kept(c, texts', record', heard', pending')
<1>1. Kept(c, texts, record, heard, pending)
  BY DEF TextsInv, ClientsAreKept
<1>2. pending[c] # None => pending[c] \in For(c, texts') /\ texts'[pending[c]].kind = "suggestion"
  BY <1>1 DEF Kept, Grows, For
<1>3. record[c] \subseteq record'[c]
  BY DEF Grows
<1>4. ASSUME NEW t \in Texts, heard[c][t] > 0
      PROVE  t \in For(c, texts') /\ (t \in record'[c] \/ texts'[t].kind = "agent")
  <2>1. t \in For(c, texts) /\ (t \in record[c] \/ texts[t].kind = "agent")
    BY <1>1, <1>4 DEF Kept
  <2> QED BY <1>3, <2>1 DEF Grows, For
<1>5. \A t \in Texts : heard[c][t] <= 1
  BY <1>1 DEF Kept
<1>6. pending[c] # None => \A d \in Clients : heard[d][pending[c]] = 0
  BY <1>1 DEF Kept
<1> QED BY <1>2, <1>4, <1>5, <1>6 DEF Kept

LEMMA RecordsGrow ==
  ASSUME TypeOK, TextsInv, NEW c \in Clients, Grows, record'[c] = record[c]
  PROVE  record'[c] \subseteq For(c, texts')
BY DEF TextsInv, ClientsAreKept, Kept, Grows, For

\* Handler h goes on to wait as w, and no text moves.
LEMMA TextsLight ==
  ASSUME TypeOK, TextsInv, NEW h \in Handlers, NEW w, Wait(h, w),
         UNCHANGED <<texts, record, pending, heard>>,
         Sure(w, texts, record, heard, pending),
         Carries(w) => Carries(running[h]) /\ w.text = running[h].text
  PROVE  TextsInv'
<1>1. running'[h] = w /\ \A g \in Handlers \ {h} : running'[g] = running[g]
  BY Waited
<1>2. Grows /\ \A t : Untouched(t)
  BY DEF Grows, Untouched
<1>3. Carries(w) => Free(h, w.text)
  BY FreeTexts
<1>4. (HandlersAreSure /\ OneCarrier)'
  BY <1>1, <1>2, <1>3, HandlersStaySure
<1>5. ClientsAreKept'
  BY DEF ClientsAreKept, TextsInv
<1> QED BY <1>4, <1>5 DEF TextsInv

\* A text is written for client c and put on record, and h may go on to send it.
LEMMA TextsSay ==
  ASSUME TypeOK, TextsInv, NEW h \in Handlers, NEW c \in Clients, NEW kind \in Kinds,
         NEW at \in Sends, Write(kind, c),
         Wait(h, [at |-> at, client |-> c, text |-> Next1]),
         record' = [record EXCEPT ![c] = @ \cup {Next1}],
         UNCHANGED <<pending, heard>>
  PROVE  TextsInv'
<1> DEFINE w == [at |-> at, client |-> c, text |-> Next1]
<1>1. running'[h] = w /\ \A g \in Handlers \ {h} : running'[g] = running[g]
  BY Waited
<1>2. /\ Next1 \in Texts /\ Next1 # None /\ Next1 \in 1..Len(texts')
      /\ \A t \in 1..Len(texts) : t \in 1..Len(texts') /\ texts'[t] = texts[t]
      /\ texts'[Next1] = [kind |-> kind, client |-> c]
  BY Written
<1>3. record'[c] = record[c] \cup {Next1} /\ \A d \in Clients \ {c} : record'[d] = record[d]
  BY Stored
<1>4. Grows
  BY <1>2, <1>3 DEF Grows
<1>5. \A t : t # Next1 => Untouched(t)
  BY <1>3 DEF Untouched
<1>6. Next1 \in For(c, texts')
  BY <1>2 DEF For
<1>7. Sure(w, texts', record', heard', pending')
  BY <1>2, <1>3, <1>6, NewText DEF Sure, Sends, WithSees, Carries
<1>8. (HandlersAreSure /\ OneCarrier)'
  <2>1. Sure(running'[h], texts', record', heard', pending')
    BY <1>1, <1>7
  <2>2. Free(h, Next1) /\ running'[h].text = Next1
    BY <1>1, FreeTexts
  <2> HIDE DEF w
  <2> QED BY <1>1, <1>4, <1>5, <2>1, <2>2, HandlersStaySure
<1>9. \A d \in Clients : record'[d] \subseteq For(d, texts')
  <2>1. record[c] \subseteq For(c, texts')
    BY <1>4 DEF TextsInv, ClientsAreKept, Kept, Grows, For
  <2> QED BY <2>1, <1>3, <1>4, <1>6, RecordsGrow
<1>10. ClientsAreKept'
  BY <1>4, <1>9, KeptStays DEF ClientsAreKept
<1> QED BY <1>8, <1>10 DEF TextsInv

\* A text is written that is on no record: a question, or the agent's own answer.
LEMMA TextsWrite ==
  ASSUME TypeOK, TextsInv, NEW h \in Handlers, NEW c \in Clients, NEW kind \in Kinds,
         NEW at \in {"agent", "own"}, at = "own" => kind = "agent",
         Write(kind, c), Wait(h, [at |-> at, client |-> c, text |-> Next1]),
         UNCHANGED <<record, pending, heard>>
  PROVE  TextsInv'
<1> DEFINE w == [at |-> at, client |-> c, text |-> Next1]
<1>1. /\ Next1 \in Texts /\ Next1 \in 1..Len(texts')
      /\ \A t \in 1..Len(texts) : t \in 1..Len(texts') /\ texts'[t] = texts[t]
      /\ texts'[Next1] = [kind |-> kind, client |-> c]
  BY Written
<1>2. running'[h] = w /\ \A g \in Handlers \ {h} : running'[g] = running[g]
  BY Waited
<1>3. Grows /\ \A t : Untouched(t)
  BY <1>1 DEF Grows, Untouched
<1>4. Sure(w, texts', record', heard', pending')
  <2>1. w.text \in For(w.client, texts')
    BY <1>1 DEF For
  <2>2. Next1 \notin record[c]
    BY NewText
  <2>3. \A d \in Clients : heard[d][Next1] = 0 /\ pending[d] # Next1
    BY <1>1, NewText, NoneIsNoText
  <2> QED BY <1>1, <2>1, <2>2, <2>3 DEF Sure, WithSees, Sends
<1>5. Free(h, w.text)
  BY FreeTexts
<1>6. (HandlersAreSure /\ OneCarrier)'
  <2> HIDE DEF w
  <2> QED BY <1>2, <1>3, <1>4, <1>5, HandlersStaySure
<1>7. \A d \in Clients : record'[d] \subseteq For(d, texts')
  BY <1>3, RecordsGrow
<1>8. ClientsAreKept'
  BY <1>3, <1>7, KeptStays DEF ClientsAreKept
<1> QED BY <1>6, <1>8 DEF TextsInv

LEMMA StepTexts ==
  ASSUME TypeOK, TextsInv, [Next]_vars
  PROVE  TextsInv'
<1> USE DEF WithText, WithSees, Sends
<1>1. ASSUME NEW h \in Handlers, Begin(h)
      PROVE  TextsInv'
  <2>1. CASE AdminText(h)
    <3>1. active \in Clients
      BY <2>1 DEF AdminText, TypeOK
    <3> QED BY <2>1, <3>1, TextsSay DEF AdminText, Reply, Store, Kinds
  <2>2. CASE Suggest(h)
    <3> DEFINE w == [at |-> "asked", client |-> active]
    <3>1. Sure(w, texts, record, heard, pending) /\ ~Carries(w)
      BY DEF Sure, Carries
    <3> QED BY <2>2, <3>1, TextsLight DEF Suggest
  <2>3. ASSUME NEW c \in Clients, ClientText(h, c)
        PROVE  TextsInv'
    BY <2>3, TextsWrite DEF ClientText, Kinds
  <2>4. ASSUME NEW c \in Clients, PressDialog(h, c)
        PROVE  TextsInv'
    <3> DEFINE w == [at |-> "dialog", client |-> c]
    <3>1. Sure(w, texts, record, heard, pending) /\ ~Carries(w)
      BY DEF Sure, Carries
    <3> QED BY <2>4, <3>1, TextsLight DEF PressDialog
  <2>5. ASSUME NEW c \in Clients, Template(h, c)
        PROVE  TextsInv'
    <3> DEFINE w == [at |-> "answering", client |-> c, text |-> None]
    <3>1. Sure(w, texts, record, heard, pending) /\ ~Carries(w)
      BY DEF Sure, Carries
    <3> QED BY <2>5, <3>1, TextsLight DEF Template
  <2>6. ASSUME NEW c \in Clients, SendSuggestion(h, c)
        PROVE  TextsInv'
    <3> DEFINE w == [at |-> "answering", client |-> c, text |-> pending[c]]
    <3>1. /\ Wait(h, w) /\ UNCHANGED <<texts, record, heard>>
          /\ pending[c] # None /\ pending' = [pending EXCEPT ![c] = None]
      BY <2>6 DEF SendSuggestion
    <3>2. running'[h] = w /\ \A g \in Handlers \ {h} : running'[g] = running[g]
      BY <3>1, Waited
    <3>3. pending'[c] = None /\ \A d \in Clients \ {c} : pending'[d] = pending[d]
      BY <3>1 DEF TypeOK
    <3>4. Grows
      BY <3>1 DEF Grows
    <3>5. \A t : Free(h, t) \/ Untouched(t)
      <4>1. ASSUME NEW t, ~Free(h, t)
            PROVE  t # None
        BY <4>1 DEF Free, Carries
      <4> QED BY <3>1, <3>3, <4>1 DEF Untouched
    <3>6. \A d \in Clients : Kept(d, texts, record, heard, pending)
      BY DEF TextsInv, ClientsAreKept
    <3>7. Sure(w, texts', record', heard', pending')
      <4>1. /\ pending[c] \in For(c, texts) /\ texts[pending[c]].kind = "suggestion"
            /\ \A d \in Clients : heard[d][pending[c]] = 0
        BY <3>1, <3>6 DEF Kept
      <4>2. \A d \in Clients : pending'[d] # pending[c]
        <5>1. ASSUME NEW d \in Clients \ {c}, pending[d] = pending[c]
              PROVE  FALSE
          BY <3>1, <3>6, <5>1 DEF Kept, For
        <5> QED BY <3>1, <3>3, <5>1
      <4> QED BY <3>1, <4>1, <4>2 DEF Sure
    <3>8. Free(h, w.text)
      BY FreeTexts
    <3>9. (HandlersAreSure /\ OneCarrier)'
      <4> HIDE DEF w
      <4> QED BY <3>2, <3>4, <3>5, <3>7, <3>8, HandlersStaySure
    <3>10. ClientsAreKept'
      BY <3>1, <3>3, <3>6 DEF Kept, ClientsAreKept
    <3> QED BY <3>9, <3>10 DEF TextsInv
  <2>7. ASSUME NEW c \in Clients, Resolve(h, c)
        PROVE  TextsInv'
    BY <2>7, TextsSay DEF Resolve, Kinds
  <2>8. ASSUME NEW c \in Clients, WebReply(h, c)
        PROVE  TextsInv'
    BY <2>8, TextsSay DEF WebReply, Reply, Store, Kinds
  <2> QED BY <1>1, <2>1, <2>2, <2>3, <2>4, <2>5, <2>6, <2>7, <2>8 DEF Begin
<1>2. ASSUME NEW h \in Handlers, Continue(h)
      PROVE  TextsInv'
  <2> DEFINE w == running[h]
  <2>w. Sure(w, texts, record, heard, pending) /\ w \in Slot
    BY RunningShape DEF TextsInv, HandlersAreSure
  <2>0. CASE AgentAnswers(h)
    <3>1. w.client \in Clients
      BY <2>0, <2>w, WaitShape DEF AgentAnswers
    <3> QED BY <2>0, <3>1, TextsWrite DEF AgentAnswers, Kinds
  <2>1. CASE NoAutoAnswer(h) \/ NoSuggestion(h) \/ FinishDialog(h) \/ SendFails(h)
    <3>1. Wait(h, Idle) /\ UNCHANGED <<texts, record, pending, heard>>
      BY <2>1 DEF NoAutoAnswer, NoSuggestion, FinishDialog, SendFails, AfterSend
    <3> QED BY <3>1, IdleIsSure, TextsLight
  <2>2. CASE AgentPasses(h)
    <3> DEFINE c == w.client
               t == w.text
               v == [at |-> "card", client |-> c, text |-> t, sees |-> record[c]]
    <3>1. /\ w.at = "agent" /\ Wait(h, v) /\ UNCHANGED <<texts, pending, heard>>
          /\ record' = [record EXCEPT ![c] = @ \cup {t}]
      BY <2>2 DEF AgentPasses, Store
    <3>2. c \in Clients /\ t \in For(c, texts) /\ t # None /\ t \notin record[c]
      BY <3>1, <2>w, WaitShape, NoneIsNoText DEF Sure
    <3>3. running'[h] = v /\ \A g \in Handlers \ {h} : running'[g] = running[g]
      BY <3>1, Waited
    <3>4. record'[c] = record[c] \cup {t} /\ \A d \in Clients \ {c} : record'[d] = record[d]
      BY <3>1, <3>2, Stored
    <3>5. Grows /\ \A u : u # t => Untouched(u)
      BY <3>1, <3>4 DEF Grows, Untouched
    <3>6. \A d \in Clients : record'[d] \subseteq For(d, texts')
      BY <3>1, <3>2, <3>4 DEF TextsInv, ClientsAreKept, Kept
    <3>7. Free(h, t)
      BY <3>1, <3>2, FreeTexts DEF Carries
    <3>8. Sure(v, texts', record', heard', pending') /\ ~Carries(v)
      <4>1. record[c] \subseteq For(c, texts)
        BY <3>2 DEF TextsInv, ClientsAreKept, Kept
      <4> QED BY <3>1, <3>2, <4>1 DEF Sure, Carries
    <3>9. (HandlersAreSure /\ OneCarrier)'
      <4> HIDE DEF v
      <4>1. \A u : Free(h, u) \/ Untouched(u)
        BY <3>5, <3>7
      <4> QED BY <3>3, <3>5, <4>1, <3>8, HandlersStaySure
    <3>10. ClientsAreKept'
      BY <3>1, <3>5, <3>6, KeptStays DEF ClientsAreKept
    <3> QED BY <3>9, <3>10 DEF TextsInv
  <2>3. CASE CardSent(h)
    <3>1. w \in Prompt
      BY <2>3, <2>w DEF CardSent, Slot, Waiting, Idle, Agent, Asked, Drafting, Answering, Sending
    <3> DEFINE v == [w EXCEPT !.at = "model"]
    <3>2. v.at = "model" /\ v.client = w.client /\ v.text = w.text /\ v.sees = w.sees
      BY <3>1 DEF Prompt
    <3>3. w.at = "card" /\ Wait(h, v) /\ UNCHANGED <<texts, record, pending, heard>>
      BY <2>3 DEF CardSent
    <3> HIDE DEF v
    <3>4. Sure(v, texts, record, heard, pending) /\ ~Carries(v)
      BY <2>w, <3>2, <3>3 DEF Sure, Carries
    <3> QED BY <3>3, <3>4, TextsLight
  <2>4. CASE AutoAnswers(h)
    <3>1. w.client \in Clients
      BY <2>4, <2>w, WaitShape DEF AutoAnswers
    <3> QED BY <2>4, <3>1, TextsSay DEF AutoAnswers, Store, Kinds
  <2>5. CASE Answer(h) /\ w.text = None
    <3>1. w.client \in Clients
      BY <2>5, <2>w, WaitShape DEF Answer
    <3> QED BY <2>5, <3>1, TextsSay DEF Answer, Reply, Store, Kinds
  <2>6. CASE Answer(h) /\ w.text # None
    <3> DEFINE c == w.client
               t == w.text
               v == [at |-> "reply", client |-> c, text |-> t]
    <3>1. /\ w.at = "answering" /\ Wait(h, v) /\ UNCHANGED <<texts, pending, heard>>
          /\ record' = [record EXCEPT ![c] = @ \cup {t}] /\ t # None
      BY <2>6 DEF Answer, Reply, Store
    <3>2. c \in Clients /\ t \in For(c, texts)
      BY <3>1, <2>w, WaitShape DEF Sure
    <3>3. running'[h] = v /\ \A g \in Handlers \ {h} : running'[g] = running[g]
      BY <3>1, Waited
    <3>4. record'[c] = record[c] \cup {t} /\ \A d \in Clients \ {c} : record'[d] = record[d]
      BY <3>1, <3>2, Stored
    <3>5. Grows /\ \A u : u # t => Untouched(u)
      BY <3>1, <3>4 DEF Grows, Untouched
    <3>6. \A d \in Clients : record'[d] \subseteq For(d, texts')
      BY <3>1, <3>2, <3>4 DEF TextsInv, ClientsAreKept, Kept
    <3>7. Carries(w)
      BY <3>1 DEF Carries
    <3>8. Free(h, t)
      BY <3>7, FreeTexts
    <3>9. Sure(v, texts', record', heard', pending')
      <4>1. \A d \in Clients : heard[d][t] = 0 /\ pending[d] # t
        BY <3>7, <2>w DEF Sure
      <4> QED BY <3>1, <3>2, <3>4, <4>1 DEF Sure
    <3>10. (HandlersAreSure /\ OneCarrier)'
      <4>1. \A u : Free(h, u) \/ Untouched(u)
        BY <3>5, <3>8
      <4>2. v.text = t
        OBVIOUS
      <4> HIDE DEF v
      <4> QED BY <3>3, <3>5, <3>8, <3>9, <4>1, <4>2, HandlersStaySure
    <3>11. ClientsAreKept'
      BY <3>1, <3>5, <3>6, KeptStays DEF ClientsAreKept
    <3> QED BY <3>10, <3>11 DEF TextsInv
  <2>7. CASE ReadHistory(h)
    <3> DEFINE v == [at |-> "drafting", client |-> w.client, sees |-> record[w.client]]
    <3>1. w.client \in Clients
      BY <2>7, <2>w, WaitShape DEF ReadHistory
    <3>2. record[w.client] \subseteq For(w.client, texts)
      BY <3>1 DEF TextsInv, ClientsAreKept, Kept
    <3>3. Sure(v, texts, record, heard, pending) /\ ~Carries(v)
      BY <3>2 DEF Sure, Carries
    <3>4. (Wait(h, Idle) \/ Wait(h, v)) /\ UNCHANGED <<texts, record, pending, heard>>
      BY <2>7 DEF ReadHistory
    <3> HIDE DEF v
    <3> QED BY <3>3, <3>4, IdleIsSure, TextsLight
  <2>8. CASE Keep(h)
    <3> DEFINE c == w.client
    <3>1. /\ w.at = "drafting" /\ Wait(h, Idle) /\ UNCHANGED <<record, heard>>
          /\ Write("suggestion", c) /\ pending' = [pending EXCEPT ![c] = Next1]
      BY <2>8 DEF Keep
    <3>2. c \in Clients
      BY <3>1, <2>w, WaitShape
    <3>3. /\ Next1 \in Texts /\ Next1 \in 1..Len(texts')
          /\ \A t \in 1..Len(texts) : t \in 1..Len(texts') /\ texts'[t] = texts[t]
          /\ texts'[Next1] = [kind |-> "suggestion", client |-> c]
      BY <3>1, <3>2, Written DEF Kinds
    <3>4. running'[h] = Idle /\ \A g \in Handlers \ {h} : running'[g] = running[g]
      BY <3>1, Waited
    <3>5. pending'[c] = Next1 /\ \A d \in Clients \ {c} : pending'[d] = pending[d]
      BY <3>1, <3>2 DEF TypeOK
    <3>6. Grows /\ \A t : t # Next1 => Untouched(t)
      BY <3>1, <3>3, <3>5 DEF Grows, Untouched
    <3>7. (HandlersAreSure /\ OneCarrier)'
      <4>1. \A t : Free(h, t) \/ Untouched(t)
        BY <3>6, FreeTexts
      <4> QED BY <3>4, <3>6, <4>1, IdleIsSure, HandlersStaySure
    <3>8. ASSUME NEW d \in Clients
          PROVE  Kept(d, texts', record', heard', pending')
      <4>1. record'[d] \subseteq For(d, texts')
        BY <3>1, <3>6, RecordsGrow
      <4>2. Kept(d, texts, record, heard, pending)
        BY DEF TextsInv, ClientsAreKept
      <4>3. pending'[d] # None =>
              /\ pending'[d] \in For(d, texts') /\ texts'[pending'[d]].kind = "suggestion"
              /\ \A e \in Clients : heard'[e][pending'[d]] = 0
        <5>1. CASE d = c
          <6>1. Next1 \in For(c, texts')
            BY <3>3 DEF For
          <6>2. texts'[Next1].kind = "suggestion"
            BY <3>3
          <6>3. \A e \in Clients : heard[e][Next1] = 0
            BY <3>3, NewText
          <6> QED BY <3>1, <3>5, <5>1, <6>1, <6>2, <6>3
        <5>2. CASE d # c
          BY <3>1, <3>5, <3>6, <4>2, <5>2 DEF Kept, Grows, For
        <5> QED BY <5>1, <5>2
      <4>4. ASSUME NEW t \in Texts, heard[d][t] > 0
            PROVE  t \in For(d, texts') /\ (t \in record[d] \/ texts'[t].kind = "agent")
        <5>1. t \in For(d, texts) /\ (t \in record[d] \/ texts[t].kind = "agent")
          BY <4>2, <4>4 DEF Kept
        <5> QED BY <3>6, <5>1 DEF Grows, For
      <4>5. \A t \in Texts : heard[d][t] <= 1
        BY <4>2 DEF Kept
      <4> QED BY <3>1, <4>1, <4>3, <4>4, <4>5 DEF Kept
    <3>9. ClientsAreKept'
      BY <3>8 DEF ClientsAreKept
    <3> QED BY <3>7, <3>9 DEF TextsInv
  <2>9. CASE Deliver(h)
    <3> DEFINE c == w.client
               t == w.text
    <3>1. /\ w.at \in Sends \cup {"own"} /\ Wait(h, Idle)
          /\ UNCHANGED <<texts, record, pending>>
          /\ heard' = [heard EXCEPT ![c][t] = @ + 1]
      BY <2>9 DEF Deliver, IsSending, AfterSend
    <3>2. /\ c \in Clients /\ t \in Texts /\ t \in For(c, texts) /\ Carries(w)
          /\ t \in record[c] \/ texts[t].kind = "agent"
      BY <3>1, <2>w, WaitShape, NoneIsNoText DEF Sure, Carries
    <3>3. running'[h] = Idle /\ \A g \in Handlers \ {h} : running'[g] = running[g]
      BY <3>1, Waited
    <3>4. \A d \in Clients : heard[d][t] = 0 /\ pending[d] # t
      BY <3>2, <2>w DEF Sure
    <3>5. /\ heard'[c][t] = 1
          /\ \A u : u # t => heard'[c][u] = heard[c][u]
          /\ \A d \in Clients \ {c} : heard'[d] = heard[d]
      BY <3>1, <3>2, <3>4 DEF TypeOK
    <3>6. Grows /\ \A u : u # t => Untouched(u)
      BY <3>1, <3>5 DEF Grows, Untouched
    <3>7. (HandlersAreSure /\ OneCarrier)'
      <4>1. \A u : Free(h, u) \/ Untouched(u)
        BY <3>2, <3>6, FreeTexts
      <4> QED BY <3>3, <3>6, <4>1, IdleIsSure, HandlersStaySure
    <3>8. ASSUME NEW d \in Clients
          PROVE  Kept(d, texts', record', heard', pending')
      <4>1. Kept(d, texts, record, heard, pending)
        BY DEF TextsInv, ClientsAreKept
      <4>2. pending[d] # None => \A e \in Clients : heard'[e][pending[d]] = heard[e][pending[d]]
        BY <3>4, <3>5
      <4>3. \A u \in Texts :
              /\ heard'[d][u] <= 1
              /\ heard'[d][u] > 0 =>
                   u \in For(d, texts) /\ (u \in record[d] \/ texts[u].kind = "agent")
        BY <3>2, <3>5, <4>1 DEF Kept
      <4> QED BY <3>1, <4>1, <4>2, <4>3 DEF Kept
    <3>9. ClientsAreKept'
      BY <3>8 DEF ClientsAreKept
    <3> QED BY <3>7, <3>9 DEF TextsInv
  <2> QED BY <1>2, <2>0, <2>1, <2>2, <2>3, <2>4, <2>5, <2>6, <2>7, <2>8, <2>9 DEF Continue
<1>3. ASSUME NEW c \in Clients, ClientMedia(c)
      PROVE  TextsInv'
  <2>1. /\ Write("question", c) /\ record' = [record EXCEPT ![c] = @ \cup {Next1}]
        /\ UNCHANGED <<pending, heard, running>>
    BY <1>3 DEF ClientMedia, Store
  <2>2. /\ Next1 \in Texts /\ Next1 \in 1..Len(texts')
        /\ \A t \in 1..Len(texts) : t \in 1..Len(texts') /\ texts'[t] = texts[t]
        /\ texts'[Next1] = [kind |-> "question", client |-> c]
    BY <2>1, Written DEF Kinds
  <2>3. record'[c] = record[c] \cup {Next1} /\ \A d \in Clients \ {c} : record'[d] = record[d]
    BY <2>1, Stored
  <2>4. Grows /\ \A t : t # Next1 => Untouched(t)
    BY <2>1, <2>2, <2>3 DEF Grows, Untouched
  <2>5. ASSUME NEW h \in Handlers
        PROVE  Sure(running'[h], texts', record', heard', pending')
    <3>1. running[h] \in Slot /\ Sure(running[h], texts, record, heard, pending)
      BY RunningShape DEF TextsInv, HandlersAreSure
    <3>2. Carries(running[h]) => running[h].text # Next1
      <4>1. Carries(running[h]) => running[h].text \in 1..Len(texts)
        BY HeldAreWritten DEF Carries
      <4>2. Next1 \notin 1..Len(texts)
        BY DEF Next1, TypeOK
      <4> QED BY <4>1, <4>2
    <3>3. Sure(running[h], texts', record', heard', pending')
      BY <2>4, <3>1, <3>2, SureStays
    <3> QED BY <2>1, <3>3
  <2>6. HandlersAreSure' /\ OneCarrier'
    BY <2>1, <2>5 DEF HandlersAreSure, OneCarrier, TextsInv
  <2>7. Next1 \in For(c, texts')
    BY <2>2 DEF For
  <2>8. \A d \in Clients : record'[d] \subseteq For(d, texts')
    <3>1. record[c] \subseteq For(c, texts')
      BY <2>4 DEF TextsInv, ClientsAreKept, Kept, Grows, For
    <3> QED BY <3>1, <2>3, <2>4, <2>7, RecordsGrow
  <2>9. ClientsAreKept'
    BY <2>1, <2>4, <2>8, KeptStays DEF ClientsAreKept
  <2> QED BY <2>6, <2>9 DEF TextsInv
<1>4. ASSUME NEW c \in Clients, SetClient(c) \/ NewLead(c)
      PROVE  TextsInv'
  BY <1>4 DEF SetClient, NewLead, TextsInv, HandlersAreSure, OneCarrier, ClientsAreKept
<1>5. CASE Stop \/ UNCHANGED vars
  BY <1>5 DEF Stop, vars, TextsInv, HandlersAreSure, OneCarrier, ClientsAreKept
<1>6. CASE Restart
  <2>1. /\ UNCHANGED <<texts, record, heard>>
        /\ \A h \in Handlers : running'[h] = Idle
        /\ \A c \in Clients : pending'[c] = None
    BY <1>6 DEF Restart
  <2>2. HandlersAreSure' /\ OneCarrier'
    BY <2>1, IdleIsSure DEF HandlersAreSure, OneCarrier
  <2>3. ClientsAreKept'
    BY <2>1 DEF ClientsAreKept, Kept, TextsInv
  <2> QED BY <2>2, <2>3 DEF TextsInv
<1> QED BY <1>1, <1>2, <1>3, <1>4, <1>5, <1>6 DEF Next

------------------------------------------------------------------------------
(* The admin that waits.                                                   *)

\* A press finds a handler for the admin: nobody answers the admin yet.
LEMMA NobodyAnswers ==
  ASSUME waits, NEW h \in Handlers, AdminReady(h)
  PROVE  \A g \in Handlers : running[g].at \notin OfAdmin
BY DEF AdminReady

\* A handler of the admin starts, or one that runs goes on, and the admin stays
\* with its client.
LEMMA WaitsLight ==
  ASSUME TypeOK, WaitsInv, NEW h \in Handlers, NEW w, Wait(h, w),
         waits /\ w.at \in OfAdmin => AdminReady(h) \/ running[h].at \in OfAdmin,
         running[h].at # "dialog", w.at # "dialog",
         UNCHANGED <<waits, meant>>,
         active' = active \/ (running[h].at = "closing" /\ active' = NoClient)
  PROVE  WaitsInv'
<1>1. running'[h] = w /\ \A g \in Handlers \ {h} : running'[g] = running[g]
  BY Waited
<1> SUFFICES ASSUME waits PROVE WaitsInv'
  BY DEF WaitsInv
<1>2. \A g, f \in Handlers : running'[g].at \in OfAdmin /\ running'[f].at \in OfAdmin => g = f
  BY <1>1, NobodyAnswers DEF WaitsInv
<1>3. \A g \in Handlers : running'[g].at = "dialog" => running'[g].client = meant'
  BY <1>1 DEF WaitsInv
<1>4. (\A g \in Handlers : running'[g].at # "dialog") => active' \in {meant', NoClient}
  BY <1>1 DEF WaitsInv
<1> QED BY <1>2, <1>3, <1>4 DEF WaitsInv

\* The admin turns to client c, which is selected at once.
LEMMA WaitsSelect ==
  ASSUME TypeOK, WaitsInv, NEW h \in Handlers, AdminReady(h), NEW c, Select(c),
         UNCHANGED waits,
         \/ UNCHANGED running
         \/ \E w : Wait(h, w) /\ w.at # "dialog"
  PROVE  WaitsInv'
<1> SUFFICES ASSUME waits PROVE WaitsInv'
  BY DEF WaitsInv
<1>1. \A g \in Handlers : running[g].at \notin OfAdmin
  BY NobodyAnswers
<1>2. \A g \in Handlers : running[g].at # "dialog"
  BY <1>1 DEF OfAdmin
<1>3. active' = c /\ meant' = c
  BY DEF Select
<1>4. CASE UNCHANGED running
  BY <1>1, <1>2, <1>3, <1>4 DEF WaitsInv
<1>5. ASSUME NEW w, Wait(h, w), w.at # "dialog"
      PROVE  WaitsInv'
  <2>1. running'[h] = w /\ \A g \in Handlers \ {h} : running'[g] = running[g]
    BY <1>5, Waited
  <2> QED BY <1>1, <1>2, <1>3, <1>5, <2>1 DEF WaitsInv
<1> QED BY <1>4, <1>5

LEMMA StepWaits ==
  ASSUME TypeOK, WaitsInv, [Next]_vars
  PROVE  WaitsInv'
<1> USE DEF OfAdmin
<1>1. ASSUME NEW h \in Handlers, Begin(h)
      PROVE  WaitsInv'
  <2>i. running[h] = Idle => running[h].at = "idle"
    BY DEF Idle
  <2>1. CASE AdminText(h)
    <3>1. running[h].at = "idle" /\ AdminReady(h)
      BY <2>1, <2>i DEF AdminText, AdminReady
    <3> QED BY <2>1, <3>1, WaitsLight DEF AdminText, Reply
  <2>2. CASE Suggest(h)
    <3>1. running[h].at = "idle" /\ AdminReady(h)
      BY <2>2, <2>i DEF Suggest, AdminReady
    <3> QED BY <2>2, <3>1, WaitsLight DEF Suggest
  <2>3. ASSUME NEW c \in Clients, ClientText(h, c)
        PROVE  WaitsInv'
    BY <2>3, <2>i, WaitsLight DEF ClientText
  <2>4. ASSUME NEW c \in Clients, PressDialog(h, c)
        PROVE  WaitsInv'
    <3> SUFFICES ASSUME waits PROVE WaitsInv'
      BY <2>4 DEF WaitsInv, PressDialog
    <3> DEFINE w == [at |-> "dialog", client |-> c]
    <3>1. AdminReady(h) /\ Wait(h, w) /\ meant' = c
      BY <2>4 DEF PressDialog
    <3>2. \A g \in Handlers : running[g].at \notin OfAdmin
      BY <3>1, NobodyAnswers
    <3>3. running'[h] = w /\ \A g \in Handlers \ {h} : running'[g] = running[g]
      BY <3>1, Waited
    <3> QED BY <3>1, <3>2, <3>3 DEF WaitsInv
  <2>5. ASSUME NEW c \in Clients, Template(h, c)
        PROVE  WaitsInv'
    BY <2>5, WaitsSelect DEF Template
  <2>6. ASSUME NEW c \in Clients, SendSuggestion(h, c)
        PROVE  WaitsInv'
    BY <2>6, WaitsSelect DEF SendSuggestion
  <2>7. ASSUME NEW c \in Clients, Resolve(h, c)
        PROVE  WaitsInv'
    <3>1. running[h].at = "idle" /\ AdminReady(h)
      BY <2>7, <2>i DEF Resolve, AdminReady
    <3> QED BY <2>7, <3>1, WaitsLight DEF Resolve
  <2>8. ASSUME NEW c \in Clients, WebReply(h, c)
        PROVE  WaitsInv'
    BY <2>8, <2>i, WaitsLight DEF WebReply, Reply
  <2> QED BY <1>1, <2>1, <2>2, <2>3, <2>4, <2>5, <2>6, <2>7, <2>8 DEF Begin
<1>2. ASSUME NEW h \in Handlers, Continue(h)
      PROVE  WaitsInv'
  <2> DEFINE w == running[h]
  <2>i. Idle.at = "idle"
    BY DEF Idle
  <2>0. CASE AgentAnswers(h)
    BY <2>0, WaitsLight DEF AgentAnswers
  <2>1. CASE NoAutoAnswer(h) \/ NoSuggestion(h) \/ Keep(h)
    BY <2>1, <2>i, WaitsLight DEF NoAutoAnswer, NoSuggestion, Keep
  <2>2. CASE AgentPasses(h)
    BY <2>2, WaitsLight DEF AgentPasses
  <2>3. CASE CardSent(h)
    <3>1. w \in Slot
      BY RunningShape
    <3>2. w \in Prompt
      BY <2>3, <3>1 DEF CardSent, Slot, Waiting, Idle, Agent, Asked, Drafting, Answering, Sending
    <3> DEFINE v == [w EXCEPT !.at = "model"]
    <3>3. v.at = "model"
      BY <3>2 DEF Prompt
    <3>4. Wait(h, v) /\ w.at = "card" /\ UNCHANGED <<waits, meant, active>>
      BY <2>3 DEF CardSent
    <3> HIDE DEF v
    <3> QED BY <3>3, <3>4, WaitsLight
  <2>4. CASE AutoAnswers(h)
    BY <2>4, WaitsLight DEF AutoAnswers
  <2>5. CASE FinishDialog(h)
    <3> SUFFICES ASSUME waits PROVE WaitsInv'
      BY <2>5 DEF WaitsInv, FinishDialog
    <3>1. w.at = "dialog" /\ active' = w.client /\ Wait(h, Idle) /\ meant' = meant
      BY <2>5 DEF FinishDialog
    <3>2. running'[h] = Idle /\ \A g \in Handlers \ {h} : running'[g] = running[g]
      BY <3>1, Waited
    <3>3. w.client = meant /\ \A g \in Handlers \ {h} : running[g].at \notin OfAdmin
      BY <3>1 DEF WaitsInv
    <3> QED BY <2>i, <3>1, <3>2, <3>3 DEF WaitsInv
  <2>6. CASE Answer(h)
    <3>1. PICK t : Reply(h, w.client, t, "reply")
      BY <2>6 DEF Answer
    <3>2. w.at = "answering" /\ UNCHANGED <<active, waits, meant>>
      BY <2>6 DEF Answer
    <3> QED BY <3>1, <3>2, WaitsLight DEF Reply
  <2>7. CASE ReadHistory(h)
    <3>1. PICK v : Wait(h, v) /\ v.at \in {"idle", "drafting"}
      BY <2>7, <2>i DEF ReadHistory
    <3>2. w.at = "asked" /\ UNCHANGED <<active, waits, meant>>
      BY <2>7 DEF ReadHistory
    <3> QED BY <3>1, <3>2, WaitsLight
  <2>8. CASE Deliver(h) \/ SendFails(h)
    <3>1. IsSending(h) /\ AfterSend(h) /\ UNCHANGED <<waits, meant>>
      BY <2>8 DEF Deliver, SendFails
    <3> QED BY <2>i, <3>1, WaitsLight DEF IsSending, AfterSend
  <2> QED BY <1>2, <2>0, <2>1, <2>2, <2>3, <2>4, <2>5, <2>6, <2>7, <2>8 DEF Continue
<1>3. ASSUME NEW c \in Clients, SetClient(c)
      PROVE  WaitsInv'
  BY <1>3, WaitsSelect DEF SetClient
<1>4. CASE Stop
  <2>1. active' = NoClient /\ UNCHANGED <<running, waits, meant>>
    BY <1>4 DEF Stop
  <2> QED BY <2>1 DEF WaitsInv
<1>5. CASE Restart
  <2>1. /\ \A h \in Handlers : running'[h] = Idle
        /\ UNCHANGED <<active, waits>>
        /\ meant' = IF \E h \in Handlers : running[h].at = "dialog" THEN active ELSE meant
    BY <1>5 DEF Restart
  <2>2. Idle.at = "idle"
    BY DEF Idle
  <2> QED BY <2>1, <2>2 DEF WaitsInv
<1>6. CASE \E c \in Clients : ClientMedia(c) \/ NewLead(c)
  BY <1>6 DEF ClientMedia, NewLead, WaitsInv
<1>7. CASE UNCHANGED vars
  BY <1>7 DEF vars, WaitsInv
<1> QED BY <1>1, <1>2, <1>3, <1>4, <1>5, <1>6, <1>7 DEF Next

------------------------------------------------------------------------------
(* The theorems.                                                           *)

Inv == TypeOK /\ TextsInv /\ WaitsInv

LEMMA InitInv == Init => Inv
<1> SUFFICES ASSUME Init PROVE Inv
  OBVIOUS
<1>1. TypeOK
  <2>1. texts \in Seq(Text) /\ Len(texts) = 0
    BY DEF Init
  <2> QED BY <2>1, ConversationAssumption DEF Init, TypeOK, Text, Texts
<1>2. TextsInv
  BY IdleIsSure DEF Init, TextsInv, HandlersAreSure, OneCarrier, ClientsAreKept, Kept
<1>3. WaitsInv
  BY DEF Init, WaitsInv, OfAdmin, Idle
<1> QED BY <1>1, <1>2, <1>3 DEF Inv

LEMMA InvHolds == Spec => []Inv
<1>1. Inv /\ [Next]_vars => Inv'
  BY StepType, StepTexts, StepWaits DEF Inv
<1> QED BY <1>1, InitInv, PTL DEF Spec

\* Every variable keeps its type; so the record, a suggestion and a handler that
\* waits never name a text that was not written.
THEOREM TypeCorrect == Spec => []TypeOK
<1>1. Inv => TypeOK
  BY DEF Inv
<1> QED BY <1>1, InvHolds, PTL

\* Whatever a client hears, and whatever is recorded, kept or shown to a model for
\* it, was written for it, however handlers of other clients came between.
THEOREM AnswersKeepTheirClientHolds == Spec => []AnswersKeepTheirClient
<1>1. ASSUME Inv PROVE AnswersKeepTheirClient
  <2> SUFFICES ASSUME NEW c \in Clients
               PROVE  /\ \A t \in 1..Len(texts) :
                           heard[c][t] > 0 \/ t \in record[c] \/ pending[c] = t
                             => texts[t].client = c
                      /\ \A h \in Handlers :
                           running[h].at \in {"card", "model", "drafting"}
                             /\ running[h].client = c
                             => \A t \in running[h].sees : texts[t].client = c
                      /\ \A h \in Handlers :
                           running[h].at \in {"card", "model"}
                             => running[h].text \notin running[h].sees
    BY DEF AnswersKeepTheirClient
  <2>1. Kept(c, texts, record, heard, pending)
    BY <1>1 DEF Inv, TextsInv, ClientsAreKept
  <2>2. ASSUME NEW t \in 1..Len(texts), heard[c][t] > 0 \/ t \in record[c] \/ pending[c] = t
        PROVE  texts[t].client = c
    <3>1. t \in Texts
      BY <1>1, WrittenTexts DEF Inv
    <3> QED BY <2>1, <2>2, <3>1, NoneIsNoText DEF Kept, For
  <2>3. \A h \in Handlers : Sure(running[h], texts, record, heard, pending)
    BY <1>1 DEF Inv, TextsInv, HandlersAreSure
  <2> QED BY <2>2, <2>3 DEF Sure, For, WithSees
<1> QED BY <1>1, InvHolds, PTL

\* What a client hears was put on record before, or is the agent's own answer, and
\* is never sent twice.
THEOREM SaidOnceOnRecordHolds == Spec => []SaidOnceOnRecord
<1>1. Inv => SaidOnceOnRecord
  BY DEF Inv, TextsInv, ClientsAreKept, Kept, SaidOnceOnRecord
<1> QED BY <1>1, InvHolds, PTL

\* The client an admin that waits for its answers would write to is the one it
\* turned to last, through presses, closings and restarts.
THEOREM RepliesGoWhereMeantHolds == Spec => []RepliesGoWhereMeant
<1>1. Inv => RepliesGoWhereMeant
  BY DEF Inv, WaitsInv, RepliesGoWhereMeant, OfAdmin
<1> QED BY <1>1, InvHolds, PTL

\* A text of the kind "kind" that h starts to send to client c.
Starts(h, c, kind) ==
  /\ running'[h] # running[h]
  /\ running'[h] \in Sending
  /\ running'[h].client = c
  /\ texts'[running'[h].text].kind = kind

LEMMA StartsToSay ==
  ASSUME TypeOK, NEW h \in Handlers, NEW c \in Clients, NEW kind \in Kinds, NEW at \in Sends,
         running[h].at \notin Sends,
         Write(kind, c), Wait(h, [at |-> at, client |-> c, text |-> Next1])
  PROVE  Starts(h, c, kind)
<1> DEFINE w == [at |-> at, client |-> c, text |-> Next1]
<1>1. running'[h] = w
  BY Waited
<1>2. Next1 \in Texts /\ texts'[Next1] = [kind |-> kind, client |-> c]
  BY Written
<1>3. w \in Sending /\ w.client = c /\ w.text = Next1 /\ w.at \in Sends
  BY <1>2 DEF Sending, Sends
<1> HIDE DEF w
<1> QED BY <1>1, <1>2, <1>3 DEF Starts

LEMMA StepAnswers ==
  ASSUME Inv, [Next]_vars, NEW c \in unanswered, c \notin unanswered'
  PROVE  \E h \in Handlers, kind \in Kinds \ {"auto", "agent"} : Starts(h, c, kind)
<1> USE DEF Sends
<1>t. TypeOK /\ TextsInv /\ c \in Clients
  BY DEF Inv, TypeOK
<1>1. ASSUME NEW h \in Handlers, Begin(h)
      PROVE  \E kind \in Kinds \ {"auto", "agent"} : Starts(h, c, kind)
  <2>1. Idle.at = "idle"
    BY DEF Idle
  <2>2. CASE AdminText(h)
    <3>1. active = c /\ running[h] = Idle
      BY <2>2 DEF AdminText, Reply, AdminReady
    <3> QED BY <1>t, <2>1, <2>2, <3>1, StartsToSay DEF AdminText, Reply, Kinds
  <2>3. ASSUME NEW d \in Clients, Resolve(h, d)
        PROVE  \E kind \in Kinds \ {"auto", "agent"} : Starts(h, c, kind)
    <3>1. d = c /\ running[h] = Idle
      BY <2>3 DEF Resolve, AdminReady
    <3> QED BY <1>t, <2>1, <2>3, <3>1, StartsToSay DEF Resolve, Kinds
  <2>4. ASSUME NEW d \in Clients, WebReply(h, d)
        PROVE  \E kind \in Kinds \ {"auto", "agent"} : Starts(h, c, kind)
    <3>1. d = c /\ running[h] = Idle
      BY <2>4 DEF WebReply, Reply
    <3> QED BY <1>t, <2>1, <2>4, <3>1, StartsToSay DEF WebReply, Reply, Kinds
  <2>5. ~Suggest(h) /\ \A d \in Clients : ~ClientText(h, d) /\ ~PressDialog(h, d)
                                         /\ ~Template(h, d) /\ ~SendSuggestion(h, d)
    BY DEF Suggest, ClientText, PressDialog, Template, SendSuggestion
  <2> QED BY <1>1, <2>2, <2>3, <2>4, <2>5 DEF Begin
<1>2. ASSUME NEW h \in Handlers, Continue(h)
      PROVE  \E kind \in Kinds \ {"auto", "agent"} : Starts(h, c, kind)
  <2>1. Answer(h)
    BY <1>2 DEF Continue, AgentAnswers, AgentPasses, CardSent, AutoAnswers, NoAutoAnswer,
       FinishDialog, ReadHistory, Keep, NoSuggestion, Deliver, SendFails
  <2> DEFINE w == running[h]
  <2>2. w.at = "answering" /\ w.client = c
    BY <2>1 DEF Answer, Reply
  <2>3. CASE w.text = None
    BY <1>t, <2>1, <2>2, <2>3, StartsToSay DEF Answer, Reply, Kinds
  <2>4. CASE w.text # None
    <3> DEFINE v == [at |-> "reply", client |-> c, text |-> w.text]
    <3>1. Wait(h, v) /\ UNCHANGED texts
      BY <2>1, <2>2, <2>4 DEF Answer, Reply
    <3>2. texts[w.text].kind = "suggestion"
      BY <1>t, <2>2, <2>4 DEF TextsInv, HandlersAreSure, Sure
    <3>3. w.text \in Texts
      BY <1>t, <2>2, <2>4, HeldAreWritten DEF WithText
    <3>4. v \in Sending /\ v.client = c /\ v.text = w.text /\ v.at = "reply"
      BY <1>t, <3>3 DEF Sending
    <3>5. running'[h] = v
      BY <1>t, <3>1, Waited
    <3> HIDE DEF v
    <3>6. Starts(h, c, "suggestion")
      BY <2>2, <3>1, <3>2, <3>4, <3>5 DEF Starts
    <3> QED BY <3>6 DEF Kinds
  <2> QED BY <2>3, <2>4
<1>3. /\ \A d \in Clients : ~ClientMedia(d) /\ ~SetClient(d) /\ ~NewLead(d)
      /\ ~Stop /\ ~Restart /\ ~UNCHANGED vars
  BY DEF ClientMedia, SetClient, NewLead, Stop, Restart, vars
<1> QED BY <1>1, <1>2, <1>3 DEF Next

\* A lead ceases to be unanswered only as something the admin wrote, or accepted
\* as a suggestion, goes to its client: never by an automatic answer.
THEOREM OnlyTheAdminAnswersHolds == Spec => OnlyTheAdminAnswers
<1>1. ASSUME Inv, [Next]_vars, NEW c \in unanswered, c \notin unanswered'
      PROVE  \E h \in Handlers : /\ running'[h] # running[h]
                                 /\ running'[h] \in Sending
                                 /\ running'[h].client = c
                                 /\ texts'[running'[h].text].kind \notin {"auto", "agent"}
  BY <1>1, StepAnswers DEF Starts
<1>2. Inv /\ [Next]_vars =>
        [\A c \in unanswered : c \notin unanswered' =>
           \E h \in Handlers : /\ running'[h] # running[h]
                               /\ running'[h] \in Sending
                               /\ running'[h].client = c
                               /\ texts'[running'[h].text].kind \notin {"auto", "agent"}]_vars
  BY <1>1
<1> QED BY <1>2, InvHolds, PTL DEF Spec, OnlyTheAdminAnswers
------------------------------------------------------------------------------
(* Closings.                                                               *)

\* A text of another kind is no notice.
LEMMA OtherTexts ==
  ASSUME TypeOK, NEW kind \in Kinds \ {"closing"}, NEW d \in Clients, Write(kind, d),
         NEW c \in Clients
  PROVE  Notices(c, texts') = Notices(c, texts)
<1>1. /\ Next1 \notin 1..Len(texts) /\ Len(texts') = Next1
      /\ \A t \in 1..Len(texts) : texts'[t] = texts[t]
      /\ texts'[Next1] = [kind |-> kind, client |-> d]
  BY Written
<1>2. Len(texts) \in Nat
  BY DEF TypeOK
<1>3. 1..Len(texts') = 1..Len(texts) \cup {Next1}
  BY <1>1, <1>2 DEF Next1
<1>4. texts'[Next1].kind # "closing"
  BY <1>1
<1> QED BY <1>1, <1>3, <1>4 DEF Notices, For

\* A message that is stored closes nothing and opens nothing that is closed.
LEMMA StoreClosesNothing ==
  ASSUME TypeOK, NEW d, NEW t, Store(d, t), NEW c \in Clients
  PROVE  conv'[c] = "closed" <=> conv[c] = "closed"
BY DEF TypeOK, Store

\* What is closed, and of what there is a notice, is as before.
ClosingsStay(c) ==
  /\ Notices(c, texts') = Notices(c, texts)
  /\ conv'[c] = "closed" <=> conv[c] = "closed"

LEMMA OthersCloseNothing ==
  ASSUME Inv, [Next]_vars, NEW c \in Clients, \A h \in Handlers : ~Resolve(h, c)
  PROVE  ClosingsStay(c)
<1>t. TypeOK /\ TextsInv
  BY DEF Inv
<1>u. ASSUME UNCHANGED <<texts, conv>>
      PROVE  ClosingsStay(c)
  BY <1>u DEF ClosingsStay, Notices, For
<1>w. ASSUME NEW kind \in Kinds \ {"closing"}, NEW d \in Clients, Write(kind, d),
             UNCHANGED conv \/ \E t : Store(d, t)
      PROVE  ClosingsStay(c)
  BY <1>t, <1>w, OtherTexts, StoreClosesNothing DEF ClosingsStay
<1>1. ASSUME NEW h \in Handlers, Begin(h)
      PROVE  ClosingsStay(c)
  <2>1. CASE AdminText(h)
    <3>1. active \in Clients
      BY <1>t, <2>1 DEF AdminText, TypeOK
    <3> QED BY <2>1, <3>1, <1>w DEF AdminText, Reply, Kinds
  <2>2. CASE Suggest(h)
    BY <2>2, <1>u DEF Suggest
  <2>3. ASSUME NEW d \in Clients, ClientText(h, d)
        PROVE  ClosingsStay(c)
    BY <2>3, <1>w DEF ClientText, Kinds
  <2>4. ASSUME NEW d \in Clients, PressDialog(h, d) \/ Template(h, d) \/ SendSuggestion(h, d)
        PROVE  ClosingsStay(c)
    BY <2>4, <1>u DEF PressDialog, Template, SendSuggestion
  <2>5. ASSUME NEW d \in Clients, WebReply(h, d)
        PROVE  ClosingsStay(c)
    BY <2>5, <1>w DEF WebReply, Reply, Kinds
  <2>6. ASSUME NEW d \in Clients, Resolve(h, d)
        PROVE  ClosingsStay(c)
    <3>1. d # c
      BY <2>6
    <3>2. conv'[c] = conv[c]
      BY <1>t, <2>6, <3>1 DEF Resolve, TypeOK
    <3>3. /\ Next1 \notin 1..Len(texts) /\ Len(texts') = Next1
          /\ \A t \in 1..Len(texts) : texts'[t] = texts[t]
          /\ texts'[Next1] = [kind |-> "closing", client |-> d]
      BY <1>t, <2>6, Written DEF Resolve, Kinds
    <3>4. Len(texts) \in Nat
      BY <1>t DEF TypeOK
    <3>5. 1..Len(texts') = 1..Len(texts) \cup {Next1}
      BY <3>3, <3>4 DEF Next1
    <3>6. texts'[Next1].client # c
      BY <3>1, <3>3
    <3>7. Notices(c, texts') = Notices(c, texts)
      BY <3>3, <3>5, <3>6 DEF Notices, For
    <3> QED BY <3>2, <3>7 DEF ClosingsStay
  <2> QED BY <1>1, <2>1, <2>2, <2>3, <2>4, <2>5, <2>6 DEF Begin
<1>2. ASSUME NEW h \in Handlers, Continue(h)
      PROVE  ClosingsStay(c)
  <2> DEFINE w == running[h]
  <2>0. CASE AgentAnswers(h)
    <3>1. w.client \in Clients
      BY <1>t, <2>0, HeldAreWritten DEF AgentAnswers, WithText
    <3> QED BY <2>0, <3>1, <1>w DEF AgentAnswers, Kinds
  <2>1. CASE \/ CardSent(h) \/ NoAutoAnswer(h) \/ FinishDialog(h)
             \/ ReadHistory(h) \/ NoSuggestion(h) \/ Deliver(h) \/ SendFails(h)
    BY <2>1, <1>u DEF CardSent, NoAutoAnswer, FinishDialog, ReadHistory,
       NoSuggestion, Deliver, SendFails
  <2>2. CASE AgentPasses(h)
    <3>1. texts' = texts /\ Store(w.client, w.text)
      BY <2>2 DEF AgentPasses
    <3> QED BY <1>t, <3>1, StoreClosesNothing DEF ClosingsStay, Notices, For
  <2>3. CASE AutoAnswers(h)
    <3>1. w.client \in Clients
      BY <1>t, <2>3, HeldAreWritten DEF AutoAnswers, WithText
    <3> QED BY <2>3, <3>1, <1>w DEF AutoAnswers, Kinds
  <2>4. CASE Keep(h)
    <3>1. w.client \in Clients
      BY <1>t, <2>4, RunningShape, WaitShape DEF Keep, WithSees
    <3> QED BY <2>4, <3>1, <1>w DEF Keep, Kinds
  <2>5. CASE Answer(h)
    <3>1. w.client \in Clients
      BY <1>t, <2>5, HeldAreWritten DEF Answer, WithText
    <3>2. CASE w.text = None
      BY <2>5, <3>1, <3>2, <1>w DEF Answer, Reply, Kinds
    <3>3. CASE w.text # None
      <4>1. texts' = texts /\ Store(w.client, w.text)
        BY <2>5, <3>3 DEF Answer, Reply
      <4> QED BY <1>t, <4>1, StoreClosesNothing DEF ClosingsStay, Notices, For
    <3> QED BY <3>2, <3>3
  <2> QED BY <1>2, <2>0, <2>1, <2>2, <2>3, <2>4, <2>5 DEF Continue
<1>3. ASSUME NEW d \in Clients, ClientMedia(d)
      PROVE  ClosingsStay(c)
  BY <1>3, <1>w DEF ClientMedia, Kinds
<1>4. CASE \/ \E d \in Clients : SetClient(d) \/ NewLead(d)
           \/ Stop \/ Restart \/ UNCHANGED vars
  BY <1>4, <1>u DEF SetClient, NewLead, Stop, Restart, vars
<1> QED BY <1>1, <1>2, <1>3, <1>4 DEF Next

\* Handler h, which has no notice out, goes to its next await or ends.
GoesOn(h) == running[h].at # "closing" /\ \E w : Wait(h, w)

\* A notice that has come, was lost or is out has come, was lost or is out then.
LEMMA StaysAccounted ==
  ASSUME Inv, [Next]_vars, NEW c \in Clients, NEW t \in Notices(c, texts), Accounted(c, t)
  PROVE  Accounted(c, t)'
<1>t. TypeOK /\ TextsInv /\ t \in Texts
  BY WrittenTexts DEF Inv, Notices, For
<1>1. ASSUME NEW h \in Handlers, IsOut(h, c, t), IsOut(h, c, t)'
      PROVE  Accounted(c, t)'
  BY <1>1 DEF Accounted, IsOut
<1>2. ASSUME NEW h \in Handlers, Deliver(h)
      PROVE  Accounted(c, t)'
  <2> DEFINE w == running[h]
  <2>1. w.client \in Clients /\ w.text \in Texts /\ heard[w.client][w.text] = 0
    <3>1. w.at \in Sends \cup {"own"}
      BY <1>2 DEF Deliver, IsSending, Sends
    <3>2. w.client \in Clients /\ w.text \in Texts
      BY <1>t, <3>1, RunningShape, WaitShape DEF WithText, Sends
    <3>3. Carries(w)
      BY <3>1, <3>2, NoneIsNoText DEF Carries
    <3> QED BY <1>t, <3>2, <3>3 DEF TextsInv, HandlersAreSure, Sure
  <2>2. heard' = [heard EXCEPT ![w.client][w.text] = @ + 1] /\ unlucky' = unlucky
    BY <1>2 DEF Deliver
  <2>3. CASE w.client = c /\ w.text = t
    BY <1>t, <2>1, <2>2, <2>3 DEF Accounted, TypeOK
  <2>4. CASE ~(w.client = c /\ w.text = t)
    <3>1. heard'[c][t] = heard[c][t]
      BY <1>t, <2>1, <2>2, <2>4 DEF TypeOK
    <3>2. ASSUME NEW g \in Handlers, IsOut(g, c, t)
          PROVE  IsOut(g, c, t)'
      <4>1. g # h
        BY <2>4, <3>2 DEF IsOut
      <4> QED BY <1>t, <1>2, <3>2, <4>1, Waited DEF IsOut, Deliver, AfterSend
    <3> QED BY <2>2, <3>1, <3>2, <1>1 DEF Accounted
  <2> QED BY <2>3, <2>4
<1>3. ASSUME NEW h \in Handlers, SendFails(h)
      PROVE  Accounted(c, t)'
  <2>1. /\ heard' = heard /\ unlucky \subseteq unlucky'
        /\ \A g \in Handlers \ {h} : running'[g] = running[g]
    BY <1>t, <1>3, Waited DEF SendFails, AfterSend
  <2>2. IsOut(h, c, t) => c \in unlucky'
    BY <1>3 DEF SendFails, IsOut
  <2>3. \A g \in Handlers \ {h} : IsOut(g, c, t) => IsOut(g, c, t)'
    BY <2>1 DEF IsOut
  <2> QED BY <2>1, <2>2, <2>3 DEF Accounted
<1>4. CASE Restart
  BY <1>4 DEF Restart, Accounted, IsOut
<1>5. CASE /\ UNCHANGED <<heard, unlucky>>
           /\ \/ UNCHANGED running
              \/ \E h \in Handlers : GoesOn(h)
  <2>1. ASSUME NEW g \in Handlers, IsOut(g, c, t)
        PROVE  IsOut(g, c, t)'
    BY <1>t, <1>5, <2>1, Waited DEF IsOut, GoesOn
  <2> QED BY <1>5, <2>1 DEF Accounted
<1>6. ASSUME NEW h \in Handlers, Begin(h)
      PROVE  UNCHANGED <<heard, unlucky>> /\ GoesOn(h)
  <2>1. running[h] = Idle
    BY <1>6 DEF Begin, AdminText, Suggest, ClientText, PressDialog, Template, SendSuggestion,
       Resolve, WebReply, Reply, AdminReady
  <2>2. running[h].at # "closing"
    BY <2>1 DEF Idle
  <2>3. CASE AdminText(h) \/ Suggest(h)
    BY <2>2, <2>3 DEF AdminText, Suggest, Reply, GoesOn
  <2>4. ASSUME NEW d \in Clients, ClientText(h, d) \/ PressDialog(h, d) \/ Template(h, d)
        PROVE  UNCHANGED <<heard, unlucky>> /\ GoesOn(h)
    BY <2>2, <2>4 DEF ClientText, PressDialog, Template, GoesOn
  <2>5. ASSUME NEW d \in Clients, SendSuggestion(h, d) \/ Resolve(h, d) \/ WebReply(h, d)
        PROVE  UNCHANGED <<heard, unlucky>> /\ GoesOn(h)
    BY <2>2, <2>5 DEF SendSuggestion, Resolve, WebReply, Reply, GoesOn
  <2> QED BY <1>6, <2>3, <2>4, <2>5 DEF Begin
<1>7. ASSUME NEW h \in Handlers, Continue(h), ~Deliver(h), ~SendFails(h)
      PROVE  UNCHANGED <<heard, unlucky>> /\ GoesOn(h)
  <2>1. CASE AgentAnswers(h) \/ AgentPasses(h) \/ CardSent(h) \/ AutoAnswers(h) \/ NoAutoAnswer(h)
    BY <2>1 DEF AgentAnswers, AgentPasses, CardSent, AutoAnswers, NoAutoAnswer, GoesOn
  <2>2. CASE FinishDialog(h) \/ ReadHistory(h) \/ Keep(h) \/ NoSuggestion(h)
    BY <2>2 DEF FinishDialog, ReadHistory, Keep, NoSuggestion, GoesOn
  <2>3. CASE Answer(h)
    BY <2>3 DEF Answer, Reply, GoesOn
  <2> QED BY <1>7, <2>1, <2>2, <2>3 DEF Continue
<1>8. CASE \/ \E d \in Clients : ClientMedia(d) \/ SetClient(d) \/ NewLead(d)
           \/ Stop \/ UNCHANGED vars
  BY <1>5, <1>8 DEF ClientMedia, SetClient, NewLead, Stop, vars
<1> QED BY <1>2, <1>3, <1>4, <1>5, <1>6, <1>7, <1>8 DEF Next

\* A closing writes the one notice of its client and is about to send it.
LEMMA ResolveIsTold ==
  ASSUME Inv, ClosingsAreToldOnce, NEW h \in Handlers, NEW c \in Clients, Resolve(h, c)
  PROVE  /\ conv'[c] = "closed"
         /\ Notices(c, texts') # {}
         /\ \A t, u \in Notices(c, texts') : t = u
         /\ \A t \in Notices(c, texts') : Accounted(c, t)'
<1>t. TypeOK
  BY DEF Inv
<1>1. conv[c] = "open" /\ Notices(c, texts) = {}
  BY DEF Resolve, ClosingsAreToldOnce
<1>2. conv'[c] = "closed"
  BY <1>t DEF Resolve, TypeOK
<1>3. /\ Next1 \notin 1..Len(texts) /\ Len(texts') = Next1
      /\ \A t \in 1..Len(texts) : texts'[t] = texts[t]
      /\ texts'[Next1] = [kind |-> "closing", client |-> c]
  BY <1>t, Written DEF Resolve, Kinds
<1>4. Len(texts) \in Nat
  BY <1>t DEF TypeOK
<1>5. 1..Len(texts') = 1..Len(texts) \cup {Next1}
  BY <1>3, <1>4 DEF Next1
<1>6. Notices(c, texts') = {Next1}
  BY <1>1, <1>3, <1>5 DEF Notices, For
<1>7. running'[h] = [at |-> "closing", client |-> c, text |-> Next1]
  BY <1>t, Waited DEF Resolve
<1>8. ASSUME NEW t \in Notices(c, texts')
      PROVE  Accounted(c, t)'
  <2>1. t = Next1
    BY <1>6
  <2>2. IsOut(h, c, t)'
    BY <1>7, <2>1 DEF IsOut
  <2> QED BY <2>2 DEF Accounted
<1> QED BY <1>2, <1>6, <1>8

\* A closed conversation stays closed, so its one notice must not be lost silently or
\* sent twice, whoever else the admin and the models write to in between.
THEOREM ClosingsAreToldOnceHolds == Spec => []ClosingsAreToldOnce
<1>1. Init => ClosingsAreToldOnce
  BY DEF Init, ClosingsAreToldOnce, Notices, For
<1>2. ASSUME Inv, ClosingsAreToldOnce, [Next]_vars
      PROVE  ClosingsAreToldOnce'
  <2> SUFFICES ASSUME NEW c \in Clients
               PROVE  /\ conv'[c] = "closed" <=> Notices(c, texts') # {}
                      /\ \A t, u \in Notices(c, texts') : t = u
                      /\ \A t \in Notices(c, texts') : Accounted(c, t)'
    BY DEF ClosingsAreToldOnce
  <2>1. CASE \E h \in Handlers : Resolve(h, c)
    BY <1>2, <2>1, ResolveIsTold
  <2>2. CASE \A h \in Handlers : ~Resolve(h, c)
    <3>1. ClosingsStay(c)
      BY <1>2, <2>2, OthersCloseNothing
    <3>2. \A t \in Notices(c, texts) : Accounted(c, t)'
      BY <1>2, StaysAccounted DEF ClosingsAreToldOnce
    <3> QED BY <1>2, <3>1, <3>2 DEF ClosingsAreToldOnce, ClosingsStay
  <2> QED BY <2>1, <2>2
<1> QED BY <1>1, <1>2, InvHolds, PTL DEF Spec
==============================================================================
