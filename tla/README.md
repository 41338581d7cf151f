# Formal model of the Noct bot

A TLA+ development kept beside the Telegram bot, its HTTP API and its SQLite
database. It models what is hard to test there: handlers that overlap at their
awaits, timers that overlap, messages that fail or lose their answer, pages that are old,
processes that die and start again.
TLC checks the models on small instances; TLAPS proves every safety property of
theirs for every value of the constants, and the safety half of some of the
liveness properties.

Paths below are relative to the repository root, `src/` in `PROJECT.json`.

## The system

One Node process holds a Telegraf bot, an Express server and a `better-sqlite3`
database, optionally a Redis cache and Bull queues. JavaScript runs one thing at
a time and the database is synchronous: **a handler is atomic from one `await`
to the next**, and only there do handlers interleave. Telegraf's polling starts
all handlers of a batch side by side, a webhook starts one for each request.

| Component | State | Operations | Hard part | What makes it correct |
|---|---|---|---|---|
| Request flow (`src/handlers/client.js`, `src/services/lead-service.js`, `src/repositories/sessions.js`) | one `sessions` row per client: flow, step, draft | product button, quantity, comment, contact, edit, back, cancel, confirm, /start, expiry | buttons read, await and write back | who waits for its answers keeps its draft and never meets an ended one; a wanted draft goes only by a late button of its own client; a lead has what the client entered |
| Leads table (`src/repositories/leads.js`, migration 006) | `leads` rows, partial unique index | insert, status change, marks | check and insert apart; reopening | one open lead per client and product |
| Cart (`client.js`, `lead-service.js`) | the same sessions row, `flow = "cart"` | add, quantity, checkout, edit, confirm | stale copies of the whole cart | lines are what was entered; the flows do not mix |
| Web form (`src/web/routes/public.js`, `web/components/public/lead-form.tsx`) | the form in the browser, the limiter's stamps; all its leads belong to user 0 | fill, send, retry; `POST /api/lead` | edits during the wait, lost answers, late requests, one key and one user for everybody, stamps that a restart forgets | a token is of one's own lead; no start of the process exceeds the limit in a window |
| Users and blocking (`repositories/users.js`, `handlers/admin.js`, `web/components/admin/user-table.tsx`) | `users` rows, the page in the admin's browser | upsert, block test, commands, toggle | toggles from an old page; confirmations and copies of a draft under way | what a careful admin asked for is so; nothing of a blocked client is admitted |
| Admin reminders (`src/services/scheduler-service.js`, timers of `index.js`) | marks in the leads rows | SLA run, follow-up run | overlapping runs, failed sends, crash before the mark | nothing marked untold; everything due is told; repeats explained |
| Draft reminders (same file) | marks in the sessions rows | run every 5 minutes | mark after the await, by client id | each draft is told of; repeats explained |
| Conversations (`src/services/conversation-service.js`, `src/handlers/admin.js`) | conversations, messages, active client, kept suggestions | forward, reply, suggest, send, close | answers of a model come late | an answer goes to the client it was written for; what the admin says, once and on record; one notice for each closing |
| Broadcast and queue (`src/services/admin-service.js`, `queue-service.js`) | Bull jobs | bulk send, fallback | timeouts, stalls, then direct sends | repeats explained and bounded; the report is true |
| Lifecycle (`index.js`, `graceful-shutdown.js`, `telegram-runtime.js`) | resources, flags | bootstrap, teardown, signals | partial start, a taken port, two signals | a clean exit has closed everything, a failed one what its end can reach; nothing hangs |
| Migrations (`src/db/migrations`, `src/db/sqlite.js`) | marker table, rows | run in order, seed | crash between two, two processes | in order, once |
| Cache and limits (`cache-service.js`, `rate-limiter.js`) | maps with expiry, or Redis | start, close; get, set, limit are called by nothing | - | - |
| Routing (`bot.js`, `client.js` 608-946) | none | dispatch | a name that is not imported | each button reaches its branch |
| Admin API, dashboard, texts, logging, configuration | none of their own but the two pages above | writes that are modelled with their component; reads, formatting, proxying | - | - |

Shared state is the database. Request flow, cart and draft reminders meet in the
`sessions` row; request flow, cart, web form, reminders and the first reply of a
conversation in the `leads` rows. The scheduler calls Telegram and the lead
repository, the handlers call the services, the services the repositories. Each
module carries what it needs of its neighbours: `CartFlow` has a request for one
product as one value of the row, `DraftReminders` the row without its contents,
`Conversation` whether a lead still waits for its first reply, `Accounts` whether a
client has a draft and how many orders; `Lifecycle` extends `Migrations`.

## Modules

| Module | What it is |
|---|---|
| `LeadSlots` | Abstract: each pair of a client and a product is a slot, held by at most one open lead, free before it changes hands; `LeadFlow` and `WebForm` implement it |
| `LeadFlow` | Request flow, leads table, admin status changes, web leads, restart |
| `LeadFlow_proofs` | Theorems about `LeadFlow`, its refinement of `LeadSlots` among them |
| `CartFlow`, `CartFlow_proofs` | The cart, and theorems about it |
| `AdminReminders`, `AdminReminders_proofs` | SLA and follow-up runs, what the admin does to what is due, and theorems |
| `DraftReminders`, `DraftReminders_proofs` | The draft run, the clients' writes of what it lists, and theorems |
| `Conversation`, `Conversation_proofs` | Texts of clients, the agent, the admin's replies and suggestions, closings, and theorems |
| `Delivery` | A broadcast through the queue and past it |
| `Migrations` | `createDatabase` for processes on one file |
| `Lifecycle` | Those processes from start to end; extends `Migrations` |
| `Service_proofs` | Theorems about `Lifecycle` with `Migrations`, and about `Delivery` |
| `WebForm`, `WebForm_proofs` | Forms, requests, limiter, products on offer, and theorems, its refinement of `LeadSlots` among them |
| `Accounts`, `Accounts_proofs` | Users, blocking by command and by page, and theorems |
| `MC...` | TLC instances of the module of that name |

Operators called `Fault...` are plausible bugs. Nothing refers to them: each is
put in the place of the definition it follows to see that a property notices.

`lead_events` and `lead_abandoned` are logs and in no model: nothing modelled here
reads them.

### LeadFlow

`session[c]` is the client's row: `NoSession` (none, or past its 72 hours),
`Home`, or a draft with its step, product, quantity (0 for the `null` of a fresh
draft), whether the contact label is non-empty, and `isConfirmEditing`. `leads`
is the table, a row's position its id. `running[h]` is an update that waits at
an await: the client, and for a button the copy of the draft it read.

* Text handlers read the session and write it with no await in between, so
  each is one action (`EnterQuantity`, `EnterComment`, `EnterContact`,
  `TypeBack`, `TypeCancel`). So are the product button and /start.
* The buttons skip, Telegram contact, other contact, back and edit take a copy
  (`PressButton`), await, and write it with their change (`Finish...`).
* The buttons confirm and cancel answer Telegram first (`PressEnding`) and then
  end whatever the row holds by then: cancel with no look at it
  (`FinishCancel`), so that a late one takes a draft begun since;
  confirmation after it has read the session afresh. Check, transaction and
  clearing have no await between them (`ConfirmCreates`, `ConfirmDuplicate`,
  `ConfirmFails`). The card for the admin is awaited and the home session set
  after it, unless a draft is active by then (`FinishConfirm`).
* `AdminSetStatus` is any status over any other, as the bot's buttons and the
  admin API allow; the index may refuse. `WebLead` is an insert for user 0.

`patient` says whether the clients press nothing while an answer is due to them;
otherwise their updates overlap. Init chooses it, so one run has
both.
`wanted` and `lastQuantity` are history variables: the product of the order the
client began and has neither cancelled, confirmed nor let expire; the last quantity
it entered for each product. `meant` in a waiting cancel or confirmation is the order
it was pressed for, so that a late one does not count as the end of another. No
guard reads them.

The model takes the callback branches as written. In this commit
`client.js:634` uses `ACTION_PREFIXES` without importing it, so that a callback
reaches the branches after that line only once the import is there, and the
pattern of `bot.js:135` lists no `cart:` action; the same holds of the column
`line_items_json`, whose migration is not in the list of
`src/db/migrations/index.js`.

### CartFlow

The row again, with the cart as its lines by product (0 for no line), the pending
product and whether there is a contact; `LeadDraft` is a request for one product
and what `LeadFlow` does inside it a step from `LeadDraft` to itself. Texts and the
buttons that add a product or check out are one action; the others take a copy of
the whole cart (`PressButton`), await, and write it with their change (`Writes`,
`FinishButton`), and so `FinishLeadButton` writes back a request. The confirmation
reads the row afresh (`ConfirmCreates`, `ConfirmDuplicate`) and sets the home
session after the admin's card (`FinishConfirm`). `basket` and `entered` are history
variables. The page of the catalogue a client looks at is left out: it comes back
into no lead. The cancel button is one action here, though it awaits as in `LeadFlow`:
the properties about what a cart still holds are of clients that wait for each answer,
whom that await does not concern, and the others say nothing of what may go.

### AdminReminders

`leads` has what the three queries read. `age` is the class of `created_at`
(under 15 minutes, under 60, more); leads age in the order they were made.
`followUp` is the phase of `next_follow_up_at`. The snooze button writes it with
`toISOString`, and the query compares text with `CURRENT_TIMESTAMP`: `T` against
a space, so the follow-up is due only when its UTC day is over. That is why
`Due` asks for `next_day` and not for `past`.

A run lists (`StartSla`, `StartFollowUps`), awaits one message for the whole
batch (`Deliver`, or not), then marks each lead (`Acknowledge`) or none
(`SendFails`); the SLA run goes on to its second kind with a fresh list. A
timer does not look whether its last run still waits: `SlaRuns` and
`FollowUpRuns` are how many may. The snooze button stands on the card of a new lead and
is taken away after a press (`replaceWithStatusButton`, `admin.js:34-45`, called at
155), but that edit may fail and its error is swallowed: `Snooze` may come again, as
on a card whose edit failed. `Restart` loses what is in flight. `told`,
`heard`, `snoozes` and `mishaps` are history variables; `mishaps` counts
deliveries nobody took note of.

### DraftReminders

`row[c]` is the client's row as the run sees it: is it a lead draft, how long
was it left alone (four classes, cut at 15 minutes, 24 and 72 hours), which
marks are set. A run lists (`Start`), awaits one send for each row (`Deliver`,
or not), marks the row of that client, *whatever it holds by then*
(`Acknowledge`), or catches the failure (`SendFails`), and goes on to the next;
after the 15 minutes comes a fresh list for 24 hours. Neither list looks at the
72 hours. `set` clears both marks, so `SetRow` does. `episode` numbers the
writes of a draft, so that a late mark can be told from a timely one. `Overlap`
says whether a client may write its row while a run has it in hand.

### Conversation

`record` is the messages table as sets of texts, `active` the client the admin
writes to, `pending` the suggestion kept in memory for each client. A text is a
number; `texts` says its kind and, as history, the client it was written for. A
client's text is stored and then waits for the agent, then for the admin's card,
then for the automatic answer (`ClientText`, `AgentAnswers`, `AgentPasses`,
`CardSent`, `AutoAnswers`); the models are external and return with a text, with
none, or with an escalation. The admin's reply is stored, booked as the first one of
the lead, and then sent (`Reply`); `safeSendMessage` swallows errors, so the admin
reads "Сообщение отправлено клиенту." either way. `reopen` is called by nothing: a
closed conversation stays closed and a second /resolve answers "already_closed".
The agent's text is sent with `ctx.reply` and stored nowhere (`client.js:587-594`), so a
client hears texts that are not on record; its kind is "agent", and `SaidOnceOnRecord`
is of the others.
`waits` says whether the admin waits for each answer, as reply and dialog select
their client only after an await. The dashboard's reply (`WebReply`) takes the way
of the bot's and selects nobody. How many messages a prompt takes, the limit of
messages a minute, /summarize and /ai, which write nothing, are left out.

### Delivery

One pass over the list is a record of whom it has still to send to and who has
answered; the runs of the job and the handler's own pass are `passes`. Bull is
external: it runs what waits, fails a job past its timeout while the pass goes on
(`TimeOut`), starts a job whose worker is lost again (`Stall`), and tries `Attempts`
times. `Broadcast` reads the list of unblocked clients once. At this commit
`admin-service.js` uses `queueService`, `logError` and two constants it does not
declare; `test/admin-service.test.js:168-195` passes the service in, and the model is
of the code as that test runs it. No processor exists for the other queues.

### Migrations and Lifecycle

`applied` is the marker table, `seen` what a process has read of it, `lead` the leads
of one client for one product, all that four of the migrations look at. A migration
is one transaction with its marker (`Migrate`), or rolled back (`MigrateFails`);
counting the products and putting the defaults in are two (`CountProducts`,
`SeedProducts`). `createRepositories`, whose statements may fail to be prepared, ends
`DbReady`. `Prefixes` is how many migrations the file has seen; its rows are any
that the code of that day could leave.

`proc[p]` is a process: what bootstrap does next, what it has opened, what a teardown
or a shutdown awaits, whether the shutdown flag is set, how the last process ended.
`Fault` is an error nobody catches, `Signal` SIGTERM or SIGINT, `Kill` what no handler
sees. `End` keeps what was left open as history. A database is closed at once; only
the close of the server in a teardown has no timeout. Timers, the memory monitor and
queues half made are left out.

`startHttpServer` (`index.js:102-107`) resolves in the callback of `app.listen`, which
Express 5 calls with an error too. On a taken port the promise resolves with a
server that does not listen, and the start goes on to poll (`ListenFails`): two
processes may poll at once, and nothing in the code prevents it. (Telegram answers the
second with a conflict, which is not modelled.) An error before `resources` is put together,
in `createRepositories` or `createBot`, ends the process with the file, the cache and
the queue open (`Refused`), and so may a fatal error while bootstrap is under way.
`ExitsAreClean` says what is left open at each kind of end.

### WebForm

`form[v]` is the component in a visitor's browser, `request[v]` its last press of send
with what the form said then, `leads` the rows of the web user, a row's token its
position. While an answer is awaited only the send button is disabled, so the visitor
goes on editing. `Lose` is an alert with the request processed, lost, or still on its way:
then `adrift` has it and `ServeLate` handles it. `hits` are the
ages of the limiter's stamps: requests come through the Next.js server, so there is
one key. Stamps are put at the end and age together, so that those the code filters
out come first, and what is left is the rest of the list (`Recent`). The stamps are a
`Map` in the memory of the process (`rate-limit.js:2`), so `Restart` empties them; `life`,
`age` and `passed` are history, of which start of the process let which requests pass
and how long ago it was. A window with a restart in it may therefore see the limit twice,
and one with k of them k + 1 times. An empty or zero quantity is shown and orders one
(`Posted`). The list of products is as old as the form, so `Choose` takes any that
has ever been on offer. Because all web leads belong to user 0, a product ordered by
one visitor is refused to all others, and to a retry after a lost answer, until the
admin closes the lead (`Unfit`).

### Accounts

`user[c]` is the row, `page[c]` what the dashboard shows of it, `press` the presses of
its button not yet answered. `Toggle` writes the contrary of the row, whatever the
label said; `Lose` is the alert, after which the request may arrive all the same
("adrift"). `Command` is /blockuser and /unblockuser. A client's update is upserted
and tested (`Allowed`); the confirmation is tested and creates its lead after the
await (`PressConfirm`, `FinishConfirm`); skip, contact and back are tested, read the
draft, and write their copy after the await (`PressEdit`, `FinishEdit`), so that a client
blocked meanwhile may get back a draft it had. /menu, /help and /app are not tested and drop
a draft at most. `careful` is an admin that waits for each answer and presses only a
page loaded since the last change; `fresh` and `asked` are its history.

## Runs

| Run | Question | Bounds, distinct states |
|---|---|---|
| `lead_flow` | Do overlapping updates, reopened leads and web leads keep one open lead per slot (`OneOpenLead`, `ImplementsSlots`), and only leads somebody can act on (`LeadsAreActionable`)? Does a wanted draft go by nothing but a late button of its client (`WantedDraftSurvives`)? Does a client that waits for answers get its own draft (`DraftsAreTheirClients`)? Yes. | 1 client, 2 products, 1 waiting update, 2 leads; 595,133 |
| `lead_flow_stale` | And one that does not wait? No: `DraftIsWanted` fails. | 1 client, 1 product, 1 lead |
| `cart_flow` | Has every cart lead its lines and contact (`CartLeadsAreWhole`), no line more than was entered (`LinesWereEntered`), and does a waiting client's cart hold what it entered (`CartHoldsEntries`) and no flow end the other (`FlowsStayApart`)? Yes. | 1 client, 2 products, 1 waiting update, entries to 2, 2 leads; 1.8 million |
| `reminders` | With failures, lost answers and restarts: marked only if told (`MarkedWasTold`), repeats only where explained (`RepeatsAreMishaps`), and everything due told of, when more is due than a message may name (`LeadsAreBroughtUp`)? Yes. | 1 run per timer, `Limit` 1, 2 leads, 1 snooze each, 1 lost answer; 300,897 |
| `reminders_snooze` | Is every snooze followed by a reminder? No: `EverySnoozeIsFollowedUp` fails. | 1 lead, 2 snoozes |
| `draft_reminders_patient` | Is each draft a client leaves alone reminded of, at both times, while another client fails every send (`DraftIsBroughtUp`), marked and repeated only with a reason (`TellingIsAccountedFor`)? Yes. | 2 clients, one of which has blocked the bot, 1 run, 2 writes of a draft each, 1 lost answer |
| `draft_reminders_stale` | And if it writes the draft during the send? No: `DraftIsBroughtUp` fails. | 1 client, 1 run, 2 writes |
| `conversation` | Does every text reach the client it was written for (`AnswersKeepTheirClient`), all but the agent's once and on record (`SaidOnceOnRecord`), from an admin that waits also the one it turned to (`RepliesGoWhereMeant`)? Do only its replies end the reminders (`OnlyTheAdminAnswers`), has a closing one notice (`ClosingsAreToldOnce`), and does it come (`ClosingIsTold`)? Yes. | 2 clients, 2 waiting updates, 2 texts; 221,840 |
| `delivery` | Are copies explained and bounded (`RepeatsAreMishaps`), the report true (`ReportIsTrue`), and does it come (`BroadcastsEnd`)? Yes. | 2 clients, 1 broadcast, 2 attempts, 1 stall; 381,088 |
| `lifecycle` | Do two processes on one file and port migrate once and in order (`MigratedOnce`), fail for a reason (`DbFailuresAreExplained`), leave open no more than each kind of end may (`ExitsAreClean`) and end what they begin (`NothingHangs`)? Yes. | 2 processes, 2 leads, files of 0 and 3 migrations; 310,372 |
| `web_form` | Is a token of the visitor's own lead as confirmed (`TokenIsOwn`), and does no start of the process exceed the limit in a window, nor an earlier start count in one that begins after a restart (`WindowHolds`)? Yes. | 2 visitors, 1 product, entries 2 and one past `MaxQuantity` 2, 2 requests in 2 ticks, 1 lead, 1 restart; 4.4 million |
| `accounts` | Is what a careful admin asked for so (`AskedIsSo`)? Is nothing of a blocked client admitted, and what it still gets from a button admitted before (`BlockedOrderNothing`)? Yes. | 2 clients, 2 waiting buttons, 2 presses under way, 2 orders; 913,346 |

Why the bounds are enough: one waiting update already meets every other action
of its client between its read and its write, and the proofs cover any number;
two leads are what a slot needs to pass from one to the next, to be reopened
against an open one, and to exceed `Limit`; two runs of a timer, which only the
proofs have, are what listing the same leads twice takes. Two clients are what a
text needs to go astray, and two updates what it takes to turn from one to the other
during a model's call. Two attempts have a last one and one before; the bound of
`RepeatsAreMishaps` in `Delivery` is in terms of them (five copies for the code's
three attempts). A file with three migrations has the old names of a status that the
later ones change; one with none is a first start. Two requests in a window of two
ticks slide past each other, and one restart lies in, before or after their window. `MaxQuantity` stands for 10000, `MaxPosts` for 10,
`Window` for five minutes. `MaxLeads`, `MaxSnoozes`, `MaxMishaps`, `MaxEpisodes`,
`MaxTexts`, `MaxEntered`, `MaxRestarts`, `MaxOrders`, `Presses` and `Broadcasts` only bound the state
space.

Deadlock is checked but where the system may stop: `draft_reminders_*`, once no
client writes any more and all rows have expired; `conversation`, once the texts have
run out; `delivery`, once the broadcast is over; `lifecycle`, where a process may stay
up or down. Symmetry is used in the runs without liveness alone.

Fairness, in `FairSpec` and, for `Delivery`, `FairDelivery` only. `AdminReminders`,
`DraftReminders`: time passes, timers
go on firing while the process lives (`setInterval`), and a send that is tried for
ever gets through and is answered some time (strong fairness on `Deliver` and
`Acknowledge`); a run of several messages is moreover not killed at the same one for
ever; nothing is asked of sends to a client that has blocked the bot. `Conversation`:
what is awaited returns, with or without a result. `Delivery`: sends and Redis answer
some time, and Bull starts what it can start. `Lifecycle`: what a start, a shutdown or
a teardown awaits returns or fails, but for `server.close`, which waits for
connections that may never end; the timer of a shutdown fires. Nothing is asked
anywhere of clients, visitors, the admin, failures or restarts. A run of the SLA timer
that finds nothing leaves no trace and is no step.

### What the failing runs show

`lead_flow_stale`: a client presses skip and then cancel, and the answer to the
skip comes after the cancellation. The handler writes back the draft it read,
and the cancelled order stands at its confirmation again, against
`docs/manual-test-checklist.md:70-71`. `DraftsAreTheirClients` shows that this needs the
overlap, `LeadsAreActionableHolds` that even such a draft makes a whole lead.

`reminders_snooze`: `updateStatus` writes the follow-up time and leaves
`follow_up_reminded_at`. After the first reminder the query never returns the
lead again, though the button answers "Напомню через 2 часа" each time
(`src/handlers/admin.js:840`). The second press needs the edit that takes the button away
(`admin.js:155`) to have failed.

`draft_reminders_stale`: the client writes its draft between the delivery of a
reminder and the mark. `set` clears the marks, the mark by `telegram_id` is then
set on the new draft, and this draft gets no reminder of that kind, though
`test/scheduler-service.test.js:36` has one for each draft.

## Proofs

TLAPS checks each of these for all values of the constants, under the assumption
named in the module (naturals, finite sets, values that are told apart). Each is
`Init => IInv`, `IInv /\ [Next]_vars => IInv'`, `IInv => Inv`, with one lemma or step
per action; TLC has checked each `IInv` on the instance first.

`LeadFlow`:

* `TypeCorrect`: types, one step per action.
* `OneOpenLeadHolds`: with `TypeOK`, `RowsDisagree` is inductive. It is
  `OneOpenLead` read row against row. An insert at `new` and an update to an
  open status pass the index only if no other row of the slot is open, because
  the statuses the index lists are the ones the queries call open
  (`IndexedIsOpen`).
* `WantedDraftSurvivesHolds`, a step property: only a waiting button takes a wanted
  draft (`OnlyItsButtons`), as the end of a confirmation looks for an active draft
  before it writes the home row; and no button of a patient client does
  (`PatientKeepsWanted`), by the invariant of `DraftsAreTheirClientsHolds` below.
* `LeadsAreActionableHolds`: the strengthening says of drafts *and of the copies
  that waiting handlers hold* that a quantity comes with a contact and with an
  entry of the client for that product. The copies are why the overlap does no
  harm here.
* `FlowImplementsSlots`: initial states map to initial states, and each step to
  `Acquire`, `Release` or a stutter. `Holder` is a `CHOOSE` over the open leads,
  so the proof shows first that there is at most one of them.
* `DraftsAreTheirClientsHolds`: for a patient client. The strengthening adds that
  one update of such a client waits at most, and that the copy it holds is the row
  (`CopiesAreFresh`). TLC refutes the conclusion for the others.

`CartFlow`: `TypeCorrect`; `CartLeadsAreWholeHolds` and `LinesWereEnteredHolds` from
`CartsAreSound`, which says of rows, copies and leads alike that no line exceeds the
entries and that a cart comes with a contact once it has a line; `CartHoldsEntriesHolds`
and `FlowsStayApartHolds` for patient clients, by `CopiesAreFresh` again.

`AdminReminders`: `TypeCorrect`; `MarkedWasToldHolds`, whose strengthening says that
every lead of a delivered batch still in flight has been told of;
`RepeatsAreMishapsHolds`, by counting (`CountsHold`): while a lead is not marked, each
message that named it is one whose run has yet to mark, or its answer was lost; and
the messages still to be delivered find room below the bound. With `RunsMatch`, that
a run sends only the kinds of its timer, this is inductive.

`DraftReminders`: `TypeCorrect`; `DraftInv` says that a list names no row twice
(`ListsAreSound`), that what was delivered of the draft as it is now was told
(`DeliveredWasTold`), and counts as above (`CountsHold`), whatever the clients write
meanwhile. From it `RepeatsAreMishapsHolds`: stale reminders are of an earlier draft
and do not make one told of too often; and the step property `MarksAreOfReminders`: a
mark is that of a run whose reminder has arrived, of this draft or of the one written
over. `TellingIsAccountedForHolds` is under `~Overlap`, without which TLC refutes it: there
the lists hold the drafts as they are now (`ListsAreFresh`), so that every mark is earned.

`WebForm`: `TypeCorrect`, with the product that a form past its first page has (`Chosen`)
and a late request (`Drifts`); `TokenIsOwnHolds`:
`TokenInv` says of each request that it carries what the form showed and of an answer
that its row was made from it, also after its visitor has gone on editing, and rows
keep what they were made of; `WindowHoldsAlways`: `StampsInv` says that the limiter's
stamps are those of the requests that this start of the process let pass, ordered by
age, so that the stamps a tick takes away are the first ones and no more, and that what an
earlier start let pass is no younger than the start after it (`LifeHolds`). `WebImplementsSlots`: the slots are the
products, all held for user 0. That no two open rows are of one product (`RowsDiffer`)
is inductive, as an insert and a reopening both pass the index; with it each step maps
to `Acquire`, `Release` or a stutter.

`Accounts`: `TypeCorrect`, with `AdmittedFit`; `AskedIsSoHolds`, by `CarefulInv`: a
careful admin has one press under way at most, a page loaded since the last change is
true up to users who came after it, and a press means the contrary of the row, so that
toggling amounts to setting; `BlockedOrderNothingHolds`, a step property, from the
types: what a step does to a client that is blocked is the end of a button it had
waiting.

`Conversation`: `TypeCorrect`, `AnswersKeepTheirClientHolds`, `SaidOnceOnRecordHolds`
(of all texts but the agent's), `RepliesGoWhereMeantHolds` and the step property `OnlyTheAdminAnswersHolds`, from one
invariant. A text is safe because of what the handlers that wait rely on
(`HandlersAreSure`): the text one holds, and what it has read for a prompt, are its
client's; a text still to be sent is on record, unless it is the agent's, and nobody has heard it or keeps it as
a suggestion; and no two handlers hold the same one (`OneCarrier`). `ClientsAreKept`
says the same of the record and of the suggestions. For an admin that waits,
`WaitsInv` has one handler of its at a time, and the client meant is the active one
but while a press of "dialog" is on its way. Types and texts need one another: a
suggestion that is sent is a text because it was kept as one. `ClosingsAreToldOnceHolds`
is the safety half of `ClosingIsTold`: a conversation is closed exactly if one notice
was written for its client, which it has heard once, or which is out, or was lost to an
error or a restart. With the invariant above it is inductive.

`Lifecycle` and `Migrations`: `TypeCorrect`; `MigratedOnceHolds` and
`DbFailuresAreExplainedHolds` from `DbInv`, in which what each migration has
established survives those after it (`RowsAreMigrated`), a process that had the file
to itself knows all that is applied (`RivalsAreNoted`), and rows the index can take
stay so (`SoundStays`); and the step property `ExitsAreCleanHolds` from `ProcInv`: the
start opens the file, the cache and the queue first, and a shutdown gives up the file,
the port and the updates at once (`OpensInOrder`); a shutdown without an error awaits
all that is open, and a teardown leaves open only what it has not come to
(`ClosesInOrder`). The safety half of `NothingHangs` is a
measure, `Ahead`: the migrations, the stages, and what a teardown and a shutdown have to
close. Each step of a process that does not end it lowers it
(`ProcessesRunOutHolds`), to a number from 0 to 28 (`StepsAreCountedHolds`), and none is
left halfway (`NobodyIsStrandedHolds`): past its first stage its database is
ready, and a start that has failed is torn down. That the next step comes is the
fairness.

`Delivery`: `DeliveryTypeCorrect`, `RepeatsAreMishapsHolds` and `ReportIsTrueHolds`.
No pass sends to a client twice, so a client has at most as many copies as there are
passes that are past it (`CopiesAreCounted`); passes are counted by the failures and
stalls that ended them (`PassesAreCounted`), and those by the settings of the job
(`JobIsTried`). For the report, `PassesAreTrue` says that in the pass whose results
are read everybody is still before it, has answered, or was refused. The handler
walks once (`HandlerWalksOnce`), a completed run is over (`RunIsOfJob`), and so no
late loop of a run that was given up changes what is read. The safety half of
`BroadcastsEnd` is a measure of two parts: what handler and Bull can still begin
(`Beginnings`), and what the loops have before them (`Work`), a number because the list
is finite. Each step lowers the first, or keeps it and lowers the second, or
leaves the broadcast alone (`BroadcastsRunOutHolds`); the settings of the job bound the
first (`RunsAreCountedHolds`); and whatever a handler waits for, there is a job, a run or
a loop to bring it (`WaitsForSomethingHolds`).

Theorems without a run are those about `RepeatsAreMishaps` and `MarksAreOfReminders`
under `Overlap`, `WebForm`'s `ImplementsSlots`, the measures,
`NobodyIsStranded` and `WaitsForSomething`. What they state is defined in the proof
modules.

Only model-checked are the liveness properties (`LeadsAreBroughtUp`,
`DraftIsBroughtUp`, `ClosingIsTold`, `BroadcastsEnd`, `NothingHangs`): liveness,
fairness and `ENABLED` are out of the prover's reach, and so is the step from a measure
to an end, which is an induction. What the failing runs refute has no theorem but the
ones named there. The sets assumed to be finite are those the code keeps finite: the
updates a process awaits, the runs of its timers, and the rows of a table.

## What is left

Nothing of the system's own state is planned. The two reminder modules have their
liveness from TLC alone: their runs come round for ever, and no measure falls.

Some of what can go wrong is modelled as the code does it and denied by no property,
because the code allows it and no document says otherwise. A late cancellation takes a draft
begun since. A late button of the cart writes over a line entered since. A toggle
pressed twice or on an old page does the contrary of its label, and a text written
before "dialog" has been answered goes to the client before: `AskedIsSo` and
`RepliesGoWhereMeant` are of admins that wait. A snooze of two hours comes at the end of
the UTC day, and a reply is booked on the latest open lead: `LeadsAreBroughtUp` says
eventually. Two processes may poll, and a restart empties the limiter.

Not modelled, and why:

* **Routing, texts, keyboards, formatting, logging, configuration**: functions of
  their input; the handlers are modelled past the dispatch.
* **Read-only listings, statistics, exports, the priority inbox, tracking and
  catalogue endpoints**: they change nothing. What they show is the tables.
* **The edit of a product's texts and price**: one write of one row that no guard
  reads. Leads keep their own copy of the title.
* **`get`, `set` and `checkRateLimit` of the cache service**, the queue service's jobs
  of other kinds, `clearQueue` and `reopen`: no code calls them. Their start and close
  are in `Lifecycle`.
* **The limiter of messages** (`utils/rate-limiter.js`): the window of `WebForm` with
  other numbers, tested before anything else of an update.
* **What a model answers**: external. Of its time and of a failure everything is
  modelled.
* **The dashboard's other pages**: they show what they load and pass requests on.
* **Columns and prepared statements**: that the migration of `line_items_json` is not
  in the list fails every first start, and is a fact about texts of SQL.
