# Binx Portal in TLA+

Binx Portal is a multi-tenant portal for agencies and their clients. The program
is a FastAPI back end on PostgreSQL (`src/apps/binx-api`), a Next.js front end
(`src/apps/binx-web`) and a CDK deployment (`src/infra`). The rules of the business
live in the back end's services, `modules/*/service.py`; the front end keeps state of
its own where a page outlives a request: stores that follow a websocket, forms seeded
from an older render, the cookie jar that all requests of a browser share. Both are
modelled. Paths below are relative to `src/apps/binx-api/src/binx_api/` (Python) and
`src/apps/binx-web/src/` (TypeScript).

## How the program runs, and what is hard about it

Every HTTP request and every Stripe webhook gets a database session of its own
(`core/database.py`), at PostgreSQL's READ COMMITTED, on one asyncio event loop
per process and several processes. Nothing is committed unless the service says
so. Three facts decide most of what can go wrong, and the modules are cut along
them:

* a request *loads* a row, thinks, and *commits* later; between the two every
  other request may commit. What the ORM writes back is the set of columns whose
  value differs from what this request loaded;
* a unique index is the only thing that makes two transactions wait for one
  another, apart from the few explicit row and advisory locks;
* a rollback (or a crash) undoes what the session has flushed and not committed,
  and expires every object the session holds.

Three more decide it for the web application:

* a browser's server actions are dispatched one after the other (Next.js serialises
  them), but events come over a websocket, on another connection: an answer may
  arrive after events that the server sent later, and an event sent while there is no
  socket is never sent again;
* what a page shows is what the server had when it rendered; a request made from it
  meets the rows of a later moment;
* an asynchronous step (a ticket, an answer, a timer) may end after the component
  that started it has been unmounted or shows something else.

## Inventory

| Component | State | Operations | Interacts with | Hard behaviour | What makes it correct | Module |
|---|---|---|---|---|---|---|
| Invoice payments (`modules/invoicing`, `core/stripe_events.py`, the portal's pay endpoints) | invoice row, payment rows, ledger of handled webhook events | edit, issue, void, delete, add/remove payment, checkout, webhook, return page | Stripe Connect, client portal, recurring invoices, time tracking | overlapping requests, webhook on two endpoints and return page for the same money, crashes, redelivery | one payment per PaymentIntent; ledger and 2xx only with the effect; only settled money; roll-up exact; issued and void are final | InvoicePayments |
| Invoice numbering and settings | `agency_billing_settings` row, unique (agency, number) | create invoice, save settings | every creator of invoices | row lock after a stale read; full-replace form | no number twice, creation never wedged | InvoiceNumbers |
| Recurring invoices (`invoicing/recurring_service.py`) | schedules | pause, catch up on page load, run now | numbering, issue | commits between which anything may happen, two page loads at once, a schedule that fails | one invoice per period, none skipped; one bad schedule does not stop the rest | RecurringInvoices |
| Time tracking (`modules/time_tracking`, `TimerWidget.tsx`, `TimeEntriesTable.tsx`) | time entries, stale pages | start, stop, edit, delete, bill | invoicing | check then insert; bill then mark; the draft edited afterwards | one running timer; no entry billed twice; an invoiced entry is frozen | TimeTracking |
| Event sockets (`hooks/useRealtimeSocket.ts`, `MessagingProvider.tsx`, `BoardProvider.tsx`) | socket, reconnect timer, flag per mount | mount, unmount, rerun, ticket, open, close, backoff | realtime endpoints | cleanup while a ticket is under way, old socket's close after the new one | one socket, that of the latest run; it comes back | RealtimeSocket |
| Board canvas (`modules/boards`, `use-board-store.ts`, `BoardCanvas.tsx`, `BoardItem.tsx`) | server's cards, every browser's copy, cards in hand | add, drag, drop, edit, delete, events, re-pull | sockets | echoes, reorderings, gestures during events | browsers converge; no event moves a card in hand | BoardSync |
| Messaging (`modules/messaging`, `use-messaging-store.ts`, `MessageThread.tsx`, `MessageComposer.tsx`) | messages, read mark, the thread and badge shown, optimistic copies | open, page, send, edit, delete, mark read, events | sockets | answer and echo in either order, missed events, history while events arrive | thread and badge agree with the server; nothing shown twice | MessagingClient |
| Task board (`modules/projects`, `KanbanBoard.tsx`) | lists and cards with positions, stale pages | add, move, delete lists and cards | drawer | positions computed from what was shown or loaded | cards and the last list never lost; positions dense again | KanbanBoard |
| Card drawer (`TaskDetailPanel.tsx`) | form, comments, selection | open, edit, save, drag, comment | task board | answers that arrive when another card is shown; form seeded earlier | comments of the card shown; a save changes what was edited | TaskPanel |
| Signing in (`modules/auth`, `proxy.ts`) | refresh tokens, cookie jar | sign in, out, rotate | every request | requests racing for one token, grace, replay, lost answers | the jar stays usable; a race is no replay | WebSession |
| Invoice arithmetic | none | `_line_amount`, `_recalculate`, `_display_status` | invoices, proposals | rounding, discount and tax limits | exact sum, never negative | |
| Platform billing, Stripe onboarding | subscription row, trial | checkout, portal, webhooks, plan change | Stripe, AI settings | events out of order, old subscription's deletion | plan is that of the live subscription | |
| Client portal contacts | contacts, invitations | invite, accept, revoke | agencies | single use of an invitation | at most one contact per invitation | |
| Meetings (`modules/meetings`, `ScheduleMeetingForm.tsx`, `MeetingsTable.tsx`, `BookMeetingDialog.tsx`) | meetings, slot length | book, edit, cancel, resize | client portal, notifications | advisory lock that one path skips; stale rows; what is told is read after the commit | meetings whose times were checked never overlap; the client knows | Meetings |
| Proposals (`modules/proposals`, pages of staff, shared link, portal) | proposal, lines, signature, stale pages | edit, delete, send, view, sign, decline | client portal, leads | every request decides by the status it loaded | signed is what was shown; a decision stands | Proposals |
| Kickoffs | questionnaire | submit, convert | projects | one operation in several commits | converted once | |
| Agencies and members | members, roles, invitations | role change, removal, invite | billing limits | check then act | one owner left, seats within the plan | |
| Leads, AI assistant | leads; usage, actions, budget | convert; complete, approve | agencies, every service | two commits; check before, charge after | converted once; action carried out once | |
| Notifications, activity, users, dashboard, imports, files, e-mail, ops, scripts | rows of their own, or none | append, read, parse | all | none beyond input and output | | |
| Rest of the web application (`lib/*.ts`, pages, forms), infrastructure | none | fetch, render, post | API | | | |

`PROJECT.json` lists the same components with their status, and every hazard at its
line.

## How the project is built

One module per component with its operations, properties and, beside the definition
they vary, the mutated forms ("Defect: ...") that show what each property rests on. The
proofs are in modules of their own that extend the modules they are about:

| Module | About |
|---|---|
| `InvoicePaymentsProofs` | InvoicePayments, PaymentRecording |
| `InvoiceNumbersProofs` | InvoiceNumbers |
| `SocketAndScheduleProofs` | RealtimeSocket, RecurringInvoices |
| `StaffProofs` | TimeTracking, WebSession |
| `ClientProofs` | Meetings, Proposals |
| `WorkspaceProofs` | TaskPanel, KanbanBoard, and the six components of MCWorkspace together |
| `BoardSyncProofs` | BoardSync |
| `MessagingClientProofs` | MessagingClient |

The modules need no RECURSIVE operator.

The order of the work was: money first (InvoicePayments with the abstract
PaymentRecording, InvoiceNumbers), then the other two ways to bill (RecurringInvoices,
TimeTracking), then what a browser keeps (RealtimeSocket, BoardSync, MessagingClient,
KanbanBoard, TaskPanel, WebSession), then what agency and client agree on (Meetings,
Proposals). What could follow, in order: platform billing (events reordered, two
subscriptions of one customer), kickoffs, memberships and invitations, the AI budget.

`MCInvoicePayments`, `MCInvoiceNumbers`, `MCBoardSync` and `MCMessagingClient` add the
symmetry sets. `MCLiveness` and `MCWorkspace` put several components that share no
state into one run: a variable `focus`, chosen in the initial state, says which of them
this behaviour is about, and the others rest in one initial state. This is a union of
state spaces, not a product; a component that rests has no step its fairness demands.

## Runs

| Run | Bounds | Question and answer |
|---|---|---|
| InvoiceSerial | 1 worker, 2 sessions, 3 rows, every endpoint, 1 crash | If requests on an invoice do not overlap, `RollUpExact` (`PaidAmountIsSum` and `PaidExactlyWhenCovered`) and `IssuedIsFinal` hold; sessions settle at any time between requests, and an earlier session may be paid after a later one |
| InvoiceOverlap | 2 workers, 1 session, 2 rows, every endpoint, 1 crash | Under every overlap of two requests `IntentRecordedOnce`, `OnlySettledMoneyRecorded`, `LedgerOnlyWithEffect`, `AcknowledgedOnlyWithEffect`, `NeverDraftAgain` hold, and the API implements PaymentRecording (`ImplementsRecording`). Two inserts need two workers; the second row is that of a payment entered by hand or removed |
| NumbersOverlap | 2 workers, 3 invoices, paddings 1 and 2, 10 may be typed as the next number | `NumbersUnique` when creations, saves and deletions overlap, also for the two paddings under which 10 looks the same; `NumbersConsecutive` until a form changes the numbering or a draft is deleted |
| Liveness (`MCLiveness`) | payments: 2 workers, 1 session, 1 crash; socket: 3 runs, 2 losses; recurring: 2 schedules, 2 requests, 2 periods, 1 break | `SettledIsRecorded`, `SocketComesBack`, `DueIsBilled` under `LivenessSpec`; with `NoStraySocket`, `PeriodBilledOnce` and `NoPeriodSkipped` |
| Board | 2 browsers, 1 card, 2 places, 2 texts, 2 calls, 1 re-pull beyond those of new sockets, 1 mishap of any kind | `BoardConverges`, `NoYank`. One card is enough: the store and the server treat cards independently, and a re-pull that replaces all of them replaces this one |
| Messaging | pages of 1, 2 messages, 1 sent from here, 2 moves, 1 mishap of any kind | `ThreadConverges`, `BadgeConverges`, `SentOnce`. A history of two pages, an event during each of its steps, and a send beside them fit the bounds |
| Workspace (`MCWorkspace`) | board: 2 editors, 3 lists, 2 cards, 3 requests; drawer: 2 cards, 2 actions, 2 visits, 1 error; session: 2 browsers with 2 requests each, 4 tokens, 1 loss; time: 2 tabs, 2 entries, 2 invoices, 4 requests, 1 crash (start, stop and two billings that race; the theorems are about any number); meetings: 2 meetings, 2 requests at a time and 3 in all, 3 starts, lengths 1 and 2, 1 change of the length, 1 crash; proposal: 2 pages of staff, 2 of recipients, 4 requests | `CardsKept`, `ContiguousAgain`; `CommentsOfTheCard`; `SessionUsable`, `NoFalseReplay`; `OneTimer`, `NeverBilledTwice`, `LockedIsBilled`, `LockedIsFrozen`; `NoDoubleBooking`, `OnlyResizingUnchecks`, `ClientKnows`; `SignedAsShown`, `DecisionStands`. Three requests on meetings are the two that race and the one that made the row they race for; four on a proposal are an edit, the sending it races with, a view and a decision |
| InvoiceMoneyRefused | 1 worker, `FairSpec` | violates `SettledAlwaysRecorded`: money paid after the void is refused for ever |
| ThreadMissed | 1 mishap, "missed" only | violates `ThreadReconciles`: the thread is never read again |
| PanelMovesBack | 1 card, 2 columns | violates `MovedOnlyWhenAsked`: saving a title undoes a drag |
| TimeBilledTwice | 1 tab, 1 entry, requests in series | violates `BilledOnce`: editing a draft frees its entries |
| RecurringBlocked | 1 bad schedule beside a good one, `RecurringFairSpec` | violates `DueIsBilled`: the bad one ends every request |

The last five are findings: each states what a docstring or a comment says without
exception, and TLC shows how the code comes to do otherwise. `PROJECT.json` quotes the
lines.

`CHECK_DEADLOCK FALSE` everywhere, for one of three reasons: a voided invoice whose
requests are over really has nothing left to do; a component that is unmounted for good
rests; or the bounds on requests, rows, tokens or visits are reached.

### Deviations found and not run

These follow from the same causes and can be reproduced by adding the definition to a
configuration:

| Definition | Where | What TLC shows |
|---|---|---|
| `CoveredMeansPaid` | INVARIANTS of InvoiceOverlap | two payments recorded at once, the second roll-up overwrites the first |
| `IssuedIsFinal` | PROPERTIES of InvoiceOverlap | a request that loaded the invoice earlier commits after the void, or edits or deletes after the issue |
| `ConfirmAlongsideWebhook` | INVARIANTS of InvoiceOverlap | the return page answers an error although the webhook has recorded the payment |
| `CreationsNeverCollide`, `CounterFree` | INVARIANTS of NumbersOverlap | the row lock comes after a stale read; a stale creation sets the counter back onto a number in use |
| `NobodyDoubleBooks` | INVARIANTS of Workspace | an edit that keeps the start takes neither lock nor check (`meetings/service.py:362`), but writes an end computed from the slot length of now (`:381`): after the slots were made longer, editing a title extends the meeting over the next one, against "staff shouldn't be able to double-book either" (`:241`) |
| `ClosedIsFinal` | PROPERTIES of Workspace | a first view, a second decision or a late sending that loaded the proposal before it was signed commits "viewed", "declined" or "sent" over "signed", against "no more status transitions" (`proposals/models.py:24`) |
| `NoStraySocket` | Liveness with `Owners = {"board"}` or `{"messaging"}` | the shared flag or handle of the providers lets a socket of an earlier run live on |

## InvoicePayments

### State

| Variable | Code |
|---|---|
| `invoice` | the committed row of `invoices`: `status`, `total_cents`, `amount_paid_cents`, and whether line items exist (`lined`). `overdue` and `partial` are never stored |
| `payments` | the rows of `invoice_payments`. `staged` and `deleting` are flushed and not committed: their own transaction sees them, the unique index on `stripe_payment_intent_id` makes others wait |
| `sessions`, `events` | Stripe's Checkout Sessions and the two kinds of event about them; the payload is a snapshot, taken when the event is emitted |
| `acked` | the events for which Stripe got a 2xx |
| `ledger` | `stripe_webhook_events`: absent, flushed (`staged`), or committed (`durable`) |
| `req` | for every worker the request it serves: the invoice as loaded (`seen`), the object as the service has changed it (`new`), the payment row in hand, the webhook's event and endpoint |
| `crashes` | number of requests that died, at most `MaxCrashes` |

### Actions

A request is cut at the points where another transaction can commit and matter:

| Actions | Code |
|---|---|
| `StartUpdate`, `CommitUpdate` | `update_invoice` |
| `StartIssue`, `CountLines`, `FlushIssue`, `CommitIssue` | `issue_invoice`; the autoflush before `_apply_payments` sends the UPDATE and takes the row lock |
| `StartVoid`, `CommitVoid`; `StartDiscard`, `CommitDiscard` | `void_invoice`, `delete_invoice` with the cascade |
| `StartAdd`, `InsertPayment`, `CommitPayment` | `add_payment`; the roll-up sums what this transaction sees |
| `StartRemove`, `RemoveRow`, `CommitRemove` | `delete_payment` |
| `StartPay`, `CreateSession` | `pay_invoice`, `start_invoice_checkout` |
| `StartConfirm`, `CheckSession`, then `InsertPayment`, or `AnswerExpired` | `confirm_invoice_payment`, `confirm_checkout_session`, `record_checkout_payment` |
| `Deliver`, `NothingToRecord`, `RefuseEvent`, `RecordEvent`, then `InsertPayment`, `LoseInsertRace`, `Reply`; `Replay` | `verify_and_dedupe` and the two webhook routers |
| `InsertOrphan` | the foreign key fails because the invoice was deleted |
| `PayNow`, `PayLater`, `AsyncSucceeds`, `AsyncFails`, `Expire` | Stripe, as the code uses it |
| `Crash` | the process or connection dies; the transaction is rolled back |

A start whose guard fails is a request the service answers with 4xx without
changing anything; it is not a step. `Written` is the ORM's write-back: only
columns that differ from what was loaded. `CommitUpdate` replaces the lines
whatever they were. Amounts are in cents; `SumOf` counts cents as a cardinality
so that it needs no recursion and can be reasoned about.

Left out: what does not change these rows (notifications, activity entries,
e-mail, PDF), the line arithmetic that yields a total (an edit may yield any of
`Totals`), and the notes and dates of an invoice. A failure of the return page
*after* its commit changes nothing and is not distinguished from success, except
in `ConfirmAlongsideWebhook`.

### Fairness

`FairSpec` assumes three things. A worker that is serving a request goes on
(`SF` of `Proceed`): the event loop is fair, and every wait of a request is for
another request's transaction, which ends. Strong, because the wait at a unique
index is intermittent. Stripe redelivers an event that got no 2xx (`SF` of
`Deliver` for unacknowledged events): strong, because another delivery may hold
the ledger row whenever the retry arrives. A replay is answered (`WF` of
`Replay`). Nothing is assumed of clients, staff or of a session ever settling,
and crashes are bounded.

### PaymentRecording

The abstract promise: money settles, is recorded, and only then is Stripe told
to stop. `Recording` maps `settled` to Stripe's settled sessions, `recorded` to
the PaymentIntents that were ever committed, `answered` to the payment events
with a 2xx.

## InvoiceNumbers

### State and actions

| Variable | Code |
|---|---|
| `settings` | the agency's row of `agency_billing_settings`: prefix and padding (`scheme`) and `next_invoice_number` (`next`). The row exists from the start; `get_or_create` makes it on first access and races there end with the same row |
| `invoices` | the agency's invoices: unused, draft, issued (voided ones included, they keep their number) or deleted, and the number |
| `req` | per worker, the settings object as its session loaded it (`seen`) and what the settings form shows (`form`) |
| `edited` | history: a form has changed the numbering |

| Actions | Code |
|---|---|
| `OpenCreate` | `create_invoice` up to line 489: the settings object enters the session |
| `Allocate` | the SELECT ... FOR UPDATE: waits for the row lock, and leaves `seen` as it is, because a session does not refresh an object it already holds |
| `InsertInvoice`, `Collide`, `Answer` | flush and commit, or the unique index and a 500 |
| `OpenForm`, `SubmitForm`, `CommitSave` | the form is read, edited and sent back whole; `update_billing_settings` writes the columns that differ from the row it loaded |
| `IssueInvoice`, `DeleteDraft` | one step each; InvoicePayments has the detail |
| `Crash` | a request dies and its transaction is rolled back |

A number is compared as it is printed: `Printed` pads to the width of the
scheme, so the same counter prints differently under two paddings when it is
short and alike when it is long. A prefix is taken to be distinguishable from
the digits after it.

## RecurringInvoices

`next` is `next_run_date`, counted in periods of the schedule; `made` counts the
invoices of each period (2 stands for more than one). `load` is a request with the
schedules it loaded and their dates at that time: `OpenPage` is
`catch_up_due_schedules` as `list_schedules` calls it, `RunNow` is `run_schedule_now`.
`Create` ends with the commit of `create_invoice`, `Advance` with the commit of the new
date, which is counted from the date as loaded. `GenerationFails` and `Dies` are the
exception and the crash; after the exception the rollback has expired every schedule
that was loaded, so the request ends there. `Toggle` is pause and resume.

`shared` is a history: schedules that two requests held at once, or that one let go
between its two commits. For them the code does bill a period twice; `PeriodBilledOnce`
is about all others. `NoPeriodSkipped` has no exception.

Left out: issuing in between (`auto_issue`), editing and deleting a schedule, and the
calendar itself, that is, which day of a month a period begins on.

## TimeTracking

`entry` is a row with the invoice its line item belongs to (`line`), `invoice` what an
invoice's lines bill (`bills`), `tab` what a Time page shows and what is ticked there,
`call` the request a tab is waiting for. `Check` is where a request loads its rows and
checks them, `Write` where start, stop, edit and delete commit, `Draft` and `Mark` are
the two commits of `create_invoice_from_entries`. `EditDraft`, `DeleteDraft`,
`IssueInvoice` and `VoidInvoice` are what `invoicing/service.py` does to the same rows:
replacing the lines of a draft frees its entries (ON DELETE SET NULL), voiding does not,
although the comment at `models.py:43` says so.

`pacing` says whether other requests may come between two steps of one. Serially, pages
are still as old as they like. `OneTimer` and `LockedIsFrozen` are about that case: with
overlap two starts do leave two timers, after which every Time page fails, and an edit
that was checked before the marking still goes through. `NeverBilledTwice` and
`LockedIsBilled` are about both; `excused` records the entries whose billing raced,
broke off, or was followed by an edit of the draft.

A manual entry is one that was started and stopped; a ticked row stays ticked when it
is made non-billable, and is billed, as in the table. Rates, descriptions and other
users' entries are left out.

## RealtimeSocket

One effect, three owners: the hook `useRealtimeSocket`, `MessagingProvider` and
`BoardProvider`. A run of the effect has one thing going on (`task`: fetching a ticket,
waiting for its timer, a socket opening, open or closing). They differ in where the
flag, the handle and the timer live: locals of the run in the hook, refs shared by all
runs in the providers, and the board's provider does not look at its flag after the
ticket has come. `SharingFlag`, `SharingSocket` and `Bails` say so. `Mount`, `Unmount`
and `Rerun` are React's; `TicketArrives`, `TicketRefused`, `SocketOpens`, `SocketLost`,
`SocketCloses`, `TimerFires` the callbacks. The runs and the proof are about the hook;
the other owners do leave stray sockets (see the deviations).

## BoardSync

`board` are the server's cards (place and text; size goes with the place, colour with
the text), `view` and `activeIds` each browser's store, `hand` the gesture in the
component of a card, `calls` the browser's queue of server actions, `wire` what is on
its way to it, `outbox` the requests that have committed and not yet sent their event
and answer. Gestures are `Grab`, `Drag`, `Drop`, `StartEditing`, `CommitText`,
`AbandonText`, `DeleteCard`, `AddCard`; `Serve` and `Send` are the API; `ReceiveEvent`
is `applyEvent`, `ReceiveAnswer` what each component does with its answer; `Connect`,
`Cut` and `Reconcile` are the socket and the re-pulls.

Convergence cannot hold without exception: the store takes whatever comes last. The
exceptions are named, in `Disturbances`: an answer overtaken by later events, two
broadcasts in the other order than their commits, a call without effect, an abandoned
edit (its shield hides what came meanwhile), a card deleted twice. `disturbed` is the
history of browsers that met one, until they re-pull the board in peace. So
`BoardConverges` says two things: nothing else makes a browser diverge (in particular
sockets being cut at any moment, and gestures during events, do not), and a re-pull mends
all of it. `NoYank` is the promise of `activeIds`.

Left out: comments and reactions (kept beside the cards in the store), versions,
approval.

## MessagingClient

One conversation, one browser, and everybody else as one actor at the server. `thread`
is a function from message numbers, because the store sorts by the server's stamp;
`optimistic` holds the composer's copies by nonce, `pane` the state of the mounted
thread and composer (timer of mark-as-read, sending, paging), `badge` the list's unread
count. `Show` is the store's change together with the thread's effect on a change of
length. `OpenThread`, `CloseThread`, `Send`, `LoadOlder`, `TimerFires`, `Relist` are the
reader; `Serve`, `Refuse`, `OtherPosts`, `Edit`, `Delete`, `ReadElsewhere` the server;
`ReceiveEvent`, `ReceiveAnswer`, `Connect`, `Cut` what arrives. `Serve(lost)` commits and
loses its answer.

`Disturbances` and `disturbed` play the same part as in BoardSync; the module's header
explains each. `ThreadConverges`, `BadgeConverges` and `SentOnce` hold but for them;
`ThreadReconciles` is the first without the exception, which is what a comment promises
and ThreadMissed refutes.

Left out: creating conversations, participants, typing indicators, attachments,
and members' removal.

## KanbanBoard and TaskPanel

KanbanBoard has `place` and `card`, the integer positions in the database, and `shown`,
the board each editor's page rendered. A request computes what it writes from the rows
it loads (`Ask`), with a position taken from the page, and commits later (`Commit`),
writing only what changed; rows with equal positions come in any order; it fails as a
whole when a row it needs is gone (`Fail`). `update_task` leaves a gap behind and a list
created after a deletion can tie with the last one: positions need not be dense, and
`ContiguousAgain` says that a move or a deletion makes them so again, whatever they were.
In the mode "overlap" a list's deletion, checked before a card arrived, takes the card
with it through the cascade, and two deletions can leave no list; the properties are
about requests in series from pages of any age.

TaskPanel is the drawer: one component instance whose `form` is seeded when another card
than the last one is opened (`panel.seeded`), whose comments are fetched when the
selected card changes, and whose answers land in the state of the instance whatever it
shows by then. `CommentsOfTheCard` holds because server actions are dispatched one after
the other and a fetch for the card shown comes last; its mutant takes that away.
`MovedOnlyWhenAsked` is refuted by PanelMovesBack.

## WebSession

`token` are the refresh tokens' rows, `jar` the two cookies of each browser, `trade` the
requests of a browser that the proxy holds while it trades the refresh cookie for a new
pair. `Claim` marks the token, in one commit, `Issue` inserts its successor, in another;
`Replay` is a token used longer ago than its grace, which deletes all of the account's;
`Renewed` and `Dropped` put into the jar what an answer says, whatever it holds by then.
Time is two steps, `AccessStale` and `GracePasses`; a request is answered within the
grace of 30 seconds, and the thirty days a refresh token lives are not modelled, since
each trade starts them again. `Lose` is an answer that never arrives or a failure
between the two commits; it may leave the browser with a spent token (`stranded`).

Two consequences of "the last answer decides" are in the model and are no violation of a
stated promise: a sign-out is undone by the answer to a trade that was under way, and a
late refusal empties a jar that has been filled since.

## Meetings

`meeting` are the rows, `slotLength` the agency's setting, `told` what the client last
heard of each meeting (an answer, a notification, an e-mail), `serving` the requests, each
with the row it loaded (`seen`) and the one it will write (`new`). `Book`, `Edit` and
`CancelMeeting` start a request; `ReadSettings` computes the end; `CheckOverlap` takes the
advisory lock and runs the overlap query, for a booking or an edit that moves the start,
and `LockFree` is what it waits for; `CommitMeeting` writes the columns that differ from
`seen` (`Flushed`); `Reread` is the refresh; `Tell` is the notification, after the commit.
`Resize` is the settings form, `Die` a crash.

Two histories say what the properties are relative to. `unchecked` are the meetings whose
stored time no overlap check has looked at: an edit that keeps its start writes a new end
without one when the slot length has changed. `NoDoubleBooking` is about all others, and
`OnlyResizingUnchecks` says that nothing but a change of the slot length puts a meeting
there: not the edits without lock, not stale rows, not cancellations beside them.
`disturbed` are the meetings on which requests overlapped or one died; `ClientKnows` is
about all others.

Left out: availability rules, the offered slots, the notice window and the switch for
booking by clients, all of which only refuse requests.

## Proposals

`paper` is what is proposed: the line items, each batch named by the edit that wrote it
(`lines`), and the edit that the row's totals were computed by (`total`). `sheet` is what
each page shows, of any age; `turn` the request a page has under way, with the status it
loaded (`seen`); `signature` the signature row, with the paper its signer was looking at.
`OpenPage` and `OpenLink` are the pages (the link records a view), `AskEdit`, `AskDelete`,
`AskSend`, `AskSign` and `AskDecline` a request that has loaded the row and passed its
checks, `SeeLines` the statement of an edit that deletes the lines of that moment,
`CommitTurn` the commit, which writes a status only where it differs from the loaded one,
with the answer, that may get lost. `Expire` is the date passing.

No request locks anything. So two promises of the code hold but for named races, and
`crossed` and `met` are the histories that name them: `SignedAsShown` excludes an edit
that commits after a sending it had not seen (the lines) or after another edit (the
total); `DecisionStands` says that a decision is undone only by a request that had loaded
the proposal before it, so pages that are merely stale are harmless. `ProposalTypeOK`
includes that no recipient's page ever shows a draft.

Left out: creating a proposal, its rounding, the recipient's address, what is logged and
notified after the commit.

## Fairness

`FairSpec` (InvoicePayments) is described above. `SocketFairness`: the browser and the
network finish what a run has begun (ticket, opening, closing, timer), each weakly fair;
losses and refusals are bounded by `MaxDrops`, for nothing can be promised of a network
that fails for ever. `RecurringFairness`: a request that has loaded schedules goes on,
and somebody opens the page again; there is no worker, so this assumption about people
is what the design rests on. BoardSync, MessagingClient, KanbanBoard, TaskPanel,
WebSession, TimeTracking, Meetings and Proposals state no liveness: their promises are
about what is shown or stored, most of them once nothing is under way.

## What is proved

`InvoicePaymentsProofs` proves, for every number of workers, sessions, rows and
crashes and under `ConstantsAssumption` alone:

| Theorem | Statement | Argument |
|---|---|---|
| `TypeCorrect` | `[]TypeOK` | `TypeInv` = `TypeOK` with `InputInHand`: a request that may insert is one of the three that carry an amount, and a webhook's intent is its event's. Without it `InsertPayment` could store what is no session |
| `RecordedOnce` | `[]IntentRecordedOnce` | `RowInv`: rows that two requests have in hand are different and uncommitted; intents are unique among staged, live *and* deleting rows. The staged ones are what makes it inductive: uniqueness of committed rows alone is lost at the commit |
| `OnlySettled` | `[]OnlySettledMoneyRecorded` | `MoneyInv`: a request on its way to insert has the amount of a settled session in hand, an event that says "settled" is about a settled session |
| `LedgerTruthful`, `AcknowledgedTruthful` | `[]LedgerOnlyWithEffect`, `[]AcknowledgedOnlyWithEffect` | `LedgerInv`: the two together with what a request that is about to reply knows; committed payments are never forgotten |
| `Implementation` | `Spec => ImplementsRecording` | every step maps to a step of PaymentRecording or to a stutter, from the invariants above |
| `IssuedForGood` | `Spec => NeverDraftAgain` | `DraftInHand`: no request intends a draft unless it loaded one, so its write-back leaves the status alone |
| `RollUpIsExact` | `Spec /\ []OneAtATime => []RollUpExact` | `SerialInv`: what a request loaded is still what the table holds (`KnowsInvoice`), and what it will write is computed from the payments of now: `PlansPayment` says that the roll-up it has in hand is that of the books with its own row, `PlansRemoval` that of the books without it. That a sum over rows grows by the row's amount is `RollUp`, about cardinalities |
| `IssuedStaysFinal` | `Spec /\ []OneAtATime => IssuedIsFinal` | the same invariant: a request that may edit, issue or delete loaded a draft (`KnowsDraft`), and it still is one |
| `OneSlot` | with one worker, `Spec => []RollUpExact /\ IssuedIsFinal` | requests cannot overlap there: what InvoiceSerial runs |

`OneAtATime` says that no two requests on the invoice overlap, whatever the number of
workers. It cannot be dropped: under overlap both properties are false (see the
deviations). The other six theorems are about every overlap.

`InvoiceNumbersProofs` proves, under `NumbersAssumption`, for every number of
workers, invoices, prefixes and paddings:

| Theorem | Statement | Argument |
|---|---|---|
| `NumbersTyped` | `[]TypeOK` | one step per action; that a printed width is a number is `DigitsType` |
| `Unique` | `[]NumbersUnique` | the unique index is checked by the one step that numbers an invoice |
| `Consecutive` | `[]NumbersConsecutive` | `GapFree`: until somebody interferes, a counter that was loaded is at most the current one (`StaleOnlyBehind`), so a creation that finds its number free has the current counter (`FreeIsCurrent`); a form that changes nothing writes nothing (`IdleSave`) |
| `NeverWedged` | `[](Untouched => CounterFree)` | from `Consecutive`: the counter is above every number in use |

`Untouched` cannot be left out of the last two: one deletion makes `CounterFree` false.

`SocketAndScheduleProofs` proves of RealtimeSocket, under `SocketAssumption` and `Owners = {"hook"}`, for any
number of runs and losses, from `SocketInv`:

| Theorem | Statement | Argument |
|---|---|---|
| `SocketTypes` | `[]SocketTypeOK` | one step per action |
| `OneSocket` | `[]NoStraySocket` | `Tidy`: a run that is not the mounted one has its flag set and nothing open; each run's handle is null or its own. The flag is what stops a ticket that arrives late, and what the property itself does not mention |

and of RecurringInvoices, under `RecurringAssumption`, from `RecurringInv`:

| Theorem | Statement | Argument |
|---|---|---|
| `RecurringTypes` | `[]RecurringTypeOK` | dates stay within one past the bound, because a request that creates one loaded a date that has come |
| `NothingSkipped` | `[]NoPeriodSkipped` | `LoadTidy`: the date a request loaded has every earlier period behind it, and the one created has its invoice; so advancing is safe even when another request has advanced meanwhile |
| `BilledOncePerPeriod` | `[]PeriodBilledOnce` | `AloneTidy`: as long as a schedule is not shared, the one request that holds it has its current date, and nothing from that date on has been billed but what it is creating |

`StaffProofs` proves of TimeTracking, under `TimeAssumption`:

| Theorem | Statement | Argument |
|---|---|---|
| `TimeTypes` | `[]TimeTypeOK` | one step per action |
| `LockedStaysBilled` | `[]LockedIsBilled` | `LockedInv`: the marking happens only while the lines match, and whatever changes the lines frees the entry in the same step |
| `BilledTwiceOnlyIfExcused` | `[]NeverBilledTwice` | `OnceInv`: an entry that is not excused and that a request has in hand is on no invoice that stands but that request's draft, and once it is on one it is locked to it |
| `OneTimerRuns` | `[]OneTimer` | `SerialInv`: in series at most one tab has a request, and what it found when it checked is still so when it writes |
| `InvoicedIsFrozen` | `LockedIsFrozen` | the same invariant, as an action property |

and of WebSession, under `SessionAssumption`, for any number of browsers, of
concurrent requests and of tokens, from `SessionInv`:

| Theorem | Statement | Argument |
|---|---|---|
| `SessionTypes` | `[]SessionTypeOK` | |
| `StaysUsable` | `[]SessionUsable` | `Owned`: a token is in one browser's jar or trades only; `OnItsWay`: a new pair that has not arrived is unused; `Holds`: a token in a jar is unused, or a trade that was asked with it is still under way |
| `RacesAreNoReplay` | `NoFalseReplay` | `AsksWell`: without a loss, whoever asks carries a token that is unused or within its grace, because the grace does not pass while a trade with it is under way |

`ClientProofs` proves of Meetings, under `MeetingsAssumption`, for any number of meetings, requests,
changes of the slot length and crashes:

| Theorem | Statement | Argument |
|---|---|---|
| `MeetingsTypes` | `[]MeetingsTypeOK` | one step per action |
| `CheckedMeetingsApart` | `[]NoDoubleBooking` | `LockInv`: one request at a time holds the lock from its check to its commit (`OneHolder`), so no other checked time is committed meanwhile and what it found free still is (`HeldApart`) |
| `UncheckedByResizingOnly` | `[]OnlyResizingUnchecks` | `SlotInv`: while the length stays, every loaded and every new row is one slot long, so an edit that keeps the start keeps the end |
| `ClientIsToldTheRow` | `[]ClientKnows` | `KnowInv`: an undisturbed meeting has at most one request, which knows the row it will tell |

and of Proposals, under `ProposalsAssumption`, for any number of pages and
requests, from `ProposalInv`:

| Theorem | Statement | Argument |
|---|---|---|
| `ProposalTypes` | `[]ProposalTypeOK` | `TurnTidy`: a view never loaded a draft |
| `SignersSawIt` | `[]SignedAsShown` | `Overtaken`: an edit of what is no longer a draft has met the sending; `DraftIsPrivate`: as long as it is a draft no recipient is shown it and nobody has signed it; hence `ShowsPaper`. `LinesOfTotal`: an edit that met no other deletes all the lines there are |
| `DecisionsStand` | `ProposalSpec => DecisionStands` | `MetDecision`: every request that could still write a status of a decided proposal, or delete it, has met the decision |

`WorkspaceProofs` proves of TaskPanel, under `PanelAssumption`, for any number of cards,
comments, actions and visits, from `PanelInv`:

| Theorem | Statement | Argument |
|---|---|---|
| `PanelTypes` | `[]PanelTypeOK` | one step per action |
| `CommentsBelong` | `[]CommentsOfTheCard` | `NothingBefore`: the queue serves one action after another, so a comment is posted or deleted only when nothing else about comments is before it; `ListIsCurrent`: unless a fetch is still to come, the list with what is on its way is the list of the card shown. Without the order of the queue an earlier card's fetch could land last |

of KanbanBoard, under `KanbanAssumption`, for any finite number of lists and cards, from
`KanbanInv`:

| Theorem | Statement | Argument |
|---|---|---|
| `KanbanTypes` | `[]KanbanTypeOK` | a card is in a list that is there, also when a deletion and a move overlap: the cascade takes it along |
| `CardsAreKept` | `CardsKept` | in series a list that was found empty, and not the last, still is when its deletion commits |
| `OrderIsRestored` | `ContiguousAgain` | the order a request computes has every row of the list once (`OrderOf`, kept by `OrderWith` and `OrderWithout`), so it has as many places as the list has cards, and writing each row's index leaves neither gap nor tie (`InOrderContiguous`) |

and of MCWorkspace `WorkspaceTypes`, `WorkspaceSpec => []WorkspaceTypeOK`: the components
share no variable, so the composed specification implies each one's own
(`WorkspaceParts`) and the type theorems above apply.

`BoardSyncProofs` proves, under `BoardAssumption`, for any number of browsers, cards,
calls, re-pulls and cuts and any set of disturbances, from `BoardInv`:

| Theorem | Statement | Argument |
|---|---|---|
| `BoardTypes` | `[]BoardTypeOK` | with `Sane`: a browser awaits one answer (`OneAnswer`), and calls, events and answers fit the board they will meet |
| `BoardsConverge` | `[]BoardConverges` | `Follows`, of every browser that is not disturbed: the last thing on its way about a card says what the board has of it (`OutCurrent`, `WireCurrent`), and where browser and board differ a re-pull, a call of its own or a word of the server is still to come (`WillShow`). An answer may not contain a card that was created since; `Earlier` says that then all there is of the card comes behind it. `ShieldsFit`: no shield outlives its gesture, so no event is passed over for ever |
| `NothingYanks` | `NoYank` | the same invariant, over the steps that take a message off a wire |

`MessagingClientProofs` proves, under `MessagingAssumption`, for any number of messages,
sends, moves and mishaps, any page size and any set of disturbances, from
`MessagingInv` and `BadgeInv`:

| Theorem | Statement | Argument |
|---|---|---|
| `MessagingTypes` | `[]MessagingTypeOK` | with `Sane`: one answer is awaited, an event is about a message that is there, a send has one call and at most one message (`SendsApart`), every copy of the composer's waits for its call (`EntriesAwait`) |
| `SentIsShownOnce` | `[]SentOnce` | whatever brings a message of ours to the thread takes its copy away; `EchoFirst`: before the answer to a send nothing but the echo is on the wire about its message, so an edit does not come first |
| `ThreadIsKeptLive` | `[]ThreadConverges` | `Follows`, as long as the thread is not spoilt: the last thing on the wire about a message says what the log has (`EventsCurrent`, `AnswerCurrent`, `ThreadCurrent`), and from the oldest message shown or coming up to the newest none is missing (`NoGap`), which a page under way must respect (`OlderReply`, `HistoryFits`). That a step brings no gap is shown at the first message it could open at: `Least`, from the well-founded order of the natural numbers |
| `BadgeIsRight` | `[]BadgeConverges` | `BadgeInv`, as long as the badge is not spoilt and no listing is still to be served: the badge (`CountsRight`), or what the last event or reply on the wire that sets it will set it to (`SetRight`), and the messages announced after that make up the server's unread count. `BadgeConverges` alone says nothing of a moment with something under way. Two corners need clauses of their own. The timer is only due in an open thread (`TimerOpen`). And a thread that becomes empty stops its timer without a call: an empty history was read before there was a message (`EmptyPage`), and a send whose answer was lost has left its message in the thread or its echo before the error (`LostSend`), so nothing that had to be read goes unread |

The assumptions on the constants say what makes the values of a model distinct: "no
card", "no message", "not fetched" are none of the cards, messages and sets they stand
beside. MessagingAssumption bounds a page by the conversation, which may fill one when
it is first opened; KanbanAssumption takes the lists and cards to be finitely many,
without which no order of them exists.

Every inductive invariant was checked with TLC before it was proved.

Every invariant and every action property that a passing run checks is stated by a
theorem. Only model-checked are the liveness properties `SettledIsRecorded`,
`SocketComesBack` and `DueIsBilled`, for liveness under fairness and ENABLED are out of
the prover's reach. So are induction over data and RECURSIVE operators: no module
declares one, orders and sums are written with sets, cardinalities and `CHOOSE`, and
what would be an induction on the length of a queue is an invariant about its
positions.

## Not modelled

* **Invoice arithmetic**: pure decimal functions with unit tests over their boundaries;
  the state machines take any total.
* **Platform billing and Stripe onboarding, client portal invitations,
  kickoffs, agencies and members, leads, the AI assistant**: state machines of
  their own that nothing above depends on. Their hazards are listed in `PROJECT.json` and
  open.
* **Notifications, activity, users and settings, dashboard, imports, files, e-mail, rate
  limits, operations, scripts, infrastructure**: append-only rows, rows with one writer,
  reads, or pure input and output.
* **The rest of the web application**: the modules of `lib/` are typed wrappers around
  `fetch`, the server actions call them and refresh, pages and most components render
  what they return and post forms. They keep no state that outlives a request, so a
  model of them would restate the API's. This is most of the TypeScript by lines, which
  is why the modules stand for a small share of it.
