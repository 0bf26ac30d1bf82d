--------------------------- MODULE InvoicePayments ---------------------------
(***************************************************************************)
(* One invoice of the Binx API, the requests that act on it and the Stripe *)
(* Connect traffic that pays it (modules/invoicing, the portal's two pay   *)
(* endpoints in modules/client_portal, core/stripe_events).                *)
(*                                                                         *)
(* A request runs on its own database session at READ COMMITTED and never  *)
(* holds a lock on the invoice row while it thinks: it LOADS the row, reads *)
(* the payments, and COMMITS the columns it changed relative to what it    *)
(* loaded.  The steps below are those statements; a request may crash      *)
(* between any two of them, which rolls its transaction back.              *)
(*                                                                         *)
(* A definition marked "Defect" is a plausible bug in the definition that  *)
(* follows it; it is used only to show that the properties notice it.      *)
(***************************************************************************)
EXTENDS Integers, FiniteSets

CONSTANTS
    Workers,      \* request slots of the API: how many requests overlap
    Sessions,     \* Stripe Checkout Sessions (and their PaymentIntents)
    PaymentIds,   \* primary keys of invoice_payments rows
    Totals,       \* totals an edit of the draft may produce
    Amounts,      \* amounts a member of staff may enter by hand
    Operations,   \* the endpoints that are in use
    MaxCrashes,   \* how many requests die before they finish
    NoIntent,     \* stripe_payment_intent_id of a hand-entered payment
    NoPayment,    \* "this request has no payment row in hand"
    NoEvent       \* "this request was not started by a webhook"

AllOperations ==
    {"add", "remove", "update", "issue", "void", "discard", "pay", "confirm"}

ASSUME ConstantsAssumption ==
    /\ IsFiniteSet(PaymentIds)
    /\ Totals \subseteq Nat
    /\ Amounts \subseteq Nat \ {0}
    /\ Operations \subseteq AllOperations
    /\ MaxCrashes \in Nat
    /\ NoIntent \notin Sessions
    /\ NoPayment \notin PaymentIds
    /\ NoEvent \notin Sessions \X {"completed", "async"}

\* checkout.session.completed and checkout.session.async_payment_succeeded.
Events == Sessions \X {"completed", "async"}

VARIABLES
    invoice,    \* the committed row of table invoices
    payments,   \* the rows of table invoice_payments, staged ones included
    sessions,   \* Stripe's Checkout Sessions for this invoice
    events,     \* Stripe's events: what the payload of each one says
    acked,      \* the events Stripe got a 2xx for
    ledger,     \* table stripe_webhook_events
    req,        \* the request each worker is serving
    crashes

vars == <<invoice, payments, sessions, events, acked, ledger, req, crashes>>

stripeVars == <<sessions, events>>

InvoiceStatus == {"draft", "sent", "paid", "void", "deleted"}

InvoiceRow ==
    [status: InvoiceStatus, total: Nat, paid: Nat, lined: BOOLEAN]

\* "staged" and "deleting" are uncommitted: only the transaction that made
\* the change sees it, and a unique index makes others wait for its outcome.
PaymentRow ==
    [state: {"unused", "staged", "live", "deleting", "deleted"},
     amount: Nat,
     intent: Sessions \cup {NoIntent}]

UnusedRow == [state |-> "unused", amount |-> 0, intent |-> NoIntent]

SessionRow ==
    [state: {"none", "open", "processing", "settled", "failed", "expired"},
     amount: Nat]

\* What a request knows: "seen" is the invoice as it was loaded, "new" what the
\* ORM object holds after the service changed it.
Request ==
    [op: {"idle", "webhook"} \cup AllOperations,
     pc: {"idle", "loaded", "counted", "insert", "commit", "staged", "reply",
         "expired"},
     seen: InvoiceRow,
     new: InvoiceRow,
     amount: Nat,
     intent: Sessions \cup {NoIntent},
     payment: PaymentIds \cup {NoPayment},
     event: Events \cup {NoEvent},
     platform: BOOLEAN]

TypeOK ==
    /\ invoice \in InvoiceRow
    /\ payments \in [PaymentIds -> PaymentRow]
    /\ sessions \in [Sessions -> SessionRow]
    /\ events \in [Events -> {"none", "unsettled", "settled"}]
    /\ acked \subseteq Events
    /\ ledger \in [Events -> {"absent", "staged", "durable"}]
    /\ req \in [Workers -> Request]
    /\ crashes \in 0..MaxCrashes

-----------------------------------------------------------------------------
(* Reading the tables.                                                     *)

\* The rows every transaction sees.
Committed == {p \in PaymentIds : payments[p].state \in {"live", "deleting"}}

\* The sum of the amounts of a set of rows, as the number of their cents: a
\* cardinality, so that it can be reasoned about without a recursive sum.
Cents(rows, S) == UNION {{p} \X (1 .. rows[p].amount) : p \in S}
SumOf(rows, S) == Cardinality(Cents(rows, S))

PaidTotal == SumOf(payments, Committed)

\* A committed payment carries this PaymentIntent.
Recorded(s) == \E p \in Committed : payments[p].intent = s

\* A payment with this PaymentIntent was committed once, removed since or not.
EverRecorded(s) ==
    \E p \in PaymentIds :
        /\ payments[p].state \in {"live", "deleting", "deleted"}
        /\ payments[p].intent = s

\* _apply_payments: the roll-up on the loaded row.
ApplyPayments(inv, sum) ==
    [inv EXCEPT
        !.paid = sum,
        !.status = CASE inv.status = "paid" /\ sum < inv.total -> "sent"
                     [] inv.status = "sent" /\ sum >= inv.total -> "paid"
                     [] OTHER -> inv.status]

\* Defect: the whole loaded row is written back.
WrittenWholeRow(seen, new) == [new EXCEPT !.lined = invoice.lined]

\* The ORM writes the columns that differ from what was loaded, no others.
Written(seen, new) ==
    [invoice EXCEPT
        !.status = IF new.status = seen.status THEN @ ELSE new.status,
        !.total  = IF new.total = seen.total THEN @ ELSE new.total,
        !.paid   = IF new.paid = seen.paid THEN @ ELSE new.paid]

\* issue_invoice flushes its UPDATE before it reads the payments, and so holds
\* the row lock until it commits.
RowLocked(w) ==
    \E v \in Workers \ {w} : req[v].op = "issue" /\ req[v].pc = "commit"

\* Another transaction has a payment row of this invoice in hand.  A DELETE of
\* the invoice waits for it: an insertion holds a key-share lock on the invoice,
\* and the cascade needs the row that a removal has locked.
ChildInHand(w) ==
    \E v \in Workers \ {w} : req[v].pc = "commit" /\ req[v].payment # NoPayment

NoInvoice == [status |-> "deleted", total |-> 0, paid |-> 0, lined |-> FALSE]

Idle ==
    [op |-> "idle", pc |-> "idle", seen |-> NoInvoice, new |-> NoInvoice,
     amount |-> 0, intent |-> NoIntent, payment |-> NoPayment,
     event |-> NoEvent, platform |-> FALSE]

Init ==
    /\ invoice \in {inv \in [status: {"draft"}, total: Totals \cup {0},
                             paid: {0}, lined: BOOLEAN] :
                        inv.lined \/ inv.total = 0}
    /\ payments = [p \in PaymentIds |-> UnusedRow]
    /\ sessions = [s \in Sessions |-> [state |-> "none", amount |-> 0]]
    /\ events = [e \in Events |-> "none"]
    /\ acked = {}
    /\ ledger = [e \in Events |-> "absent"]
    /\ req = [w \in Workers |-> Idle]
    /\ crashes = 0

-----------------------------------------------------------------------------
(* How a request starts and ends.                                          *)

\* get_invoice_or_404: the request has the row as committed at this moment.
Loaded(op) ==
    [Idle EXCEPT !.op = op, !.pc = "loaded", !.seen = invoice, !.new = invoice]

Accept(w, op) ==
    /\ op \in Operations
    /\ req[w] = Idle
    /\ invoice.status # "deleted"
    /\ UNCHANGED <<invoice, payments, stripeVars, acked, ledger, crashes>>

At(w, op, pc) == req[w].op = op /\ req[w].pc = pc

Finish(w) == req' = [req EXCEPT ![w] = Idle]

\* A rollback drops the staged payment, or brings back the one being deleted.
RolledBackRow(row) ==
    CASE row.state = "staged" -> UnusedRow
      [] row.state = "deleting" -> [row EXCEPT !.state = "live"]
      [] OTHER -> row

\* The transaction ends without a commit: payment row and ledger row go.
Undo(w) ==
    /\ payments' = [p \in PaymentIds |-> IF p = req[w].payment /\ req[w].pc = "commit"
                                         THEN RolledBackRow(payments[p])
                                         ELSE payments[p]]
    /\ ledger' = [e \in Events |-> IF e = req[w].event /\ ledger[e] = "staged"
                                   THEN "absent" ELSE ledger[e]]

-----------------------------------------------------------------------------
(* Staff: edit, issue, void and delete the invoice.                        *)

\* Defect: anything but a voided invoice may be edited.
RequireNotVoid(inv) == inv.status # "void"

\* _require_draft, on the row as it was loaded.
RequireDraft(inv) == inv.status = "draft"

\* The body of the request fixes the new lines, hence the total _recalculate finds.
StartUpdate(w) ==
    /\ Accept(w, "update")
    /\ RequireDraft(invoice)
    /\ \E total \in Totals \cup {0}, lined \in BOOLEAN :
        /\ lined \/ total = 0
        /\ req' = [req EXCEPT ![w] = [Loaded("update") EXCEPT !.new.total = total,
                                                             !.new.lined = lined]]

\* The lines are replaced whatever they were; an invoice deleted meanwhile
\* fails the flush.
CommitUpdate(w) ==
    /\ At(w, "update", "loaded")
    /\ ~RowLocked(w)
    /\ invoice' = IF invoice.status = "deleted" THEN invoice
                  ELSE [Written(req[w].seen, req[w].new) EXCEPT !.lined = req[w].new.lined]
    /\ Finish(w)
    /\ UNCHANGED <<payments, stripeVars, acked, ledger, crashes>>

\* Defect: a voided invoice may be issued again.
IssuableOnceVoid(inv) == inv.status \in {"draft", "void"}

\* A sent or paid invoice is returned as it is, a voided one is refused (409).
Issuable(inv) == inv.status = "draft"

StartIssue(w) ==
    /\ Accept(w, "issue")
    /\ Issuable(invoice)
    /\ req' = [req EXCEPT ![w] = Loaded("issue")]

\* _line_count: nothing to issue without lines (409).
CountLines(w) ==
    /\ At(w, "issue", "loaded")
    /\ IF invoice.lined THEN req' = [req EXCEPT ![w].pc = "counted"] ELSE Finish(w)
    /\ UNCHANGED <<invoice, payments, stripeVars, acked, ledger, crashes>>

\* Defect: the payments a draft already carries are ignored.
IssuedUnpaid(seen) == [seen EXCEPT !.status = "sent"]

\* What issue_invoice makes of the row it loaded.
Issued(seen) == ApplyPayments([seen EXCEPT !.status = "sent"], PaidTotal)

\* The autoflush before the sum sends the UPDATE: from here on the row is locked.
FlushIssue(w) ==
    /\ At(w, "issue", "counted")
    /\ ~RowLocked(w)
    /\ IF invoice.status = "deleted"
       THEN Finish(w)
       ELSE req' = [req EXCEPT ![w].pc = "commit", ![w].new = Issued(req[w].seen)]
    /\ UNCHANGED <<invoice, payments, stripeVars, acked, ledger, crashes>>

CommitIssue(w) ==
    /\ At(w, "issue", "commit")
    /\ invoice' = Written(req[w].seen, req[w].new)
    /\ Finish(w)
    /\ UNCHANGED <<payments, stripeVars, acked, ledger, crashes>>

StartVoid(w) ==
    /\ Accept(w, "void")
    /\ invoice.status # "void"
    /\ req' = [req EXCEPT ![w] = [Loaded("void") EXCEPT !.new.status = "void"]]

CommitVoid(w) ==
    /\ At(w, "void", "loaded")
    /\ ~RowLocked(w)
    /\ invoice' = IF invoice.status = "deleted" THEN invoice
                  ELSE Written(req[w].seen, req[w].new)
    /\ Finish(w)
    /\ UNCHANGED <<payments, stripeVars, acked, ledger, crashes>>

\* Defect: an issued invoice may be deleted.
DeletableAlways(inv) == inv.status # "deleted"

Deletable(inv) == inv.status = "draft"

\* delete_invoice: the draft check is on the loaded row, the DELETE is not
\* conditional on the status, and the payments cascade.
StartDiscard(w) ==
    /\ Accept(w, "discard")
    /\ Deletable(invoice)
    /\ req' = [req EXCEPT ![w] = Loaded("discard")]

CommitDiscard(w) ==
    /\ At(w, "discard", "loaded")
    /\ ~RowLocked(w) /\ ~ChildInHand(w)
    /\ invoice' = NoInvoice
    /\ payments' = [p \in PaymentIds |->
                       IF p \in Committed THEN [payments[p] EXCEPT !.state = "deleted"]
                                          ELSE payments[p]]
    /\ Finish(w)
    /\ UNCHANGED <<stripeVars, acked, ledger, crashes>>

-----------------------------------------------------------------------------
(* Payments: entered by hand, removed by hand, or recorded from Stripe.    *)

StartAdd(w) ==
    /\ Accept(w, "add")
    /\ invoice.status # "void"
    /\ \E a \in Amounts :
        req' = [req EXCEPT ![w] = [Loaded("add") EXCEPT !.pc = "insert", !.amount = a]]

\* Defect: the column has no unique index.
IntentFree(intent) == FALSE

\* The unique index on the PaymentIntent holds such a row, committed or not.
IntentTaken(intent) ==
    /\ intent # NoIntent
    /\ \E q \in PaymentIds : /\ payments[q].state \in {"staged", "live", "deleting"}
                             /\ payments[q].intent = intent

\* add_payment: INSERT and flush, then the sum as this transaction sees it.  The
\* unique index on the PaymentIntent makes it wait for an uncommitted twin, the
\* foreign key for the invoice to be there.
InsertPayment(w) ==
    /\ req[w].pc = "insert"
    /\ invoice.status # "deleted"
    /\ ~IntentTaken(req[w].intent)
    /\ \E p \in PaymentIds :
        /\ payments[p].state = "unused"
        /\ payments' = [payments EXCEPT ![p] = [state |-> "staged",
                                                amount |-> req[w].amount,
                                                intent |-> req[w].intent]]
        /\ req' = [req EXCEPT
                     ![w].pc = "commit",
                     ![w].payment = p,
                     ![w].new = ApplyPayments(req[w].seen,
                                              SumOf(payments', Committed \cup {p}))]
    /\ UNCHANGED <<invoice, stripeVars, acked, ledger, crashes>>

\* The foreign key fails: the invoice has been deleted (404 or 500).
InsertOrphan(w) ==
    /\ req[w].pc = "insert"
    /\ invoice.status = "deleted"
    /\ Undo(w)
    /\ Finish(w)
    /\ UNCHANGED <<invoice, stripeVars, acked, crashes>>

\* The unique index fails: the other path has committed this PaymentIntent.
\* record_checkout_payment rolls back and takes it for success.  The rollback
\* expires every object of the session; the webhook touches none of them again.
LoseInsertRace(w) ==
    /\ req[w].pc = "insert"
    /\ invoice.status # "deleted"
    /\ \E q \in PaymentIds : payments[q].state = "live" /\ payments[q].intent = req[w].intent
    /\ req[w].intent # NoIntent
    /\ Undo(w)
    /\ req' = [req EXCEPT ![w].pc = IF req[w].op = "webhook" THEN "reply" ELSE "expired"]
    /\ UNCHANGED <<invoice, stripeVars, acked, crashes>>

\* confirm_invoice_payment reads agency.id and client.id again, which are expired:
\* an asynchronous session cannot reload them there, and the client gets a 500.
AnswerExpired(w) ==
    /\ At(w, "confirm", "expired")
    /\ Finish(w)
    /\ UNCHANGED <<invoice, payments, stripeVars, acked, ledger, crashes>>

\* The payment, the roll-up and the webhook's ledger row become durable together.
CommitPayment(w) ==
    /\ req[w].op \in {"add", "confirm", "webhook"} /\ req[w].pc = "commit"
    /\ req[w].new # req[w].seen => ~RowLocked(w)
    /\ invoice' = Written(req[w].seen, req[w].new)
    /\ payments' = [payments EXCEPT ![req[w].payment].state = "live"]
    /\ IF req[w].op = "webhook"
       THEN /\ ledger' = [ledger EXCEPT ![req[w].event] = "durable"]
            /\ req' = [req EXCEPT ![w].pc = "reply"]
       ELSE Finish(w) /\ UNCHANGED ledger
    /\ UNCHANGED <<stripeVars, acked, crashes>>

StartRemove(w) ==
    /\ Accept(w, "remove")
    /\ \E p \in Committed :
        req' = [req EXCEPT ![w] = [Loaded("remove") EXCEPT !.payment = p]]

\* Defect: no roll-up after a removal.
NotRolledUp(seen, p) == seen

\* _apply_payments once row p is deleted.
WithoutPayment(seen, p) == ApplyPayments(seen, SumOf(payments, Committed \ {p}))

\* delete_payment: DELETE and flush (of a row that may be gone), then the sum.
RemoveRow(w) ==
    LET p == req[w].payment IN
    /\ At(w, "remove", "loaded")
    /\ payments[p].state # "deleting"
    /\ payments' = IF payments[p].state = "live"
                   THEN [payments EXCEPT ![p].state = "deleting"] ELSE payments
    /\ req' = [req EXCEPT
                 ![w].pc = "commit",
                 ![w].payment = IF payments[p].state = "live" THEN p ELSE NoPayment,
                 ![w].new = WithoutPayment(req[w].seen, p)]
    /\ UNCHANGED <<invoice, stripeVars, acked, ledger, crashes>>

CommitRemove(w) ==
    LET p == req[w].payment IN
    /\ At(w, "remove", "commit")
    /\ req[w].new # req[w].seen => ~RowLocked(w)
    /\ invoice' = IF invoice.status = "deleted" THEN invoice
                  ELSE Written(req[w].seen, req[w].new)
    /\ payments' = IF p = NoPayment THEN payments
                   ELSE [payments EXCEPT ![p].state = "deleted"]
    /\ Finish(w)
    /\ UNCHANGED <<stripeVars, acked, ledger, crashes>>

-----------------------------------------------------------------------------
(* The client portal: open a Checkout Session, and ask about one.          *)

\* pay_invoice: sent, overdue and partial are all stored as "sent".
StartPay(w) ==
    /\ Accept(w, "pay")
    /\ invoice.status = "sent"
    /\ req' = [req EXCEPT ![w] = Loaded("pay")]

\* Defect: the operands are swapped.
BalanceSwapped(inv) == inv.paid - inv.total

\* What start_invoice_checkout asks for: the outstanding balance.
Balance(inv) == inv.total - inv.paid

\* start_invoice_checkout charges the balance of the loaded row; the call to
\* Stripe fails when that is not positive, and may fail at any time.
CreateSession(w) ==
    LET seen == req[w].seen IN
    /\ At(w, "pay", "loaded")
    /\ \/ UNCHANGED sessions
       \/ /\ seen.total > seen.paid
          /\ \E s \in Sessions :
              /\ sessions[s].state = "none"
              /\ sessions' = [sessions EXCEPT ![s] = [state |-> "open",
                                                      amount |-> Balance(seen)]]
    /\ Finish(w)
    /\ UNCHANGED <<invoice, payments, events, acked, ledger, crashes>>

StartConfirm(w) ==
    /\ Accept(w, "confirm")
    /\ invoice.status # "draft"
    /\ \E s \in Sessions :
        /\ sessions[s].state # "none"
        /\ req' = [req EXCEPT ![w] = [Loaded("confirm") EXCEPT !.intent = s]]

\* Defect: a completed session counts as paid.
Completed(s) == sessions[s].state \in {"processing", "settled"}

\* payment_status says that the money is in (_SETTLED_PAYMENT_STATUSES).
Settled(s) == sessions[s].state = "settled"

\* confirm_checkout_session: Stripe is asked, and a settled session goes through
\* record_checkout_payment.  The invoice object is still the one loaded first.
CheckSession(w) ==
    LET s == req[w].intent IN
    /\ At(w, "confirm", "loaded")
    /\ IF /\ Settled(s)
          /\ invoice.status # "deleted"
          /\ ~Recorded(s)
          /\ req[w].seen.status # "void"
       THEN req' = [req EXCEPT ![w].pc = "insert", ![w].amount = sessions[s].amount]
       ELSE Finish(w)
    /\ UNCHANGED <<invoice, payments, stripeVars, acked, ledger, crashes>>

-----------------------------------------------------------------------------
(* Stripe: what happens to a Checkout Session, and the event that says so. *)

StripeStep(s, from, to) ==
    /\ sessions[s].state = from
    /\ sessions' = [sessions EXCEPT ![s].state = to]
    /\ UNCHANGED <<invoice, payments, acked, ledger, req, crashes>>

\* The payload of an event is a snapshot of the session.
PayNow(s) ==
    /\ StripeStep(s, "open", "settled")
    /\ events' = [events EXCEPT ![<<s, "completed">>] = "settled"]

PayLater(s) ==
    /\ StripeStep(s, "open", "processing")
    /\ events' = [events EXCEPT ![<<s, "completed">>] = "unsettled"]

AsyncSucceeds(s) ==
    /\ StripeStep(s, "processing", "settled")
    /\ events' = [events EXCEPT ![<<s, "async">>] = "settled"]

AsyncFails(s) == StripeStep(s, "processing", "failed") /\ UNCHANGED events

Expire(s) == StripeStep(s, "open", "expired") /\ UNCHANGED events

-----------------------------------------------------------------------------
(* Webhooks: /connect, and /platform when it is handed a Connect event.    *)

\* Defect: the ledger row is committed before the handler runs.
LedgerRowCommitted == "durable"

\* verify_and_dedupe flushes the ledger row and leaves the commit to the handler.
LedgerRow == "staged"

\* verify_and_dedupe: the ledger row is inserted and flushed, not committed; its
\* unique index makes a concurrent delivery of the same event wait.
Deliver(w, e) ==
    /\ req[w] = Idle
    /\ events[e] # "none"
    /\ ledger[e] = "absent"
    /\ ledger' = [ledger EXCEPT ![e] = LedgerRow]
    /\ \E platform \in BOOLEAN :
        req' = [req EXCEPT ![w] = [Idle EXCEPT !.op = "webhook", !.pc = "staged",
                                               !.event = e, !.platform = platform]]
    /\ UNCHANGED <<invoice, payments, stripeVars, acked, crashes>>

\* A delivery of an event whose ledger row is durable is a replay: 200 at once.
Replay(e) ==
    /\ ledger[e] = "durable"
    /\ e \notin acked
    /\ acked' = acked \cup {e}
    /\ UNCHANGED <<invoice, payments, stripeVars, ledger, req, crashes>>

\* Defect: /platform lets a Connect event fall through.
NothingNewOnPlatform(e, platform) ==
    platform \/ (events[e] = "settled" => invoice.status # "deleted" /\ Recorded(e[1]))

\* The payload says the session is unpaid, or the payment is there already.
NothingNew(e, platform) ==
    events[e] = "settled" => invoice.status # "deleted" /\ Recorded(e[1])

\* Nothing to record: the session has not settled, or its payment is there
\* already.  /platform commits the ledger row all the same, /connect does not.
NothingToRecord(w) ==
    LET e == req[w].event IN
    /\ At(w, "webhook", "staged")
    /\ NothingNew(e, req[w].platform)
    /\ ledger' = [ledger EXCEPT ![e] = IF req[w].platform THEN "durable" ELSE "absent"]
    /\ req' = [req EXCEPT ![w].pc = "reply"]
    /\ UNCHANGED <<invoice, payments, stripeVars, acked, crashes>>

\* The invoice is gone (404) or voided (409): the ledger row is rolled back.
RefuseEvent(w) ==
    LET e == req[w].event IN
    /\ At(w, "webhook", "staged")
    /\ events[e] = "settled"
    /\ \/ invoice.status = "deleted"
       \/ invoice.status = "void" /\ ~Recorded(e[1])
    /\ Undo(w)
    /\ Finish(w)
    /\ UNCHANGED <<invoice, stripeVars, acked, crashes>>

\* record_checkout_payment on the way to add_payment.
RecordEvent(w) ==
    LET e == req[w].event IN
    /\ At(w, "webhook", "staged")
    /\ events[e] = "settled"
    /\ invoice.status \notin {"deleted", "void"}
    /\ ~Recorded(e[1])
    /\ req' = [req EXCEPT ![w].pc = "insert",
                          ![w].seen = invoice,
                          ![w].new = invoice,
                          ![w].intent = e[1],
                          ![w].amount = sessions[e[1]].amount]
    /\ UNCHANGED <<invoice, payments, stripeVars, acked, ledger, crashes>>

\* The 2xx reaches Stripe.
Reply(w) ==
    /\ At(w, "webhook", "reply")
    /\ acked' = acked \cup {req[w].event}
    /\ Finish(w)
    /\ UNCHANGED <<invoice, payments, stripeVars, ledger, crashes>>

\* A request dies between two statements; what it had committed stays.
Crash(w) ==
    /\ req[w] # Idle
    /\ crashes < MaxCrashes
    /\ crashes' = crashes + 1
    /\ Undo(w)
    /\ Finish(w)
    /\ UNCHANGED <<invoice, stripeVars, acked>>

-----------------------------------------------------------------------------

\* The steps of a request that has been accepted.
Proceed(w) ==
    \/ CommitUpdate(w) \/ CommitVoid(w) \/ CommitDiscard(w)
    \/ CountLines(w) \/ FlushIssue(w) \/ CommitIssue(w)
    \/ InsertPayment(w) \/ InsertOrphan(w) \/ LoseInsertRace(w)
    \/ AnswerExpired(w) \/ CommitPayment(w)
    \/ RemoveRow(w) \/ CommitRemove(w)
    \/ CreateSession(w) \/ CheckSession(w)
    \/ NothingToRecord(w) \/ RefuseEvent(w) \/ RecordEvent(w) \/ Reply(w)

Arrive(w) ==
    \/ StartUpdate(w) \/ StartIssue(w) \/ StartVoid(w) \/ StartDiscard(w)
    \/ StartAdd(w) \/ StartRemove(w) \/ StartPay(w) \/ StartConfirm(w)

Stripe(s) ==
    PayNow(s) \/ PayLater(s) \/ AsyncSucceeds(s) \/ AsyncFails(s) \/ Expire(s)

Next ==
    \/ \E w \in Workers : Arrive(w) \/ Proceed(w) \/ Crash(w)
    \/ \E w \in Workers, e \in Events : Deliver(w, e)
    \/ \E e \in Events : Replay(e)
    \/ \E s \in Sessions : Stripe(s)

Spec == Init /\ [][Next]_vars

\* A worker that is serving a request goes on (the event loop is fair), and
\* Stripe keeps redelivering an event until it gets a 2xx for it.
Fairness ==
    /\ \A w \in Workers : SF_vars(Proceed(w))
    /\ \A e \in Events : SF_vars(e \notin acked /\ \E w \in Workers : Deliver(w, e))
    /\ \A e \in Events : WF_vars(Replay(e))

FairSpec == Spec /\ Fairness

-----------------------------------------------------------------------------
(* What holds however requests, webhooks and crashes interleave.           *)

\* One PaymentIntent never leaves two payments on the invoice, whichever of the
\* webhook endpoints, event types, redeliveries and return pages record it
\* (record_checkout_payment: "the single idempotent path").
IntentRecordedOnce ==
    \A p, q \in Committed :
        payments[p].intent = payments[q].intent /\ payments[p].intent # NoIntent => p = q

\* The ledger never says "handled" for a payment event whose payment was not
\* recorded (verify_and_dedupe: the ledger row is durable only with the effects).
LedgerOnlyWithEffect ==
    \A e \in Events :
        ledger[e] = "durable" /\ events[e] = "settled" => EverRecorded(e[1])

\* Stripe stops redelivering a payment event only once its payment was recorded.
AcknowledgedOnlyWithEffect ==
    \A e \in acked : events[e] = "settled" => EverRecorded(e[1])

\* A Stripe payment on the books is money Stripe has, and all of it.
OnlySettledMoneyRecorded ==
    \A p \in Committed :
        payments[p].intent # NoIntent =>
            /\ sessions[payments[p].intent].state = "settled"
            /\ sessions[payments[p].intent].amount = payments[p].amount

\* An invoice that has been issued is never a draft again, although requests
\* that loaded it as a draft may commit after the issue (the ORM writes only the
\* columns a request changed).
NeverDraftAgain ==
    [][invoice.status # "draft" => invoice'.status # "draft"]_vars

\* The abstract promise, with the rows and the acknowledgements this API keeps.
Recording == INSTANCE PaymentRecording WITH
    settled  <- {s \in Sessions : sessions[s].state = "settled"},
    recorded <- {s \in Sessions : EverRecorded(s)},
    answered <- {s \in Sessions : \E e \in acked : e[1] = s /\ events[e] = "settled"}

\* Money settles, then is recorded, then is acknowledged, in that order and for
\* good, through every redelivery, race, rollback and crash (record_checkout_payment
\* and verify_and_dedupe together).
ImplementsRecording == Recording!Spec

-----------------------------------------------------------------------------
(* What holds when requests on the invoice do not overlap.                 *)

\* amount_paid_cents is the sum of the payments, and the status says "paid"
\* exactly when that covers the total (_apply_payments).  A draft's status does
\* not follow its payments until it is issued.
PaidAmountIsSum == invoice.status # "deleted" => invoice.paid = PaidTotal

PaidExactlyWhenCovered ==
    invoice.status \in {"sent", "paid"} =>
        (invoice.status = "paid" <=> invoice.paid >= invoice.total)

\* Both: one request at a time, in any order and with any crash, leaves no payment out
\* of amount_paid_cents and no amount out of the status.
RollUpExact == PaidAmountIsSum /\ PaidExactlyWhenCovered

\* What was issued is final, whatever is entered, removed, redelivered or broken off:
\* only drafts are edited (_require_draft); voiding is terminal (_apply_payments,
\* test_void_is_terminal); an issued invoice is voided, never deleted (delete_invoice).
IssuedIsFinal ==
    [][/\ invoice.status # "draft" /\ invoice'.status # "deleted" =>
             <<invoice'.total, invoice'.lined>> = <<invoice.total, invoice.lined>>
       /\ invoice.status = "void" => invoice'.status = "void"
       /\ invoice'.status = "deleted" => invoice.status \in {"draft", "deleted"}]_vars

\* The status follows the payments as soon as no request is in progress: when
\* the payments cover the total the invoice is not left unpaid (models.py).
CoveredMeansPaid ==
    (\A w \in Workers : req[w] = Idle) =>
        (invoice.status = "sent" => PaidTotal < invoice.total)

\* The return page gets its answer "repeatedly and alongside the webhook"
\* (confirm_invoice_payment): no such request is left with expired objects.
ConfirmAlongsideWebhook ==
    \A w \in Workers : ~At(w, "confirm", "expired")

-----------------------------------------------------------------------------
(* Liveness.                                                               *)

\* Money that Stripe has is recorded, unless the invoice is voided or deleted
\* before: then every delivery is refused.
SettledIsRecorded ==
    \A s \in Sessions :
        sessions[s].state = "settled" ~> EverRecorded(s) \/ invoice.status \in {"void", "deleted"}

\* The payment is recorded once Stripe confirms it (pay_invoice), no exception.
SettledAlwaysRecorded ==
    \A s \in Sessions : sessions[s].state = "settled" ~> EverRecorded(s)
=============================================================================
