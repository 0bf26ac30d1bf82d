--------------------------- MODULE InvoiceNumbers ---------------------------
(***************************************************************************)
(* How an agency's invoices get their numbers: create_invoice with         *)
(* _next_invoice_number, and the settings form that may change the counter *)
(* (modules/invoicing/service.py).                                         *)
(*                                                                         *)
(* A creation loads the billing settings, then selects the same row FOR    *)
(* UPDATE.  The select waits for the lock, but the session already holds   *)
(* the object and does not refresh it: the counter used is the one that    *)
(* was loaded first.  What then keeps numbers apart is the unique index on *)
(* (agency, number).                                                       *)
(*                                                                         *)
(* A definition marked "Defect" is a plausible bug in the definition that  *)
(* follows it.                                                             *)
(***************************************************************************)
EXTENDS Integers, FiniteSets

CONSTANTS
    Workers,      \* request slots of the API
    Invoices,     \* primary keys of invoices rows
    Prefixes,     \* what an agency may put before a number
    Paddings,     \* least widths of a number
    Typed,        \* counters a user may type into the settings form
    Operations    \* the endpoints that are in use

ASSUME NumbersAssumption ==
    /\ Prefixes # {}
    /\ Paddings # {} /\ Paddings \subseteq Nat
    /\ Typed \subseteq Nat \ {0}
    /\ Operations \subseteq {"create", "save", "delete"}

VARIABLES
    settings,     \* the agency's billing settings row: scheme, next number
    invoices,     \* the agency's invoices: their state and number
    req,          \* the request each worker is serving
    edited        \* history: a settings form has changed the numbering

vars == <<settings, invoices, req, edited>>

Schemes == [prefix: Prefixes, padding: Paddings]

SettingsRow == [scheme: Schemes, next: Nat]

\* The width of a positive number in decimal; the column is a 32-bit INTEGER, so
\* there are at most ten digits.
Digits(n) == Cardinality({d \in 1 .. 10 : 10 ^ (d - 1) <= n})

\* Defect: the width is the number of zeros to add, not the whole width.
PrintedZeros(scheme, n) ==
    [prefix |-> scheme.prefix, n |-> n, width |-> scheme.padding - Digits(n)]

\* f"{prefix}{next:0{padding}d}": zeros fill up to the padding, so that wide
\* numbers look the same under every padding.  (Prefixes are taken to be
\* distinguishable from the digits that follow them.)
Printed(scheme, n) ==
    [prefix |-> scheme.prefix, n |-> n,
     width |-> IF Digits(n) > scheme.padding THEN Digits(n) ELSE scheme.padding]

Number == [prefix: Prefixes, n: Nat, width: Nat]

Unnumbered == [prefix |-> "none"]

\* A deleted draft leaves its number free; issued and voided invoices keep theirs.
InvoiceState == {"unused", "draft", "issued", "deleted"}

Request ==
    [op: {"idle", "create", "save"},
     pc: {"idle", "loaded", "locked", "created", "collided", "form"},
     seen: SettingsRow,      \* the settings object as this session loaded it
     form: SettingsRow]      \* what the settings form shows

TypeOK ==
    /\ settings \in SettingsRow
    /\ invoices \in [Invoices -> [state: InvoiceState, number: Number \cup {Unnumbered}]]
    /\ req \in [Workers -> Request]
    /\ edited \in BOOLEAN

-----------------------------------------------------------------------------

Live == {i \in Invoices : invoices[i].state \in {"draft", "issued"}}

\* The row lock of SELECT ... FOR UPDATE is kept until the creation commits.
LockFree == \A w \in Workers : req[w].pc # "locked"

\* A request that has loaded or shown the settings s.
Opened(op, pc, s) == [op |-> op, pc |-> pc, seen |-> s, form |-> s]

\* An idle slot remembers nothing.
Idle == Opened("idle", "idle", [scheme |-> CHOOSE s \in Schemes : TRUE, next |-> 0])

\* Settings are created on first access, with 1 as the next number.
Init ==
    /\ settings \in [scheme: Schemes, next: {1}]
    /\ invoices = [i \in Invoices |-> [state |-> "unused", number |-> Unnumbered]]
    /\ req = [w \in Workers |-> Idle]
    /\ edited = FALSE

\* The response is sent.
Finish(w) == req' = [req EXCEPT ![w] = Idle]

-----------------------------------------------------------------------------
(* create_invoice.                                                         *)

OpenCreate(w) ==
    /\ "create" \in Operations
    /\ req[w].pc = "idle"
    /\ req' = [req EXCEPT ![w] = Opened("create", "loaded", settings)]
    /\ UNCHANGED <<settings, invoices, edited>>

\* SELECT ... FOR UPDATE: waits for the lock; the object keeps its old counter.
Allocate(w) ==
    /\ req[w].op = "create" /\ req[w].pc = "loaded"
    /\ LockFree
    /\ req' = [req EXCEPT ![w].pc = "locked"]
    /\ UNCHANGED <<settings, invoices, edited>>

NumberOf(seen) == Printed(seen.scheme, seen.next)

\* Defect: the column pair has no unique index.
NotTaken(number) == FALSE

Taken(number) == \E i \in Live : invoices[i].number = number

Advanced(seen) == seen.next + 1

\* The flush inserts the invoice and writes the counter, the commit releases the
\* lock.  Nothing else looks at the flushed row: it would need the lock.
InsertInvoice(w) ==
    LET seen == req[w].seen IN
    /\ req[w].op = "create" /\ req[w].pc = "locked"
    /\ ~Taken(NumberOf(seen))
    /\ \E i \in Invoices :
        /\ invoices[i].state = "unused"
        /\ invoices' = [invoices EXCEPT ![i] = [state |-> "draft", number |-> NumberOf(seen)]]
    /\ settings' = [settings EXCEPT !.next = Advanced(seen)]
    /\ req' = [req EXCEPT ![w].pc = "created"]
    /\ UNCHANGED edited

\* Defect: the advanced counter survives the failed insert.
CounterKept(seen) == [settings EXCEPT !.next = seen.next + 1]

AfterCollision(seen) == settings

\* The unique index fails at the flush, outside the try block: everything is
\* rolled back, counter included, and the client gets a 500.
Collide(w) ==
    /\ req[w].op = "create" /\ req[w].pc = "locked"
    /\ Taken(NumberOf(req[w].seen))
    /\ settings' = AfterCollision(req[w].seen)
    /\ req' = [req EXCEPT ![w].pc = "collided"]
    /\ UNCHANGED <<invoices, edited>>

Answer(w) ==
    /\ req[w].pc \in {"created", "collided"}
    /\ Finish(w)
    /\ UNCHANGED <<settings, invoices, edited>>

-----------------------------------------------------------------------------
(* The settings form: a full replace of what the form showed when it was   *)
(* opened, counter included.                                               *)

OpenForm(w) ==
    /\ "save" \in Operations
    /\ req[w].pc = "idle"
    /\ req' = [req EXCEPT ![w] = Opened("save", "form", settings)]
    /\ UNCHANGED <<settings, invoices, edited>>

\* The user edits scheme or counter, or neither, and submits; PATCH loads the row.
SubmitForm(w) ==
    /\ req[w].op = "save" /\ req[w].pc = "form"
    /\ \E scheme \in Schemes, next \in Typed \cup {req[w].form.next} :
        req' = [req EXCEPT ![w].pc = "loaded",
                           ![w].seen = settings,
                           ![w].form = [scheme |-> scheme, next |-> next]]
    /\ UNCHANGED <<settings, invoices, edited>>

\* The UPDATE names the columns that differ from what was loaded, and waits for
\* the row lock of a creation.
CommitSave(w) ==
    LET seen == req[w].seen
        form == req[w].form IN
    /\ req[w].op = "save" /\ req[w].pc = "loaded"
    /\ form # seen => LockFree
    /\ settings' = [scheme |-> IF form.scheme = seen.scheme THEN settings.scheme ELSE form.scheme,
                    next   |-> IF form.next = seen.next THEN settings.next ELSE form.next]
    /\ edited' = (edited \/ form # seen)
    /\ Finish(w)
    /\ UNCHANGED invoices

-----------------------------------------------------------------------------
(* What else happens to invoices, each request in one step: InvoicePayments *)
(* has the details.                                                        *)

IssueInvoice(i) ==
    /\ invoices[i].state = "draft"
    /\ invoices' = [invoices EXCEPT ![i].state = "issued"]
    /\ UNCHANGED <<settings, req, edited>>

DeleteDraft(i) ==
    /\ "delete" \in Operations
    /\ invoices[i].state = "draft"
    /\ invoices' = [invoices EXCEPT ![i] = [state |-> "deleted", number |-> Unnumbered]]
    /\ UNCHANGED <<settings, req, edited>>

\* A request dies: its transaction, if it has one, is rolled back.
Crash(w) ==
    /\ req[w].pc # "idle"
    /\ Finish(w)
    /\ UNCHANGED <<settings, invoices, edited>>

Create(w) ==
    OpenCreate(w) \/ Allocate(w) \/ InsertInvoice(w) \/ Collide(w) \/ Answer(w)

Save(w) == OpenForm(w) \/ SubmitForm(w) \/ CommitSave(w)

Next ==
    \/ \E w \in Workers : Create(w) \/ Save(w) \/ Crash(w)
    \/ \E i \in Invoices : IssueInvoice(i) \/ DeleteDraft(i)

Spec == Init /\ [][Next]_vars

-----------------------------------------------------------------------------
(* Properties.                                                             *)

\* No two invoices of an agency bear the same number, whatever creations, saves
\* of the settings form and deletions overlap (uq_invoices_agency_id_number).
NumbersUnique ==
    \A i, j \in Live : invoices[i].number = invoices[j].number => i = j

\* No settings form has changed the numbering and no draft was deleted.
Untouched == ~edited /\ \A i \in Invoices : invoices[i].state # "deleted"

\* Until a form changes the numbering or a draft is deleted, the numbers in use
\* are exactly those below the counter: no gap, none ahead, although creations
\* overlap, fail and work with stale counters (_next_invoice_number).
NumbersConsecutive ==
    Untouched => {invoices[i].number : i \in Live} =
                     {Printed(settings.scheme, n) : n \in 1 .. settings.next - 1}

\* The next creation will find its number free, so that creating invoices cannot
\* get stuck ("Could not create invoice, please try again").
CounterFree == LockFree => ~Taken(NumberOf(settings))

\* "under a row lock so two concurrent creations can't collide on it"
\* (_next_invoice_number): no creation fails on the number.
CreationsNeverCollide == \A w \in Workers : req[w].pc # "collided"
=============================================================================
