---------------------------- MODULE TimeTracking ----------------------------
(***************************************************************************)
(* Logged time and its billing: time_tracking/service.py, used through the *)
(* timer and the table of a project's Time page (TimerWidget.tsx,          *)
(* TimeEntriesTable.tsx), together with what invoicing/service.py does to  *)
(* an invoice that bills entries.                                          *)
(*                                                                         *)
(* A request loads rows and checks them, and writes later; billing writes  *)
(* in two commits, the draft invoice and then the marks on the entries.    *)
(* The entries are those of one user and one project that has a default    *)
(* rate, so that every stopped entry has an amount; the tabs are of        *)
(* whoever works on the page.                                              *)
(***************************************************************************)
EXTENDS Integers, FiniteSets

CONSTANTS
    Tabs,           \* open Time pages
    Entries,
    Invoices,
    Pacing,         \* what the run considers, a subset of {"serial", "overlap"}
    MaxSteps,       \* bound on requests of the tabs
    MaxCrashes,     \* bound on billing requests that die between the commits
    NoInvoice       \* an entry's line item is null

ASSUME TimeAssumption ==
    /\ Pacing \subseteq {"serial", "overlap"}
    /\ NoInvoice \notin Invoices
    /\ MaxSteps \in Nat /\ MaxCrashes \in Nat

VARIABLES
    pacing,
    entry,          \* time_entries
    invoice,        \* the invoices that bill entries: status, and the entries on their lines
    tab,            \* the rows each tab shows, and the ones ticked
    call,           \* each tab's request
    excused,        \* history: entries whose billing met a crash, a race or an edit of the draft
    spent           \* requests and crashes so far

timeVars == <<pacing, entry, invoice, tab, call, excused, spent>>

Rows == [state: {"none", "running", "stopped", "deleted"}, billable: BOOLEAN,
         line: Invoices \cup {NoInvoice}]

Calls == [op: {"none", "start", "stop", "edit", "delete", "bill"},
          at: {"sent", "checked", "drafted"}, what: SUBSET Entries, billable: BOOLEAN,
          draft: Invoices \cup {NoInvoice}]

TimeTypeOK ==
    /\ pacing \in {"serial", "overlap"}
    /\ entry \in [Entries -> Rows]
    /\ invoice \in [Invoices -> [status: {"none", "draft", "issued", "void", "deleted"},
                                 bills: SUBSET Entries]]
    /\ tab \in [Tabs -> [rows: [Entries -> Rows], ticked: SUBSET Entries]]
    /\ call \in [Tabs -> Calls]
    /\ excused \in SUBSET Entries
    /\ spent \in [steps: 0 .. MaxSteps, crashes: 0 .. MaxCrashes]

-----------------------------------------------------------------------------

NoCall == [op |-> "none", at |-> "sent", what |-> {}, billable |-> FALSE, draft |-> NoInvoice]

Running(rows) == {e \in Entries : rows[e].state = "running"}

Existing(rows) == {e \in Entries : rows[e].state \in {"running", "stopped"}}

\* isSelectable.
Selectable(r) == r.state = "stopped" /\ r.billable /\ r.line = NoInvoice

Live == {i \in Invoices : invoice[i].status \in {"draft", "issued"}}

TimeInit ==
    /\ pacing \in Pacing
    /\ entry = [e \in Entries |-> [state |-> "none", billable |-> TRUE, line |-> NoInvoice]]
    /\ invoice = [i \in Invoices |-> [status |-> "none", bills |-> {}]]
    /\ tab = [t \in Tabs |-> [rows |-> entry, ticked |-> {}]]
    /\ call = [t \in Tabs |-> NoCall]
    /\ excused = {}
    /\ spent = [steps |-> 0, crashes |-> 0]

-----------------------------------------------------------------------------
(* The page.                                                               *)

\* The page opens: two running entries make get_running_entry, and the page, fail.
Visit(t) ==
    /\ call[t] = NoCall /\ Cardinality(Running(entry)) <= 1
    /\ tab' = [tab EXCEPT ![t] = [rows |-> entry, ticked |-> {}]]
    /\ UNCHANGED <<pacing, entry, invoice, call, excused, spent>>

\* toggleOne.  A ticked row stays ticked when it is no longer selectable.
Tick(t, e) ==
    /\ Selectable(tab[t].rows[e])
    /\ tab' = [tab EXCEPT ![t].ticked =
                 IF e \in @ THEN @ \ {e} ELSE @ \cup {e}]
    /\ UNCHANGED <<pacing, entry, invoice, call, excused, spent>>

\* toggleAll.
TickAll(t) ==
    LET all == {e \in Entries : Selectable(tab[t].rows[e])} IN
    /\ all # {}
    /\ tab' = [tab EXCEPT ![t].ticked = IF all \subseteq @ THEN {} ELSE all]
    /\ UNCHANGED <<pacing, entry, invoice, call, excused, spent>>

\* A tab has one request at a time; in the serial pacing the whole agency has.
Ring(t, op, what, billable) ==
    /\ call[t] = NoCall
    /\ pacing = "serial" => \A u \in Tabs : call[u] = NoCall
    /\ spent.steps < MaxSteps /\ spent' = [spent EXCEPT !.steps = @ + 1]
    /\ call' = [call EXCEPT ![t] =
                 [op |-> op, at |-> "sent", what |-> what, billable |-> billable,
                  draft |-> NoInvoice]]
    /\ UNCHANGED <<pacing, entry, invoice, tab, excused>>

\* TimerWidget: start without a timer, stop the one it shows.
StartTimer(t, e) ==
    /\ Running(tab[t].rows) = {} /\ entry[e].state = "none"
    /\ \A u \in Tabs : e \notin call[u].what
    /\ Ring(t, "start", {e}, TRUE)

StopTimer(t, e) == e \in Running(tab[t].rows) /\ Ring(t, "stop", {e}, FALSE)

EditEntry(t, e, billable) ==
    /\ tab[t].rows[e].state = "stopped" /\ tab[t].rows[e].line = NoInvoice
    /\ billable # tab[t].rows[e].billable
    /\ Ring(t, "edit", {e}, billable)

DeleteEntry(t, e) ==
    /\ e \in Existing(tab[t].rows) /\ tab[t].rows[e].line = NoInvoice
    /\ Ring(t, "delete", {e}, FALSE)

\* handleGenerateInvoice: what is ticked, selectable or not.
GenerateInvoice(t) == tab[t].ticked # {} /\ Ring(t, "bill", tab[t].ticked, FALSE)

-----------------------------------------------------------------------------
(* The API.                                                                *)

\* Defect: nobody looks whether an entry has been billed.
NeverBilled(e) == TRUE

NotInvoiced(e) == entry[e].line = NoInvoice

\* Defect: a second timer may be started.
AnyTimer == TRUE

NoTimerRuns == Running(entry) = {}

Allowed(c) ==
    CASE c.op = "start" -> NoTimerRuns
      [] c.op = "stop"  -> c.what \subseteq Running(entry)
      [] c.op \in {"edit", "delete"} -> \A e \in c.what : e \in Existing(entry) /\ NotInvoiced(e)
      [] OTHER -> \A e \in c.what : entry[e].state = "stopped" /\ NotInvoiced(e)

\* Other billing requests that have looked at an entry, and may yet mark it.
RacesFor(t, e) ==
    \E u \in Tabs \ {t} : call[u].op = "bill" /\ call[u].at # "sent" /\ e \in call[u].what

\* The request loads its rows and checks them.
Check(t) ==
    /\ call[t].op # "none" /\ call[t].at = "sent"
    /\ IF Allowed(call[t])
       THEN /\ call' = [call EXCEPT ![t].at = "checked"]
            /\ excused' = excused \cup
                 (IF call[t].op = "bill" THEN {e \in call[t].what : RacesFor(t, e)} ELSE {})
       ELSE call' = [call EXCEPT ![t] = NoCall] /\ UNCHANGED excused
    /\ UNCHANGED <<pacing, entry, invoice, tab, spent>>

\* The entry as start, stop, edit and delete leave it.
Changed(c, r) ==
    CASE c.op = "start"  -> [r EXCEPT !.state = "running"]
      [] c.op = "stop"   -> [r EXCEPT !.state = "stopped"]
      [] c.op = "edit"   -> [r EXCEPT !.billable = c.billable]
      [] OTHER           -> [r EXCEPT !.state = "deleted"]

\* The refresh that answers a timer's or a table's action, unless the page fails.
Rerendered(t, rows, ticked) ==
    tab' = IF Cardinality(Running(rows)) <= 1
           THEN [tab EXCEPT ![t] = [rows |-> rows, ticked |-> ticked]] ELSE tab

\* An UPDATE or DELETE of a row that is gone fails.
Write(t) ==
    LET c == call[t] IN
    /\ c.op \notin {"none", "bill"} /\ c.at = "checked"
    /\ IF c.op = "start" \/ c.what \subseteq Existing(entry)
       THEN /\ entry' = [e \in Entries |-> IF e \in c.what THEN Changed(c, entry[e]) ELSE entry[e]]
            /\ Rerendered(t, entry',
                          IF c.op = "delete" THEN tab[t].ticked \ c.what ELSE tab[t].ticked)
       ELSE UNCHANGED <<entry, tab>>
    /\ call' = [call EXCEPT ![t] = NoCall]
    /\ UNCHANGED <<pacing, invoice, excused, spent>>

\* create_invoice_from_entries, up to the commit of create_invoice.
Draft(t, i) ==
    /\ call[t].op = "bill" /\ call[t].at = "checked"
    /\ invoice[i].status = "none"
    /\ invoice' = [invoice EXCEPT ![i] = [status |-> "draft", bills |-> call[t].what]]
    /\ call' = [call EXCEPT ![t].at = "drafted", ![t].draft = i]
    /\ UNCHANGED <<pacing, entry, tab, excused, spent>>

\* The draft's lines are read back and the entries marked with them.  The marking fails
\* when an entry has been deleted, or the lines do not match; the page stays as it is then.
\* Otherwise the browser goes to the invoice, and the page is left.
Mark(t) ==
    LET c == call[t]
        works == c.what \subseteq Existing(entry) /\ invoice[c.draft].bills = c.what
    IN
    /\ c.op = "bill" /\ c.at = "drafted"
    /\ entry' = [e \in Entries |-> IF works /\ e \in c.what
                                   THEN [entry[e] EXCEPT !.line = c.draft] ELSE entry[e]]
    /\ Rerendered(t, IF works THEN entry' ELSE tab[t].rows, IF works THEN {} ELSE tab[t].ticked)
    /\ excused' = IF works THEN excused ELSE excused \cup c.what
    /\ call' = [call EXCEPT ![t] = NoCall]
    /\ UNCHANGED <<pacing, invoice, spent>>

\* The API dies between the two commits.
Crash(t) ==
    /\ call[t].op = "bill" /\ call[t].at = "drafted"
    /\ spent.crashes < MaxCrashes /\ spent' = [spent EXCEPT !.crashes = @ + 1]
    /\ excused' = excused \cup call[t].what
    /\ call' = [call EXCEPT ![t] = NoCall]
    /\ UNCHANGED <<pacing, entry, invoice, tab>>

-----------------------------------------------------------------------------
(* The invoice.                                                            *)

\* Defect: deleting a line leaves the mark on the entry.
StillMarked(i, e) == entry[e]

\* ON DELETE SET NULL.
Freed(i, e) == IF entry[e].line = i THEN [entry[e] EXCEPT !.line = NoInvoice] ELSE entry[e]

\* Every edit of a draft deletes its lines and inserts those of the form (_replace_line_items).
EditDraft(i, kept) ==
    /\ pacing = "overlap" \/ \A u \in Tabs : call[u] = NoCall
    /\ invoice[i].status = "draft" /\ kept \subseteq invoice[i].bills
    /\ invoice' = [invoice EXCEPT ![i].bills = kept]
    /\ entry' = [e \in Entries |-> Freed(i, e)]
    /\ excused' = excused \cup kept
    /\ UNCHANGED <<pacing, tab, call, spent>>

DeleteDraft(i) ==
    /\ pacing = "overlap" \/ \A u \in Tabs : call[u] = NoCall
    /\ invoice[i].status = "draft"
    /\ invoice' = [invoice EXCEPT ![i] = [status |-> "deleted", bills |-> {}]]
    /\ entry' = [e \in Entries |-> Freed(i, e)]
    /\ UNCHANGED <<pacing, tab, call, excused, spent>>

IssueInvoice(i) ==
    /\ invoice[i].status = "draft"
    /\ invoice' = [invoice EXCEPT ![i].status = "issued"]
    /\ UNCHANGED <<pacing, entry, tab, call, excused, spent>>

\* The lines stay, and so do the marks.
VoidInvoice(i) ==
    /\ invoice[i].status = "issued"
    /\ invoice' = [invoice EXCEPT ![i].status = "void"]
    /\ UNCHANGED <<pacing, entry, tab, call, excused, spent>>

TimeNext ==
    \/ \E t \in Tabs :
        \/ Visit(t) \/ TickAll(t) \/ GenerateInvoice(t)
        \/ Check(t) \/ Write(t) \/ Mark(t) \/ Crash(t)
        \/ \E i \in Invoices : Draft(t, i)
        \/ \E e \in Entries :
            \/ Tick(t, e) \/ StartTimer(t, e) \/ StopTimer(t, e) \/ DeleteEntry(t, e)
            \/ \E b \in BOOLEAN : EditEntry(t, e, b)
    \/ \E i \in Invoices :
        \/ DeleteDraft(i) \/ IssueInvoice(i) \/ VoidInvoice(i)
        \/ \E kept \in SUBSET Entries : EditDraft(i, kept)

TimeSpec == TimeInit /\ [][TimeNext]_timeVars

-----------------------------------------------------------------------------
(* Properties.                                                             *)

\* "A user has at most one running timer at a time" (time_tracking/service.py): stale
\* pages and repeated clicks never start a second one, unless requests overlap.
OneTimer == pacing = "serial" => Cardinality(Running(entry)) <= 1

\* "then locks each entry to that line item so it can't be billed twice"
\* (create_invoice_from_entries): an entry is on two invoices that stand only if two
\* requests raced for it, one broke off between its commits, or a draft was edited.
NeverBilledTwice ==
    \A e \in Entries :
        Cardinality({i \in Live : e \in invoice[i].bills}) > 1 => e \in excused

\* An entry is never locked to an invoice that does not bill it, where nobody could
\* bill it again, whatever happened to the invoice before and after the marking.
LockedIsBilled ==
    \A e \in Entries : entry[e].line # NoInvoice => e \in invoice[entry[e].line].bills

\* "an invoiced entry is locked" (models.py): without overlapping requests it changes
\* only by being freed, however old the page that asks for a change.
LockedIsFrozen ==
    [][\A e \in Entries :
         pacing = "serial" /\ entry[e].line # NoInvoice =>
            /\ entry'[e].state = entry[e].state
            /\ entry'[e].billable = entry[e].billable]_timeVars

\* "so it can't be billed twice" (create_invoice_from_entries): no time is on two invoices
\* that stand.
BilledOnce == \A e \in Entries : Cardinality({i \in Live : e \in invoice[i].bills}) <= 1
=============================================================================
