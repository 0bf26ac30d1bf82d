---------------------------- MODULE StaffProofs -----------------------------
(***************************************************************************)
(* Proofs about the staff's time and sessions: TimeTracking (what is locked *)
(* is billed, what is billed stays, nothing is billed twice that no        *)
(* disturbance has excused, and one timer runs) and WebSession (a signed in *)
(* browser keeps a token the API will trade, and racing requests never look *)
(* like a replay), for any number of tabs, entries, browsers and tokens.   *)
(*                                                                         *)
(* The inductive invariant of the sessions says who holds which token:     *)
(* every token in a jar or a trade belongs to one browser; the token an    *)
(* answer brings is held by nobody else, so nobody can have spent it; and  *)
(* a jar's token is spent only while the trade that spent it is still to   *)
(* be answered.                                                            *)
(***************************************************************************)
EXTENDS TimeTracking, WebSession, FiniteSetTheorems, TLAPS

-----------------------------------------------------------------------------
(* Time tracking.                                                          *)

USE TimeAssumption DEF TimeAssumption

-----------------------------------------------------------------------------
(* Types.                                                                  *)

LEMMA TimeInitTypes == TimeInit => TimeTypeOK
<1>. SUFFICES ASSUME TimeInit  PROVE TimeTypeOK
  OBVIOUS
<1>. QED
  BY DEF TimeInit, TimeTypeOK, Rows, Calls, NoCall

\* A request gets on, and gets its draft.
LEMMA CallFields ==
    ASSUME NEW c \in Calls
    PROVE  /\ \A x \in {"checked", "drafted"} : [c EXCEPT !.at = x] \in Calls
           /\ \A x \in Invoices : [c EXCEPT !.draft = x] \in Calls
BY DEF Calls

LEMMA IdleCallType == NoCall \in Calls /\ NoCall.op = "none" /\ NoCall.at = "sent"
BY DEF NoCall, Calls

\* What a request that is sent does to the state.
Rung(t, c) ==
    /\ call[t] = NoCall /\ call' = [call EXCEPT ![t] = c]
    /\ c \in Calls /\ c.at = "sent" /\ c.op # "none"
    /\ c.op = "start" => \E e \in Entries : c.what = {e} /\ entry[e].state = "none"
    /\ pacing = "serial" => \A u \in Tabs : call[u] = NoCall
    /\ spent' \in [steps: 0 .. MaxSteps, crashes: 0 .. MaxCrashes]
    /\ UNCHANGED <<pacing, entry, invoice, tab, excused>>

LEMMA RingEffect ==
    ASSUME TimeTypeOK, NEW t \in Tabs, NEW op \in {"start", "stop", "edit", "delete", "bill"},
           NEW what \in SUBSET Entries, NEW b \in BOOLEAN, Ring(t, op, what, b),
           op = "start" => \E e \in Entries : what = {e} /\ entry[e].state = "none"
    PROVE  \E c : Rung(t, c)
<1>. DEFINE c == [op |-> op, at |-> "sent", what |-> what, billable |-> b, draft |-> NoInvoice]
<1>2. c \in Calls /\ c.at = "sent" /\ c.op = op /\ c.what = what
  BY DEF Calls
<1>3. spent' \in [steps: 0 .. MaxSteps, crashes: 0 .. MaxCrashes]
  BY DEF Ring, TimeTypeOK
<1>4. Rung(t, c)
  BY <1>2, <1>3 DEF Ring, Rung
<1>. QED
  BY <1>4

\* The five requests of a tab.
SendsOff(t) ==
    \/ GenerateInvoice(t)
    \/ \E e \in Entries :
        \/ StartTimer(t, e) \/ StopTimer(t, e) \/ DeleteEntry(t, e)
        \/ \E b \in BOOLEAN : EditEntry(t, e, b)

LEMMA SendsOffEffect ==
    ASSUME TimeTypeOK, NEW t \in Tabs, SendsOff(t)
    PROVE  \E c : Rung(t, c)
<1>1. CASE GenerateInvoice(t)
  <2>1. tab[t].ticked \in SUBSET Entries
    BY DEF TimeTypeOK
  <2>. QED
    BY <1>1, <2>1, RingEffect DEF GenerateInvoice
<1>2. ASSUME NEW e \in Entries, StartTimer(t, e)  PROVE \E c : Rung(t, c)
  <2>1. {e} \in SUBSET Entries /\ entry[e].state = "none" /\ Ring(t, "start", {e}, TRUE)
    BY <1>2 DEF StartTimer
  <2>. QED
    BY <2>1, RingEffect
<1>3. ASSUME NEW e \in Entries, StopTimer(t, e)  PROVE \E c : Rung(t, c)
  <2>1. {e} \in SUBSET Entries /\ Ring(t, "stop", {e}, FALSE)
    BY <1>3 DEF StopTimer
  <2>. QED
    BY <2>1, RingEffect
<1>4. ASSUME NEW e \in Entries, DeleteEntry(t, e)  PROVE \E c : Rung(t, c)
  <2>1. {e} \in SUBSET Entries /\ Ring(t, "delete", {e}, FALSE)
    BY <1>4 DEF DeleteEntry
  <2>. QED
    BY <2>1, RingEffect
<1>5. ASSUME NEW e \in Entries, NEW b \in BOOLEAN, EditEntry(t, e, b)  PROVE \E c : Rung(t, c)
  <2>1. {e} \in SUBSET Entries /\ Ring(t, "edit", {e}, b)
    BY <1>5 DEF EditEntry
  <2>. QED
    BY <2>1, RingEffect
<1>. QED
  BY <1>1, <1>2, <1>3, <1>4, <1>5 DEF SendsOff

\* The three of the page.
Looks(t) == Visit(t) \/ TickAll(t) \/ \E e \in Entries : Tick(t, e)

LEMMA LookTypes ==
    ASSUME TimeTypeOK, NEW t \in Tabs, Looks(t)
    PROVE  TimeTypeOK' /\ UNCHANGED <<pacing, entry, invoice, call, excused, spent>>
<1>1. UNCHANGED <<pacing, entry, invoice, call, excused, spent>>
  BY DEF Looks, Visit, TickAll, Tick
<1>2. tab' \in [Tabs -> [rows: [Entries -> Rows], ticked: SUBSET Entries]]
  <2>. DEFINE T == [rows: [Entries -> Rows], ticked: SUBSET Entries]
  <2>1. [rows |-> entry, ticked |-> {}] \in T /\ tab[t] \in T
    BY DEF TimeTypeOK
  <2>2. \A S \in SUBSET Entries : [tab[t] EXCEPT !.ticked = S] \in T
    BY <2>1
  <2>3. CASE Visit(t)
    BY <2>1, <2>3 DEF Visit, TimeTypeOK
  <2>4. CASE TickAll(t)
    <3>. DEFINE all == {e \in Entries : Selectable(tab[t].rows[e])}
    <3>1. (IF all \subseteq tab[t].ticked THEN {} ELSE all) \in SUBSET Entries
      OBVIOUS
    <3>2. tab' = [tab EXCEPT ![t] = [tab[t] EXCEPT !.ticked =
                                       IF all \subseteq tab[t].ticked THEN {} ELSE all]]
      BY <2>4 DEF TickAll
    <3>. HIDE DEF all
    <3>. QED
      BY <2>2, <3>1, <3>2 DEF TimeTypeOK
  <2>5. ASSUME NEW e \in Entries, Tick(t, e)
        PROVE  tab' \in [Tabs -> T]
    <3>. DEFINE S == IF e \in tab[t].ticked THEN tab[t].ticked \ {e} ELSE tab[t].ticked \cup {e}
    <3>1. S \in SUBSET Entries
      BY DEF TimeTypeOK
    <3>2. tab' = [tab EXCEPT ![t] = [tab[t] EXCEPT !.ticked = S]]
      BY <2>5 DEF Tick
    <3>. HIDE DEF S
    <3>. QED
      BY <2>2, <3>1, <3>2 DEF TimeTypeOK
  <2>. QED
    BY <2>3, <2>4, <2>5 DEF Looks
<1>. QED
  BY <1>1, <1>2 DEF TimeTypeOK

LEMMA RungTypes ==
    ASSUME TimeTypeOK, NEW t \in Tabs, NEW c, Rung(t, c)
    PROVE  TimeTypeOK'
BY DEF TimeTypeOK, Rung

LEMMA CheckTypes == ASSUME TimeTypeOK, NEW t \in Tabs, Check(t) PROVE TimeTypeOK'
<1>1. call' \in [Tabs -> Calls]
  <2>1. call[t] \in Calls
    BY DEF TimeTypeOK
  <2>2. [call[t] EXCEPT !.at = "checked"] \in Calls
    BY <2>1, CallFields
  <2>. QED
    BY <2>2, IdleCallType DEF Check, TimeTypeOK
<1>2. excused' \in SUBSET Entries
  BY DEF Check, TimeTypeOK, Calls
<1>. QED
  BY <1>1, <1>2 DEF TimeTypeOK, Check

LEMMA RerenderedTypes ==
    ASSUME TimeTypeOK, NEW t \in Tabs, NEW rows \in [Entries -> Rows],
           NEW ticked \in SUBSET Entries, Rerendered(t, rows, ticked)
    PROVE  tab' \in [Tabs -> [rows: [Entries -> Rows], ticked: SUBSET Entries]]
BY DEF Rerendered, TimeTypeOK

LEMMA WriteTypes == ASSUME TimeTypeOK, NEW t \in Tabs, Write(t) PROVE TimeTypeOK'
<1>. DEFINE c == call[t]
<1>1. c \in Calls /\ call' \in [Tabs -> Calls]
  BY IdleCallType DEF Write, TimeTypeOK
<1>2. \A r \in Rows : Changed(c, r) \in Rows
  BY <1>1 DEF Changed, Rows, Calls
<1>3. entry' \in [Entries -> Rows] /\ tab' \in [Tabs -> [rows: [Entries -> Rows], ticked: SUBSET Entries]]
  <2>1. CASE c.op = "start" \/ c.what \subseteq Existing(entry)
    <3>1. entry' = [e \in Entries |-> IF e \in c.what THEN Changed(c, entry[e]) ELSE entry[e]]
      BY <2>1 DEF Write
    <3>2. entry' \in [Entries -> Rows]
      BY <1>2, <3>1 DEF TimeTypeOK
    <3>3. (IF c.op = "delete" THEN tab[t].ticked \ c.what ELSE tab[t].ticked) \in SUBSET Entries
      BY DEF TimeTypeOK
    <3>4. Rerendered(t, entry', IF c.op = "delete" THEN tab[t].ticked \ c.what ELSE tab[t].ticked)
      BY <2>1 DEF Write
    <3>. QED
      BY <3>2, <3>3, <3>4, RerenderedTypes
  <2>2. CASE ~(c.op = "start" \/ c.what \subseteq Existing(entry))
    BY <2>2 DEF Write, TimeTypeOK
  <2>. QED
    BY <2>1, <2>2
<1>. QED
  BY <1>1, <1>3 DEF TimeTypeOK, Write

LEMMA DraftTypes ==
    ASSUME TimeTypeOK, NEW t \in Tabs, NEW i \in Invoices, Draft(t, i)
    PROVE  TimeTypeOK'
<1>1. call' \in [Tabs -> Calls]
  <2>. DEFINE c1 == [call[t] EXCEPT !.at = "drafted"]
  <2>1. c1 \in Calls
    BY CallFields DEF TimeTypeOK
  <2>2. [c1 EXCEPT !.draft = i] \in Calls
    BY <2>1, CallFields
  <2>3. call' = [call EXCEPT ![t] = [c1 EXCEPT !.draft = i]]
    BY DEF Draft, TimeTypeOK
  <2>. QED
    BY <2>2, <2>3 DEF TimeTypeOK
<1>2. invoice' \in [Invoices -> [status: {"none", "draft", "issued", "void", "deleted"},
                                bills: SUBSET Entries]]
  BY DEF Draft, TimeTypeOK, Calls
<1>. QED
  BY <1>1, <1>2 DEF TimeTypeOK, Draft

LEMMA MarkTypes == ASSUME TimeTypeOK, NEW t \in Tabs, Mark(t) PROVE TimeTypeOK'
<1>. DEFINE c == call[t]
            works == c.what \subseteq Existing(entry) /\ invoice[c.draft].bills = c.what
<1>1. c \in Calls /\ call' \in [Tabs -> Calls]
  BY IdleCallType DEF Mark, TimeTypeOK
<1>2. \A r \in Rows : [r EXCEPT !.line = c.draft] \in Rows
  BY <1>1 DEF Rows, Calls
<1>3. entry' = [e \in Entries |-> IF works /\ e \in c.what
                                 THEN [entry[e] EXCEPT !.line = c.draft] ELSE entry[e]]
  BY DEF Mark
<1>4. entry' \in [Entries -> Rows]
  BY <1>2, <1>3 DEF TimeTypeOK
<1>5. /\ (IF works THEN entry' ELSE tab[t].rows) \in [Entries -> Rows]
      /\ (IF works THEN {} ELSE tab[t].ticked) \in SUBSET Entries
  BY <1>4 DEF TimeTypeOK
<1>6. Rerendered(t, IF works THEN entry' ELSE tab[t].rows, IF works THEN {} ELSE tab[t].ticked)
  BY DEF Mark
<1>7. tab' \in [Tabs -> [rows: [Entries -> Rows], ticked: SUBSET Entries]]
  BY <1>5, <1>6, RerenderedTypes
<1>8. excused' \in SUBSET Entries
  BY <1>1 DEF Mark, TimeTypeOK, Calls
<1>. QED
  BY <1>1, <1>4, <1>7, <1>8 DEF TimeTypeOK, Mark

LEMMA CrashTypes == ASSUME TimeTypeOK, NEW t \in Tabs, Crash(t) PROVE TimeTypeOK'
<1>1. call' \in [Tabs -> Calls] /\ excused' \in SUBSET Entries
  BY IdleCallType DEF Crash, TimeTypeOK, Calls
<1>2. spent' \in [steps: 0 .. MaxSteps, crashes: 0 .. MaxCrashes]
  BY DEF Crash, TimeTypeOK
<1>. QED
  BY <1>1, <1>2 DEF TimeTypeOK, Crash

\* The four of the invoice.
Invoicing(i) ==
    \/ DeleteDraft(i) \/ IssueInvoice(i) \/ VoidInvoice(i)
    \/ \E kept \in SUBSET Entries : EditDraft(i, kept)

LEMMA FreedType ==
    ASSUME NEW i \in Invoices, NEW e \in Entries, entry[e] \in Rows
    PROVE  Freed(i, e) \in Rows
<1>1. [entry[e] EXCEPT !.line = NoInvoice] \in Rows
  BY DEF Rows
<1>. QED
  BY <1>1 DEF Freed

LEMMA InvoicingTypes ==
    ASSUME TimeTypeOK, NEW i \in Invoices, Invoicing(i)
    PROVE  TimeTypeOK'
<1>0. \A e \in Entries : entry[e] \in Rows
  BY DEF TimeTypeOK
<1>1. \A e \in Entries : Freed(i, e) \in Rows
  BY <1>0, FreedType
<1>2. entry' \in [Entries -> Rows]
  BY <1>1 DEF Invoicing, DeleteDraft, IssueInvoice, VoidInvoice, EditDraft, TimeTypeOK
<1>3. invoice' \in [Invoices -> [status: {"none", "draft", "issued", "void", "deleted"},
                                bills: SUBSET Entries]]
  BY DEF Invoicing, DeleteDraft, IssueInvoice, VoidInvoice, EditDraft, TimeTypeOK
<1>4. excused' \in SUBSET Entries /\ UNCHANGED <<pacing, tab, call, spent>>
  BY DEF Invoicing, DeleteDraft, IssueInvoice, VoidInvoice, EditDraft, TimeTypeOK
<1>. QED
  BY <1>2, <1>3, <1>4 DEF TimeTypeOK

-----------------------------------------------------------------------------
(* What each step does to requests, marks and bills.                       *)

\* A call that is over, or has got on.
LEMMA CheckEffect ==
    ASSUME TimeTypeOK, NEW t \in Tabs, Check(t)
    PROVE  /\ call[t].op # "none" /\ call[t].at = "sent"
           /\ UNCHANGED <<pacing, entry, invoice>>
           /\ \A u \in Tabs : u # t => call'[u] = call[u]
           /\ \/ call'[t] = NoCall /\ excused' = excused
              \/ /\ Allowed(call[t])
                 /\ call'[t].at = "checked" /\ call'[t].op = call[t].op
                 /\ call'[t].what = call[t].what /\ call'[t].draft = call[t].draft
                 /\ excused' = excused \cup
                      (IF call[t].op = "bill" THEN {e \in call[t].what : RacesFor(t, e)} ELSE {})
<1>1. call[t] \in Calls
  BY DEF TimeTypeOK
<1>2. CASE Allowed(call[t])
  <2>1. call' = [call EXCEPT ![t] = [call[t] EXCEPT !.at = "checked"]]
    BY <1>2 DEF Check
  <2>2. /\ call'[t].at = "checked" /\ call'[t].op = call[t].op
        /\ call'[t].what = call[t].what /\ call'[t].draft = call[t].draft
    BY <1>1, <2>1 DEF TimeTypeOK, Calls
  <2>. QED
    BY <1>2, <2>1, <2>2 DEF Check, TimeTypeOK
<1>3. CASE ~Allowed(call[t])
  BY <1>3 DEF Check, TimeTypeOK
<1>. QED
  BY <1>2, <1>3

LEMMA WriteEffect ==
    ASSUME TimeTypeOK, NEW t \in Tabs, Write(t)
    PROVE  /\ call[t].op \notin {"none", "bill"} /\ call[t].at = "checked"
           /\ UNCHANGED <<pacing, invoice, excused>>
           /\ call' = [call EXCEPT ![t] = NoCall]
           /\ \A e \in Entries : entry'[e].line = entry[e].line
           /\ \A e \in Entries : e \notin call[t].what => entry'[e] = entry[e]
           /\ \A e \in call[t].what :
                \/ entry'[e] = entry[e]
                \/ entry'[e].state = CASE call[t].op = "start" -> "running"
                                       [] call[t].op = "stop"  -> "stopped"
                                       [] call[t].op = "edit"  -> entry[e].state
                                       [] OTHER -> "deleted"
<1>. DEFINE c == call[t]
<1>1. \A e \in Entries : entry[e] \in Rows
  BY DEF TimeTypeOK
<1>2. \A r \in Rows : /\ Changed(c, r).line = r.line
                      /\ Changed(c, r).state = CASE c.op = "start" -> "running"
                                                 [] c.op = "stop"  -> "stopped"
                                                 [] c.op = "edit"  -> r.state
                                                 [] OTHER -> "deleted"
  BY DEF Changed, Rows
<1>3. c.what \subseteq Entries
  BY DEF TimeTypeOK, Calls
<1>4. CASE c.op = "start" \/ c.what \subseteq Existing(entry)
  <2>1. entry' = [e \in Entries |-> IF e \in c.what THEN Changed(c, entry[e]) ELSE entry[e]]
    BY <1>4 DEF Write
  <2>2. \A e \in Entries : entry'[e] = IF e \in c.what THEN Changed(c, entry[e]) ELSE entry[e]
    BY <2>1
  <2>. QED
    BY <1>1, <1>2, <1>3, <2>2 DEF Write
<1>5. CASE ~(c.op = "start" \/ c.what \subseteq Existing(entry))
  BY <1>3, <1>5 DEF Write
<1>. QED
  BY <1>4, <1>5

LEMMA DraftEffect ==
    ASSUME TimeTypeOK, NEW t \in Tabs, NEW i \in Invoices, Draft(t, i)
    PROVE  /\ call[t].op = "bill" /\ call[t].at = "checked" /\ invoice[i].status = "none"
           /\ UNCHANGED <<pacing, entry, excused>>
           /\ \A u \in Tabs : u # t => call'[u] = call[u]
           /\ call'[t].op = "bill" /\ call'[t].at = "drafted" /\ call'[t].draft = i
           /\ call'[t].what = call[t].what
           /\ invoice'[i].status = "draft" /\ invoice'[i].bills = call[t].what
           /\ \A j \in Invoices : j # i => invoice'[j] = invoice[j]
<1>1. call[t] \in Calls
  BY DEF TimeTypeOK
<1>. DEFINE c1 == [call[t] EXCEPT !.at = "drafted"]
<1>2. c1 \in Calls /\ c1.op = call[t].op /\ c1.what = call[t].what /\ c1.at = "drafted"
  BY <1>1 DEF Calls
<1>3. call' = [call EXCEPT ![t] = [c1 EXCEPT !.draft = i]]
  BY DEF Draft, TimeTypeOK
<1>. HIDE DEF c1
<1>4. /\ call'[t].op = "bill" /\ call'[t].at = "drafted" /\ call'[t].draft = i
      /\ call'[t].what = call[t].what
  BY <1>2, <1>3 DEF Draft, TimeTypeOK, Calls
<1>. QED
  BY <1>3, <1>4 DEF Draft, TimeTypeOK

LEMMA MarkEffect ==
    ASSUME TimeTypeOK, NEW t \in Tabs, Mark(t)
    PROVE  /\ call[t].op = "bill" /\ call[t].at = "drafted"
           /\ UNCHANGED <<pacing, invoice>>
           /\ call' = [call EXCEPT ![t] = NoCall]
           /\ \A e \in Entries : entry'[e].state = entry[e].state
           /\ \A e \in Entries : entry'[e].billable = entry[e].billable
           /\ \A e \in Entries : e \notin call[t].what => entry'[e] = entry[e]
           /\ \/ /\ invoice[call[t].draft].bills = call[t].what
                 /\ excused' = excused
                 /\ \A e \in call[t].what : entry'[e].line = call[t].draft
              \/ entry' = entry /\ excused' = excused \cup call[t].what
<1>. DEFINE c == call[t]
            works == c.what \subseteq Existing(entry) /\ invoice[c.draft].bills = c.what
<1>1. c \in Calls /\ c.what \subseteq Entries
  BY DEF TimeTypeOK, Calls
<1>2. \A r \in Rows : /\ [r EXCEPT !.line = c.draft].state = r.state
                      /\ [r EXCEPT !.line = c.draft].billable = r.billable
                      /\ [r EXCEPT !.line = c.draft].line = c.draft
  BY DEF Rows
<1>3. \A e \in Entries : entry[e] \in Rows
  BY DEF TimeTypeOK
<1>4. entry' = [e \in Entries |-> IF works /\ e \in c.what
                                 THEN [entry[e] EXCEPT !.line = c.draft] ELSE entry[e]]
  BY DEF Mark
<1>5. c.op = "bill" /\ c.at = "drafted" /\ UNCHANGED <<pacing, invoice>> /\ call' = [call EXCEPT ![t] = NoCall]
  BY DEF Mark
<1>6. CASE works
  <2>1. \A e \in Entries : entry'[e] = IF e \in c.what THEN [entry[e] EXCEPT !.line = c.draft] ELSE entry[e]
    BY <1>4, <1>6
  <2>2. excused' = excused
    BY <1>6 DEF Mark
  <2>. QED
    BY <1>1, <1>2, <1>3, <1>5, <1>6, <2>1, <2>2
<1>7. CASE ~works
  <2>1. entry' = [e \in Entries |-> entry[e]]
    BY <1>4, <1>7
  <2>2. entry' = entry
    BY <2>1 DEF TimeTypeOK
  <2>3. excused' = excused \cup c.what
    BY <1>7 DEF Mark
  <2>. QED
    BY <1>5, <2>2, <2>3
<1>. QED
  BY <1>6, <1>7

\* Entries on an invoice whose lines are replaced or deleted are freed.
LEMMA InvoicingEffect ==
    ASSUME TimeTypeOK, NEW i \in Invoices, Invoicing(i)
    PROVE  /\ UNCHANGED <<pacing, call>> /\ excused \subseteq excused'
           /\ \A j \in Invoices : j # i => invoice'[j] = invoice[j]
           /\ invoice[i].status # "none" /\ invoice'[i].status # "none"
           /\ invoice'[i].status \in {"draft", "issued"} => invoice[i].status \in {"draft", "issued"}
           /\ \A e \in Entries : /\ entry'[e].state = entry[e].state
                                 /\ entry'[e].billable = entry[e].billable
           /\ \/ invoice'[i].bills = invoice[i].bills /\ entry' = entry
              \/ /\ invoice'[i].bills \subseteq invoice[i].bills
                 /\ invoice'[i].status = "draft" => invoice'[i].bills \subseteq excused'
                 /\ invoice'[i].status \in {"draft", "deleted"}
                 /\ \A e \in Entries : entry'[e].line = IF entry[e].line = i THEN NoInvoice
                                                         ELSE entry[e].line
<1>. DEFINE freed == [e \in Entries |-> Freed(i, e)]
<1>0. \A e \in Entries : entry[e] \in Rows
  BY DEF TimeTypeOK
<1>1. \A e \in Entries : /\ freed[e].line = IF entry[e].line = i THEN NoInvoice ELSE entry[e].line
                         /\ freed[e].state = entry[e].state
                         /\ freed[e].billable = entry[e].billable
  BY <1>0 DEF Freed, Rows
<1>. HIDE DEF freed
<1>2. CASE DeleteDraft(i)
  <2>1. entry' = freed
    BY <1>2 DEF DeleteDraft, freed
  <2>. QED
    BY <1>1, <1>2, <2>1 DEF DeleteDraft, TimeTypeOK
<1>3. CASE IssueInvoice(i)
  BY <1>3 DEF IssueInvoice, TimeTypeOK
<1>4. CASE VoidInvoice(i)
  BY <1>4 DEF VoidInvoice, TimeTypeOK
<1>5. ASSUME NEW kept \in SUBSET Entries, EditDraft(i, kept)
      PROVE  /\ UNCHANGED <<pacing, call>> /\ excused' = excused \cup kept
             /\ \A j \in Invoices : j # i => invoice'[j] = invoice[j]
             /\ invoice[i].status = "draft" /\ invoice'[i].status = "draft"
             /\ invoice'[i].bills = kept /\ kept \subseteq invoice[i].bills
             /\ entry' = freed
  BY <1>5 DEF EditDraft, TimeTypeOK, freed
<1>. QED
  BY <1>1, <1>2, <1>3, <1>4, <1>5 DEF Invoicing

\* The steps, one by one.
LEMMA TimeSteps ==
    ASSUME TimeNext
    PROVE  \/ \E t \in Tabs : \/ Looks(t) \/ SendsOff(t)
                              \/ Check(t) \/ Write(t) \/ Mark(t) \/ Crash(t)
                              \/ \E i \in Invoices : Draft(t, i)
           \/ \E i \in Invoices : Invoicing(i)
BY DEF TimeNext, Looks, SendsOff, Invoicing

LEMMA TypesKept == ASSUME TimeTypeOK, [TimeNext]_timeVars PROVE TimeTypeOK'
<1>1. CASE UNCHANGED timeVars
  BY <1>1 DEF timeVars, TimeTypeOK
<1>2. CASE TimeNext
  <2>1. ASSUME NEW t \in Tabs, Looks(t)  PROVE TimeTypeOK'
    BY <2>1, LookTypes
  <2>2. ASSUME NEW t \in Tabs, SendsOff(t)  PROVE TimeTypeOK'
    BY <2>2, SendsOffEffect, RungTypes
  <2>3. ASSUME NEW t \in Tabs, Check(t) \/ Write(t) \/ Mark(t) \/ Crash(t)  PROVE TimeTypeOK'
    BY <2>3, CheckTypes, WriteTypes, MarkTypes, CrashTypes
  <2>4. ASSUME NEW t \in Tabs, NEW i \in Invoices, Draft(t, i)  PROVE TimeTypeOK'
    BY <2>4, DraftTypes
  <2>5. ASSUME NEW i \in Invoices, Invoicing(i)  PROVE TimeTypeOK'
    BY <2>5, InvoicingTypes
  <2>. QED
    BY <1>2, <2>1, <2>2, <2>3, <2>4, <2>5, TimeSteps
<1>. QED
  BY <1>1, <1>2

-----------------------------------------------------------------------------
(* What is locked is billed.                                               *)

LockedInv ==
    /\ TimeTypeOK
    /\ LockedIsBilled
    /\ \A i \in Invoices : invoice[i].status = "none" => invoice[i].bills = {}

LEMMA LockedKept == ASSUME LockedInv, [TimeNext]_timeVars PROVE LockedInv'
<1>. USE DEF LockedInv
<1>1. TimeTypeOK'
  BY TypesKept
<1>2. ASSUME \A e \in Entries : entry'[e].line = entry[e].line, invoice' = invoice
      PROVE  LockedInv'
  BY <1>1, <1>2 DEF LockedIsBilled
<1>3. \A e \in Entries : entry[e].line \in Invoices \cup {NoInvoice}
  BY DEF TimeTypeOK, Rows
<1>4. CASE UNCHANGED timeVars
  BY <1>2, <1>4 DEF timeVars
<1>5. ASSUME NEW t \in Tabs, Looks(t) \/ Check(t) \/ Crash(t)  PROVE LockedInv'
  BY <1>2, <1>5, LookTypes, CheckEffect DEF Crash
<1>6. ASSUME NEW t \in Tabs, SendsOff(t)  PROVE LockedInv'
  BY <1>2, <1>6, SendsOffEffect DEF Rung
<1>7. ASSUME NEW t \in Tabs, Write(t)  PROVE LockedInv'
  BY <1>2, <1>7, WriteEffect
<1>8. ASSUME NEW t \in Tabs, NEW i \in Invoices, Draft(t, i)  PROVE LockedInv'
  BY <1>1, <1>3, <1>8, DraftEffect DEF LockedIsBilled
<1>9. ASSUME NEW t \in Tabs, Mark(t)  PROVE LockedInv'
  <2>1. call[t].what \subseteq Entries
    BY DEF TimeTypeOK, Calls
  <2>. QED
    BY <1>1, <1>9, <2>1, MarkEffect DEF LockedIsBilled
<1>10. ASSUME NEW i \in Invoices, Invoicing(i)  PROVE LockedInv'
  BY <1>1, <1>3, <1>10, InvoicingEffect DEF LockedIsBilled
<1>. QED
  BY <1>4, <1>5, <1>6, <1>7, <1>8, <1>9, <1>10, TimeSteps

\* Rows keep their states, calls their stages and invoices their statuses.
THEOREM TimeTypes == TimeSpec => []TimeTypeOK
BY TimeInitTypes, TypesKept, PTL DEF TimeSpec

\* create_invoice_from_entries and _replace_line_items never leave an entry locked to an
\* invoice that does not bill it, in whatever order billing and editing interleave and
\* wherever a request dies.
THEOREM LockedStaysBilled == TimeSpec => []LockedIsBilled
<1>1. TimeInit => LockedInv
  <2>1. TimeInit => \A e \in Entries : entry[e].line = NoInvoice
    BY DEF TimeInit
  <2>2. TimeInit => \A i \in Invoices : invoice[i].bills = {}
    BY DEF TimeInit
  <2>. QED
    BY <2>1, <2>2, TimeInitTypes DEF LockedInv, LockedIsBilled
<1>2. LockedInv => LockedIsBilled
  BY DEF LockedInv
<1>. QED
  BY <1>1, <1>2, LockedKept, PTL DEF TimeSpec

-----------------------------------------------------------------------------
(* Nothing is billed twice.                                                *)

\* The request of tab t has looked at entry e, and may yet mark it.
Past(t, e) == call[t].op = "bill" /\ call[t].at # "sent" /\ e \in call[t].what

Drafted(t, e, i) == Past(t, e) /\ call[t].at = "drafted" /\ call[t].draft = i

\* An invoice that stands and bills e has marked it, or the one request that is past the
\* check for e is about to.
Once(e) ==
    /\ \A i \in Live : e \in invoice[i].bills =>
         entry[e].line = i \/ \E t \in Tabs : Drafted(t, e, i)
    /\ \A t, u \in Tabs : Past(t, e) /\ Past(u, e) => t = u
    /\ \A t \in Tabs : Past(t, e) => entry[e].line = NoInvoice

OnceInv == TimeTypeOK /\ \A e \in Entries \ excused : Once(e)

\* Steps that leave marks, invoices and the requests past their check alone.
LEMMA OnceUndisturbed ==
    ASSUME NEW e, Once(e), entry'[e].line = entry[e].line, invoice' = invoice,
           \A t \in Tabs : Past(t, e)' <=> Past(t, e),
           \A t \in Tabs, i \in Invoices : Drafted(t, e, i) => Drafted(t, e, i)'
    PROVE  Once(e)'
BY DEF Once, Live

LEMMA OnceKept == ASSUME OnceInv, [TimeNext]_timeVars PROVE OnceInv'
<1>. USE DEF OnceInv
<1>1. TimeTypeOK'
  BY TypesKept
<1>2. CASE UNCHANGED timeVars
  BY <1>1, <1>2, OnceUndisturbed DEF timeVars, Past, Drafted
<1>3. ASSUME NEW t \in Tabs, Looks(t)  PROVE OnceInv'
  BY <1>1, <1>3, LookTypes, OnceUndisturbed DEF Past, Drafted
<1>4. ASSUME NEW t \in Tabs, SendsOff(t)  PROVE OnceInv'
  <2>1. PICK c : Rung(t, c)
    BY <1>4, SendsOffEffect
  <2>2. call[t] = NoCall /\ call'[t] = c /\ \A u \in Tabs : u # t => call'[u] = call[u]
    BY <2>1 DEF Rung, TimeTypeOK
  <2>3. \A e \in Entries : ~Past(t, e) /\ ~Past(t, e)'
    BY <2>1, <2>2, IdleCallType DEF Past, Rung
  <2>4. \A e \in Entries, u \in Tabs : Past(u, e)' <=> Past(u, e)
    BY <2>2, <2>3 DEF Past
  <2>5. \A e \in Entries, u \in Tabs, i \in Invoices : Drafted(u, e, i) => Drafted(u, e, i)'
    BY <2>2, <2>3, <2>4 DEF Drafted
  <2>. QED
    BY <1>1, <2>1, <2>4, <2>5, OnceUndisturbed DEF Rung
<1>5. ASSUME NEW t \in Tabs, Check(t)  PROVE OnceInv'
  <2>1. \A e \in Entries : ~Past(t, e)
    BY <1>5, CheckEffect DEF Past
  <2>2. ASSUME NEW e \in Entries \ excused'  PROVE Once(e)'
    <3>1. e \notin excused /\ Once(e)
      BY <1>5, CheckEffect
    <3>2. CASE Past(t, e)'
      <4>1. call[t].op = "bill" /\ e \in call[t].what /\ Allowed(call[t]) /\ ~RacesFor(t, e)
        BY <1>5, <3>2, CheckEffect, IdleCallType DEF Past
      <4>2. \A u \in Tabs : ~Past(u, e)
        BY <2>1, <4>1 DEF RacesFor, Past
      <4>3. entry[e].line = NoInvoice
        BY <4>1 DEF Allowed, NotInvoiced
      <4>4. \A i \in Live : e \notin invoice[i].bills
        BY <3>1, <4>2, <4>3 DEF Once, Drafted, Live
      <4>5. \A u \in Tabs : Past(u, e)' => u = t
        BY <1>5, <4>2, CheckEffect DEF Past
      <4>. QED
        BY <1>5, <4>3, <4>4, <4>5, CheckEffect DEF Once, Live
    <3>3. CASE ~Past(t, e)'
      <4>1. \A u \in Tabs : Past(u, e)' <=> Past(u, e)
        BY <1>5, <2>1, <3>3, CheckEffect DEF Past
      <4>2. \A u \in Tabs, i \in Invoices : Drafted(u, e, i) => Drafted(u, e, i)'
        BY <1>5, <2>1, <4>1, CheckEffect DEF Drafted
      <4>. QED
        BY <1>5, <3>1, <4>1, <4>2, CheckEffect, OnceUndisturbed
    <3>. QED
      BY <3>2, <3>3
  <2>. QED
    BY <1>1, <2>2
<1>6. ASSUME NEW t \in Tabs, Write(t)  PROVE OnceInv'
  <2>1. \A u \in Tabs : call'[u] = IF u = t THEN NoCall ELSE call[u]
    BY <1>6, WriteEffect DEF TimeTypeOK
  <2>2. \A e \in Entries : ~Past(t, e) /\ ~Past(t, e)'
    BY <1>6, <2>1, WriteEffect, IdleCallType DEF Past
  <2>3. \A e \in Entries, u \in Tabs : Past(u, e)' <=> Past(u, e)
    BY <2>1, <2>2 DEF Past
  <2>4. \A e \in Entries, u \in Tabs, i \in Invoices : Drafted(u, e, i) => Drafted(u, e, i)'
    BY <2>1, <2>2, <2>3 DEF Drafted
  <2>. QED
    BY <1>1, <1>6, <2>3, <2>4, WriteEffect, OnceUndisturbed
<1>7. ASSUME NEW t \in Tabs, NEW i \in Invoices, Draft(t, i)  PROVE OnceInv'
  <2>1. \A e \in Entries, u \in Tabs : Past(u, e)' <=> Past(u, e)
    BY <1>7, DraftEffect DEF Past
  <2>2. \A e \in Entries, u \in Tabs, j \in Invoices : Drafted(u, e, j) => Drafted(u, e, j)'
    BY <1>7, <2>1, DraftEffect DEF Drafted
  <2>3. i \notin Live /\ \A j \in Live' : j # i => j \in Live /\ invoice'[j] = invoice[j]
    BY <1>7, DraftEffect DEF Live
  <2>4. \A e \in invoice'[i].bills : Drafted(t, e, i)'
    BY <1>7, DraftEffect DEF Drafted, Past
  <2>. QED
    BY <1>1, <1>7, <2>1, <2>2, <2>3, <2>4, DraftEffect DEF Once, Live
<1>8. ASSUME NEW t \in Tabs, Mark(t)  PROVE OnceInv'
  <2>1. \A u \in Tabs : call'[u] = IF u = t THEN NoCall ELSE call[u]
    BY <1>8, MarkEffect DEF TimeTypeOK
  <2>2. \A e \in Entries : /\ ~Past(t, e)'
                           /\ \A u \in Tabs : Past(u, e)' => Past(u, e) /\ u # t
                           /\ \A u \in Tabs : u # t => (Past(u, e)' <=> Past(u, e))
    BY <2>1, IdleCallType DEF Past
  <2>3. \A e \in Entries, u \in Tabs, i \in Invoices :
          u # t /\ Drafted(u, e, i) => Drafted(u, e, i)'
    BY <2>1, <2>2 DEF Drafted
  <2>4. ASSUME NEW e \in Entries \ excused'  PROVE Once(e)'
    <3>1. e \notin excused /\ Once(e) /\ invoice' = invoice
      BY <1>8, MarkEffect
    <3>2. CASE e \in call[t].what
      <4>1. entry'[e].line = call[t].draft
        BY <1>8, <3>1, <3>2, <2>4, MarkEffect
      <4>2. Past(t, e)
        BY <1>8, <3>2, MarkEffect DEF Past
      <4>3. \A u \in Tabs : ~Past(u, e)'
        BY <2>2, <3>1, <4>2 DEF Once
      <4>4. ASSUME NEW i \in Live, e \in invoice[i].bills  PROVE entry'[e].line = i
        <5>1. PICK u \in Tabs : Drafted(u, e, i)
          BY <3>1, <4>2, <4>4 DEF Once, Live
        <5>2. u = t
          BY <3>1, <4>2, <5>1 DEF Once, Drafted
        <5>. QED
          BY <4>1, <5>1, <5>2 DEF Drafted
      <4>. QED
        BY <3>1, <4>3, <4>4 DEF Once, Live
    <3>3. CASE e \notin call[t].what
      <4>1. ~Past(t, e) /\ entry'[e] = entry[e]
        BY <1>8, <3>3, MarkEffect DEF Past
      <4>2. \A u \in Tabs : Past(u, e)' <=> Past(u, e)
        BY <2>2, <4>1
      <4>3. \A u \in Tabs, i \in Invoices : Drafted(u, e, i) => Drafted(u, e, i)'
        BY <2>3, <4>1 DEF Drafted
      <4>. QED
        BY <3>1, <4>1, <4>2, <4>3, OnceUndisturbed
    <3>. QED
      BY <3>2, <3>3
  <2>. QED
    BY <1>1, <2>4
<1>9. ASSUME NEW t \in Tabs, Crash(t)  PROVE OnceInv'
  <2>1. /\ \A u \in Tabs : call'[u] = IF u = t THEN NoCall ELSE call[u]
        /\ UNCHANGED <<entry, invoice>> /\ excused' = excused \cup call[t].what
    BY <1>9 DEF Crash, TimeTypeOK
  <2>2. ASSUME NEW e \in Entries \ excused'  PROVE Once(e)'
    <3>1. Once(e) /\ ~Past(t, e)
      BY <2>1 DEF Past
    <3>2. \A u \in Tabs : Past(u, e)' <=> Past(u, e)
      BY <2>1, <3>1, IdleCallType DEF Past
    <3>3. \A u \in Tabs, i \in Invoices : Drafted(u, e, i) => Drafted(u, e, i)'
      BY <2>1, <3>1, <3>2 DEF Drafted
    <3>. QED
      BY <2>1, <3>1, <3>2, <3>3, OnceUndisturbed
  <2>. QED
    BY <1>1, <2>2
<1>10. ASSUME NEW i \in Invoices, Invoicing(i)  PROVE OnceInv'
  <2>1. \A e \in Entries, u \in Tabs, j \in Invoices :
          (Past(u, e)' <=> Past(u, e)) /\ (Drafted(u, e, j)' <=> Drafted(u, e, j))
    BY <1>10, InvoicingEffect DEF Past, Drafted
  <2>2. ASSUME NEW e \in Entries \ excused'  PROVE Once(e)'
    <3>1. Once(e)
      BY <1>10, InvoicingEffect
    <3>2. \A u \in Tabs : Past(u, e) => entry'[e].line = NoInvoice
      BY <1>10, <3>1, InvoicingEffect DEF Once
    <3>3. ASSUME NEW j \in Live', e \in invoice'[j].bills
          PROVE  entry'[e].line = j \/ \E u \in Tabs : Drafted(u, e, j)
      <4>1. j \in Live /\ e \in invoice[j].bills
        BY <1>10, <3>3, InvoicingEffect DEF Live
      <4>2. entry[e].line = j \/ \E u \in Tabs : Drafted(u, e, j)
        BY <3>1, <4>1 DEF Once
      <4>3. j = i => entry' = entry
        BY <1>10, <2>2, <3>3, InvoicingEffect DEF Live
      <4>. QED
        BY <1>10, <4>2, <4>3, InvoicingEffect
    <3>4. \A j \in Live' : j \in Invoices
      BY DEF Live
    <3>. QED
      BY <2>1, <3>1, <3>2, <3>3, <3>4 DEF Once
  <2>. QED
    BY <1>1, <2>2
<1>. QED
  BY <1>2, <1>3, <1>4, <1>5, <1>6, <1>7, <1>8, <1>9, <1>10, TimeSteps

\* However many requests overlap: an entry is on two invoices that stand only if two
\* requests were past their check for it (service.py:304), one broke off between its commits
\* (service.py:335), or a draft was edited.
THEOREM BilledTwiceOnlyIfExcused == TimeSpec => []NeverBilledTwice
<1>1. TimeInit => OnceInv
  <2>1. TimeInit => Live = {}
    BY DEF TimeInit, Live
  <2>2. TimeInit => \A t \in Tabs, e \in Entries : ~Past(t, e)
    BY IdleCallType DEF TimeInit, Past
  <2>. QED
    BY <2>1, <2>2, TimeInitTypes DEF OnceInv, Once
<1>2. OnceInv => NeverBilledTwice
  <2>. SUFFICES ASSUME OnceInv, NEW e \in Entries \ excused
               PROVE  ~(Cardinality({i \in Live : e \in invoice[i].bills}) > 1)
    BY DEF NeverBilledTwice
  <2>. DEFINE S == {i \in Live : e \in invoice[i].bills}
  <2>1. Once(e) /\ NoInvoice \notin Live
    BY DEF OnceInv, Live
  <2>2. \A i, j \in S : i = j
    BY <2>1 DEF Once, Drafted, Live
  <2>3. S = {} \/ \E i \in S : S = {i}
    BY <2>2
  <2>4. Cardinality(S) = 0 \/ Cardinality(S) = 1
    BY <2>3, FS_EmptySet, FS_Singleton
  <2>. QED
    BY <2>4
<1>. QED
  BY <1>1, <1>2, OnceKept, PTL DEF TimeSpec

-----------------------------------------------------------------------------
(* One request at a time.                                                  *)

\* What the one request that is under way has found, is still so.
Found(t) ==
    /\ call[t].op = "start" => \E e \in Entries : call[t].what = {e} /\ entry[e].state = "none"
    /\ call[t].at # "sent" =>
        /\ call[t].op = "start" => Running(entry) = {}
        /\ call[t].op \in {"stop", "edit", "delete"} =>
             \A e \in call[t].what : entry[e].line = NoInvoice
        /\ call[t].op = "bill" => \A e \in call[t].what : entry[e].state = "stopped"

\* A running entry has not been billed, and there is one at most.
Timers ==
    /\ \A e \in Entries : entry[e].state \in {"none", "running"} => entry[e].line = NoInvoice
    /\ \A e, f \in Running(entry) : e = f

SerialInv ==
    /\ TimeTypeOK
    /\ pacing = "serial" =>
        /\ \A t, u \in Tabs : t = u \/ call[t] = NoCall \/ call[u] = NoCall
        /\ \A t \in Tabs : Found(t)
        /\ Timers

LEMMA NothingFound == ASSUME NEW t, call[t] = NoCall PROVE Found(t)
BY IdleCallType DEF Found

LEMMA NothingFoundNext == ASSUME NEW t, call'[t] = NoCall PROVE Found(t)'
BY IdleCallType DEF Found

\* With one tab's request changed and the others' none, that request is all there is.
LEMMA OneRequest ==
    ASSUME TimeTypeOK', NEW t \in Tabs, \A u \in Tabs : u # t => call'[u] = NoCall,
           Found(t)', Timers'
    PROVE  SerialInv'
BY NothingFoundNext DEF SerialInv

LEMMA SerialKept == ASSUME SerialInv, [TimeNext]_timeVars PROVE SerialInv'
<1>1. TimeTypeOK' /\ TimeTypeOK
  BY TypesKept DEF SerialInv
<1>2. pacing' = pacing
  BY LookTypes, SendsOffEffect, CheckEffect, WriteEffect, MarkEffect, DraftEffect, InvoicingEffect,
     TimeSteps, <1>1 DEF timeVars, Rung, Crash
<1>. SUFFICES ASSUME pacing = "serial"  PROVE SerialInv'
  BY <1>1, <1>2 DEF SerialInv
<1>3. /\ \A t, u \in Tabs : t = u \/ call[t] = NoCall \/ call[u] = NoCall
      /\ \A t \in Tabs : Found(t)
      /\ Timers
  BY DEF SerialInv
<1>4. ASSUME UNCHANGED <<entry, call>>  PROVE SerialInv'
  <2>1. Running(entry)' = Running(entry)
    BY <1>4 DEF Running
  <2>2. Timers' /\ \A t \in Tabs : Found(t)'
    BY <1>3, <1>4, <2>1 DEF Timers, Found
  <2>. QED
    BY <1>1, <1>3, <1>4, <2>2 DEF SerialInv
<1>5. ASSUME NEW t \in Tabs, call[t].op # "none"
      PROVE  \A u \in Tabs : u # t => call[u] = NoCall
  BY <1>3, <1>5, IdleCallType
<1>6. CASE UNCHANGED timeVars
  BY <1>4, <1>6 DEF timeVars
<1>7. ASSUME NEW t \in Tabs, Looks(t)  PROVE SerialInv'
  BY <1>1, <1>4, <1>7, LookTypes
<1>8. ASSUME NEW t \in Tabs, SendsOff(t)  PROVE SerialInv'
  <2>1. PICK c : Rung(t, c)
    BY <1>1, <1>8, SendsOffEffect
  <2>2. call'[t] = c /\ (\A u \in Tabs : u # t => call'[u] = NoCall) /\ entry' = entry
    BY <1>1, <2>1 DEF Rung, TimeTypeOK
  <2>3. Running(entry)' = Running(entry)
    BY <2>2 DEF Running
  <2>4. Found(t)' /\ Timers'
    BY <1>3, <2>1, <2>2, <2>3 DEF Found, Timers, Rung
  <2>. QED
    BY <1>1, <2>2, <2>4, OneRequest
<1>9. ASSUME NEW t \in Tabs, Check(t)  PROVE SerialInv'
  <2>1. (\A u \in Tabs : u # t => call'[u] = NoCall) /\ entry' = entry
    BY <1>1, <1>5, <1>9, CheckEffect
  <2>2. Running(entry)' = Running(entry)
    BY <2>1 DEF Running
  <2>3. Timers'
    BY <1>3, <2>1, <2>2 DEF Timers
  <2>4. CASE call'[t] = NoCall
    BY <1>1, <2>1, <2>3, <2>4, NothingFoundNext, OneRequest
  <2>5. CASE Allowed(call[t]) /\ call'[t].op = call[t].op /\ call'[t].what = call[t].what
    <3>1. Found(t)
      BY <1>3
    <3>2. call[t].op \in {"none", "start", "stop", "edit", "delete", "bill"}
      BY <1>1 DEF TimeTypeOK, Calls
    <3>3. call[t].op = "start" => Running(entry) = {}
      BY <2>5 DEF Allowed, NoTimerRuns
    <3>4. call[t].op = "stop" => \A e \in call[t].what : entry[e].line = NoInvoice
      BY <1>3, <2>5 DEF Allowed, Running, Timers
    <3>5. call[t].op \in {"edit", "delete"} => \A e \in call[t].what : entry[e].line = NoInvoice
      BY <2>5 DEF Allowed, NotInvoiced
    <3>6. call[t].op = "bill" => \A e \in call[t].what : entry[e].state = "stopped"
      BY <2>5 DEF Allowed
    <3>7. Found(t)'
      BY <2>1, <2>2, <2>5, <3>1, <3>3, <3>4, <3>5, <3>6 DEF Found
    <3>. QED
      BY <1>1, <2>1, <2>3, <3>7, OneRequest
  <2>. QED
    BY <1>1, <1>9, <2>4, <2>5, CheckEffect
<1>10. ASSUME NEW t \in Tabs, call[t].op # "none", call' = [call EXCEPT ![t] = NoCall], Timers'
       PROVE  SerialInv'
  <2>1. \A u \in Tabs : call'[u] = NoCall
    BY <1>1, <1>5, <1>10 DEF TimeTypeOK
  <2>. QED
    BY <1>1, <1>10, <2>1, NothingFoundNext, OneRequest
<1>11. ASSUME NEW t \in Tabs, Write(t)  PROVE SerialInv'
  <2>1. call[t].op \in {"start", "stop", "edit", "delete"} /\ call[t].what \subseteq Entries
    BY <1>1, <1>11, WriteEffect DEF TimeTypeOK, Calls
  <2>2. Found(t) /\ call[t].at = "checked"
    BY <1>1, <1>3, <1>11, WriteEffect
  <2>3. \A e \in Entries : entry'[e].state = "running" =>
          entry[e].state = "running" \/ (call[t].op = "start" /\ e \in call[t].what)
    BY <1>1, <1>11, <2>1, WriteEffect
  <2>4. \A e, f \in Running(entry') : e = f
    BY <1>3, <2>2, <2>3 DEF Running, Timers, Found
  <2>5. ASSUME NEW e \in Entries, entry'[e].state \in {"none", "running"}
        PROVE  entry'[e].line = NoInvoice
    <3>1. entry'[e].line = entry[e].line
      BY <1>1, <1>11, WriteEffect
    <3>2. CASE entry'[e].state = "running"
      BY <1>3, <2>2, <2>3, <3>1, <3>2 DEF Timers, Found
    <3>3. CASE entry'[e].state = "none"
      <4>1. entry[e].state = "none" \/ e \in call[t].what
        BY <1>1, <1>11, <3>3, WriteEffect
      <4>. QED
        BY <1>3, <2>1, <2>2, <3>1, <4>1 DEF Timers, Found
    <3>. QED
      BY <2>5, <3>2, <3>3
  <2>6. Timers'
    BY <2>4, <2>5 DEF Timers
  <2>. QED
    BY <1>1, <1>10, <1>11, <2>6, WriteEffect
<1>12. ASSUME NEW t \in Tabs, Mark(t)  PROVE SerialInv'
  <2>1. Found(t) /\ call[t].op = "bill" /\ call[t].at = "drafted"
    BY <1>1, <1>3, <1>12, MarkEffect
  <2>2. \A e \in call[t].what : entry[e].state = "stopped"
    BY <2>1 DEF Found
  <2>3. /\ \A e \in Entries : entry'[e].state = entry[e].state
        /\ \A e \in Entries : e \notin call[t].what => entry'[e] = entry[e]
    BY <1>1, <1>12, MarkEffect
  <2>4. Timers'
    BY <1>3, <2>2, <2>3 DEF Timers, Running
  <2>. QED
    BY <1>1, <1>10, <1>12, <2>1, <2>4, MarkEffect
<1>13. ASSUME NEW t \in Tabs, Crash(t)  PROVE SerialInv'
  <2>1. entry' = entry /\ call[t].op # "none" /\ call' = [call EXCEPT ![t] = NoCall]
    BY <1>13 DEF Crash
  <2>2. Timers'
    BY <1>3, <2>1 DEF Timers, Running
  <2>. QED
    BY <1>10, <2>1, <2>2
<1>14. ASSUME NEW t \in Tabs, NEW i \in Invoices, Draft(t, i)  PROVE SerialInv'
  <2>1. /\ call[t].op = "bill" /\ call[t].at = "checked" /\ entry' = entry
        /\ \A u \in Tabs : u # t => call'[u] = call[u]
        /\ call'[t].op = "bill" /\ call'[t].at = "drafted" /\ call'[t].what = call[t].what
    BY <1>1, <1>14, DraftEffect
  <2>2. \A u \in Tabs : u # t => call'[u] = NoCall
    BY <1>5, <2>1
  <2>3. Timers'
    BY <1>3, <2>1 DEF Timers, Running
  <2>4. Found(t)'
    BY <1>3, <2>1 DEF Found
  <2>. QED
    BY <1>1, <2>2, <2>3, <2>4, OneRequest
<1>15. ASSUME NEW i \in Invoices, Invoicing(i)  PROVE SerialInv'
  <2>1. CASE entry' = entry
    BY <1>1, <1>4, <1>15, <2>1, InvoicingEffect
  <2>2. CASE entry' # entry
    <3>1. DeleteDraft(i) \/ \E kept \in SUBSET Entries : EditDraft(i, kept)
      BY <1>15, <2>2 DEF Invoicing, IssueInvoice, VoidInvoice
    <3>2. \A u \in Tabs : call'[u] = NoCall
      BY <1>1, <1>15, <3>1, InvoicingEffect DEF DeleteDraft, EditDraft
    <3>3. Timers'
      BY <1>1, <1>3, <1>15, InvoicingEffect DEF Timers, Running
    <3>. QED
      BY <1>1, <3>2, <3>3, NothingFoundNext DEF SerialInv
  <2>. QED
    BY <2>1, <2>2
<1>. QED
  BY <1>6, <1>7, <1>8, <1>9, <1>11, <1>12, <1>13, <1>14, <1>15, TimeSteps

LEMMA InitSerial == TimeInit => SerialInv
<1>. SUFFICES ASSUME TimeInit  PROVE SerialInv
  OBVIOUS
<1>1. \A e \in Entries : entry[e].line = NoInvoice /\ entry[e].state = "none"
  BY DEF TimeInit
<1>2. \A t \in Tabs : call[t] = NoCall
  BY DEF TimeInit
<1>3. Timers
  BY <1>1 DEF Timers, Running
<1>. QED
  BY <1>2, <1>3, TimeInitTypes, NothingFound DEF SerialInv

\* start_timer: stale pages and repeated clicks never start a second timer, without
\* overlapping requests.
THEOREM OneTimerRuns == TimeSpec => []OneTimer
<1>1. SerialInv => OneTimer
  <2>. SUFFICES ASSUME SerialInv, pacing = "serial"  PROVE Cardinality(Running(entry)) <= 1
    BY DEF OneTimer
  <2>1. Running(entry) = {} \/ \E e \in Entries : Running(entry) = {e}
    BY DEF SerialInv, Timers, Running
  <2>. QED
    BY <2>1, FS_EmptySet, FS_Singleton
<1>. QED
  BY <1>1, InitSerial, SerialKept, PTL DEF TimeSpec

\* _require_not_invoiced: however old the page that asks for it, a request changes no entry
\* that has been billed, without overlapping requests.
THEOREM InvoicedIsFrozen == TimeSpec => LockedIsFrozen
<1>. DEFINE Frozen == \A e \in Entries :
              pacing = "serial" /\ entry[e].line # NoInvoice =>
                 /\ entry'[e].state = entry[e].state
                 /\ entry'[e].billable = entry[e].billable
<1>1. SerialInv /\ [TimeNext]_timeVars => [Frozen]_timeVars
  <2>. SUFFICES ASSUME SerialInv, TimeNext, NEW e \in Entries,
                       pacing = "serial", entry[e].line # NoInvoice
                PROVE  entry'[e].state = entry[e].state /\ entry'[e].billable = entry[e].billable
    OBVIOUS
  <2>1. TimeTypeOK
    BY DEF SerialInv
  <2>2. ASSUME NEW t \in Tabs, Write(t)  PROVE entry'[e] = entry[e]
    <3>1. call[t].op \in {"start", "stop", "edit", "delete"} /\ call[t].at = "checked"
      BY <2>1, <2>2, WriteEffect DEF TimeTypeOK, Calls
    <3>2. Found(t) /\ Timers
      BY DEF SerialInv
    <3>3. e \notin call[t].what
      BY <3>1, <3>2 DEF Found, Timers
    <3>. QED
      BY <2>1, <2>2, <3>3, WriteEffect
  <2>3. ASSUME NEW t \in Tabs, Looks(t) \/ SendsOff(t) \/ Check(t) \/ Crash(t)
        PROVE  entry' = entry
    BY <2>1, <2>3, LookTypes, SendsOffEffect, CheckEffect DEF Rung, Crash
  <2>. QED
    BY <2>1, <2>2, <2>3, DraftEffect, MarkEffect, InvoicingEffect, TimeSteps
<1>. QED
  BY <1>1, InitSerial, SerialKept, PTL DEF TimeSpec, LockedIsFrozen

HIDE TimeAssumption DEF TimeAssumption

-----------------------------------------------------------------------------
(* Sessions.                                                               *)

FetchesOfAll == Devices \X Slots

\* A trade under way carries a token, and an answered one brings a token.
TradeShape ==
    \A r \in FetchesOfAll :
        /\ trade[r].at = "idle" <=> trade[r].with = 0
        /\ trade[r].at = "paired" <=> trade[r].got # 0
        /\ trade[r].at = "idle" => trade[r] = NoTrade

\* The tokens in jars and trades exist.
Known ==
    /\ \A d \in Devices : SignedIn(d) => token[jar[d].refresh] # "none"
    /\ \A r \in FetchesOfAll :
        /\ trade[r].with # 0 => token[trade[r].with] # "none"
        /\ trade[r].got # 0 => token[trade[r].got] # "none"

\* Each token is one browser's.
OwnedBy(o) ==
    /\ \A d \in Devices : SignedIn(d) => o[jar[d].refresh] = {d}
    /\ \A r \in FetchesOfAll :
        /\ trade[r].with # 0 => o[trade[r].with] = {r[1]}
        /\ trade[r].got # 0 => o[trade[r].got] = {r[1]}

Owned == \E o \in [Tokens -> SUBSET Devices] : OwnedBy(o)

\* The token of an answer on its way is in no jar, no question and no other answer.
OnItsWay ==
    \A r \in FetchesOfAll : trade[r].got # 0 =>
        /\ \A d \in Devices : jar[d].refresh # trade[r].got
        /\ \A q \in FetchesOfAll :
            /\ trade[q].with # trade[r].got
            /\ q # r => trade[q].got # trade[r].got

\* Before a replay nothing is deleted or refused, and what is on its way is unspent.
NothingRevoked ==
    ~revoked =>
        /\ \A t \in Tokens : token[t] # "deleted"
        /\ \A r \in FetchesOfAll :
            /\ trade[r].at # "dead"
            /\ trade[r].got # 0 => token[trade[r].got] = "unused"

Awaited(d) ==
    \E s \in Slots :
        /\ trade[<<d, s>>].with = jar[d].refresh
        /\ trade[<<d, s>>].at \in {"claimed", "paired"}

\* A jar's token is unspent, or its successor is under way.
Holds(d) ==
    (SignedIn(d) /\ ~revoked /\ d \notin stranded)
      => \/ token[jar[d].refresh] = "unused"
         \/ token[jar[d].refresh] = "grace" /\ Awaited(d)

\* A token that is asked with will be traded.
AsksWell(r) ==
    (trade[r].at = "asking" /\ ~revoked /\ r[1] \notin stranded) => Usable(trade[r].with)

SessionInv ==
    /\ SessionTypeOK
    /\ TradeShape
    /\ Known
    /\ Owned
    /\ OnItsWay
    /\ NothingRevoked
    /\ \A d \in Devices : Holds(d)
    /\ \A r \in FetchesOfAll : AsksWell(r)

-----------------------------------------------------------------------------
LEMMA InitHolds == SessionInit => SessionInv
<1> SUFFICES ASSUME SessionInit PROVE SessionInv
  OBVIOUS
<1> USE SessionAssumption DEF SessionInit, NoTrade, FetchesOfAll
<1>1. SessionTypeOK
  <2>1. token \in [Tokens -> {"none", "unused", "grace", "old", "deleted"}]
    BY DEF Tokens
  <2>2. jar \in [Devices -> Jar]
    BY DEF Jar
  <2>3. [at |-> "idle", with |-> 0, got |-> 0] \in Trade
    BY DEF Trade
  <2>4. trade \in [Devices \X Slots -> Trade]
    BY <2>3
  <2>5. losses \in 0 .. MaxLosses /\ stranded \in SUBSET Devices
    OBVIOUS
  <2>6. revoked \in BOOLEAN
    BY Zenon
  <2> HIDE DEF SessionInit
  <2> QED
    BY <2>1, <2>2, <2>4, <2>5, <2>6, Zenon DEF SessionTypeOK
<1>2. \A d \in Devices : ~SignedIn(d)
  BY DEF SignedIn
<1>3. \A r \in FetchesOfAll : trade[r] = NoTrade /\ trade[r].with = 0 /\ trade[r].got = 0
  OBVIOUS
<1>4. TradeShape /\ Known /\ OnItsWay /\ NothingRevoked
  BY <1>2, <1>3 DEF TradeShape, Known, OnItsWay, NothingRevoked
<1>5. Owned
  <2> DEFINE o == [t \in Tokens |-> {}]
  <2>1. o \in [Tokens -> SUBSET Devices]
    OBVIOUS
  <2> QED
    BY <1>2, <1>3, <2>1 DEF Owned, OwnedBy
<1>6. (\A d \in Devices : Holds(d)) /\ \A r \in FetchesOfAll : AsksWell(r)
  BY <1>2, <1>3 DEF Holds, AsksWell
<1> QED
  BY <1>1, <1>4, <1>5, <1>6 DEF SessionInv

\* What every step may rely on: the shape of a trade and of a jar.
LEMMA Types ==
  ASSUME SessionTypeOK, TradeShape
  PROVE  /\ \A d \in Devices : jar[d] \in Jar /\ jar[d].refresh \in 0 .. MaxTokens
         /\ \A d \in Devices : SignedIn(d) => jar[d].refresh \in Tokens
         /\ \A r \in FetchesOfAll :
              /\ trade[r] \in Trade
              /\ trade[r].with # 0 => trade[r].with \in Tokens
              /\ trade[r].got # 0 => trade[r].got \in Tokens
BY SessionAssumption DEF SessionTypeOK, TradeShape, Jar, Trade, Tokens, SignedIn, FetchesOfAll

LEMMA LoginKeeps ==
  ASSUME SessionInv, NEW d \in Devices, NEW t \in Tokens, Login(d, t)
  PROVE  SessionInv'
<1> USE SessionAssumption DEF SessionInv, FetchesOfAll
<1>1. /\ \A e \in Devices : jar'[e] = IF e = d THEN [access |-> "fresh", refresh |-> t] ELSE jar[e]
      /\ \A s \in Tokens : token'[s] = IF s = t THEN "unused" ELSE token[s]
      /\ token[t] = "none"
      /\ UNCHANGED <<trade, losses, stranded, revoked>>
  BY DEF Login, Fill, IsNext, SessionTypeOK
<1>2. SessionTypeOK'
  BY DEF Login, Fill, SessionTypeOK, Jar, Tokens
<1>t. t # 0
  BY DEF Tokens
<1>3. \A e \in Devices : SignedIn(e)' <=> e = d \/ SignedIn(e)
  BY <1>1, <1>t DEF SignedIn
<1>4. TradeShape'
  BY <1>1 DEF TradeShape, NoTrade
<1>5. Known'
  BY <1>1, <1>3, Types DEF Known
<1>6. Owned'
  <2>1. PICK o \in [Tokens -> SUBSET Devices] : OwnedBy(o)
    BY DEF Owned
  <2> DEFINE p == [o EXCEPT ![t] = {d}]
  <2>2. p \in [Tokens -> SUBSET Devices]
    OBVIOUS
  <2>3. OwnedBy(p)'
    <3>1. \A e \in Devices : SignedIn(e)' => p[jar'[e].refresh] = {e}
      BY <2>1, <1>1, <1>3, Types DEF OwnedBy, Known
    <3>2. \A r \in FetchesOfAll :
            /\ trade'[r].with # 0 => p[trade'[r].with] = {r[1]}
            /\ trade'[r].got # 0 => p[trade'[r].got] = {r[1]}
      BY <2>1, <1>1, Types DEF OwnedBy, Known
    <3> QED
      BY <3>1, <3>2 DEF OwnedBy
  <2> QED
    BY <2>2, <2>3 DEF Owned
<1>7. OnItsWay'
  BY <1>1, Types DEF OnItsWay, Known
<1>8. NothingRevoked'
  BY <1>1, Types DEF NothingRevoked, Known
<1>9. ASSUME NEW e \in Devices PROVE Holds(e)'
  <2>1. CASE e = d
    BY <2>1, <1>1 DEF Holds
  <2>2. CASE e # d /\ SignedIn(e)
    <3>1. jar[e].refresh \in Tokens /\ token[jar[e].refresh] # "none"
      BY <2>2, Types DEF Known
    <3>2. Awaited(e)' <=> Awaited(e)
      BY <2>2, <1>1 DEF Awaited
    <3> QED
      BY <2>2, <1>1, <3>1, <3>2 DEF Holds
  <2>3. CASE e # d /\ ~SignedIn(e)
    BY <2>3, <1>3 DEF Holds
  <2> QED
    BY <2>1, <2>2, <2>3
<1>10. ASSUME NEW r \in FetchesOfAll PROVE AsksWell(r)'
  <2>1. CASE trade[r].at = "asking"
    <3>1. trade[r].with # 0 /\ trade[r].with \in Tokens /\ token[trade[r].with] # "none"
      BY <2>1, Types DEF TradeShape, Known
    <3> QED
      BY <1>1, <3>1 DEF AsksWell, Usable
  <2>2. CASE trade[r].at # "asking"
    BY <1>1, <2>2 DEF AsksWell
  <2> QED
    BY <2>1, <2>2
<1> QED
  BY <1>2, <1>4, <1>5, <1>6, <1>7, <1>8, <1>9, <1>10

LEMMA LogoutKeeps ==
  ASSUME SessionInv, NEW d \in Devices, Logout(d)
  PROVE  SessionInv'
<1> USE SessionAssumption DEF SessionInv, FetchesOfAll
<1>1. /\ \A e \in Devices : jar'[e] = IF e = d THEN [access |-> "stale", refresh |-> 0] ELSE jar[e]
      /\ UNCHANGED <<token, trade, losses, stranded, revoked>>
  BY DEF Logout, Empty, SessionTypeOK
<1>2. SessionTypeOK'
  BY DEF Logout, Empty, SessionTypeOK, Jar
<1>3. \A e \in Devices : SignedIn(e)' <=> e # d /\ SignedIn(e)
  BY <1>1 DEF SignedIn
<1>4. TradeShape' /\ Known' /\ Owned' /\ OnItsWay' /\ NothingRevoked'
  <2>1. TradeShape'
    BY <1>1 DEF TradeShape, NoTrade
  <2>2. Known'
    BY <1>1, <1>3 DEF Known
  <2>3. Owned'
    <3>1. PICK o \in [Tokens -> SUBSET Devices] : OwnedBy(o)
      BY DEF Owned
    <3>2. OwnedBy(o)'
      BY <3>1, <1>1, <1>3 DEF OwnedBy
    <3> QED
      BY <3>1, <3>2 DEF Owned
  <2>4. OnItsWay'
    BY <1>1 DEF OnItsWay
  <2>5. NothingRevoked'
    BY <1>1 DEF NothingRevoked
  <2> QED
    BY <2>1, <2>2, <2>3, <2>4, <2>5
<1>5. ASSUME NEW e \in Devices PROVE Holds(e)'
  BY <1>1, <1>3 DEF Holds, Awaited
<1>6. ASSUME NEW r \in FetchesOfAll PROVE AsksWell(r)'
  BY <1>1 DEF AsksWell, Usable
<1> QED
  BY <1>2, <1>4, <1>5, <1>6

LEMMA AccessStaleKeeps ==
  ASSUME SessionInv, NEW d \in Devices, AccessStale(d)
  PROVE  SessionInv'
<1> USE SessionAssumption DEF SessionInv, FetchesOfAll
<1>1. /\ \A e \in Devices : jar'[e].refresh = jar[e].refresh
      /\ UNCHANGED <<token, trade, losses, stranded, revoked>>
  BY DEF AccessStale, SessionTypeOK, Jar
<1>2. SessionTypeOK'
  BY DEF AccessStale, SessionTypeOK, Jar
<1>3. \A e \in Devices : SignedIn(e)' <=> SignedIn(e)
  BY <1>1 DEF SignedIn
<1>4. TradeShape' /\ Known' /\ Owned' /\ OnItsWay' /\ NothingRevoked'
  <2>1. TradeShape'
    BY <1>1 DEF TradeShape, NoTrade
  <2>2. Known'
    BY <1>1, <1>3 DEF Known
  <2>3. Owned'
    <3>1. PICK o \in [Tokens -> SUBSET Devices] : OwnedBy(o)
      BY DEF Owned
    <3>2. OwnedBy(o)'
      BY <3>1, <1>1, <1>3 DEF OwnedBy
    <3> QED
      BY <3>1, <3>2 DEF Owned
  <2>4. OnItsWay'
    BY <1>1 DEF OnItsWay
  <2>5. NothingRevoked'
    BY <1>1 DEF NothingRevoked
  <2> QED
    BY <2>1, <2>2, <2>3, <2>4, <2>5
<1>5. ASSUME NEW e \in Devices PROVE Holds(e)'
  BY <1>1, <1>3 DEF Holds, Awaited
<1>6. ASSUME NEW r \in FetchesOfAll PROVE AsksWell(r)'
  BY <1>1 DEF AsksWell, Usable
<1> QED
  BY <1>2, <1>4, <1>5, <1>6

LEMMA AskKeeps ==
  ASSUME SessionInv, NEW r \in FetchesOfAll, AskForPair(r)
  PROVE  SessionInv'
<1> USE SessionAssumption DEF SessionInv, FetchesOfAll
<1> DEFINE t == jar[r[1]].refresh
<1>0. r[1] \in Devices /\ t \in Tokens /\ t # 0 /\ SignedIn(r[1])
  BY Types DEF AskForPair, SignedIn
<1>1. /\ trade[r] = NoTrade
      /\ trade'[r] = [at |-> "asking", with |-> t, got |-> 0]
      /\ \A q \in FetchesOfAll : q # r => trade'[q] = trade[q]
      /\ UNCHANGED <<token, jar, losses, stranded, revoked>>
  BY DEF AskForPair, SessionTypeOK
<1>n. trade[r].at = "idle" /\ trade[r].with = 0 /\ trade[r].got = 0
  BY <1>1 DEF NoTrade
<1>2. SessionTypeOK'
  <2>1. [at |-> "asking", with |-> t, got |-> 0] \in Trade
    BY <1>0 DEF Trade, Tokens
  <2> QED
    BY <2>1 DEF AskForPair, SessionTypeOK
<1>3. \A e \in Devices : SignedIn(e)' <=> SignedIn(e)
  BY <1>1 DEF SignedIn
<1>4. TradeShape'
  BY <1>0, <1>1 DEF TradeShape, NoTrade
<1>5. Known'
  BY <1>0, <1>1, <1>3 DEF Known
<1>6. Owned'
  <2>1. PICK o \in [Tokens -> SUBSET Devices] : OwnedBy(o)
    BY DEF Owned
  <2>2. OwnedBy(o)'
    BY <2>1, <1>0, <1>1, <1>3 DEF OwnedBy
  <2> QED
    BY <2>1, <2>2 DEF Owned
<1>7. OnItsWay'
  BY <1>0, <1>1, <1>n DEF OnItsWay
<1>8. NothingRevoked'
  BY <1>0, <1>1 DEF NothingRevoked
<1>9. ASSUME NEW e \in Devices PROVE Holds(e)'
  <2>1. Awaited(e) => Awaited(e)'
    BY <1>1, <1>n DEF Awaited
  <2> QED
    BY <2>1, <1>1, <1>3 DEF Holds
<1>10. ASSUME NEW q \in FetchesOfAll PROVE AsksWell(q)'
  BY <1>0, <1>1 DEF AsksWell, Usable, Holds
<1> QED
  BY <1>2, <1>4, <1>5, <1>6, <1>7, <1>8, <1>9, <1>10

LEMMA ClaimKeeps ==
  ASSUME SessionInv, NEW r \in FetchesOfAll, Claim(r)
  PROVE  SessionInv'
<1> USE SessionAssumption DEF SessionInv, FetchesOfAll
<1> DEFINE t == trade[r].with
<1>0. trade[r].at = "asking" /\ t \in Tokens /\ t # 0 /\ trade[r].got = 0 /\ Usable(t)
  BY Types DEF Claim, TradeShape
<1>1. /\ trade'[r].at = "claimed" /\ trade'[r].with = t /\ trade'[r].got = 0
      /\ \A q \in FetchesOfAll : q # r => trade'[q] = trade[q]
      /\ \A s \in Tokens : token'[s] = IF s = t THEN "grace" ELSE token[s]
      /\ UNCHANGED <<jar, losses, stranded, revoked>>
  BY <1>0 DEF Claim, SessionTypeOK, Trade
<1>2. SessionTypeOK'
  BY DEF Claim, SessionTypeOK, Trade
<1>3. \A e \in Devices : SignedIn(e)' <=> SignedIn(e)
  BY <1>1 DEF SignedIn
<1>4. TradeShape'
  BY <1>0, <1>1 DEF TradeShape, NoTrade
<1>5. Known'
  BY <1>0, <1>1, <1>3, Types DEF Known
<1>6. Owned'
  <2>1. PICK o \in [Tokens -> SUBSET Devices] : OwnedBy(o)
    BY DEF Owned
  <2>2. OwnedBy(o)'
    BY <2>1, <1>0, <1>1, <1>3 DEF OwnedBy
  <2> QED
    BY <2>1, <2>2 DEF Owned
<1>7. OnItsWay'
  BY <1>0, <1>1 DEF OnItsWay
<1>8. NothingRevoked'
  BY <1>0, <1>1, Types DEF NothingRevoked, OnItsWay
<1>9. ASSUME NEW e \in Devices PROVE Holds(e)'
  <2>1. SUFFICES ASSUME SignedIn(e), ~revoked, e \notin stranded
                 PROVE  \/ token'[jar[e].refresh] = "unused"
                        \/ token'[jar[e].refresh] = "grace" /\ Awaited(e)'
    BY <1>1, <1>3 DEF Holds
  <2>2. jar[e].refresh \in Tokens
    BY <2>1, Types
  <2>3. CASE jar[e].refresh = t
    <3>1. r[1] = e
      BY <2>1, <2>3, <1>0 DEF Owned, OwnedBy
    <3>2. r = <<e, r[2]>> /\ r[2] \in Slots
      BY <3>1
    <3>3. Awaited(e)'
      BY <3>2, <2>3, <1>1 DEF Awaited
    <3> QED
      BY <3>3, <2>3, <1>1, <1>0
  <2>4. CASE jar[e].refresh # t
    <3>1. Awaited(e) => Awaited(e)'
      BY <2>4, <1>1 DEF Awaited
    <3> QED
      BY <3>1, <2>1, <2>2, <2>4, <1>1 DEF Holds
  <2> QED
    BY <2>3, <2>4
<1>10. ASSUME NEW q \in FetchesOfAll PROVE AsksWell(q)'
  <2>1. CASE q = r
    BY <2>1, <1>1 DEF AsksWell
  <2>2. CASE q # r /\ trade[q].at = "asking"
    <3>1. trade[q].with \in Tokens
      BY <2>2, Types DEF TradeShape
    <3> QED
      BY <2>2, <3>1, <1>1 DEF AsksWell, Usable
  <2>3. CASE q # r /\ trade[q].at # "asking"
    BY <2>3, <1>1 DEF AsksWell
  <2> QED
    BY <2>1, <2>2, <2>3
<1> QED
  BY <1>2, <1>4, <1>5, <1>6, <1>7, <1>8, <1>9, <1>10

\* A refusal leaves the account revoked: before a replay no token is deleted, so the
\* refused one had been spent.
LEMMA ReplayKeeps ==
  ASSUME SessionInv, NEW r \in FetchesOfAll, Replay(r)
  PROVE  SessionInv' /\ revoked'
<1> USE SessionAssumption DEF SessionInv, FetchesOfAll
<1> DEFINE t == trade[r].with
<1>0. trade[r].at = "asking" /\ t \in Tokens /\ t # 0 /\ trade[r].got = 0
  BY Types DEF Replay, TradeShape
<1>1. /\ trade'[r].at = "dead" /\ trade'[r].with = t /\ trade'[r].got = 0
      /\ \A q \in FetchesOfAll : q # r => trade'[q] = trade[q]
      /\ UNCHANGED <<jar, losses, stranded>>
  BY <1>0 DEF Replay, SessionTypeOK, Trade
<1>2. SessionTypeOK'
  <2>1. trade' \in [FetchesOfAll -> Trade]
    BY DEF Replay, SessionTypeOK, Trade
  <2>2. token' \in [Tokens -> {"none", "unused", "grace", "old", "deleted"}]
    BY DEF Replay, SessionTypeOK
  <2>3. revoked' \in BOOLEAN
    BY Zenon DEF Replay, SessionTypeOK
  <2> QED
    BY <2>1, <2>2, <2>3, <1>1 DEF SessionTypeOK
<1>3. \A e \in Devices : SignedIn(e)' <=> SignedIn(e)
  BY <1>1 DEF SignedIn
<1>4. \A s \in Tokens : token[s] # "none" => token'[s] # "none"
  BY DEF Replay, SessionTypeOK
<1>5. revoked'
  <2>1. CASE token[t] = "deleted"
    <3>1. revoked
      BY <2>1, <1>0 DEF NothingRevoked
    <3> QED
      BY <2>1, <3>1, Zenon DEF Replay
  <2>2. CASE token[t] # "deleted"
    BY <2>2, Zenon DEF Replay
  <2> QED
    BY <2>1, <2>2
<1>6. TradeShape'
  BY <1>0, <1>1 DEF TradeShape, NoTrade
<1>7. Known'
  BY <1>0, <1>1, <1>3, <1>4, Types DEF Known
<1>8. Owned'
  <2>1. PICK o \in [Tokens -> SUBSET Devices] : OwnedBy(o)
    BY DEF Owned
  <2>2. OwnedBy(o)'
    BY <2>1, <1>0, <1>1, <1>3 DEF OwnedBy
  <2> QED
    BY <2>1, <2>2 DEF Owned
<1>9. OnItsWay'
  BY <1>0, <1>1 DEF OnItsWay
<1>10. NothingRevoked' /\ (\A e \in Devices : Holds(e)') /\ \A q \in FetchesOfAll : AsksWell(q)'
  BY <1>5 DEF NothingRevoked, Holds, AsksWell
<1> QED
  BY <1>2, <1>5, <1>6, <1>7, <1>8, <1>9, <1>10

LEMMA IssueKeeps ==
  ASSUME SessionInv, NEW r \in FetchesOfAll, NEW t \in Tokens, Issue(r, t)
  PROVE  SessionInv'
<1> USE SessionAssumption DEF SessionInv, FetchesOfAll
<1>0. /\ trade[r].at = "claimed" /\ trade[r].with \in Tokens /\ trade[r].with # 0
      /\ trade[r].got = 0 /\ t # 0 /\ token[t] = "none"
  BY Types DEF Issue, IsNext, TradeShape, Tokens
<1>1. /\ trade'[r].at = "paired" /\ trade'[r].with = trade[r].with /\ trade'[r].got = t
      /\ \A q \in FetchesOfAll : q # r => trade'[q] = trade[q]
      /\ \A s \in Tokens : token'[s] = IF s = t THEN "unused" ELSE token[s]
      /\ UNCHANGED <<jar, losses, stranded, revoked>>
  BY <1>0 DEF Issue, Inserted, SessionTypeOK, Trade
<1>2. SessionTypeOK'
  <2>1. trade' = [trade EXCEPT ![r] = trade'[r]] /\ trade'[r] \in Trade
    BY <1>0 DEF Issue, SessionTypeOK, Trade, Tokens
  <2>2. trade' \in [FetchesOfAll -> Trade]
    BY <2>1 DEF SessionTypeOK
  <2>3. token' \in [Tokens -> {"none", "unused", "grace", "old", "deleted"}]
    BY DEF Issue, Inserted, SessionTypeOK
  <2> QED
    BY <2>2, <2>3, <1>1 DEF SessionTypeOK
<1>3. \A e \in Devices : SignedIn(e)' <=> SignedIn(e)
  BY <1>1 DEF SignedIn
\* The new token is in no jar and no trade.
<1>n. /\ \A e \in Devices : jar[e].refresh # t
      /\ \A q \in FetchesOfAll : trade[q].with # t /\ trade[q].got # t
  BY <1>0 DEF Known, SignedIn
<1>4. TradeShape'
  BY <1>0, <1>1 DEF TradeShape, NoTrade
<1>5. Known'
  BY <1>0, <1>1, <1>3, Types DEF Known
<1>6. Owned'
  <2>1. PICK o \in [Tokens -> SUBSET Devices] : OwnedBy(o)
    BY DEF Owned
  <2> DEFINE p == [o EXCEPT ![t] = {r[1]}]
  <2>2. p \in [Tokens -> SUBSET Devices]
    OBVIOUS
  <2>3. OwnedBy(p)'
    <3>1. \A e \in Devices : SignedIn(e)' => p[jar'[e].refresh] = {e}
      BY <2>1, <1>1, <1>3, <1>n, Types DEF OwnedBy
    <3>2. \A q \in FetchesOfAll :
            /\ trade'[q].with # 0 => p[trade'[q].with] = {q[1]}
            /\ trade'[q].got # 0 => p[trade'[q].got] = {q[1]}
      BY <2>1, <1>0, <1>1, <1>n, Types DEF OwnedBy
    <3> QED
      BY <3>1, <3>2 DEF OwnedBy
  <2> QED
    BY <2>2, <2>3 DEF Owned
<1>7. OnItsWay'
  BY <1>0, <1>1, <1>n DEF OnItsWay
<1>8. NothingRevoked'
  BY <1>0, <1>1, <1>n, Types DEF NothingRevoked
<1>9. ASSUME NEW e \in Devices PROVE Holds(e)'
  <2>1. Awaited(e) => Awaited(e)'
    BY <1>0, <1>1 DEF Awaited
  <2>2. CASE SignedIn(e)
    BY <2>1, <2>2, <1>1, <1>n, Types DEF Holds
  <2>3. CASE ~SignedIn(e)
    BY <2>3, <1>3 DEF Holds
  <2> QED
    BY <2>2, <2>3
<1>10. ASSUME NEW q \in FetchesOfAll PROVE AsksWell(q)'
  <2>1. CASE q = r
    BY <2>1, <1>1 DEF AsksWell
  <2>2. CASE q # r /\ trade[q].at = "asking"
    <3>1. trade[q].with \in Tokens
      BY <2>2, Types DEF TradeShape
    <3> QED
      BY <2>2, <3>1, <1>1, <1>n DEF AsksWell, Usable
  <2>3. CASE q # r /\ trade[q].at # "asking"
    BY <2>3, <1>1 DEF AsksWell
  <2> QED
    BY <2>1, <2>2, <2>3
<1> QED
  BY <1>2, <1>4, <1>5, <1>6, <1>7, <1>8, <1>9, <1>10

LEMMA LoseKeeps ==
  ASSUME SessionInv, NEW r \in FetchesOfAll, Lose(r)
  PROVE  SessionInv'
<1> USE SessionAssumption DEF SessionInv, FetchesOfAll
<1>0. r[1] \in Devices
  OBVIOUS
<1>1. /\ trade'[r] = NoTrade
      /\ \A q \in FetchesOfAll : q # r => trade'[q] = trade[q]
      /\ stranded' = stranded \cup {r[1]}
      /\ UNCHANGED <<token, jar, revoked>>
  BY DEF Lose, SessionTypeOK
<1>n. NoTrade.at = "idle" /\ NoTrade.with = 0 /\ NoTrade.got = 0 /\ NoTrade \in Trade
  BY DEF NoTrade, Trade
<1>2. SessionTypeOK'
  <2>1. trade' \in [FetchesOfAll -> Trade]
    BY <1>n DEF Lose, SessionTypeOK
  <2>2. losses' \in 0 .. MaxLosses
    BY DEF Lose, SessionTypeOK
  <2>3. stranded' \in SUBSET Devices
    BY <1>0, <1>1 DEF SessionTypeOK
  <2> QED
    BY <2>1, <2>2, <2>3, <1>1 DEF SessionTypeOK
<1>3. \A e \in Devices : SignedIn(e)' <=> SignedIn(e)
  BY <1>1 DEF SignedIn
<1>4. TradeShape'
  BY <1>n, <1>1 DEF TradeShape
<1>5. Known'
  BY <1>n, <1>1, <1>3 DEF Known
<1>6. Owned'
  <2>1. PICK o \in [Tokens -> SUBSET Devices] : OwnedBy(o)
    BY DEF Owned
  <2>2. OwnedBy(o)'
    BY <2>1, <1>n, <1>1, <1>3 DEF OwnedBy
  <2> QED
    BY <2>1, <2>2 DEF Owned
<1>7. OnItsWay'
  BY <1>n, <1>1 DEF OnItsWay
<1>8. NothingRevoked'
  BY <1>n, <1>1 DEF NothingRevoked
<1>9. ASSUME NEW e \in Devices PROVE Holds(e)'
  <2>1. CASE e = r[1]
    BY <2>1, <1>1 DEF Holds
  <2>2. CASE e # r[1]
    <3>1. Awaited(e) => Awaited(e)'
      BY <2>2, <1>1 DEF Awaited
    <3> QED
      BY <3>1, <1>1, <1>3 DEF Holds
  <2> QED
    BY <2>1, <2>2
<1>10. ASSUME NEW q \in FetchesOfAll PROVE AsksWell(q)'
  BY <1>n, <1>1 DEF AsksWell, Usable
<1> QED
  BY <1>2, <1>4, <1>5, <1>6, <1>7, <1>8, <1>9, <1>10

LEMMA GracePassesKeeps ==
  ASSUME SessionInv, NEW t \in Tokens, GracePasses(t)
  PROVE  SessionInv'
<1> USE SessionAssumption DEF SessionInv, FetchesOfAll
<1>0. token[t] = "grace" /\ \A r \in FetchesOfAll : trade[r].with = t => trade[r].at = "idle"
  BY DEF GracePasses
<1>1. /\ \A s \in Tokens : token'[s] = IF s = t THEN "old" ELSE token[s]
      /\ UNCHANGED <<jar, trade, losses, stranded, revoked>>
  BY DEF GracePasses, SessionTypeOK
<1>2. SessionTypeOK'
  BY DEF GracePasses, SessionTypeOK
<1>3. \A e \in Devices : SignedIn(e)' <=> SignedIn(e)
  BY <1>1 DEF SignedIn
<1>4. TradeShape'
  BY <1>1 DEF TradeShape, NoTrade
<1>5. Known'
  BY <1>1, <1>3, Types DEF Known
<1>6. Owned'
  <2>1. PICK o \in [Tokens -> SUBSET Devices] : OwnedBy(o)
    BY DEF Owned
  <2>2. OwnedBy(o)'
    BY <2>1, <1>1, <1>3 DEF OwnedBy
  <2> QED
    BY <2>1, <2>2 DEF Owned
<1>7. OnItsWay'
  BY <1>1 DEF OnItsWay
<1>8. NothingRevoked'
  BY <1>0, <1>1, Types DEF NothingRevoked
<1>9. ASSUME NEW e \in Devices PROVE Holds(e)'
  <2>1. Awaited(e)' <=> Awaited(e)
    BY <1>1 DEF Awaited
  <2>2. jar[e].refresh = t => ~Awaited(e)
    BY <1>0 DEF Awaited
  <2>3. CASE SignedIn(e)
    BY <2>1, <2>2, <2>3, <1>0, <1>1, Types DEF Holds
  <2>4. CASE ~SignedIn(e)
    BY <2>4, <1>3 DEF Holds
  <2> QED
    BY <2>3, <2>4
<1>10. ASSUME NEW q \in FetchesOfAll PROVE AsksWell(q)'
  <2>1. CASE trade[q].at = "asking"
    <3>1. trade[q].with \in Tokens /\ trade[q].with # t
      BY <2>1, <1>0, Types DEF TradeShape
    <3> QED
      BY <3>1, <1>1 DEF AsksWell, Usable
  <2>2. CASE trade[q].at # "asking"
    BY <2>2, <1>1 DEF AsksWell
  <2> QED
    BY <2>1, <2>2
<1> QED
  BY <1>2, <1>4, <1>5, <1>6, <1>7, <1>8, <1>9, <1>10

\* An answer that ends a trade: "j" is the jar's new token, none if it was a refusal.
LEMMA AnswerKeeps ==
  ASSUME SessionInv, NEW r \in FetchesOfAll, Renewed(r) \/ Dropped(r)
  PROVE  SessionInv'
<1> USE SessionAssumption DEF SessionInv, FetchesOfAll
<1> DEFINE d == r[1]
           j == IF trade[r].at = "paired" THEN trade[r].got ELSE 0
<1>0. /\ d \in Devices /\ j \in 0 .. MaxTokens
      /\ trade[r].at = "paired" => j # 0 /\ j = trade[r].got
      /\ trade[r].at # "paired" => trade[r].at = "dead" /\ j = 0
  BY Types DEF Renewed, Dropped, TradeShape, Trade
<1>1. /\ \A e \in Devices : e # d => jar'[e] = jar[e]
      /\ jar'[d].refresh = j
      /\ trade'[r] = NoTrade
      /\ \A q \in FetchesOfAll : q # r => trade'[q] = trade[q]
      /\ UNCHANGED <<token, losses, stranded, revoked>>
  BY <1>0 DEF Renewed, Dropped, Fill, Empty, SessionTypeOK
<1>n. NoTrade.at = "idle" /\ NoTrade.with = 0 /\ NoTrade.got = 0 /\ NoTrade \in Trade
  BY DEF NoTrade, Trade
<1>2. SessionTypeOK'
  <2>1. trade' \in [FetchesOfAll -> Trade]
    BY <1>n DEF Renewed, Dropped, SessionTypeOK
  <2>2. jar' \in [Devices -> Jar]
    BY <1>0 DEF Renewed, Dropped, Fill, Empty, SessionTypeOK, Jar
  <2> QED
    BY <2>1, <2>2, <1>1 DEF SessionTypeOK
<1>3. \A e \in Devices : SignedIn(e)' <=> (IF e = d THEN j # 0 ELSE SignedIn(e))
  BY <1>0, <1>1 DEF SignedIn
<1>4. TradeShape'
  BY <1>n, <1>1 DEF TradeShape
<1>5. Known'
  BY <1>0, <1>n, <1>1, <1>3 DEF Known
<1>6. Owned'
  <2>1. PICK o \in [Tokens -> SUBSET Devices] : OwnedBy(o)
    BY DEF Owned
  <2>2. OwnedBy(o)'
    BY <2>1, <1>0, <1>n, <1>1, <1>3 DEF OwnedBy
  <2> QED
    BY <2>1, <2>2 DEF Owned
<1>7. OnItsWay'
  BY <1>0, <1>n, <1>1 DEF OnItsWay
<1>8. NothingRevoked'
  BY <1>n, <1>1 DEF NothingRevoked
<1>9. ASSUME NEW e \in Devices PROVE Holds(e)'
  <2>1. CASE e = d
    <3>1. SUFFICES ASSUME SignedIn(e)', ~revoked PROVE token'[jar'[e].refresh] = "unused"
      BY <1>1 DEF Holds
    <3>2. j # 0 /\ j = trade[r].got
      BY <2>1, <3>1, <1>0, <1>3
    <3> QED
      BY <2>1, <3>1, <3>2, <1>1 DEF NothingRevoked
  <2>2. CASE e # d
    <3>1. Awaited(e) => Awaited(e)'
      BY <2>2, <1>1 DEF Awaited
    <3> QED
      BY <2>2, <3>1, <1>1, <1>3 DEF Holds
  <2> QED
    BY <2>1, <2>2
<1>10. ASSUME NEW q \in FetchesOfAll PROVE AsksWell(q)'
  BY <1>n, <1>1 DEF AsksWell, Usable
<1> QED
  BY <1>2, <1>4, <1>5, <1>6, <1>7, <1>8, <1>9, <1>10

LEMMA StutterKeeps == SessionInv /\ UNCHANGED sessionVars => SessionInv'
<1> SUFFICES ASSUME SessionInv, UNCHANGED sessionVars PROVE SessionInv'
  OBVIOUS
<1> USE DEF SessionInv, sessionVars
<1>1. SessionTypeOK' /\ TradeShape' /\ Known' /\ OnItsWay' /\ NothingRevoked'
  BY DEF SessionTypeOK, TradeShape, Known, OnItsWay, NothingRevoked, SignedIn
<1>2. Owned'
  <2>1. PICK o \in [Tokens -> SUBSET Devices] : OwnedBy(o)
    BY DEF Owned
  <2>2. OwnedBy(o)'
    BY <2>1 DEF OwnedBy, SignedIn
  <2> QED
    BY <2>1, <2>2 DEF Owned
<1>3. (\A d \in Devices : Holds(d)') /\ \A r \in FetchesOfAll : AsksWell(r)'
  BY DEF Holds, AsksWell, Awaited, SignedIn, Usable
<1> QED
  BY <1>1, <1>2, <1>3

LEMMA NextKeeps == SessionInv /\ [SessionNext]_sessionVars => SessionInv'
<1> SUFFICES ASSUME SessionInv, [SessionNext]_sessionVars PROVE SessionInv'
  OBVIOUS
<1>1. ASSUME NEW d \in Devices, Logout(d) \/ AccessStale(d) \/ \E t \in Tokens : Login(d, t)
      PROVE  SessionInv'
  BY <1>1, LogoutKeeps, AccessStaleKeeps, LoginKeeps
<1>2. ASSUME NEW r \in FetchesOfAll,
             \/ AskForPair(r) \/ Claim(r) \/ Replay(r) \/ Lose(r) \/ Renewed(r) \/ Dropped(r)
             \/ \E t \in Tokens : Issue(r, t)
      PROVE  SessionInv'
  BY <1>2, AskKeeps, ClaimKeeps, ReplayKeeps, LoseKeeps, AnswerKeeps, IssueKeeps
<1>3. ASSUME NEW t \in Tokens, GracePasses(t) PROVE SessionInv'
  BY <1>3, GracePassesKeeps
<1>4. CASE UNCHANGED sessionVars
  BY <1>4, StutterKeeps
<1> QED
  BY <1>1, <1>2, <1>3, <1>4 DEF SessionNext, FetchesOfAll

LEMMA Invariance == SessionSpec => []SessionInv
<1> QED
  BY InitHolds, NextKeeps, PTL DEF SessionSpec

-----------------------------------------------------------------------------
\* Every state of the browsers' jars, the requests and the tokens is well typed
\* (proxy.ts and auth/service.py, refresh).
THEOREM SessionTypes == SessionSpec => []SessionTypeOK
<1>1. SessionInv => SessionTypeOK
  BY DEF SessionInv
<1> QED
  BY <1>1, Invariance, PTL

\* Whatever requests of however many browsers race for a token (auth/service.py,
\* refresh, and its grace), a signed in browser at rest holds one the API will trade,
\* unless it lost an answer or a replay revoked all.
THEOREM StaysUsable == SessionSpec => []SessionUsable
<1>1. SessionInv => SessionUsable
  <2> SUFFICES ASSUME SessionInv, NEW d \in Devices, SignedIn(d), ~revoked, d \notin stranded,
                      \A s \in Slots : trade[<<d, s>>] = NoTrade
               PROVE  token[jar[d].refresh] = "unused"
    BY DEF SessionUsable
  <2>1. \A s \in Slots : trade[<<d, s>>].at = "idle"
    BY DEF NoTrade
  <2>2. ~Awaited(d)
    BY <2>1 DEF Awaited
  <2> QED
    BY <2>2 DEF SessionInv, Holds
<1> QED
  BY <1>1, Invariance, PTL

\* The API revokes every token of the account (auth/service.py, refresh, the replay
\* branch) only after some browser has lost an answer.
THEOREM RacesAreNoReplay == SessionSpec => NoFalseReplay
<1>1. SessionInv /\ [SessionNext]_sessionVars => (revoked' /\ ~revoked => stranded # {})
  <2> SUFFICES ASSUME SessionInv, [SessionNext]_sessionVars, revoked', ~revoked, stranded = {}
               PROVE  FALSE
    OBVIOUS
  <2>1. PICK r \in FetchesOfAll : Replay(r)
    <3>1. ~UNCHANGED revoked
      BY Zenon
    <3>2. \A d \in Devices :
            ~Logout(d) /\ ~AccessStale(d) /\ \A t \in Tokens : ~Login(d, t)
      BY <3>1, Zenon DEF Logout, AccessStale, Login
    <3>3. \A r \in FetchesOfAll :
            /\ ~AskForPair(r) /\ ~Claim(r) /\ ~Lose(r) /\ ~Renewed(r) /\ ~Dropped(r)
            /\ \A t \in Tokens : ~Issue(r, t)
      BY <3>1, Zenon DEF AskForPair, Claim, Lose, Renewed, Dropped, Issue
    <3>4. \A t \in Tokens : ~GracePasses(t)
      BY <3>1, Zenon DEF GracePasses
    <3>5. SessionNext
      BY <3>1, Zenon DEF sessionVars
    <3> QED
      BY <3>2, <3>3, <3>4, <3>5, Zenon DEF SessionNext, FetchesOfAll
  <2>2. r[1] \notin stranded
    OBVIOUS
  <2>3. Usable(trade[r].with)
    BY <2>1, <2>2 DEF SessionInv, AsksWell, Replay
  <2> QED
    BY <2>1, <2>3 DEF Replay
<1> QED
  BY <1>1, Invariance, PTL DEF SessionSpec, NoFalseReplay
=============================================================================
