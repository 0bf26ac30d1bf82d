------------------------ MODULE InvoiceNumbersProofs ------------------------
(***************************************************************************)
(* What is proved of InvoiceNumbers for any number of workers, invoices,   *)
(* prefixes and paddings.                                                  *)
(***************************************************************************)
EXTENDS InvoiceNumbers, FiniteSetTheorems, TLAPS

-----------------------------------------------------------------------------
(* Types.                                                                  *)

\* A number, however it is printed, is a number of this model.
LEMMA DigitsType == ASSUME NEW n \in Nat PROVE Digits(n) \in Nat
<1> DEFINE D == {d \in 1 .. 10 : 10 ^ (d - 1) <= n}
<1>1. IsFiniteSet(1 .. 10)
  <2>1. \A b \in Int : IsFiniteSet(1 .. b)
    BY FS_Interval
  <2>2. 10 \in Int
    OBVIOUS
  <2> QED BY <2>1, <2>2, Zenon
<1>2. D \subseteq 1 .. 10
  OBVIOUS
<1>3. Cardinality(D) \in Nat
  <2> HIDE DEF D
  <2> QED BY <1>1, <1>2, FS_Subset, FS_CardinalityType
<1> QED BY <1>3 DEF Digits

LEMMA PrintedType ==
    ASSUME NEW row \in SettingsRow PROVE NumberOf(row) \in Number
<1>1. /\ row.next \in Nat
      /\ row.scheme.prefix \in Prefixes
      /\ row.scheme.padding \in Nat
  BY NumbersAssumption DEF SettingsRow, Schemes
<1> QED BY <1>1, DigitsType DEF NumberOf, Printed, Number

LEMMA BlankType == Idle \in Request
<1>1. \E s : s \in Schemes
  <2>1. PICK prefix \in Prefixes, padding \in Paddings : TRUE
    BY NumbersAssumption
  <2>2. [prefix |-> prefix, padding |-> padding] \in Schemes
    BY <2>1 DEF Schemes
  <2> QED BY <2>2
<1>2. (CHOOSE s \in Schemes : TRUE) \in Schemes
  BY <1>1
<1> QED BY <1>2 DEF Idle, Opened, Request, SettingsRow

\* Every variable keeps its type, whatever is printed, typed or rolled back.
THEOREM NumbersTyped == Spec => []TypeOK
<1>1. Init => TypeOK
  <2> SUFFICES ASSUME Init PROVE TypeOK
    OBVIOUS
  <2>1. settings \in SettingsRow
    BY DEF Init, SettingsRow
  <2>2. invoices \in [Invoices -> [state: InvoiceState, number: Number \cup {Unnumbered}]]
    BY DEF Init, InvoiceState
  <2>3. req \in [Workers -> Request]
    BY BlankType DEF Init
  <2>4. edited \in BOOLEAN
    BY DEF Init
  <2> QED BY <2>1, <2>2, <2>3, <2>4 DEF TypeOK
<1>2. TypeOK /\ [Next]_vars => TypeOK'
  <2> SUFFICES ASSUME TypeOK, [Next]_vars
               PROVE  TypeOK'
    OBVIOUS
  <2> USE DEF TypeOK
  <2>1. ASSUME NEW w \in Workers, Finish(w) PROVE req' \in [Workers -> Request]
    BY <2>1, BlankType DEF Finish
  <2>2. ASSUME NEW w \in Workers, OpenCreate(w) PROVE TypeOK'
    BY <2>2 DEF OpenCreate, Opened, Request
  <2>3. ASSUME NEW w \in Workers, Allocate(w) PROVE TypeOK'
    BY <2>3 DEF Allocate, Request
  <2>4. ASSUME NEW w \in Workers, InsertInvoice(w) PROVE TypeOK'
    <3>1. req[w].seen \in SettingsRow
      BY DEF Request
    <3>2. NumberOf(req[w].seen) \in Number /\ Advanced(req[w].seen) \in Nat
      BY <3>1, PrintedType DEF Advanced, SettingsRow
    <3>3. invoices' \in [Invoices -> [state: InvoiceState, number: Number \cup {Unnumbered}]]
      BY <2>4, <3>2 DEF InsertInvoice, InvoiceState
    <3>4. settings' \in SettingsRow
      BY <2>4, <3>2 DEF InsertInvoice, SettingsRow
    <3>5. req' \in [Workers -> Request]
      BY <2>4 DEF InsertInvoice, Request
    <3>6. edited' \in BOOLEAN
      BY <2>4 DEF InsertInvoice
    <3> QED BY <3>3, <3>4, <3>5, <3>6
  <2>5. ASSUME NEW w \in Workers, Collide(w) PROVE TypeOK'
    BY <2>5 DEF Collide, AfterCollision, Request
  <2>6. ASSUME NEW w \in Workers, Answer(w) PROVE TypeOK'
    BY <2>6, <2>1 DEF Answer
  <2>7. ASSUME NEW w \in Workers, OpenForm(w) PROVE TypeOK'
    BY <2>7 DEF OpenForm, Opened, Request
  <2>8. ASSUME NEW w \in Workers, SubmitForm(w) PROVE TypeOK'
    <3>1. PICK scheme \in Schemes, next \in Typed \cup {req[w].form.next} :
            req' = [req EXCEPT ![w].pc = "loaded",
                               ![w].seen = settings,
                               ![w].form = [scheme |-> scheme, next |-> next]]
      BY <2>8 DEF SubmitForm
    <3>2. [scheme |-> scheme, next |-> next] \in SettingsRow
      BY NumbersAssumption DEF SettingsRow, Request
    <3> DEFINE form == [scheme |-> scheme, next |-> next]
               submitted == [req[w] EXCEPT !.pc = "loaded", !.seen = settings, !.form = form]
    <3>3. submitted \in Request
      BY <3>2 DEF Request
    <3>4. req' = [req EXCEPT ![w] = submitted]
      BY <3>1
    <3>5. req' \in [Workers -> Request]
      <4> HIDE DEF submitted
      <4> QED BY <3>3, <3>4
    <3> QED BY <2>8, <3>5 DEF SubmitForm
  <2>9. ASSUME NEW w \in Workers, CommitSave(w) PROVE TypeOK'
    <3>1. req[w].seen \in SettingsRow /\ req[w].form \in SettingsRow
      BY DEF Request
    <3>2. settings' \in SettingsRow
      BY <2>9, <3>1 DEF CommitSave, SettingsRow
    <3> QED BY <2>9, <2>1, <3>2 DEF CommitSave
  <2>10. ASSUME NEW w \in Workers, Crash(w) PROVE TypeOK'
    BY <2>10, <2>1 DEF Crash
  <2>11. ASSUME NEW i \in Invoices, IssueInvoice(i) PROVE TypeOK'
    BY <2>11 DEF IssueInvoice, InvoiceState
  <2>12. ASSUME NEW i \in Invoices, DeleteDraft(i) PROVE TypeOK'
    BY <2>12 DEF DeleteDraft, InvoiceState
  <2> QED
    BY <2>2, <2>3, <2>4, <2>5, <2>6, <2>7, <2>8, <2>9, <2>10, <2>11, <2>12
       DEF Next, Create, Save, vars
<1> QED BY <1>1, <1>2, PTL DEF Spec

-----------------------------------------------------------------------------
(* Uniqueness.  The only thing it rests on is the unique index: an insert  *)
(* is the one step that gives a live invoice a number.                     *)

\* No two live invoices of an agency bear the same number, whatever overlaps
\* (create_invoice, the unique index on agency_id and number).
THEOREM Unique == Spec => []NumbersUnique
<1>1. Init => NumbersUnique
  BY DEF Init, NumbersUnique, Live
<1>2. TypeOK /\ NumbersUnique /\ [Next]_vars => NumbersUnique'
  <2> SUFFICES ASSUME TypeOK, NumbersUnique, [Next]_vars
               PROVE  NumbersUnique'
    OBVIOUS
  <2> USE DEF NumbersUnique, Live
  <2>1. ASSUME UNCHANGED invoices PROVE NumbersUnique'
    BY <2>1
  <2>2. ASSUME NEW w \in Workers, InsertInvoice(w) PROVE NumbersUnique'
    BY <2>2 DEF InsertInvoice, Taken, TypeOK
  <2>3. ASSUME NEW i \in Invoices, IssueInvoice(i) PROVE NumbersUnique'
    BY <2>3 DEF IssueInvoice, TypeOK
  <2>4. ASSUME NEW i \in Invoices, DeleteDraft(i) PROVE NumbersUnique'
    BY <2>4 DEF DeleteDraft, TypeOK
  <2>5. ASSUME NEW w \in Workers, Create(w) \/ Save(w) \/ Crash(w), ~InsertInvoice(w)
        PROVE  UNCHANGED invoices
    BY <2>5 DEF Create, Save, Crash, OpenCreate, Allocate, Collide, Answer,
                OpenForm, SubmitForm, CommitSave
  <2> QED BY <2>1, <2>2, <2>3, <2>4, <2>5 DEF Next, vars
<1> QED BY <1>1, <1>2, NumbersTyped, PTL DEF Spec

-----------------------------------------------------------------------------
(* No gaps.  A stale counter is one that was already used, so its number   *)
(* is taken and the insert fails: only a creation whose counter is current *)
(* gets through, and it moves the counter by one.                          *)

\* What a request has loaded is the settings row as it is, or as it was before
\* the counter advanced.
StaleOnlyBehind ==
    /\ settings.next >= 1
    /\ \A w \in Workers :
        req[w].op = "create" =>
            /\ req[w].seen.scheme = settings.scheme
            /\ req[w].seen.next \in 1 .. settings.next

\* The inductive strengthening of NumbersConsecutive.
GapFree == (Untouched => StaleOnlyBehind) /\ NumbersConsecutive

\* A creation that finds its number free has the current counter.
LEMMA FreeIsCurrent ==
    ASSUME TypeOK, GapFree, Untouched, NEW w \in Workers,
           req[w].op = "create", ~Taken(NumberOf(req[w].seen))
    PROVE  req[w].seen.scheme = settings.scheme /\ req[w].seen.next = settings.next
<1>1. /\ req[w].seen.scheme = settings.scheme
      /\ req[w].seen.next \in 1 .. settings.next
  BY DEF GapFree, StaleOnlyBehind
<1>2. settings.next \in Nat
  BY DEF TypeOK, SettingsRow
<1>3. ASSUME req[w].seen.next \in 1 .. settings.next - 1 PROVE FALSE
  <2>1. NumberOf(req[w].seen) \in {Printed(settings.scheme, n) : n \in 1 .. settings.next - 1}
    BY <1>1, <1>3 DEF NumberOf
  <2>2. PICK i \in Live : invoices[i].number = NumberOf(req[w].seen)
    BY <2>1 DEF GapFree, NumbersConsecutive
  <2> QED BY <2>2 DEF Taken
<1> QED BY <1>1, <1>2, <1>3

\* A save that leaves the numbering untouched writes nothing.
LEMMA IdleSave ==
    ASSUME TypeOK, NEW w \in Workers, CommitSave(w), Untouched'
    PROVE  Untouched /\ UNCHANGED settings
<1>1. ~edited /\ req[w].form = req[w].seen
  BY DEF CommitSave, Untouched
<1>2. settings' = [scheme |-> settings.scheme, next |-> settings.next]
  BY <1>1 DEF CommitSave
<1>3. settings = [scheme |-> settings.scheme, next |-> settings.next]
  BY DEF TypeOK, SettingsRow
<1> QED BY <1>1, <1>2, <1>3 DEF CommitSave, Untouched

\* Until a settings form changes the numbering or a draft is deleted, the numbers
\* in use are exactly those below the counter, however many creations overlap,
\* fail on the unique index or die (_next_invoice_number, create_invoice).
THEOREM Consecutive == Spec => []NumbersConsecutive
<1>1. Init => GapFree
  BY DEF Init, GapFree, StaleOnlyBehind, NumbersConsecutive, Live, Idle, Opened,
         SettingsRow, Schemes
<1>2. TypeOK /\ GapFree /\ [Next]_vars => GapFree'
  <2> SUFFICES ASSUME TypeOK, GapFree, [Next]_vars, Untouched'
               PROVE  GapFree'
    BY DEF GapFree, NumbersConsecutive
  <2>1. ASSUME Untouched, UNCHANGED <<settings, invoices>> PROVE NumbersConsecutive'
    BY <2>1 DEF GapFree, NumbersConsecutive, Live
  <2>2. ASSUME NEW w \in Workers, Finish(w), Untouched, UNCHANGED settings
        PROVE  StaleOnlyBehind'
    BY <2>2 DEF Finish, Idle, Opened, GapFree, StaleOnlyBehind, TypeOK
  <2>3. ASSUME NEW w \in Workers, OpenCreate(w) \/ OpenForm(w) PROVE GapFree'
    <3>1. Untouched
      BY <2>3 DEF OpenCreate, OpenForm, Untouched
    <3>2. StaleOnlyBehind'
      BY <2>3, <3>1 DEF OpenCreate, OpenForm, Opened, GapFree, StaleOnlyBehind, TypeOK, SettingsRow
    <3> QED BY <2>3, <2>1, <3>1, <3>2 DEF GapFree, OpenCreate, OpenForm
  <2>4. ASSUME NEW w \in Workers, Allocate(w) \/ SubmitForm(w) PROVE GapFree'
    <3>1. Untouched
      BY <2>4 DEF Allocate, SubmitForm, Untouched
    <3>2. CASE Allocate(w)
      <4>1. StaleOnlyBehind'
        BY <3>1, <3>2 DEF Allocate, GapFree, StaleOnlyBehind, TypeOK, Request
      <4> QED BY <3>1, <3>2, <2>1, <4>1 DEF GapFree, Allocate
    <3>3. CASE SubmitForm(w)
      <4>1. \E r : req' = [req EXCEPT ![w] = r] /\ r.op = "save"
        <5>1. PICK scheme \in Schemes, next \in Typed \cup {req[w].form.next} :
                req' = [req EXCEPT ![w].pc = "loaded",
                                   ![w].seen = settings,
                                   ![w].form = [scheme |-> scheme, next |-> next]]
          BY <3>3 DEF SubmitForm
        <5> DEFINE r == [req[w] EXCEPT !.pc = "loaded", !.seen = settings,
                                       !.form = [scheme |-> scheme, next |-> next]]
        <5>2. r.op = "save"
          BY <3>3 DEF SubmitForm, TypeOK, Request
        <5>3. req' = [req EXCEPT ![w] = r]
          BY <5>1
        <5> HIDE DEF r
        <5> QED BY <5>2, <5>3
      <4>2. StaleOnlyBehind'
        BY <3>1, <3>3, <4>1 DEF SubmitForm, GapFree, StaleOnlyBehind, TypeOK
      <4> QED BY <3>1, <3>3, <2>1, <4>2 DEF GapFree, SubmitForm
    <3> QED BY <2>4, <3>2, <3>3
  <2>5. ASSUME NEW w \in Workers, InsertInvoice(w) PROVE GapFree'
    <3>0. PICK i \in Invoices :
            /\ invoices[i].state = "unused"
            /\ invoices' = [invoices EXCEPT ![i] = [state |-> "draft",
                                                    number |-> NumberOf(req[w].seen)]]
      BY <2>5 DEF InsertInvoice
    <3>u. Untouched
      BY <2>5, <3>0 DEF InsertInvoice, Untouched, TypeOK
    <3>1. req[w].seen.scheme = settings.scheme /\ req[w].seen.next = settings.next
      BY <2>5, <3>u, FreeIsCurrent DEF InsertInvoice
    <3>2. settings.next \in Nat /\ settings.next >= 1
      BY <3>u DEF TypeOK, SettingsRow, GapFree, StaleOnlyBehind
    <3>3. settings' = [settings EXCEPT !.next = settings.next + 1]
      BY <2>5, <3>1 DEF InsertInvoice, Advanced
    <3>4. settings'.next = settings.next + 1 /\ settings'.scheme = settings.scheme
      BY <3>3 DEF TypeOK, SettingsRow
    <3>5. StaleOnlyBehind'
      BY <2>5, <3>u, <3>2, <3>4 DEF InsertInvoice, GapFree, StaleOnlyBehind, TypeOK, Request
    <3>6. /\ Live' = Live \cup {i}
          /\ \A j \in Live : invoices'[j].number = invoices[j].number
          /\ invoices'[i].number = NumberOf(req[w].seen)
      BY <3>0 DEF Live, TypeOK
    <3> DEFINE P(n) == Printed(settings.scheme, n)
    <3>7. invoices'[i].number = P(settings.next)
      BY <3>6, <3>1 DEF NumberOf
    <3>8. 1 .. settings'.next - 1 = (1 .. settings.next - 1) \cup {settings.next}
      BY <3>2, <3>4
    <3>9. {invoices'[j].number : j \in Live'} =
             {invoices[j].number : j \in Live} \cup {P(settings.next)}
      BY <3>6, <3>7
    <3>10. {invoices[j].number : j \in Live} = {P(n) : n \in 1 .. settings.next - 1}
      BY <3>u DEF GapFree, NumbersConsecutive
    <3>11. {invoices'[j].number : j \in Live'} = {P(n) : n \in 1 .. settings'.next - 1}
      <4> HIDE DEF P
      <4> QED BY <3>8, <3>9, <3>10
    <3> QED BY <3>5, <3>11, <3>4 DEF GapFree, NumbersConsecutive
  <2>6. ASSUME NEW w \in Workers, Collide(w) PROVE GapFree'
    <3>1. Untouched /\ UNCHANGED <<settings, invoices>>
      BY <2>6 DEF Collide, AfterCollision, Untouched
    <3>2. StaleOnlyBehind'
      BY <2>6, <3>1 DEF Collide, GapFree, StaleOnlyBehind, TypeOK, Request
    <3> QED BY <2>1, <3>1, <3>2 DEF GapFree
  <2>7. ASSUME NEW w \in Workers, Answer(w) \/ CommitSave(w) \/ Crash(w) PROVE GapFree'
    <3>1. Untouched /\ UNCHANGED <<settings, invoices>> /\ Finish(w)
      <4>1. CASE Answer(w) \/ Crash(w)
        BY <4>1 DEF Answer, Crash, Untouched
      <4>2. CASE CommitSave(w)
        BY <4>2, IdleSave DEF CommitSave
      <4> QED BY <2>7, <4>1, <4>2
    <3> QED BY <2>1, <2>2, <3>1 DEF GapFree
  <2>8. ASSUME NEW i \in Invoices, IssueInvoice(i) PROVE GapFree'
    <3>1. Untouched
      BY <2>8 DEF IssueInvoice, Untouched, TypeOK
    <3>2. Live' = Live /\ \A j \in Live : invoices'[j].number = invoices[j].number
      BY <2>8 DEF IssueInvoice, Live, TypeOK
    <3>3. {invoices'[j].number : j \in Live'} = {invoices[j].number : j \in Live}
      BY <3>2
    <3>4. settings' = settings /\ StaleOnlyBehind'
      BY <2>8, <3>1 DEF IssueInvoice, GapFree, StaleOnlyBehind
    <3> QED BY <3>1, <3>3, <3>4 DEF GapFree, NumbersConsecutive
  <2>9. ASSUME NEW i \in Invoices, DeleteDraft(i) PROVE FALSE
    BY <2>9 DEF DeleteDraft, Untouched, TypeOK
  <2>10. ASSUME UNCHANGED vars PROVE GapFree'
    <3>1. Untouched /\ StaleOnlyBehind'
      BY <2>10 DEF vars, Untouched, GapFree, StaleOnlyBehind
    <3> QED BY <2>10, <2>1, <3>1 DEF vars, GapFree
  <2> QED
    BY <2>3, <2>4, <2>5, <2>6, <2>7, <2>8, <2>9, <2>10 DEF Next, Create, Save
<1>3. GapFree => NumbersConsecutive
  BY DEF GapFree
<1> QED BY <1>1, <1>2, <1>3, NumbersTyped, PTL DEF Spec

\* Until then the next number is always free: what wedges creation for good needs
\* a deleted draft or a settings form that changes the numbering.
THEOREM NeverWedged == Spec => [](Untouched => CounterFree)
<1>1. TypeOK /\ NumbersConsecutive => (Untouched => CounterFree)
  <2> SUFFICES ASSUME TypeOK, NumbersConsecutive, Untouched,
                      NEW i \in Live, invoices[i].number = NumberOf(settings)
               PROVE  FALSE
    BY DEF CounterFree, Taken
  <2>1. PICK n \in 1 .. settings.next - 1 : invoices[i].number = Printed(settings.scheme, n)
    BY DEF NumbersConsecutive
  <2>2. n = settings.next
    BY <2>1 DEF NumberOf, Printed
  <2> QED BY <2>1, <2>2 DEF TypeOK, SettingsRow
<1> QED BY <1>1, NumbersTyped, Consecutive, PTL
=============================================================================
