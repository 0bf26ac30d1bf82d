----------------------- MODULE InvoicePaymentsProofs -----------------------
(***************************************************************************)
(* Theorems about InvoicePayments, for every number of workers, sessions,  *)
(* payment rows and crashes.                                               *)
(***************************************************************************)
EXTENDS InvoicePayments, FiniteSetTheorems, TLAPS

-----------------------------------------------------------------------------
(* The operators the model is built from.                                  *)

\* A finite set of rows has a finite number of cents.
LEMMA SumOfType ==
    ASSUME NEW rows \in [PaymentIds -> PaymentRow], NEW S \in SUBSET PaymentIds
    PROVE  SumOf(rows, S) \in Nat
<1> DEFINE centsOf(p) == {p} \X (1 .. rows[p].amount)
           T == {centsOf(p) : p \in S}
           f == [p \in S |-> centsOf(p)]
<1>1. IsFiniteSet(S)
  BY ConstantsAssumption, FS_Subset
<1>2. f \in Surjection(S, T)
  BY DEF Surjection
<1>3. IsFiniteSet(T)
  BY <1>1, <1>2, FS_Surjection
<1>4. \A X \in T : IsFiniteSet(X)
  <2> SUFFICES ASSUME NEW p \in S
               PROVE  IsFiniteSet(centsOf(p))
    OBVIOUS
  <2>1. rows[p].amount \in Nat
    BY DEF PaymentRow
  <2>2. IsFiniteSet(1 .. rows[p].amount)
    BY <2>1, FS_Interval
  <2>3. IsFiniteSet({p})
    BY FS_Singleton
  <2> QED
    BY <2>2, <2>3, FS_Product
<1>5. IsFiniteSet(UNION T)
  BY <1>3, <1>4, FS_UNION
<1> QED
  BY <1>5, FS_CardinalityType DEF SumOf, Cents

\* The roll-up keeps the type of the row.
LEMMA ApplyPaymentsType ==
    ASSUME NEW inv \in InvoiceRow, NEW sum \in Nat
    PROVE  ApplyPayments(inv, sum) \in InvoiceRow
  BY DEF ApplyPayments, InvoiceRow, InvoiceStatus

\* So does the write-back of the changed columns.
LEMMA WrittenType ==
    ASSUME TypeOK, NEW seen \in InvoiceRow, NEW new \in InvoiceRow
    PROVE  Written(seen, new) \in InvoiceRow
  BY DEF Written, TypeOK, InvoiceRow, InvoiceStatus

\* A request that starts is a request.
LEMMA LoadedType ==
    ASSUME TypeOK, NEW op \in AllOperations
    PROVE  Loaded(op) \in Request
  BY DEF Loaded, Idle, Request, TypeOK, NoInvoice, InvoiceRow, InvoiceStatus

LEMMA IdleType == Idle \in Request
  BY DEF Idle, Request, NoInvoice, InvoiceRow, InvoiceStatus

LEMMA UndoType ==
    ASSUME TypeOK, NEW w \in Workers, Undo(w)
    PROVE  /\ payments' \in [PaymentIds -> PaymentRow]
           /\ ledger' \in [Events -> {"absent", "staged", "durable"}]
  BY DEF TypeOK, Undo, RolledBackRow, UnusedRow, PaymentRow

-----------------------------------------------------------------------------
(* Type correctness.                                                       *)

LEMMA InitType == Init => TypeOK
<1> SUFFICES ASSUME Init PROVE TypeOK
  OBVIOUS
<1>1. invoice \in InvoiceRow
  <2>1. invoice \in [status: {"draft"}, total: Totals \cup {0}, paid: {0}, lined: BOOLEAN]
    BY Zenon DEF Init
  <2>2. Totals \cup {0} \subseteq Nat
    BY ConstantsAssumption
  <2> QED BY <2>1, <2>2 DEF InvoiceRow, InvoiceStatus
<1>2. payments \in [PaymentIds -> PaymentRow]
  BY DEF Init, PaymentRow, UnusedRow
<1>3. req \in [Workers -> Request]
  BY IdleType DEF Init
<1>4. crashes \in 0..MaxCrashes
  BY ConstantsAssumption DEF Init
<1>5. sessions \in [Sessions -> SessionRow]
  BY DEF Init, SessionRow
<1>6. /\ events \in [Events -> {"none", "unsettled", "settled"}]
      /\ acked \subseteq Events
      /\ ledger \in [Events -> {"absent", "staged", "durable"}]
  BY DEF Init
<1> QED
  BY <1>1, <1>2, <1>3, <1>4, <1>5, <1>6 DEF TypeOK

\* A webhook request knows which event it handles, a return page which session
\* it asks about; nobody else has a PaymentIntent, and only payments are inserted.
InputInHand ==
    \A w \in Workers :
        /\ req[w].op = "webhook" =>
             /\ req[w].event \in Events
             /\ req[w].pc \in {"insert", "commit"} => req[w].intent = req[w].event[1]
        /\ req[w].op = "confirm" => req[w].intent \in Sessions
        /\ req[w].op \notin {"confirm", "webhook"} => req[w].intent = NoIntent
        /\ req[w].pc = "insert" => req[w].op \in {"add", "confirm", "webhook"}

\* What an accepted request of a member of staff or of a client looks like.
Fresh(r) ==
    /\ r.op \notin {"idle", "webhook"} /\ r.pc \in {"loaded", "insert"}
    /\ r.event = NoEvent
    /\ r.op # "remove" => r.payment = NoPayment
    /\ IF r.op = "confirm" THEN r.intent \in Sessions ELSE r.intent = NoIntent
    /\ r.pc = "insert" => r.op = "add"
    /\ r.new.status = "draft" => r.seen.status = "draft"

Started(w) ==
    /\ UNCHANGED <<invoice, payments, sessions, events, acked, ledger, crashes>>
    /\ \E r \in Request : Fresh(r) /\ req' = [req EXCEPT ![w] = r]

LEMMA ArriveShape ==
    ASSUME TypeOK, NEW w \in Workers, Arrive(w)
    PROVE  Started(w)
<1> USE DEF stripeVars
<1>1. CASE StartUpdate(w)
  <2> PICK total \in Totals \cup {0}, lined \in BOOLEAN :
        req' = [req EXCEPT ![w] = [Loaded("update") EXCEPT !.new.total = total, !.new.lined = lined]]
    BY <1>1 DEF StartUpdate
  <2> DEFINE l == Loaded("update")
             r == [Loaded("update") EXCEPT !.new.total = total, !.new.lined = lined]
  <2> total \in Nat
    BY ConstantsAssumption
  <2>1. l \in Request
    BY LoadedType DEF AllOperations
  <2>2. /\ l.op = "update" /\ l.pc = "loaded" /\ l.payment = NoPayment
        /\ l.intent = NoIntent /\ l.event = NoEvent /\ l.new = l.seen
    BY DEF Loaded, Idle
  <2>3. r \in Request /\ Fresh(r)
    BY <2>1, <2>2 DEF Request, InvoiceRow, InvoiceStatus, Fresh
  <2> QED BY <1>1, <2>3 DEF StartUpdate, Accept, Started
<1>2. CASE StartIssue(w)
  <2> DEFINE l == Loaded("issue")
             r == l
  <2>1. l \in Request
    BY LoadedType DEF AllOperations
  <2>2. /\ l.op = "issue" /\ l.pc = "loaded" /\ l.payment = NoPayment
        /\ l.intent = NoIntent /\ l.event = NoEvent /\ l.new = l.seen
    BY DEF Loaded, Idle
  <2>3. r \in Request /\ Fresh(r)
    BY <2>1, <2>2 DEF Request, InvoiceRow, InvoiceStatus, Fresh
  <2> QED BY <1>2, <2>3 DEF StartIssue, Accept, Started
<1>3. CASE StartVoid(w)
  <2> DEFINE l == Loaded("void")
             r == [Loaded("void") EXCEPT !.new.status = "void"]
  <2>1. l \in Request
    BY LoadedType DEF AllOperations
  <2>2. /\ l.op = "void" /\ l.pc = "loaded" /\ l.payment = NoPayment
        /\ l.intent = NoIntent /\ l.event = NoEvent /\ l.new = l.seen
    BY DEF Loaded, Idle
  <2>3. r \in Request /\ Fresh(r)
    BY <2>1, <2>2 DEF Request, InvoiceRow, InvoiceStatus, Fresh
  <2> QED BY <1>3, <2>3 DEF StartVoid, Accept, Started
<1>4. CASE StartDiscard(w)
  <2> DEFINE l == Loaded("discard")
             r == l
  <2>1. l \in Request
    BY LoadedType DEF AllOperations
  <2>2. /\ l.op = "discard" /\ l.pc = "loaded" /\ l.payment = NoPayment
        /\ l.intent = NoIntent /\ l.event = NoEvent /\ l.new = l.seen
    BY DEF Loaded, Idle
  <2>3. r \in Request /\ Fresh(r)
    BY <2>1, <2>2 DEF Request, InvoiceRow, InvoiceStatus, Fresh
  <2> QED BY <1>4, <2>3 DEF StartDiscard, Accept, Started
<1>5. CASE StartAdd(w)
  <2> PICK a \in Amounts :
        req' = [req EXCEPT ![w] = [Loaded("add") EXCEPT !.pc = "insert", !.amount = a]]
    BY <1>5 DEF StartAdd
  <2> DEFINE l == Loaded("add")
             r == [Loaded("add") EXCEPT !.pc = "insert", !.amount = a]
  <2>1. l \in Request
    BY LoadedType DEF AllOperations
  <2>2. /\ l.op = "add" /\ l.pc = "loaded" /\ l.payment = NoPayment
        /\ l.intent = NoIntent /\ l.event = NoEvent /\ l.new = l.seen
    BY DEF Loaded, Idle
  <2>3. r \in Request /\ Fresh(r)
    BY <2>1, <2>2, ConstantsAssumption DEF Request, InvoiceRow, InvoiceStatus, Fresh
  <2> QED BY <1>5, <2>3 DEF StartAdd, Accept, Started
<1>6. CASE StartRemove(w)
  <2> PICK p \in Committed :
        req' = [req EXCEPT ![w] = [Loaded("remove") EXCEPT !.payment = p]]
    BY <1>6 DEF StartRemove
  <2> DEFINE l == Loaded("remove")
             r == [Loaded("remove") EXCEPT !.payment = p]
  <2>1. l \in Request
    BY LoadedType DEF AllOperations
  <2>2. /\ l.op = "remove" /\ l.pc = "loaded" /\ l.payment = NoPayment
        /\ l.intent = NoIntent /\ l.event = NoEvent /\ l.new = l.seen
    BY DEF Loaded, Idle
  <2> p \in PaymentIds
    BY DEF Committed
  <2>3. r \in Request /\ Fresh(r)
    BY <2>1, <2>2 DEF Request, InvoiceRow, InvoiceStatus, Fresh
  <2> QED BY <1>6, <2>3 DEF StartRemove, Accept, Started
<1>7. CASE StartPay(w)
  <2> DEFINE l == Loaded("pay")
             r == l
  <2>1. l \in Request
    BY LoadedType DEF AllOperations
  <2>2. /\ l.op = "pay" /\ l.pc = "loaded" /\ l.payment = NoPayment
        /\ l.intent = NoIntent /\ l.event = NoEvent /\ l.new = l.seen
    BY DEF Loaded, Idle
  <2>3. r \in Request /\ Fresh(r)
    BY <2>1, <2>2 DEF Request, InvoiceRow, InvoiceStatus, Fresh
  <2> QED BY <1>7, <2>3 DEF StartPay, Accept, Started
<1>8. CASE StartConfirm(w)
  <2> PICK s \in Sessions :
        req' = [req EXCEPT ![w] = [Loaded("confirm") EXCEPT !.intent = s]]
    BY <1>8 DEF StartConfirm
  <2> DEFINE l == Loaded("confirm")
             r == [Loaded("confirm") EXCEPT !.intent = s]
  <2>1. l \in Request
    BY LoadedType DEF AllOperations
  <2>2. /\ l.op = "confirm" /\ l.pc = "loaded" /\ l.payment = NoPayment
        /\ l.intent = NoIntent /\ l.event = NoEvent /\ l.new = l.seen
    BY DEF Loaded, Idle
  <2>3. r \in Request /\ Fresh(r)
    BY <2>1, <2>2 DEF Request, InvoiceRow, InvoiceStatus, Fresh
  <2> QED BY <1>8, <2>3 DEF StartConfirm, Accept, Started
<1> QED
  BY <1>1, <1>2, <1>3, <1>4, <1>5, <1>6, <1>7, <1>8 DEF Arrive

LEMMA StartType ==
    ASSUME TypeOK, NEW w \in Workers, Arrive(w)
    PROVE  TypeOK'
  BY ArriveShape DEF Started, TypeOK

LEMMA StaffType ==
    ASSUME TypeOK, NEW w \in Workers,
           \/ CommitUpdate(w) \/ CommitVoid(w) \/ CommitDiscard(w)
           \/ CountLines(w) \/ FlushIssue(w) \/ CommitIssue(w)
    PROVE  TypeOK'
<1> DEFINE seen == req[w].seen
           new == req[w].new
<1>1. seen \in InvoiceRow /\ new \in InvoiceRow
  BY DEF TypeOK, Request
<1>2. Written(seen, new) \in InvoiceRow
  BY <1>1, WrittenType
<1>3. NoInvoice \in InvoiceRow
  BY DEF NoInvoice, InvoiceRow, InvoiceStatus
<1>4. CASE CommitUpdate(w)
  <2>1. [Written(seen, new) EXCEPT !.lined = new.lined] \in InvoiceRow
    BY <1>1, <1>2 DEF InvoiceRow
  <2> QED BY <1>4, <2>1, IdleType DEF CommitUpdate, Finish, TypeOK, stripeVars
<1>5. CASE CommitVoid(w)
  BY <1>5, <1>2, IdleType DEF CommitVoid, Finish, TypeOK, stripeVars
<1>6. CASE CommitDiscard(w)
  <2>1. payments' \in [PaymentIds -> PaymentRow]
    BY <1>6 DEF CommitDiscard, TypeOK, PaymentRow
  <2> QED BY <1>6, <1>3, <2>1, IdleType DEF CommitDiscard, Finish, TypeOK, stripeVars
<1>7. CASE CountLines(w)
  BY <1>7, IdleType DEF CountLines, Finish, TypeOK, Request, stripeVars
<1>8. CASE FlushIssue(w)
  <2>1. PaidTotal \in Nat
    BY SumOfType DEF TypeOK, PaidTotal, Committed
  <2>2. [seen EXCEPT !.status = "sent"] \in InvoiceRow
    BY <1>1 DEF InvoiceRow, InvoiceStatus
  <2>3. Issued(seen) \in InvoiceRow
    BY <2>1, <2>2, ApplyPaymentsType DEF Issued
  <2>4. [req[w] EXCEPT !.pc = "commit", !.new = Issued(seen)] \in Request
    BY <2>3 DEF TypeOK, Request
  <2> QED BY <1>8, <2>4, IdleType DEF FlushIssue, Finish, TypeOK, stripeVars
<1>9. CASE CommitIssue(w)
  BY <1>9, <1>2, IdleType DEF CommitIssue, Finish, TypeOK, stripeVars
<1> QED
  BY <1>4, <1>5, <1>6, <1>7, <1>8, <1>9

LEMMA PaymentType ==
    ASSUME TypeOK, NEW w \in Workers,
           \/ InsertPayment(w) \/ InsertOrphan(w) \/ LoseInsertRace(w)
           \/ AnswerExpired(w) \/ CommitPayment(w)
           \/ RemoveRow(w) \/ CommitRemove(w)
    PROVE  TypeOK'
<1> DEFINE seen == req[w].seen
           new == req[w].new
<1>1. seen \in InvoiceRow /\ new \in InvoiceRow
  BY DEF TypeOK, Request
<1>2. Written(seen, new) \in InvoiceRow
  BY <1>1, WrittenType
<1>3. CASE InsertPayment(w)
  <2> PICK p \in PaymentIds :
        /\ payments' = [payments EXCEPT ![p] = [state |-> "staged",
                                                amount |-> req[w].amount,
                                                intent |-> req[w].intent]]
        /\ req' = [req EXCEPT
                     ![w].pc = "commit",
                     ![w].payment = p,
                     ![w].new = ApplyPayments(req[w].seen,
                                              SumOf(payments', Committed \cup {p}))]
    BY <1>3 DEF InsertPayment
  <2>1. payments' \in [PaymentIds -> PaymentRow]
    BY DEF TypeOK, PaymentRow, Request
  <2> DEFINE sum == SumOf(payments', Committed \cup {p})
  <2>2. sum \in Nat
    BY <2>1, SumOfType DEF Committed
  <2>3. ApplyPayments(seen, sum) \in InvoiceRow
    BY <1>1, <2>2, ApplyPaymentsType
  <2>4. [req[w] EXCEPT !.pc = "commit", !.payment = p,
                       !.new = ApplyPayments(seen, sum)] \in Request
    BY <2>3 DEF TypeOK, Request
  <2> QED BY <1>3, <2>1, <2>4 DEF InsertPayment, TypeOK, stripeVars
<1>4. CASE InsertOrphan(w)
  BY <1>4, UndoType, IdleType DEF InsertOrphan, Finish, TypeOK, stripeVars
<1>5. CASE LoseInsertRace(w)
  <2> DEFINE next == IF req[w].op = "webhook" THEN "reply" ELSE "expired"
  <2>1. [req[w] EXCEPT !.pc = next] \in Request
    BY DEF TypeOK, Request
  <2> QED BY <1>5, <2>1, UndoType DEF LoseInsertRace, TypeOK, stripeVars
<1>6. CASE AnswerExpired(w)
  BY <1>6, IdleType DEF AnswerExpired, Finish, TypeOK, stripeVars
<1>7. CASE CommitPayment(w)
  <2>1. payments' \in [PaymentIds -> PaymentRow]
    BY <1>7 DEF CommitPayment, TypeOK, PaymentRow
  <2>2. ledger' \in [Events -> {"absent", "staged", "durable"}]
    BY <1>7 DEF CommitPayment, TypeOK
  <2>3. req' \in [Workers -> Request]
    BY <1>7, IdleType DEF CommitPayment, Finish, TypeOK, Request
  <2> QED BY <1>7, <1>2, <2>1, <2>2, <2>3 DEF CommitPayment, TypeOK, stripeVars
<1>8. CASE RemoveRow(w)
  <2> DEFINE p == req[w].payment
             kept == IF payments[p].state = "live" THEN p ELSE NoPayment
  <2>1. payments' \in [PaymentIds -> PaymentRow]
    BY <1>8 DEF RemoveRow, TypeOK, PaymentRow
  <2>2. SumOf(payments, Committed \ {p}) \in Nat
    BY SumOfType DEF Committed, TypeOK
  <2>3. WithoutPayment(seen, p) \in InvoiceRow
    BY <1>1, <2>2, ApplyPaymentsType DEF WithoutPayment
  <2>4. [req[w] EXCEPT !.pc = "commit", !.payment = kept,
                       !.new = WithoutPayment(seen, p)] \in Request
    BY <2>3 DEF TypeOK, Request
  <2> QED BY <1>8, <2>1, <2>4 DEF RemoveRow, TypeOK, stripeVars
<1>9. CASE CommitRemove(w)
  <2>1. payments' \in [PaymentIds -> PaymentRow]
    BY <1>9 DEF CommitRemove, TypeOK, PaymentRow
  <2> QED BY <1>9, <1>2, <2>1, IdleType DEF CommitRemove, Finish, TypeOK, stripeVars
<1> QED
  BY <1>3, <1>4, <1>5, <1>6, <1>7, <1>8, <1>9

LEMMA PortalType ==
    ASSUME TypeOK, InputInHand, NEW w \in Workers,
           CreateSession(w) \/ CheckSession(w)
    PROVE  TypeOK'
<1>1. CASE CreateSession(w)
  <2>1. sessions' \in [Sessions -> SessionRow]
    BY <1>1 DEF CreateSession, Balance, TypeOK, Request, InvoiceRow, SessionRow
  <2> QED BY <1>1, <2>1, IdleType DEF CreateSession, Finish, TypeOK
<1>2. CASE CheckSession(w)
  <2>1. req[w].intent \in Sessions
    BY <1>2 DEF CheckSession, At, InputInHand
  <2>2. [req[w] EXCEPT !.pc = "insert",
                       !.amount = sessions[req[w].intent].amount] \in Request
    BY <2>1 DEF TypeOK, Request, SessionRow
  <2> QED BY <1>2, <2>1, <2>2, IdleType DEF CheckSession, Finish, TypeOK, stripeVars
<1> QED BY <1>1, <1>2

LEMMA WebhookType ==
    ASSUME TypeOK, InputInHand, NEW w \in Workers,
           NothingToRecord(w) \/ RefuseEvent(w) \/ RecordEvent(w) \/ Reply(w)
    PROVE  TypeOK'
<1> req[w].event \in Events
  BY DEF InputInHand, NothingToRecord, RefuseEvent, RecordEvent, Reply, At
<1>1. CASE NothingToRecord(w)
  <2>1. ledger' \in [Events -> {"absent", "staged", "durable"}]
    BY <1>1 DEF NothingToRecord, TypeOK
  <2>2. [req[w] EXCEPT !.pc = "reply"] \in Request
    BY DEF TypeOK, Request
  <2> QED BY <1>1, <2>1, <2>2 DEF NothingToRecord, TypeOK, stripeVars
<1>2. CASE RefuseEvent(w)
  BY <1>2, UndoType, IdleType DEF RefuseEvent, Finish, TypeOK, stripeVars
<1>3. CASE RecordEvent(w)
  <2> DEFINE e == req[w].event
  <2>1. e[1] \in Sessions
    BY DEF Events
  <2>2. [req[w] EXCEPT !.pc = "insert", !.seen = invoice, !.new = invoice,
                       !.intent = e[1], !.amount = sessions[e[1]].amount] \in Request
    BY <2>1 DEF TypeOK, Request, SessionRow
  <2> QED BY <1>3, <2>2 DEF RecordEvent, TypeOK, stripeVars
<1>4. CASE Reply(w)
  BY <1>4, IdleType DEF Reply, Finish, TypeOK, stripeVars
<1> QED BY <1>1, <1>2, <1>3, <1>4

LEMMA CrashType ==
    ASSUME TypeOK, NEW w \in Workers, Crash(w)
    PROVE  TypeOK'
<1>1. crashes' \in 0..MaxCrashes
  BY ConstantsAssumption DEF Crash, TypeOK
<1> QED BY <1>1, UndoType, IdleType DEF Crash, Finish, TypeOK, stripeVars

LEMMA DeliveryType ==
    ASSUME TypeOK, NEW e \in Events,
           Replay(e) \/ \E w \in Workers : Deliver(w, e)
    PROVE  TypeOK'
<1>1. CASE Replay(e)
  BY <1>1 DEF Replay, TypeOK, stripeVars
<1>2. ASSUME NEW w \in Workers, Deliver(w, e)
      PROVE  TypeOK'
  <2> PICK platform \in BOOLEAN :
        req' = [req EXCEPT ![w] = [Idle EXCEPT !.op = "webhook", !.pc = "staged",
                                               !.event = e, !.platform = platform]]
    BY <1>2 DEF Deliver
  <2>1. [Idle EXCEPT !.op = "webhook", !.pc = "staged",
                     !.event = e, !.platform = platform] \in Request
    BY IdleType DEF Request
  <2>2. ledger' \in [Events -> {"absent", "staged", "durable"}]
    BY <1>2 DEF Deliver, LedgerRow, TypeOK
  <2> QED BY <1>2, <2>1, <2>2 DEF Deliver, TypeOK, stripeVars
<1> QED BY <1>1, <1>2

LEMMA StripeType ==
    ASSUME TypeOK, NEW s \in Sessions, Stripe(s)
    PROVE  TypeOK'
<1>1. sessions' \in [Sessions -> SessionRow]
  BY DEF Stripe, PayNow, PayLater, AsyncSucceeds, AsyncFails, Expire, StripeStep,
         TypeOK, SessionRow
<1>2. events' \in [Events -> {"none", "unsettled", "settled"}]
  BY DEF Stripe, PayNow, PayLater, AsyncSucceeds, AsyncFails, Expire, StripeStep,
         TypeOK
<1> QED
  BY <1>1, <1>2 DEF Stripe, PayNow, PayLater, AsyncSucceeds, AsyncFails, Expire,
                    StripeStep, TypeOK

LEMMA TypeStep ==
    ASSUME TypeOK, InputInHand, Next
    PROVE  TypeOK'
  BY StartType, StaffType, PaymentType, PortalType, WebhookType, CrashType,
     DeliveryType, StripeType DEF Next, Proceed

LEMMA InputStep ==
    ASSUME TypeOK, InputInHand, Next
    PROVE  InputInHand'
<1> USE DEF InputInHand, TypeOK, Request
<1>1. ASSUME NEW w \in Workers, Arrive(w)
      PROVE  InputInHand'
  BY <1>1, ArriveShape DEF Started, Fresh
<1>2. ASSUME NEW w \in Workers, Finish(w)
      PROVE  InputInHand'
  BY <1>2 DEF Finish, Idle
<1>3. ASSUME NEW w \in Workers, Proceed(w) \/ Crash(w), ~Finish(w)
      PROVE  InputInHand'
  <2>1. CASE CountLines(w)
    BY <1>3, <2>1 DEF CountLines
  <2>2. CASE FlushIssue(w)
    BY <1>3, <2>2 DEF FlushIssue, At
  <2>3. CASE InsertPayment(w)
    BY <1>3, <2>3 DEF InsertPayment
  <2>4. CASE LoseInsertRace(w)
    BY <1>3, <2>4 DEF LoseInsertRace
  <2>5. CASE CommitPayment(w)
    BY <1>3, <2>5 DEF CommitPayment
  <2>6. CASE RemoveRow(w)
    BY <1>3, <2>6 DEF RemoveRow, At
  <2>7. CASE CheckSession(w)
    BY <1>3, <2>7 DEF CheckSession, At
  <2>8. CASE NothingToRecord(w)
    BY <1>3, <2>8 DEF NothingToRecord
  <2>9. CASE RecordEvent(w)
    BY <1>3, <2>9 DEF RecordEvent, At
  <2> QED
    BY <1>3, <2>1, <2>2, <2>3, <2>4, <2>5, <2>6, <2>7, <2>8, <2>9
    DEF Proceed, CommitUpdate, CommitVoid, CommitDiscard, CommitIssue, InsertOrphan,
        AnswerExpired, CommitRemove, CreateSession, RefuseEvent, Reply, Crash
<1>4. ASSUME NEW w \in Workers, NEW e \in Events, Deliver(w, e)
      PROVE  InputInHand'
  BY <1>4 DEF Deliver, Idle
<1>5. CASE UNCHANGED req
  BY <1>5
<1> QED
  BY <1>1, <1>2, <1>3, <1>4, <1>5
  DEF Next, Replay, Stripe, PayNow, PayLater, AsyncSucceeds, AsyncFails, Expire,
      StripeStep

TypeInv == TypeOK /\ InputInHand

LEMMA TypeInvariant == Spec => []TypeInv
<1>1. Init => TypeInv
  BY InitType DEF Init, Idle, TypeInv, InputInHand
<1>2. TypeInv /\ [Next]_vars => TypeInv'
  <2> SUFFICES ASSUME TypeInv, [Next]_vars PROVE TypeInv'
    OBVIOUS
  <2>1. CASE Next
    BY <2>1, TypeStep, InputStep DEF TypeInv
  <2>2. CASE UNCHANGED vars
    BY <2>2 DEF vars, TypeInv, TypeOK, InputInHand
  <2> QED BY <2>1, <2>2
<1> QED BY <1>1, <1>2, PTL DEF Spec

\* Every variable keeps its type: amounts and balances are naturals, a Checkout
\* Session is never opened for a negative amount, a payment row never carries a
\* PaymentIntent that is none of Stripe's (start_invoice_checkout, add_payment).
THEOREM TypeCorrect == Spec => []TypeOK
<1>1. TypeInv => TypeOK
  BY DEF TypeInv
<1> QED BY <1>1, TypeInvariant, PTL

-----------------------------------------------------------------------------
(* One PaymentIntent, one payment.                                         *)

\* A transaction that is about to commit owns its payment row: it has staged
\* it, or is deleting it.  Only payments and removals own one.
RowInHand ==
    \A w \in Workers :
        /\ req[w].op = "issue" => req[w].payment = NoPayment
        /\ req[w].pc = "commit" =>
             \/ req[w].op \in {"issue", "remove"} /\ req[w].payment = NoPayment
             \/ /\ req[w].op = "remove" /\ req[w].payment \in PaymentIds
                /\ payments[req[w].payment].state = "deleting"
             \/ /\ req[w].op \in {"add", "confirm", "webhook"}
                /\ req[w].payment \in PaymentIds
                /\ payments[req[w].payment].state = "staged"
                /\ payments[req[w].payment].intent = req[w].intent
                /\ payments[req[w].payment].amount = req[w].amount

\* No two transactions own the same row.
RowsApart ==
    \A v, w \in Workers :
        /\ req[v].pc = "commit" /\ req[w].pc = "commit"
        /\ req[v].payment = req[w].payment /\ req[v].payment # NoPayment
        => v = w

\* What the unique index sees, committed or not.
Indexed(p) == payments[p].state \in {"staged", "live", "deleting"}

UniqueIntent ==
    \A p, q \in PaymentIds :
        /\ Indexed(p) /\ Indexed(q)
        /\ payments[p].intent = payments[q].intent /\ payments[p].intent # NoIntent
        => p = q

RowInv == RowInHand /\ RowsApart /\ UniqueIntent

\* A step that leaves the rows alone and does not bring a request to its commit
\* with a row in hand.
Bare(r) ==
    /\ r.op = "issue" => r.payment = NoPayment
    /\ r.pc = "commit" => r.op = "issue"

LEMMA BareRows ==
    ASSUME TypeOK, RowInv, payments' = payments,
           NEW w \in Workers, NEW r, Bare(r), req' = [req EXCEPT ![w] = r]
    PROVE  RowInv'
<1>1. RowInHand'
  BY DEF RowInv, RowInHand, Bare, TypeOK
<1>2. RowsApart'
  BY DEF RowInv, RowsApart, Bare, TypeOK
<1>3. UniqueIntent'
  BY DEF RowInv, UniqueIntent, Indexed
<1> QED BY <1>1, <1>2, <1>3 DEF RowInv

\* A rollback gives the row of the request back as it was.
LEMMA UndoRows ==
    ASSUME TypeOK, RowInv, NEW w \in Workers, Undo(w), NEW r, r.pc # "commit",
           r.op = "issue" => r.payment = NoPayment,
           req' = [req EXCEPT ![w] = r]
    PROVE  RowInv'
<1>1. ASSUME NEW p \in PaymentIds, p # req[w].payment \/ req[w].pc # "commit"
      PROVE  payments'[p] = payments[p]
  BY <1>1 DEF Undo
<1>2. ASSUME NEW p \in PaymentIds
      PROVE  Indexed(p)' => Indexed(p) /\ payments'[p].intent = payments[p].intent
  BY DEF Undo, RolledBackRow, UnusedRow, Indexed, TypeOK, PaymentRow
<1>3. RowInHand'
  <2> SUFFICES ASSUME NEW v \in Workers
               PROVE  RowInHand!(v)'
    BY DEF RowInHand
  <2>1. CASE v = w
    BY <2>1 DEF TypeOK
  <2>2. CASE v # w /\ req[v].payment \in PaymentIds /\ req[v].pc = "commit"
    <3>1. payments'[req[v].payment] = payments[req[v].payment]
      BY <1>1, <2>2, ConstantsAssumption DEF RowInv, RowsApart
    <3> QED BY <2>2, <3>1 DEF RowInv, RowInHand, TypeOK
  <2>3. CASE v # w /\ ~(req[v].payment \in PaymentIds /\ req[v].pc = "commit")
    BY <2>3 DEF RowInv, RowInHand, TypeOK
  <2> QED BY <2>1, <2>2, <2>3
<1>4. RowsApart'
  BY DEF RowInv, RowsApart, TypeOK
<1>5. UniqueIntent'
  BY <1>2 DEF RowInv, UniqueIntent
<1> QED BY <1>3, <1>4, <1>5 DEF RowInv

LEMMA InsertRows ==
    ASSUME TypeOK, RowInv, NEW w \in Workers, InsertPayment(w),
           req[w].op \in {"add", "confirm", "webhook"}
    PROVE  RowInv'
<1> DEFINE row == [state |-> "staged", amount |-> req[w].amount, intent |-> req[w].intent]
<1>1. PICK p \in PaymentIds :
        /\ payments[p].state = "unused"
        /\ payments' = [payments EXCEPT ![p] = row]
        /\ req' = [req EXCEPT
                     ![w].pc = "commit",
                     ![w].payment = p,
                     ![w].new = ApplyPayments(req[w].seen,
                                              SumOf(payments', Committed \cup {p}))]
  BY DEF InsertPayment
<1>2. ASSUME NEW v \in Workers, req[v].pc = "commit"
      PROVE  req[v].payment # p
  BY <1>1, <1>2, ConstantsAssumption DEF RowInv, RowInHand
<1>3. payments'[p] = row /\ \A q \in PaymentIds \ {p} : payments'[q] = payments[q]
  BY <1>1 DEF TypeOK
<1>4. /\ req'[w].pc = "commit" /\ req'[w].payment = p /\ req'[w].op = req[w].op
      /\ req'[w].amount = req[w].amount /\ req'[w].intent = req[w].intent
      /\ \A v \in Workers \ {w} : req'[v] = req[v]
  BY <1>1 DEF TypeOK, Request
<1>5. RowInHand'
  <2> SUFFICES ASSUME NEW v \in Workers
               PROVE  RowInHand!(v)'
    BY DEF RowInHand
  <2>1. CASE v = w
    BY <2>1, <1>3, <1>4
  <2>2. CASE v # w
    BY <2>2, <1>2, <1>3, <1>4 DEF RowInv, RowInHand
  <2> QED BY <2>1, <2>2
<1>6. RowsApart'
  BY <1>2, <1>4 DEF RowInv, RowsApart
<1>7. UniqueIntent'
  <2>1. ASSUME NEW q \in PaymentIds \ {p}, Indexed(q), req[w].intent # NoIntent
        PROVE  payments[q].intent # req[w].intent
    BY <2>1 DEF InsertPayment, IntentTaken, Indexed
  <2> QED BY <1>3, <2>1 DEF RowInv, UniqueIntent, Indexed
<1> QED BY <1>5, <1>6, <1>7 DEF RowInv

\* The row of the request changes state and nothing else; the request lets it go.
LEMMA SettleRow ==
    ASSUME TypeOK, RowInv, NEW w \in Workers, NEW r, NEW state,
           req[w].pc = "commit", req[w].payment \in PaymentIds,
           payments' = [payments EXCEPT ![req[w].payment].state = state],
           req' = [req EXCEPT ![w] = r],
           r.pc # "commit", r.op = "issue" => r.payment = NoPayment
    PROVE  RowInv'
<1> DEFINE p == req[w].payment
<1>1. /\ Indexed(p)
      /\ \A q \in PaymentIds : payments'[q].intent = payments[q].intent
      /\ \A q \in PaymentIds \ {p} : payments'[q] = payments[q]
  BY ConstantsAssumption DEF RowInv, RowInHand, Indexed, TypeOK, PaymentRow
<1>2. RowInHand'
  <2> SUFFICES ASSUME NEW v \in Workers
               PROVE  RowInHand!(v)'
    BY DEF RowInHand
  <2>1. CASE v = w
    BY <2>1 DEF TypeOK
  <2>2. CASE v # w
    <3>1. req[v].pc = "commit" /\ req[v].payment \in PaymentIds => req[v].payment # p
      BY <2>2, ConstantsAssumption DEF RowInv, RowsApart
    <3> QED BY <1>1, <2>2, <3>1 DEF RowInv, RowInHand, TypeOK
  <2> QED BY <2>1, <2>2
<1>3. RowsApart'
  BY DEF RowInv, RowsApart, TypeOK
<1>4. UniqueIntent'
  BY <1>1 DEF RowInv, UniqueIntent, Indexed
<1> QED BY <1>2, <1>3, <1>4 DEF RowInv

LEMMA RemoveRows ==
    ASSUME TypeOK, RowInv, NEW w \in Workers, RemoveRow(w)
    PROVE  RowInv'
<1> DEFINE p == req[w].payment
           kept == IF payments[p].state = "live" THEN p ELSE NoPayment
<1>1. /\ req'[w].pc = "commit" /\ req'[w].payment = kept /\ req'[w].op = "remove"
      /\ \A v \in Workers \ {w} : req'[v] = req[v]
  BY DEF RemoveRow, At, TypeOK, Request
<1>2. p \in PaymentIds \/ p = NoPayment
  BY DEF TypeOK, Request
<1>3. CASE p \in PaymentIds /\ payments[p].state = "live"
  <2>1. /\ payments'[p].state = "deleting"
        /\ \A q \in PaymentIds : payments'[q].intent = payments[q].intent
        /\ \A q \in PaymentIds \ {p} : payments'[q] = payments[q]
    BY <1>3 DEF RemoveRow, TypeOK, PaymentRow
  <2>2. ASSUME NEW v \in Workers, req[v].pc = "commit"
        PROVE  req[v].payment # p
    BY <1>3, <2>2, ConstantsAssumption DEF RowInv, RowInHand
  <2>3. RowInHand'
    <3> SUFFICES ASSUME NEW v \in Workers
                 PROVE  RowInHand!(v)'
      BY DEF RowInHand
    <3>1. CASE v = w
      BY <3>1, <1>1, <1>3, <2>1
    <3>2. CASE v # w
      BY <3>2, <1>1, <2>1, <2>2 DEF RowInv, RowInHand
    <3> QED BY <3>1, <3>2
  <2>4. RowsApart'
    BY <1>1, <1>3, <2>2 DEF RowInv, RowsApart
  <2>5. UniqueIntent'
    BY <1>3, <2>1 DEF RowInv, UniqueIntent, Indexed
  <2> QED BY <2>3, <2>4, <2>5 DEF RowInv
<1>4. CASE ~(p \in PaymentIds /\ payments[p].state = "live")
  <2>1. payments' = payments /\ kept = NoPayment
    BY <1>2, <1>4 DEF RemoveRow, TypeOK
  <2>2. RowInHand'
    BY <1>1, <2>1 DEF RowInv, RowInHand
  <2>3. RowsApart'
    BY <1>1, <2>1 DEF RowInv, RowsApart
  <2>4. UniqueIntent'
    BY <2>1 DEF RowInv, UniqueIntent, Indexed
  <2> QED BY <2>2, <2>3, <2>4 DEF RowInv
<1> QED BY <1>3, <1>4

LEMMA RowStep ==
    ASSUME TypeInv, RowInv, Next
    PROVE  RowInv'
<1> USE DEF TypeInv
<1>1. Bare(Idle) /\ Idle.pc # "commit" /\ Idle.op # "issue"
  BY DEF Bare, Idle
<1>2. ASSUME NEW w \in Workers, Arrive(w)
      PROVE  RowInv'
  <2> PICK r \in Request : Fresh(r) /\ req' = [req EXCEPT ![w] = r]
    BY <1>2, ArriveShape DEF Started
  <2>1. payments' = payments
    BY <1>2, ArriveShape DEF Started
  <2>2. Bare(r)
    BY DEF Fresh, Bare
  <2> QED BY <2>1, <2>2, BareRows
<1>3. ASSUME NEW w \in Workers, Proceed(w)
      PROVE  RowInv'
  <2> DEFINE r == req[w]
  <2>1. CASE /\ CommitUpdate(w) \/ CommitVoid(w) \/ CommitIssue(w) \/ AnswerExpired(w)
                \/ CreateSession(w) \/ Reply(w)
    BY <2>1, <1>1, BareRows
    DEF CommitUpdate, CommitVoid, CommitIssue, AnswerExpired, CreateSession, Reply, Finish
  <2>2. CASE CommitDiscard(w)
    <3>1. \A p \in PaymentIds : Indexed(p)' => payments'[p] = payments[p]
      BY <2>2 DEF CommitDiscard, Indexed, Committed, TypeOK, PaymentRow
    <3>2. \A v \in Workers : req[v].pc = "commit" => req[v].payment = NoPayment
      BY <2>2 DEF CommitDiscard, ChildInHand, At
    <3>3. RowInHand'
      BY <2>2, <3>2, <1>1, ConstantsAssumption
      DEF CommitDiscard, Finish, RowInv, RowInHand, TypeOK
    <3>4. RowsApart'
      BY <2>2, <3>2, <1>1 DEF CommitDiscard, Finish, RowsApart, TypeOK
    <3>5. UniqueIntent'
      BY <2>2, <3>1 DEF RowInv, UniqueIntent, Indexed
    <3> QED BY <3>3, <3>4, <3>5 DEF RowInv
  <2>3. CASE CountLines(w)
    <3>1. Bare([r EXCEPT !.pc = "counted"])
      BY DEF Bare, RowInv, RowInHand, TypeOK, Request
    <3> QED BY <2>3, <3>1, <1>1, BareRows DEF CountLines, Finish
  <2>4. CASE FlushIssue(w)
    <3>1. Bare([r EXCEPT !.pc = "commit", !.new = Issued(r.seen)])
      BY <2>4 DEF FlushIssue, At, Bare, RowInv, RowInHand, TypeOK, Request
    <3> QED BY <2>4, <3>1, <1>1, BareRows DEF FlushIssue, Finish
  <2>5. CASE InsertPayment(w)
    BY <2>5, InsertRows DEF InsertPayment, InputInHand
  <2>6. CASE InsertOrphan(w) \/ RefuseEvent(w)
    BY <2>6, <1>1, UndoRows DEF InsertOrphan, RefuseEvent, Finish
  <2>7. CASE LoseInsertRace(w)
    <3> DEFINE next == IF r.op = "webhook" THEN "reply" ELSE "expired"
    <3>1. /\ [r EXCEPT !.pc = next].pc # "commit"
          /\ [r EXCEPT !.pc = next].op = "issue" => [r EXCEPT !.pc = next].payment = NoPayment
      BY DEF RowInv, RowInHand, TypeOK, Request
    <3> QED BY <2>7, <3>1, UndoRows DEF LoseInsertRace
  <2>8. CASE CommitPayment(w)
    <3>1. r.pc = "commit" /\ r.payment \in PaymentIds
      BY <2>8 DEF CommitPayment, RowInv, RowInHand
    <3>2. [r EXCEPT !.pc = "reply"].pc = "reply" /\ [r EXCEPT !.pc = "reply"].op = r.op
      BY DEF TypeOK, Request
    <3> QED BY <2>8, <3>1, <3>2, <1>1, SettleRow DEF CommitPayment, Finish
  <2>9. CASE RemoveRow(w)
    BY <2>9, RemoveRows
  <2>10. CASE CommitRemove(w)
    <3>1. CASE r.payment = NoPayment
      BY <2>10, <3>1, <1>1, BareRows DEF CommitRemove, Finish
    <3>2. CASE r.payment # NoPayment
      <4>1. r.pc = "commit" /\ r.payment \in PaymentIds
        BY <2>10, <3>2 DEF CommitRemove, At, RowInv, RowInHand
      <4> QED BY <2>10, <3>2, <4>1, <1>1, SettleRow DEF CommitRemove, Finish
    <3> QED BY <3>1, <3>2
  <2>11. CASE CheckSession(w)
    <3>1. Bare([r EXCEPT !.pc = "insert", !.amount = sessions[r.intent].amount])
      BY <2>11 DEF CheckSession, At, Bare, TypeOK, Request
    <3> QED BY <2>11, <3>1, <1>1, BareRows DEF CheckSession, Finish
  <2>12. CASE NothingToRecord(w)
    <3>1. Bare([r EXCEPT !.pc = "reply"])
      BY <2>12 DEF NothingToRecord, At, Bare, TypeOK, Request
    <3> QED BY <2>12, <3>1, BareRows DEF NothingToRecord
  <2>13. CASE RecordEvent(w)
    <3> DEFINE e == r.event
    <3>1. Bare([r EXCEPT !.pc = "insert", !.seen = invoice, !.new = invoice,
                         !.intent = e[1], !.amount = sessions[e[1]].amount])
      BY <2>13 DEF RecordEvent, At, Bare, TypeOK, Request
    <3> QED BY <2>13, <3>1, BareRows DEF RecordEvent
  <2> QED
    BY <1>3, <2>1, <2>2, <2>3, <2>4, <2>5, <2>6, <2>7, <2>8, <2>9, <2>10, <2>11, <2>12,
       <2>13
    DEF Proceed
<1>4. ASSUME NEW w \in Workers, Crash(w)
      PROVE  RowInv'
  BY <1>4, <1>1, UndoRows DEF Crash, Finish
<1>5. ASSUME NEW w \in Workers, NEW e \in Events, Deliver(w, e)
      PROVE  RowInv'
  <2> PICK platform \in BOOLEAN :
        req' = [req EXCEPT ![w] = [Idle EXCEPT !.op = "webhook", !.pc = "staged",
                                               !.event = e, !.platform = platform]]
    BY <1>5 DEF Deliver
  <2>1. Bare([Idle EXCEPT !.op = "webhook", !.pc = "staged",
                          !.event = e, !.platform = platform])
    BY DEF Bare, Idle
  <2> QED BY <1>5, <2>1, BareRows DEF Deliver
<1>6. CASE UNCHANGED <<req, payments>>
  BY <1>6 DEF RowInv, RowInHand, RowsApart, UniqueIntent, Indexed
<1> QED
  BY <1>2, <1>3, <1>4, <1>5, <1>6
  DEF Next, Replay, Stripe, PayNow, PayLater, AsyncSucceeds, AsyncFails, Expire, StripeStep

LEMMA RowInvariant == Spec => []RowInv
<1>1. Init => RowInv
  <2> SUFFICES ASSUME Init PROVE RowInv
    OBVIOUS
  <2>1. \A w \in Workers : req[w].pc = "idle" /\ req[w].op = "idle"
    BY DEF Init, Idle
  <2>2. \A p \in PaymentIds : payments[p].state = "unused"
    BY DEF Init, UnusedRow
  <2> QED BY <2>1, <2>2 DEF RowInv, RowInHand, RowsApart, UniqueIntent, Indexed
<1>2. TypeInv /\ RowInv /\ [Next]_vars => RowInv'
  <2> SUFFICES ASSUME TypeInv, RowInv, [Next]_vars PROVE RowInv'
    OBVIOUS
  <2>1. CASE UNCHANGED vars
    BY <2>1 DEF vars, RowInv, RowInHand, RowsApart, UniqueIntent, Indexed
  <2> QED BY <2>1, RowStep
<1> QED BY <1>1, <1>2, TypeInvariant, PTL DEF Spec

\* However many webhook deliveries, endpoints and return pages record the same
\* PaymentIntent at once, through crashes and rollbacks, the invoice carries one
\* payment for it (record_checkout_payment, uq on stripe_payment_intent_id).
THEOREM RecordedOnce == Spec => []IntentRecordedOnce
<1>1. RowInv => IntentRecordedOnce
  BY DEF RowInv, UniqueIntent, Indexed, IntentRecordedOnce, Committed
<1> QED BY <1>1, RowInvariant, PTL

-----------------------------------------------------------------------------
(* Only money that Stripe has is recorded.                                 *)

\* The session s has settled, for this amount.
Has(s, amount) == sessions[s].state = "settled" /\ sessions[s].amount = amount

\* A request on its way to add_payment with a PaymentIntent carries settled money.
Paying(r) == r.pc \in {"insert", "commit"} /\ r.intent # NoIntent

MoneyInHand ==
    \A w \in Workers : Paying(req[w]) => Has(req[w].intent, req[w].amount)

\* So does every payment row that was ever written for a PaymentIntent.
RowsSettled ==
    \A p \in PaymentIds :
        payments[p].state # "unused" /\ payments[p].intent # NoIntent =>
            Has(payments[p].intent, payments[p].amount)

\* An event says "settled" only when the session is, and is sent at its turn.
EventsInTurn ==
    \A s \in Sessions :
        /\ sessions[s].state \in {"none", "open"} => events[<<s, "completed">>] = "none"
        /\ sessions[s].state \in {"none", "open", "processing"} => events[<<s, "async">>] = "none"
        /\ \A k \in {"completed", "async"} :
              events[<<s, k>>] = "settled" => sessions[s].state = "settled"

MoneyInv == MoneyInHand /\ RowsSettled /\ EventsInTurn

\* Settled money stays settled.
LEMMA HasStable ==
    ASSUME TypeInv, Next, NEW s \in Sessions, NEW amount, Has(s, amount)
    PROVE  Has(s, amount)'
<1> USE DEF TypeInv, TypeOK, SessionRow, Has
<1>1. ASSUME NEW u \in Sessions, Stripe(u)
      PROVE  Has(s, amount)'
  BY <1>1 DEF Stripe, PayNow, PayLater, AsyncSucceeds, AsyncFails, Expire, StripeStep
<1>2. ASSUME NEW w \in Workers, Proceed(w)
      PROVE  Has(s, amount)'
  BY <1>2 DEF Proceed, stripeVars, CommitUpdate, CommitVoid, CommitDiscard, CountLines,
     FlushIssue, CommitIssue, InsertPayment, InsertOrphan, LoseInsertRace, AnswerExpired,
     CommitPayment, RemoveRow, CommitRemove, CreateSession, CheckSession,
     NothingToRecord, RefuseEvent, RecordEvent, Reply
<1>3. ASSUME NEW w \in Workers, Arrive(w)
      PROVE  Has(s, amount)'
  BY <1>3, ArriveShape DEF Started
<1>4. CASE UNCHANGED sessions
  BY <1>4
<1> QED
  BY <1>1, <1>2, <1>3, <1>4 DEF Next, Crash, Deliver, Replay, stripeVars

\* A row that is in use was in use, with the same intent and amount, or has just
\* been inserted.
Inserted(w, p) ==
    /\ req[w].pc = "insert" /\ payments[p].state = "unused"
    /\ payments'[p] = [state |-> "staged", amount |-> req[w].amount, intent |-> req[w].intent]

LEMMA RowOrigin ==
    ASSUME TypeInv, RowInv, Next, NEW p \in PaymentIds, payments'[p].state # "unused"
    PROVE  \/ /\ payments[p].state # "unused"
              /\ payments'[p].intent = payments[p].intent
              /\ payments'[p].amount = payments[p].amount
           \/ \E w \in Workers : Inserted(w, p)
<1> DEFINE Kept == /\ payments[p].state # "unused"
                   /\ payments'[p].intent = payments[p].intent
                   /\ payments'[p].amount = payments[p].amount
<1> USE DEF TypeInv, TypeOK, PaymentRow
<1>1. ASSUME NEW w \in Workers, Undo(w)
      PROVE  Kept
  BY <1>1 DEF Undo, RolledBackRow, UnusedRow
<1>2. ASSUME NEW w \in Workers, InsertPayment(w)
      PROVE  Kept \/ \E v \in Workers : Inserted(v, p)
  BY <1>2 DEF InsertPayment, Inserted
<1>3. ASSUME NEW w \in Workers,
             CommitDiscard(w) \/ CommitPayment(w) \/ RemoveRow(w) \/ CommitRemove(w)
      PROVE  Kept
  <2>1. CASE CommitDiscard(w)
    BY <2>1 DEF CommitDiscard, Committed
  <2>2. CASE CommitPayment(w)
    BY <2>2 DEF CommitPayment, RowInv, RowInHand
  <2>3. CASE RemoveRow(w)
    BY <2>3 DEF RemoveRow
  <2>4. CASE CommitRemove(w)
    BY <2>4 DEF CommitRemove, At, RowInv, RowInHand
  <2> QED BY <1>3, <2>1, <2>2, <2>3, <2>4
<1>4. CASE UNCHANGED payments
  BY <1>4
<1>5. ASSUME NEW w \in Workers, Arrive(w)
      PROVE  Kept
  BY <1>4, <1>5, ArriveShape DEF Started
<1>6. ASSUME NEW w \in Workers, Proceed(w)
      PROVE  Kept \/ \E v \in Workers : Inserted(v, p)
  BY <1>6, <1>1, <1>2, <1>3, <1>4
  DEF Proceed, CommitUpdate, CommitVoid, CountLines, FlushIssue, CommitIssue,
      InsertOrphan, LoseInsertRace, AnswerExpired, CreateSession, CheckSession,
      NothingToRecord, RefuseEvent, RecordEvent, Reply
<1>7. ASSUME NEW w \in Workers, Crash(w)
      PROVE  Kept
  BY <1>1, <1>7 DEF Crash
<1> QED
  BY <1>4, <1>5, <1>6, <1>7
  DEF Next, Deliver, Replay, Stripe, PayNow, PayLater, AsyncSucceeds, AsyncFails,
      Expire, StripeStep

\* Where a request on its way to add_payment comes from.
LEMMA PayingOrigin ==
    ASSUME TypeInv, Next, NEW v \in Workers, Paying(req'[v])
    PROVE  \/ /\ Paying(req[v])
              /\ req'[v].intent = req[v].intent /\ req'[v].amount = req[v].amount
              /\ req'[v].op = req[v].op /\ req'[v].event = req[v].event
           \/ /\ UNCHANGED sessions
              /\ req'[v].intent \in Sessions
              /\ Settled(req'[v].intent)
              /\ req'[v].amount = sessions[req'[v].intent].amount
              /\ req'[v].op = "confirm" /\ req[v].op = "confirm"
           \/ /\ UNCHANGED sessions
              /\ req[v].op = "webhook" /\ req'[v].op = "webhook"
              /\ events[req[v].event] = "settled"
              /\ req'[v].event = req[v].event
              /\ req'[v].intent = req[v].event[1]
              /\ req'[v].amount = sessions[req[v].event[1]].amount
<1> DEFINE Kept == /\ Paying(req[v])
                   /\ req'[v].intent = req[v].intent /\ req'[v].amount = req[v].amount
                   /\ req'[v].op = req[v].op /\ req'[v].event = req[v].event
<1> USE DEF TypeInv, TypeOK, Request, Paying, stripeVars
<1>1. CASE req'[v] = req[v]
  BY <1>1
<1>2. ASSUME NEW w \in Workers, Arrive(w), req'[v] # req[v]
      PROVE  FALSE
  BY <1>2, ArriveShape DEF Started, Fresh
<1>3. ASSUME NEW w \in Workers, Finish(w), req'[v] # req[v]
      PROVE  FALSE
  BY <1>3 DEF Finish, Idle
<1>4. ASSUME NEW w \in Workers, NEW e \in Events, Deliver(w, e), req'[v] # req[v]
      PROVE  FALSE
  BY <1>4 DEF Deliver, Idle
<1>5. ASSUME NEW w \in Workers, Proceed(w), req'[v] # req[v], ~Finish(w)
      PROVE  \/ Kept
             \/ w = v /\ (CheckSession(v) \/ RecordEvent(v))
  <2>1. CASE CountLines(w)
    BY <1>5, <2>1 DEF CountLines
  <2>2. CASE FlushIssue(w)
    BY <1>5, <2>2 DEF FlushIssue, At, InputInHand
  <2>3. CASE InsertPayment(w)
    BY <1>5, <2>3 DEF InsertPayment
  <2>4. CASE LoseInsertRace(w)
    BY <1>5, <2>4 DEF LoseInsertRace
  <2>5. CASE CommitPayment(w)
    BY <1>5, <2>5 DEF CommitPayment
  <2>6. CASE RemoveRow(w)
    BY <1>5, <2>6 DEF RemoveRow, At, InputInHand
  <2>7. CASE CheckSession(w) \/ RecordEvent(w)
    BY <1>5, <2>7 DEF CheckSession, RecordEvent
  <2>8. CASE NothingToRecord(w)
    BY <1>5, <2>8 DEF NothingToRecord
  <2> QED
    BY <1>5, <2>1, <2>2, <2>3, <2>4, <2>5, <2>6, <2>7, <2>8
    DEF Proceed, CommitUpdate, CommitVoid, CommitDiscard, CommitIssue, InsertOrphan,
        AnswerExpired, CommitRemove, CreateSession, RefuseEvent, Reply
<1>6. ASSUME CheckSession(v), ~Finish(v)
      PROVE  /\ UNCHANGED sessions
             /\ req'[v].intent \in Sessions
             /\ Settled(req'[v].intent)
             /\ req'[v].amount = sessions[req'[v].intent].amount
             /\ req'[v].op = "confirm" /\ req[v].op = "confirm"
  BY <1>6 DEF CheckSession, At, InputInHand
<1>7. ASSUME RecordEvent(v)
      PROVE  /\ UNCHANGED sessions
             /\ req[v].op = "webhook" /\ req'[v].op = "webhook"
             /\ events[req[v].event] = "settled"
             /\ req'[v].event = req[v].event
             /\ req'[v].intent = req[v].event[1]
             /\ req'[v].amount = sessions[req[v].event[1]].amount
  BY <1>7 DEF RecordEvent, At
<1> QED
  BY <1>1, <1>2, <1>3, <1>4, <1>5, <1>6, <1>7
  DEF Next, Crash, Replay, Stripe, PayNow, PayLater, AsyncSucceeds, AsyncFails, Expire,
      StripeStep

LEMMA MoneyStep ==
    ASSUME TypeInv, RowInv, MoneyInv, Next
    PROVE  MoneyInv'
<1>1. ASSUME NEW s \in Sessions, NEW amount, Has(s, amount)
      PROVE  sessions'[s].state = "settled" /\ sessions'[s].amount = amount
  BY <1>1, HasStable DEF Has
<1>2. ASSUME NEW w \in Workers, Paying(req[w])
      PROVE  req[w].intent \in Sessions /\ Has(req[w].intent, req[w].amount)
  BY <1>2 DEF MoneyInv, MoneyInHand, Paying, TypeInv, TypeOK, Request
<1>3. MoneyInHand'
  <2> SUFFICES ASSUME NEW v \in Workers, Paying(req'[v])
               PROVE  /\ sessions'[req'[v].intent].state = "settled"
                      /\ sessions'[req'[v].intent].amount = req'[v].amount
    BY DEF MoneyInHand, Paying, Has
  <2>1. CASE /\ Paying(req[v])
             /\ req'[v].intent = req[v].intent /\ req'[v].amount = req[v].amount
    BY <2>1, <1>1, <1>2
  <2>2. CASE /\ UNCHANGED sessions
             /\ Settled(req'[v].intent)
             /\ req'[v].amount = sessions[req'[v].intent].amount
    BY <2>2 DEF Settled
  <2>3. CASE /\ UNCHANGED sessions
             /\ req[v].op = "webhook"
             /\ events[req[v].event] = "settled"
             /\ req'[v].intent = req[v].event[1]
             /\ req'[v].amount = sessions[req[v].event[1]].amount
    <3>1. PICK s \in Sessions, k \in {"completed", "async"} : req[v].event = <<s, k>>
      BY <2>3 DEF TypeInv, InputInHand, Events
    <3>2. events[<<s, k>>] = "settled" /\ req[v].event[1] = s
      BY <2>3, <3>1
    <3>3. sessions[s].state = "settled"
      BY <3>2 DEF MoneyInv, EventsInTurn
    <3> QED BY <2>3, <3>2, <3>3
  <2> QED BY <2>1, <2>2, <2>3, PayingOrigin
<1>4. RowsSettled'
  <2> SUFFICES ASSUME NEW p \in PaymentIds, payments'[p].state # "unused",
                      payments'[p].intent # NoIntent
               PROVE  /\ sessions'[payments'[p].intent].state = "settled"
                      /\ sessions'[payments'[p].intent].amount = payments'[p].amount
    BY DEF RowsSettled, Has
  <2>1. CASE /\ payments[p].state # "unused"
             /\ payments'[p].intent = payments[p].intent
             /\ payments'[p].amount = payments[p].amount
    <3>1. payments[p].intent \in Sessions
      BY <2>1 DEF TypeInv, TypeOK, PaymentRow
    <3>2. Has(payments[p].intent, payments[p].amount)
      BY <2>1 DEF MoneyInv, RowsSettled
    <3> QED BY <2>1, <3>1, <3>2, <1>1
  <2>2. ASSUME NEW w \in Workers, Inserted(w, p)
        PROVE  /\ sessions'[payments'[p].intent].state = "settled"
               /\ sessions'[payments'[p].intent].amount = payments'[p].amount
    <3>1. Paying(req[w]) /\ payments'[p].intent = req[w].intent
                         /\ payments'[p].amount = req[w].amount
      BY <2>2 DEF Inserted, Paying
    <3> QED BY <3>1, <1>1, <1>2
  <2> QED BY <2>1, <2>2, RowOrigin
<1>5. EventsInTurn'
  <2> USE DEF TypeInv, TypeOK, SessionRow, MoneyInv, EventsInTurn, Events
  <2>1. ASSUME NEW u \in Sessions, Stripe(u)
        PROVE  EventsInTurn'
    <3>1. CASE PayNow(u)
      BY <3>1 DEF PayNow, StripeStep
    <3>2. CASE PayLater(u)
      BY <3>2 DEF PayLater, StripeStep
    <3>3. CASE AsyncSucceeds(u)
      BY <3>3 DEF AsyncSucceeds, StripeStep
    <3>4. CASE AsyncFails(u) \/ Expire(u)
      BY <3>4 DEF AsyncFails, Expire, StripeStep
    <3> QED BY <2>1, <3>1, <3>2, <3>3, <3>4 DEF Stripe
  <2>2. ASSUME NEW w \in Workers, CreateSession(w)
        PROVE  EventsInTurn'
    BY <2>2 DEF CreateSession
  <2>3. ASSUME NEW w \in Workers, Arrive(w)
        PROVE  EventsInTurn'
    BY <2>3, ArriveShape DEF Started
  <2>4. CASE UNCHANGED <<sessions, events>>
    BY <2>4
  <2> QED
    BY <2>1, <2>2, <2>3, <2>4
    DEF Next, Proceed, Crash, Deliver, Replay, stripeVars, CommitUpdate, CommitVoid,
        CommitDiscard, CountLines, FlushIssue, CommitIssue, InsertPayment, InsertOrphan,
        LoseInsertRace, AnswerExpired, CommitPayment, RemoveRow, CommitRemove,
        CheckSession, NothingToRecord, RefuseEvent, RecordEvent, Reply
<1> QED BY <1>3, <1>4, <1>5 DEF MoneyInv

LEMMA MoneyInvariant == Spec => []MoneyInv
<1>1. Init => MoneyInv
  <2> SUFFICES ASSUME Init PROVE MoneyInv
    OBVIOUS
  <2>1. \A w \in Workers : req[w].pc = "idle"
    BY DEF Init, Idle
  <2>2. \A p \in PaymentIds : payments[p].state = "unused"
    BY DEF Init, UnusedRow
  <2>3. \A s \in Sessions : sessions[s].state = "none"
    BY DEF Init
  <2>4. \A e \in Events : events[e] = "none"
    BY DEF Init
  <2>5. EventsInTurn
    BY <2>3, <2>4 DEF EventsInTurn, Events
  <2> QED BY <2>1, <2>2, <2>5 DEF MoneyInv, MoneyInHand, Paying, RowsSettled
<1>2. TypeInv /\ RowInv /\ MoneyInv /\ [Next]_vars => MoneyInv'
  <2> SUFFICES ASSUME TypeInv, RowInv, MoneyInv, [Next]_vars PROVE MoneyInv'
    OBVIOUS
  <2>1. CASE UNCHANGED vars
    BY <2>1 DEF vars, MoneyInv, MoneyInHand, Paying, Has, RowsSettled, EventsInTurn
  <2> QED BY <2>1, MoneyStep
<1> QED BY <1>1, <1>2, TypeInvariant, RowInvariant, PTL DEF Spec

\* A Stripe payment on the books is money that Stripe has, with the amount of its
\* Checkout Session, although the return page and the webhook decide at different
\* moments (confirm_checkout_session, _SETTLED_PAYMENT_STATUSES).
THEOREM OnlySettled == Spec => []OnlySettledMoneyRecorded
<1>1. MoneyInv => OnlySettledMoneyRecorded
  BY DEF MoneyInv, RowsSettled, Has, OnlySettledMoneyRecorded, Committed
<1> QED BY <1>1, MoneyInvariant, PTL

-----------------------------------------------------------------------------
(* The ledger and the acknowledgements tell the truth.                     *)

\* Nothing is known of an event before Stripe sends it.
EventsKnown ==
    \A e \in Events : events[e] = "none" =>
        /\ ledger[e] = "absent"
        /\ e \notin acked
        /\ \A w \in Workers : req[w].op = "webhook" => req[w].event # e

\* The 2xx is sent only for a payment that was recorded.
ReplyInHand ==
    \A w \in Workers :
        At(w, "webhook", "reply") /\ events[req[w].event] = "settled"
            => EverRecorded(req[w].event[1])

LedgerInv ==
    EventsKnown /\ ReplyInHand /\ LedgerOnlyWithEffect /\ AcknowledgedOnlyWithEffect

\* A payment that was ever committed stays on record, removed or not.
LEMMA RecordedStable ==
    ASSUME TypeInv, RowInv, Next, NEW s \in Sessions, EverRecorded(s)
    PROVE  EverRecorded(s)'
<1> PICK p \in PaymentIds : /\ payments[p].state \in {"live", "deleting", "deleted"}
                            /\ payments[p].intent = s
  BY DEF EverRecorded
<1> DEFINE Kept == /\ payments'[p].state \in {"live", "deleting", "deleted"}
                   /\ payments'[p].intent = s
<1> SUFFICES Kept
  BY DEF EverRecorded
<1> USE DEF TypeInv, TypeOK, PaymentRow
<1>1. ASSUME NEW w \in Workers, Undo(w)
      PROVE  Kept
  BY <1>1 DEF Undo, RolledBackRow
<1>2. CASE UNCHANGED payments
  BY <1>2
<1>3. ASSUME NEW w \in Workers, Arrive(w)
      PROVE  Kept
  BY <1>2, <1>3, ArriveShape DEF Started
<1>4. ASSUME NEW w \in Workers, Proceed(w)
      PROVE  Kept
  <2>1. CASE InsertPayment(w)
    BY <2>1 DEF InsertPayment
  <2>2. CASE CommitDiscard(w)
    BY <2>2 DEF CommitDiscard, Committed
  <2>3. CASE CommitPayment(w)
    BY <2>3 DEF CommitPayment
  <2>4. CASE RemoveRow(w)
    BY <2>4 DEF RemoveRow
  <2>5. CASE CommitRemove(w)
    BY <2>5 DEF CommitRemove
  <2> QED
    BY <1>4, <1>1, <1>2, <2>1, <2>2, <2>3, <2>4, <2>5
    DEF Proceed, CommitUpdate, CommitVoid, CountLines, FlushIssue, CommitIssue,
        InsertOrphan, LoseInsertRace, AnswerExpired, CreateSession, CheckSession,
        NothingToRecord, RefuseEvent, RecordEvent, Reply
<1> QED
  BY <1>1, <1>2, <1>3, <1>4
  DEF Next, Crash, Deliver, Replay, Stripe, PayNow, PayLater, AsyncSucceeds, AsyncFails,
      Expire, StripeStep

\* The payload of an event that was sent does not change.
LEMMA EventsStable ==
    ASSUME TypeInv, MoneyInv, Next, NEW e \in Events, events[e] # "none"
    PROVE  events'[e] = events[e]
<1> USE DEF TypeInv, TypeOK, MoneyInv, EventsInTurn
<1>1. ASSUME NEW u \in Sessions, Stripe(u)
      PROVE  events'[e] = events[e]
  BY <1>1 DEF Stripe, PayNow, PayLater, AsyncSucceeds, AsyncFails, Expire, StripeStep
<1>2. ASSUME NEW w \in Workers, Arrive(w)
      PROVE  events'[e] = events[e]
  BY <1>2, ArriveShape DEF Started
<1> QED
  BY <1>1, <1>2
  DEF Next, Proceed, Crash, Deliver, Replay, stripeVars, CommitUpdate, CommitVoid,
      CommitDiscard, CountLines, FlushIssue, CommitIssue, InsertPayment, InsertOrphan,
      LoseInsertRace, AnswerExpired, CommitPayment, RemoveRow, CommitRemove,
      CreateSession, CheckSession, NothingToRecord, RefuseEvent, RecordEvent, Reply

\* Where a webhook request comes from: it was there, or is being delivered; and
\* how it comes to its reply.
LEMMA WebhookOrigin ==
    ASSUME TypeInv, Next, NEW v \in Workers, req'[v].op = "webhook"
    PROVE  \/ /\ req[v].op = "webhook" /\ req'[v].event = req[v].event
              /\ req'[v].pc = "reply" =>
                    \/ req[v].pc = "reply"
                    \/ NothingToRecord(v) \/ CommitPayment(v) \/ LoseInsertRace(v)
           \/ /\ events[req'[v].event] # "none" /\ req'[v].event \in Events
              /\ req'[v].pc = "staged"
<1> DEFINE Kept == /\ req[v].op = "webhook" /\ req'[v].event = req[v].event
                   /\ req'[v].pc = "reply" =>
                         \/ req[v].pc = "reply"
                         \/ NothingToRecord(v) \/ CommitPayment(v) \/ LoseInsertRace(v)
<1> USE DEF TypeInv, TypeOK, Request
<1>1. CASE req'[v] = req[v]
  BY <1>1
<1>2. ASSUME NEW w \in Workers, Arrive(w), req'[v] # req[v]
      PROVE  FALSE
  BY <1>2, ArriveShape DEF Started, Fresh
<1>3. ASSUME NEW w \in Workers, Finish(w), req'[v] # req[v]
      PROVE  FALSE
  BY <1>3 DEF Finish, Idle
<1>4. ASSUME NEW w \in Workers, NEW e \in Events, Deliver(w, e), req'[v] # req[v]
      PROVE  /\ events[req'[v].event] # "none" /\ req'[v].event \in Events
             /\ req'[v].pc = "staged"
  BY <1>4 DEF Deliver, Idle
<1>5. ASSUME NEW w \in Workers, Proceed(w), req'[v] # req[v], ~Finish(w)
      PROVE  Kept
  <2>1. CASE CountLines(w)
    BY <1>5, <2>1 DEF CountLines
  <2>2. CASE FlushIssue(w)
    BY <1>5, <2>2 DEF FlushIssue
  <2>3. CASE InsertPayment(w)
    BY <1>5, <2>3 DEF InsertPayment
  <2>4. CASE LoseInsertRace(w)
    BY <1>5, <2>4 DEF LoseInsertRace
  <2>5. CASE CommitPayment(w)
    <3>1. w = v /\ req[v].op = "webhook" /\ req'[v].event = req[v].event
      BY <1>5, <2>5 DEF CommitPayment
    <3> QED BY <2>5, <3>1
  <2>6. CASE RemoveRow(w)
    BY <1>5, <2>6 DEF RemoveRow, At
  <2>7. CASE CheckSession(w)
    BY <1>5, <2>7 DEF CheckSession
  <2>8. CASE NothingToRecord(w)
    BY <1>5, <2>8 DEF NothingToRecord
  <2>9. CASE RecordEvent(w)
    BY <1>5, <2>9 DEF RecordEvent
  <2> QED
    BY <1>5, <2>1, <2>2, <2>3, <2>4, <2>5, <2>6, <2>7, <2>8, <2>9
    DEF Proceed, CommitUpdate, CommitVoid, CommitDiscard, CommitIssue, InsertOrphan,
        AnswerExpired, CommitRemove, CreateSession, RefuseEvent, Reply
<1> QED
  BY <1>1, <1>2, <1>3, <1>4, <1>5
  DEF Next, Crash, Replay, Stripe, PayNow, PayLater, AsyncSucceeds, AsyncFails, Expire,
      StripeStep

\* How an event comes to be marked as handled, and to be acknowledged.
LEMMA LedgerOrigin ==
    ASSUME TypeInv, Next, NEW e \in Events, ledger'[e] = "durable", ledger[e] # "durable"
    PROVE  \E w \in Workers : /\ req[w].op = "webhook" /\ req[w].event = e
                              /\ NothingToRecord(w) \/ CommitPayment(w)
<1> USE DEF TypeInv, TypeOK
<1>1. ASSUME NEW w \in Workers, Undo(w)
      PROVE  FALSE
  BY <1>1 DEF Undo
<1>2. ASSUME NEW w \in Workers, Arrive(w)
      PROVE  FALSE
  BY <1>2, ArriveShape DEF Started
<1>3. ASSUME NEW w \in Workers, NEW f \in Events, Deliver(w, f)
      PROVE  FALSE
  BY <1>3 DEF Deliver, LedgerRow
<1>4. ASSUME NEW w \in Workers, NothingToRecord(w)
      PROVE  req[w].op = "webhook" /\ req[w].event = e
  BY <1>4 DEF NothingToRecord, At
<1>5. ASSUME NEW w \in Workers, CommitPayment(w)
      PROVE  req[w].op = "webhook" /\ req[w].event = e
  BY <1>5 DEF CommitPayment
<1> QED
  BY <1>1, <1>2, <1>3, <1>4, <1>5
  DEF Next, Proceed, Crash, Replay, Stripe, PayNow, PayLater, AsyncSucceeds, AsyncFails,
      Expire, StripeStep, CommitUpdate, CommitVoid, CommitDiscard, CountLines, FlushIssue,
      CommitIssue, InsertPayment, InsertOrphan, LoseInsertRace, AnswerExpired, RemoveRow,
      CommitRemove, CreateSession, CheckSession, RefuseEvent, RecordEvent, Reply

LEMMA LedgerKnown ==
    ASSUME TypeInv, Next, NEW e \in Events, ledger'[e] # "absent", ledger[e] = "absent"
    PROVE  \/ events[e] # "none"
           \/ \E w \in Workers : req[w].op = "webhook" /\ req[w].event = e
<1>1. ledger'[e] \in {"durable", "staged"}
  <2>1. TypeOK'
    BY TypeStep DEF TypeInv
  <2> QED BY <2>1 DEF TypeOK
<1> USE DEF TypeInv, TypeOK
<1>2. ASSUME NEW w \in Workers, Undo(w)
      PROVE  FALSE
  BY <1>2 DEF Undo
<1>3. ASSUME NEW w \in Workers, NEW f \in Events, Deliver(w, f)
      PROVE  events[e] # "none"
  BY <1>3 DEF Deliver
<1>4. CASE ledger'[e] = "durable"
  BY <1>4, LedgerOrigin
<1>5. ASSUME NEW w \in Workers, Arrive(w)
      PROVE  FALSE
  BY <1>5, ArriveShape DEF Started
<1>6. ASSUME NEW w \in Workers, NothingToRecord(w) \/ CommitPayment(w), ledger'[e] = "staged"
      PROVE  FALSE
  BY <1>6 DEF NothingToRecord, CommitPayment
<1> QED
  BY <1>1, <1>2, <1>3, <1>4, <1>5, <1>6
  DEF Next, Proceed, Crash, Replay, Stripe, PayNow, PayLater, AsyncSucceeds, AsyncFails,
      Expire, StripeStep, CommitUpdate, CommitVoid, CommitDiscard, CountLines, FlushIssue,
      CommitIssue, InsertPayment, InsertOrphan, LoseInsertRace, AnswerExpired, RemoveRow,
      CommitRemove, CreateSession, CheckSession, RefuseEvent, RecordEvent, Reply

LEMMA AckOrigin ==
    ASSUME TypeInv, Next, NEW e \in Events, e \in acked', e \notin acked
    PROVE  /\ \/ ledger[e] = "durable"
              \/ \E w \in Workers : At(w, "webhook", "reply") /\ req[w].event = e
           /\ acked' = acked \cup {e}
           /\ UNCHANGED <<payments, sessions>>
<1>1. ASSUME NEW w \in Workers, Arrive(w)
      PROVE  FALSE
  BY <1>1, ArriveShape DEF TypeInv, Started
<1> QED
  BY <1>1
  DEF Next, Proceed, stripeVars, Crash, Deliver, Replay, Stripe, PayNow, PayLater, AsyncSucceeds,
      AsyncFails, Expire, StripeStep, CommitUpdate, CommitVoid, CommitDiscard, CountLines,
      FlushIssue, CommitIssue, InsertPayment, InsertOrphan, LoseInsertRace, AnswerExpired,
      CommitPayment, RemoveRow, CommitRemove, CreateSession, CheckSession,
      NothingToRecord, RefuseEvent, RecordEvent, Reply

\* The commit of a webhook, and the answer to one that found the payment there,
\* leave the payment recorded.
LEMMA Effect ==
    ASSUME TypeInv, RowInv, Next, NEW w \in Workers, NEW e \in Events,
           req[w].op = "webhook", req[w].event = e, events[e] = "settled",
           NothingToRecord(w) \/ CommitPayment(w) \/ LoseInsertRace(w)
    PROVE  EverRecorded(e[1])'
<1>1. e[1] \in Sessions
  BY DEF Events
<1>2. CASE NothingToRecord(w)
  <2>1. EverRecorded(e[1])
    BY <1>2 DEF NothingToRecord, NothingNew, Recorded, Committed, EverRecorded
  <2> QED BY <1>1, <2>1, RecordedStable
<1>3. CASE LoseInsertRace(w)
  <2>1. req[w].intent = e[1]
    BY <1>3 DEF LoseInsertRace, TypeInv, InputInHand
  <2>2. EverRecorded(e[1])
    BY <1>3, <2>1 DEF LoseInsertRace, EverRecorded
  <2> QED BY <1>1, <2>2, RecordedStable
<1>4. CASE CommitPayment(w)
  <2> PICK p \in PaymentIds : req[w].payment = p /\ payments[p].intent = e[1]
    BY <1>4 DEF CommitPayment, RowInv, RowInHand, TypeInv, InputInHand
  <2>1. payments'[p].state = "live" /\ payments'[p].intent = e[1]
    BY <1>4 DEF CommitPayment, TypeInv, TypeOK, PaymentRow
  <2> QED BY <2>1 DEF EverRecorded
<1> QED BY <1>2, <1>3, <1>4

LEMMA LedgerStep ==
    ASSUME TypeInv, RowInv, MoneyInv, LedgerInv, Next
    PROVE  LedgerInv'
<1>1. ASSUME NEW e \in Events, events[e] # "none"
      PROVE  events'[e] = events[e]
  BY <1>1, EventsStable
<1>2. ASSUME NEW w \in Workers, req[w].op = "webhook"
      PROVE  req[w].event \in Events /\ events[req[w].event] # "none"
  BY <1>2 DEF TypeInv, InputInHand, LedgerInv, EventsKnown
<1>3. ASSUME NEW e \in Events, EverRecorded(e[1])
      PROVE  EverRecorded(e[1])'
  BY <1>3, RecordedStable DEF Events
<1>4. EventsKnown'
  <2> SUFFICES ASSUME NEW e \in Events, events'[e] = "none"
               PROVE  /\ ledger'[e] = "absent"
                      /\ e \notin acked'
                      /\ \A w \in Workers : req'[w].op = "webhook" => req'[w].event # e
    BY DEF EventsKnown
  <2>1. events[e] = "none"
    BY <1>1
  <2>2. ledger[e] = "absent" /\ e \notin acked
    BY <2>1 DEF LedgerInv, EventsKnown
  <2>3. ASSUME NEW w \in Workers, req'[w].op = "webhook"
        PROVE  req'[w].event # e
    BY <2>1, <2>3, <1>2, WebhookOrigin
  <2>4. e \notin acked'
    BY <2>1, <2>2, <1>2, AckOrigin DEF At
  <2>5. ledger'[e] = "absent"
    BY <2>1, <2>2, <1>2, LedgerKnown
  <2> QED BY <2>3, <2>4, <2>5
<1>5. ReplyInHand'
  <2> SUFFICES ASSUME NEW v \in Workers, NEW e, req'[v].event = e,
                      req'[v].op = "webhook", req'[v].pc = "reply",
                      events'[e] = "settled"
               PROVE  EverRecorded(e[1])'
    BY DEF ReplyInHand, At
  <2>1. /\ req[v].op = "webhook" /\ req[v].event = e
        /\ \/ req[v].pc = "reply"
           \/ NothingToRecord(v) \/ CommitPayment(v) \/ LoseInsertRace(v)
    BY WebhookOrigin
  <2>2. e \in Events /\ events[e] = "settled"
    BY <2>1, <1>1, <1>2
  <2>3. CASE req[v].pc = "reply"
    <3>1. EverRecorded(e[1])
      BY <2>1, <2>2, <2>3 DEF LedgerInv, ReplyInHand, At
    <3> QED BY <2>2, <3>1, <1>3
  <2>4. CASE NothingToRecord(v) \/ CommitPayment(v) \/ LoseInsertRace(v)
    BY <2>1, <2>2, <2>4, Effect
  <2> QED BY <2>1, <2>3, <2>4
<1>6. LedgerOnlyWithEffect'
  <2> SUFFICES ASSUME NEW e \in Events, ledger'[e] = "durable", events'[e] = "settled"
               PROVE  EverRecorded(e[1])'
    BY DEF LedgerOnlyWithEffect
  <2>1. CASE ledger[e] = "durable"
    <3>1. events[e] # "none"
      BY <2>1 DEF LedgerInv, EventsKnown
    <3>2. EverRecorded(e[1])
      BY <2>1, <3>1, <1>1 DEF LedgerInv, LedgerOnlyWithEffect
    <3> QED BY <3>2, <1>3
  <2>2. CASE ledger[e] # "durable"
    <3> PICK w \in Workers : /\ req[w].op = "webhook" /\ req[w].event = e
                             /\ NothingToRecord(w) \/ CommitPayment(w)
      BY <2>2, LedgerOrigin
    <3>1. events[e] = "settled"
      BY <1>1, <1>2
    <3> QED BY <3>1, Effect
  <2> QED BY <2>1, <2>2
<1>7. AcknowledgedOnlyWithEffect'
  <2> SUFFICES ASSUME NEW e \in acked', events'[e] = "settled"
               PROVE  EverRecorded(e[1])'
    BY DEF AcknowledgedOnlyWithEffect
  <2>1. e \in Events
    BY TypeStep DEF TypeInv, TypeOK
  <2> SUFFICES EverRecorded(e[1])
    BY <2>1, <1>3
  <2>2. CASE e \in acked
    <3>1. events[e] # "none"
      BY <2>1, <2>2 DEF LedgerInv, EventsKnown
    <3> QED BY <2>1, <2>2, <3>1, <1>1 DEF LedgerInv, AcknowledgedOnlyWithEffect
  <2>3. CASE ledger[e] = "durable"
    <3>1. events[e] # "none"
      BY <2>1, <2>3 DEF LedgerInv, EventsKnown
    <3> QED BY <2>1, <2>3, <3>1, <1>1 DEF LedgerInv, LedgerOnlyWithEffect
  <2>4. ASSUME NEW w \in Workers, At(w, "webhook", "reply"), req[w].event = e
        PROVE  EverRecorded(e[1])
    <3>1. events[e] = "settled"
      BY <2>1, <2>4, <1>1, <1>2 DEF At
    <3> QED BY <2>4, <3>1 DEF LedgerInv, ReplyInHand
  <2> QED BY <2>1, <2>2, <2>3, <2>4, AckOrigin
<1> QED BY <1>4, <1>5, <1>6, <1>7 DEF LedgerInv

LEMMA LedgerInvariant == Spec => []LedgerInv
<1>1. Init => LedgerInv
  BY DEF Init, Idle, LedgerInv, EventsKnown, ReplyInHand, At, LedgerOnlyWithEffect,
         AcknowledgedOnlyWithEffect
<1>2. TypeInv /\ RowInv /\ MoneyInv /\ LedgerInv /\ [Next]_vars => LedgerInv'
  <2> SUFFICES ASSUME TypeInv, RowInv, MoneyInv, LedgerInv, [Next]_vars PROVE LedgerInv'
    OBVIOUS
  <2>1. CASE UNCHANGED vars
    BY <2>1 DEF vars, LedgerInv, EventsKnown, ReplyInHand, At, LedgerOnlyWithEffect,
                AcknowledgedOnlyWithEffect, EverRecorded
  <2> QED BY <2>1, LedgerStep
<1> QED BY <1>1, <1>2, TypeInvariant, RowInvariant, MoneyInvariant, PTL DEF Spec

\* No crash, rollback, race or platform-endpoint shortcut ever leaves a ledger row
\* for a payment event whose payment is not there (verify_and_dedupe).
THEOREM LedgerTruthful == Spec => []LedgerOnlyWithEffect
<1>1. LedgerInv => LedgerOnlyWithEffect
  BY DEF LedgerInv
<1> QED BY <1>1, LedgerInvariant, PTL

\* Stripe is told to stop redelivering a payment event only when its payment has
\* been recorded (the 2xx of the webhook endpoints).
THEOREM AcknowledgedTruthful == Spec => []AcknowledgedOnlyWithEffect
<1>1. LedgerInv => AcknowledgedOnlyWithEffect
  BY DEF LedgerInv
<1> QED BY <1>1, LedgerInvariant, PTL

-----------------------------------------------------------------------------
(* Money settles, is recorded, is acknowledged.                            *)

\* A payment becomes one that was ever recorded by the commit that carries it.
LEMMA RecordedOrigin ==
    ASSUME TypeInv, RowInv, Next, NEW s \in Sessions, EverRecorded(s)', ~EverRecorded(s)
    PROVE  \E w \in Workers : CommitPayment(w) /\ req[w].intent = s
<1> PICK p \in PaymentIds : /\ payments'[p].state \in {"live", "deleting", "deleted"}
                            /\ payments'[p].intent = s
  BY DEF EverRecorded
<1>1. ~(payments[p].state \in {"live", "deleting", "deleted"} /\ payments[p].intent = s)
  BY DEF EverRecorded
<1> USE DEF TypeInv, TypeOK, PaymentRow
<1>2. ASSUME NEW w \in Workers, Undo(w)
      PROVE  FALSE
  BY <1>1, <1>2 DEF Undo, RolledBackRow, UnusedRow
<1>3. CASE UNCHANGED payments
  BY <1>1, <1>3
<1>4. ASSUME NEW w \in Workers, Arrive(w)
      PROVE  FALSE
  BY <1>3, <1>4, <1>1, ArriveShape DEF Started
<1>5. ASSUME NEW w \in Workers, Proceed(w)
      PROVE  CommitPayment(w) /\ req[w].intent = s
  <2>1. CASE InsertPayment(w)
    BY <2>1, <1>1 DEF InsertPayment
  <2>2. CASE CommitDiscard(w)
    BY <2>2, <1>1 DEF CommitDiscard, Committed
  <2>3. CASE CommitPayment(w)
    <3>1. req[w].payment \in PaymentIds /\ payments[req[w].payment].intent = req[w].intent
      BY <2>3 DEF CommitPayment, RowInv, RowInHand
    <3>2. p = req[w].payment /\ payments[p].intent = s
      BY <2>3, <1>1 DEF CommitPayment
    <3> QED BY <2>3, <3>1, <3>2
  <2>4. CASE RemoveRow(w)
    BY <2>4, <1>1 DEF RemoveRow
  <2>5. CASE CommitRemove(w)
    <3>1. req[w].payment # NoPayment => payments[req[w].payment].state = "deleting"
      BY <2>5 DEF CommitRemove, At, RowInv, RowInHand
    <3> QED BY <2>5, <3>1, <1>1 DEF CommitRemove
  <2> QED
    BY <1>5, <1>1, <1>2, <1>3, <2>1, <2>2, <2>3, <2>4, <2>5
    DEF Proceed, CommitUpdate, CommitVoid, CountLines, FlushIssue, CommitIssue,
        InsertOrphan, LoseInsertRace, AnswerExpired, CreateSession, CheckSession,
        NothingToRecord, RefuseEvent, RecordEvent, Reply
<1> QED
  BY <1>1, <1>2, <1>3, <1>4, <1>5
  DEF Next, Crash, Deliver, Replay, Stripe, PayNow, PayLater, AsyncSucceeds, AsyncFails,
      Expire, StripeStep

\* The three sets of the abstract specification.
SettledSet == {s \in Sessions : sessions[s].state = "settled"}
RecordedSet == {s \in Sessions : EverRecorded(s)}
AnsweredSet == {s \in Sessions : \E e \in acked : e[1] = s /\ events[e] = "settled"}

LEMMA AnsweredGrows ==
    ASSUME TypeInv, MoneyInv, LedgerInv, Next
    PROVE  AnsweredSet' = {s \in Sessions : \E e \in acked' : e[1] = s /\ events[e] = "settled"}
<1>1. ASSUME NEW e \in acked'
      PROVE  events'[e] = events[e]
  <2>1. e \in Events
    BY TypeStep DEF TypeInv, TypeOK
  <2>2. CASE e \in acked
    BY <2>1, <2>2, EventsStable DEF LedgerInv, EventsKnown
  <2>3. CASE ledger[e] = "durable"
    BY <2>1, <2>3, EventsStable DEF LedgerInv, EventsKnown
  <2>4. ASSUME NEW w \in Workers, At(w, "webhook", "reply"), req[w].event = e
        PROVE  events'[e] = events[e]
    BY <2>1, <2>4, EventsStable DEF At, LedgerInv, EventsKnown
  <2> QED BY <2>1, <2>2, <2>3, <2>4, AckOrigin
<1> QED BY <1>1 DEF AnsweredSet

\* Each step records, answers or settles at most one session.
LEMMA RecordingStep ==
    ASSUME TypeInv, RowInv, MoneyInv, LedgerInv, Next
    PROVE  \/ UNCHANGED <<SettledSet, RecordedSet, AnsweredSet>>
           \/ \E s \in Sessions :
                /\ s \notin SettledSet /\ SettledSet' = SettledSet \cup {s}
                /\ UNCHANGED <<RecordedSet, AnsweredSet>>
           \/ \E s \in Sessions :
                /\ s \in SettledSet /\ RecordedSet' = RecordedSet \cup {s}
                /\ UNCHANGED <<SettledSet, AnsweredSet>>
           \/ \E s \in Sessions :
                /\ s \in RecordedSet /\ AnsweredSet' = AnsweredSet \cup {s}
                /\ UNCHANGED <<SettledSet, RecordedSet>>
<1>1. ASSUME ~\E w \in Workers : CommitPayment(w)
      PROVE  RecordedSet' = RecordedSet
  BY <1>1, RecordedStable, RecordedOrigin DEF RecordedSet
<1>2. ASSUME acked' = acked
      PROVE  AnsweredSet' = AnsweredSet
  BY <1>2, AnsweredGrows DEF AnsweredSet
<1>3. ASSUME ~\E u \in Sessions : Stripe(u)
      PROVE  SettledSet' = SettledSet
  <2> USE DEF SettledSet, TypeInv, TypeOK, SessionRow
  <2>1. ASSUME NEW w \in Workers, CreateSession(w)
        PROVE  SettledSet' = SettledSet
    BY <2>1 DEF CreateSession
  <2>2. ASSUME NEW w \in Workers, Arrive(w)
        PROVE  SettledSet' = SettledSet
    BY <2>2, ArriveShape DEF Started
  <2>3. CASE UNCHANGED sessions
    BY <2>3
  <2> QED
    BY <1>3, <2>1, <2>2, <2>3
    DEF Next, Proceed, Crash, Deliver, Replay, stripeVars, CommitUpdate, CommitVoid,
        CommitDiscard, CountLines, FlushIssue, CommitIssue, InsertPayment, InsertOrphan,
        LoseInsertRace, AnswerExpired, CommitPayment, RemoveRow, CommitRemove,
        CheckSession, NothingToRecord, RefuseEvent, RecordEvent, Reply
<1>4. ASSUME NEW u \in Sessions, Stripe(u)
      PROVE  \/ UNCHANGED <<SettledSet, RecordedSet, AnsweredSet>>
             \/ \E s \in Sessions :
                  /\ s \notin SettledSet /\ SettledSet' = SettledSet \cup {s}
                  /\ UNCHANGED <<RecordedSet, AnsweredSet>>
  <2>1. payments' = payments /\ acked' = acked
    BY <1>4 DEF Stripe, PayNow, PayLater, AsyncSucceeds, AsyncFails, Expire, StripeStep
  <2>2. RecordedSet' = RecordedSet /\ AnsweredSet' = AnsweredSet
    BY <2>1, <1>2 DEF RecordedSet, EverRecorded
  <2>3. CASE PayNow(u) \/ AsyncSucceeds(u)
    <3>1. u \notin SettledSet /\ SettledSet' = SettledSet \cup {u}
      BY <2>3 DEF PayNow, AsyncSucceeds, StripeStep, SettledSet, TypeInv, TypeOK, SessionRow
    <3> QED BY <2>2, <3>1
  <2>4. CASE PayLater(u) \/ AsyncFails(u) \/ Expire(u)
    <3>1. SettledSet' = SettledSet
      BY <2>4 DEF PayLater, AsyncFails, Expire, StripeStep, SettledSet, TypeInv, TypeOK,
                  SessionRow
    <3> QED BY <2>2, <3>1
  <2> QED BY <1>4, <2>3, <2>4 DEF Stripe
<1>5. ASSUME NEW w \in Workers, CommitPayment(w)
      PROVE  \/ UNCHANGED <<SettledSet, RecordedSet, AnsweredSet>>
             \/ \E s \in Sessions :
                  /\ s \in SettledSet /\ RecordedSet' = RecordedSet \cup {s}
                  /\ UNCHANGED <<SettledSet, AnsweredSet>>
  <2> DEFINE p == req[w].payment
             i == req[w].intent
  <2>1. /\ sessions' = sessions /\ acked' = acked /\ req[w].pc = "commit"
        /\ payments' = [payments EXCEPT ![p].state = "live"]
    BY <1>5 DEF CommitPayment, stripeVars
  <2>2. p \in PaymentIds /\ payments[p].intent = i
    BY <1>5 DEF CommitPayment, RowInv, RowInHand
  <2>3. SettledSet' = SettledSet /\ AnsweredSet' = AnsweredSet
    BY <2>1, <1>2 DEF SettledSet
  <2>4. \A s \in Sessions : EverRecorded(s) => EverRecorded(s)'
    BY RecordedStable
  <2>5. \A s \in Sessions : EverRecorded(s)' => EverRecorded(s) \/ s = i
    BY <2>1, <2>2 DEF EverRecorded, TypeInv, TypeOK, PaymentRow
  <2>6. CASE i = NoIntent
    <3>1. RecordedSet' = RecordedSet
      BY <2>4, <2>5, <2>6, ConstantsAssumption DEF RecordedSet
    <3> QED BY <2>3, <3>1
  <2>7. CASE i # NoIntent
    <3>1. i \in Sessions
      BY <2>7 DEF TypeInv, TypeOK, Request
    <3>2. i \in SettledSet
      BY <2>1, <2>7, <3>1 DEF MoneyInv, MoneyInHand, Paying, Has, SettledSet
    <3>3. \E q \in PaymentIds : /\ payments'[q].state \in {"live", "deleting", "deleted"}
                                /\ payments'[q].intent = i
      BY <2>1, <2>2 DEF TypeInv, TypeOK, PaymentRow
    <3>4. PICK s \in Sessions : s = i
      BY <3>1
    <3>5. EverRecorded(s)'
      BY <3>3, <3>4 DEF EverRecorded
    <3>6. RecordedSet' = RecordedSet \cup {s}
      BY <2>4, <2>5, <3>4, <3>5 DEF RecordedSet
    <3> QED BY <2>3, <3>2, <3>4, <3>6
  <2> QED BY <2>6, <2>7
<1>6. ASSUME NEW e \in Events, e \in acked', e \notin acked
      PROVE  \/ UNCHANGED <<SettledSet, RecordedSet, AnsweredSet>>
             \/ \E s \in Sessions :
                  /\ s \in RecordedSet /\ AnsweredSet' = AnsweredSet \cup {s}
                  /\ UNCHANGED <<SettledSet, RecordedSet>>
  <2>1. acked' = acked \cup {e} /\ UNCHANGED <<payments, sessions>>
    BY <1>6, AckOrigin
  <2>2. SettledSet' = SettledSet /\ RecordedSet' = RecordedSet
    BY <2>1 DEF SettledSet, RecordedSet, EverRecorded
  <2>3. e[1] \in Sessions
    BY DEF Events
  <2>4. CASE events[e] # "settled"
    <3>1. AnsweredSet' = AnsweredSet
      BY <2>1, <2>4, AnsweredGrows DEF AnsweredSet
    <3> QED BY <2>2, <3>1
  <2>5. CASE events[e] = "settled"
    <3>1. AnsweredSet' = AnsweredSet \cup {e[1]}
      BY <2>1, <2>3, <2>5, AnsweredGrows DEF AnsweredSet
    <3>2. EverRecorded(e[1])
      BY <1>6, <2>5, AckOrigin
      DEF LedgerInv, LedgerOnlyWithEffect, ReplyInHand, At
    <3> QED BY <2>2, <2>3, <3>1, <3>2 DEF RecordedSet
  <2> QED BY <2>4, <2>5
<1>7. ASSUME acked' # acked
      PROVE  \E e \in Events : e \in acked' /\ e \notin acked
  <2>1. ASSUME NEW w \in Workers, Arrive(w)
        PROVE  acked' = acked
    BY <2>1, ArriveShape DEF TypeInv, Started
  <2>2. acked' \subseteq Events
    BY TypeStep DEF TypeInv, TypeOK
  <2>3. acked \subseteq acked'
    BY <2>1
    DEF Next, Proceed, Crash, Deliver, Replay, Stripe, PayNow, PayLater, AsyncSucceeds,
        AsyncFails, Expire, StripeStep, CommitUpdate, CommitVoid, CommitDiscard,
        CountLines, FlushIssue, CommitIssue, InsertPayment, InsertOrphan, LoseInsertRace,
        AnswerExpired, CommitPayment, RemoveRow, CommitRemove, CreateSession,
        CheckSession, NothingToRecord, RefuseEvent, RecordEvent, Reply
  <2> QED BY <1>7, <2>2, <2>3
<1> QED BY <1>1, <1>2, <1>3, <1>4, <1>5, <1>6, <1>7

\* Money settles, then is recorded, then is acknowledged, in that order and for
\* good: the API implements the abstract recording of payments
\* (record_checkout_payment, verify_and_dedupe).
THEOREM Implementation == Spec => ImplementsRecording
<1>1. Init => Recording!Init
  BY DEF Init, Recording!Init, EverRecorded, UnusedRow
<1>2. TypeInv /\ RowInv /\ MoneyInv /\ LedgerInv /\ [Next]_vars
        => [Recording!Next]_(Recording!vars)
  <2> SUFFICES ASSUME TypeInv, RowInv, MoneyInv, LedgerInv, [Next]_vars
               PROVE  [Recording!Next]_(Recording!vars)
    OBVIOUS
  <2>1. CASE UNCHANGED vars
    BY <2>1 DEF vars, Recording!vars, EverRecorded
  <2>2. CASE Next
    BY <2>2, RecordingStep
    DEF Recording!Next, Recording!Settle, Recording!Record, Recording!Answer,
        Recording!vars, SettledSet, RecordedSet, AnsweredSet
  <2> QED BY <2>1, <2>2
<1> QED
  BY <1>1, <1>2, TypeInvariant, RowInvariant, MoneyInvariant, LedgerInvariant, PTL
  DEF Spec, ImplementsRecording, Recording!Spec

-----------------------------------------------------------------------------
(* An issued invoice is never a draft again.                               *)

\* No request turns what it loaded as issued into a draft.
DraftInHand ==
    \A w \in Workers : req[w].new.status = "draft" => req[w].seen.status = "draft"

LEMMA DraftFromDraft ==
    ASSUME NEW inv \in InvoiceRow, NEW sum, ApplyPayments(inv, sum).status = "draft"
    PROVE  inv.status = "draft"
  BY DEF ApplyPayments, InvoiceRow

LEMMA DraftStep ==
    ASSUME TypeInv, DraftInHand, Next
    PROVE  DraftInHand'
<1> USE DEF DraftInHand, TypeInv, TypeOK, Request
<1>1. ASSUME NEW w \in Workers, Arrive(w)
      PROVE  DraftInHand'
  BY <1>1, ArriveShape DEF Started, Fresh
<1>2. ASSUME NEW w \in Workers, Finish(w)
      PROVE  DraftInHand'
  BY <1>2 DEF Finish, Idle, NoInvoice
<1>3. ASSUME NEW w \in Workers, NEW e \in Events, Deliver(w, e)
      PROVE  DraftInHand'
  BY <1>3 DEF Deliver, Idle, NoInvoice
<1>4. ASSUME NEW w \in Workers, Proceed(w), ~Finish(w)
      PROVE  DraftInHand'
  <2>1. CASE CountLines(w)
    BY <1>4, <2>1 DEF CountLines
  <2>2. CASE FlushIssue(w)
    <3> DEFINE sent == [req[w].seen EXCEPT !.status = "sent"]
    <3>1. sent \in InvoiceRow /\ sent.status = "sent"
      BY DEF InvoiceRow, InvoiceStatus
    <3>2. Issued(req[w].seen).status # "draft"
      BY <3>1, DraftFromDraft DEF Issued
    <3> QED BY <1>4, <2>2, <3>2 DEF FlushIssue
  <2>3. CASE InsertPayment(w)
    BY <2>3, DraftFromDraft DEF InsertPayment
  <2>4. CASE LoseInsertRace(w)
    BY <2>4 DEF LoseInsertRace
  <2>5. CASE CommitPayment(w)
    BY <1>4, <2>5 DEF CommitPayment
  <2>6. CASE RemoveRow(w)
    BY <2>6, DraftFromDraft DEF RemoveRow, WithoutPayment
  <2>7. CASE CheckSession(w)
    BY <1>4, <2>7 DEF CheckSession
  <2>8. CASE NothingToRecord(w)
    BY <2>8 DEF NothingToRecord
  <2>9. CASE RecordEvent(w)
    BY <2>9 DEF RecordEvent
  <2> QED
    BY <1>4, <2>1, <2>2, <2>3, <2>4, <2>5, <2>6, <2>7, <2>8, <2>9
    DEF Proceed, CommitUpdate, CommitVoid, CommitDiscard, CommitIssue, InsertOrphan,
        AnswerExpired, CommitRemove, CreateSession, RefuseEvent, Reply
<1>5. CASE UNCHANGED req
  BY <1>5
<1> QED
  BY <1>1, <1>2, <1>3, <1>4, <1>5
  DEF Next, Crash, Replay, Stripe, PayNow, PayLater, AsyncSucceeds, AsyncFails, Expire,
      StripeStep

\* The write-back keeps the status of an invoice that is issued already.
LEMMA WrittenStatus ==
    ASSUME TypeInv, DraftInHand, NEW w \in Workers, invoice.status # "draft"
    PROVE  Written(req[w].seen, req[w].new).status # "draft"
  BY DEF DraftInHand, TypeInv, TypeOK, Written, InvoiceRow, InvoiceStatus

\* Requests that loaded the invoice as a draft and commit after it was issued
\* never make it a draft again, because only the changed columns are written
\* (issue_invoice, update_invoice, add_payment, delete_payment).
THEOREM IssuedForGood == Spec => NeverDraftAgain
<1>1. Init => DraftInHand
  BY DEF Init, Idle, NoInvoice, DraftInHand
<1>2. TypeInv /\ DraftInHand /\ [Next]_vars => DraftInHand'
  <2> SUFFICES ASSUME TypeInv, DraftInHand, [Next]_vars PROVE DraftInHand'
    OBVIOUS
  <2>1. CASE UNCHANGED vars
    BY <2>1 DEF vars, DraftInHand
  <2> QED BY <2>1, DraftStep
<1>3. TypeInv /\ DraftInHand /\ [Next]_vars
        => [invoice.status # "draft" => invoice'.status # "draft"]_vars
  <2> SUFFICES ASSUME TypeInv, DraftInHand, Next, invoice.status # "draft"
               PROVE  invoice'.status # "draft"
    OBVIOUS
  <2>1. ASSUME NEW w \in Workers, Proceed(w)
        PROVE  invoice'.status # "draft"
    <3>1. CASE CommitUpdate(w)
      <4>1. Written(req[w].seen, req[w].new) \in InvoiceRow
        BY WrittenType DEF TypeInv, TypeOK, Request
      <4> QED BY <3>1, <4>1, WrittenStatus DEF CommitUpdate, InvoiceRow
    <3>2. CASE CommitVoid(w) \/ CommitIssue(w) \/ CommitPayment(w) \/ CommitRemove(w)
      BY <3>2, WrittenStatus DEF CommitVoid, CommitIssue, CommitPayment, CommitRemove
    <3>3. CASE CommitDiscard(w)
      BY <3>3 DEF CommitDiscard, NoInvoice
    <3> QED
      BY <2>1, <3>1, <3>2, <3>3
      DEF Proceed, CountLines, FlushIssue, InsertPayment, InsertOrphan, LoseInsertRace,
          AnswerExpired, RemoveRow, CreateSession, CheckSession, NothingToRecord,
          RefuseEvent, RecordEvent, Reply
  <2>2. ASSUME NEW w \in Workers, Arrive(w)
        PROVE  invoice'.status # "draft"
    BY <2>2, ArriveShape DEF TypeInv, Started
  <2> QED
    BY <2>1, <2>2
    DEF Next, Crash, Deliver, Replay, Stripe, PayNow, PayLater, AsyncSucceeds, AsyncFails,
        Expire, StripeStep
<1> QED BY <1>1, <1>2, <1>3, TypeInvariant, PTL DEF Spec, NeverDraftAgain

-----------------------------------------------------------------------------
(* One request at a time: the roll-up is exact and what is issued is final. *)

\* Requests do not overlap, however many slots there are.
OneAtATime ==
    \A v, w \in Workers : req[v] # Idle /\ req[w] # Idle => v = w

\* What the request loaded is still what the table holds.
KnowsInvoice(r) ==
    r.pc \in {"loaded", "counted", "insert", "commit"} =>
        r.seen = invoice /\ invoice.status # "deleted"

KnowsDraft(r) == r.op \in {"update", "issue", "discard"} => r.seen.status = "draft"

PlansUpdate(r) ==
    r.op = "update" => r.new.status = r.seen.status /\ r.new.paid = r.seen.paid

PlansVoid(r) == r.op = "void" => r.new = [r.seen EXCEPT !.status = "void"]

PlansIssue(r) == r.op = "issue" /\ r.pc = "commit" => r.new = Issued(r.seen)

\* The sum the request took is the one its commit makes true.
PlansPayment(r) ==
    r.op \in {"add", "confirm", "webhook"} /\ r.pc = "commit" =>
        r.new = ApplyPayments(r.seen, SumOf(payments, Committed \cup {r.payment}))

PlansRemoval(r) ==
    r.op = "remove" =>
        /\ r.pc = "loaded" => r.payment \in Committed
        /\ r.pc = "commit" => /\ r.payment \in PaymentIds
                              /\ r.new = WithoutPayment(r.seen, r.payment)

Informed(r) ==
    /\ KnowsInvoice(r) /\ KnowsDraft(r)
    /\ PlansUpdate(r) /\ PlansVoid(r) /\ PlansIssue(r)
    /\ PlansPayment(r) /\ PlansRemoval(r)

AllInformed == \A w \in Workers : Informed(req[w])

SerialInv == AllInformed /\ RollUpExact

\* The sum looks at the amounts of the rows it is taken over, at nothing else.
LEMMA SumOfSame ==
    ASSUME NEW rows, NEW others, NEW S, \A p \in S : rows[p].amount = others[p].amount
    PROVE  SumOf(rows, S) = SumOf(others, S)
<1>1. Cents(rows, S) = Cents(others, S)
  BY DEF Cents
<1> QED BY <1>1 DEF SumOf

LEMMA SumOfNone == ASSUME NEW rows PROVE SumOf(rows, {}) = 0
<1>1. Cents(rows, {}) = {}
  BY DEF Cents
<1> QED BY <1>1, FS_EmptySet DEF SumOf

\* What the roll-up makes of a row: the sum, a status that agrees with it, and
\* everything else as it was.
RolledUp(inv, new, sum) ==
    /\ new \in InvoiceRow
    /\ new.paid = sum /\ new.total = inv.total /\ new.lined = inv.lined
    /\ new.status \in {"sent", "paid"} => (new.status = "paid" <=> new.paid >= new.total)
    /\ inv.status \notin {"sent", "paid"} => new.status = inv.status
    /\ inv.status \in {"sent", "paid"} => new.status \in {"sent", "paid"}

LEMMA RollUp ==
    ASSUME NEW inv \in InvoiceRow, NEW sum \in Nat
    PROVE  RolledUp(inv, ApplyPayments(inv, sum), sum)
<1> DEFINE new == ApplyPayments(inv, sum)
<1>1. new \in InvoiceRow
  BY ApplyPaymentsType
<1>2. new.paid = sum /\ new.total = inv.total /\ new.lined = inv.lined
  BY DEF ApplyPayments, InvoiceRow
<1>3. new.status = CASE inv.status = "paid" /\ sum < inv.total -> "sent"
                     [] inv.status = "sent" /\ sum >= inv.total -> "paid"
                     [] OTHER -> inv.status
  BY DEF ApplyPayments, InvoiceRow
<1>4. inv.total \in Nat /\ inv.status \in InvoiceStatus
  BY DEF InvoiceRow
<1> HIDE DEF new
<1>5. /\ new.status \in {"sent", "paid"} => (new.status = "paid" <=> new.paid >= new.total)
      /\ inv.status \notin {"sent", "paid"} => new.status = inv.status
      /\ inv.status \in {"sent", "paid"} => new.status \in {"sent", "paid"}
  BY <1>2, <1>3, <1>4
<1> QED BY <1>1, <1>2, <1>5 DEF RolledUp, new

\* Nothing was committed since the row was loaded: the write-back makes it "new".
LEMMA WrittenSeen ==
    ASSUME TypeOK, NEW new \in InvoiceRow
    PROVE  /\ Written(invoice, new) \in InvoiceRow
           /\ Written(invoice, new).status = new.status
           /\ Written(invoice, new).total = new.total
           /\ Written(invoice, new).paid = new.paid
           /\ Written(invoice, new).lined = invoice.lined
<1>1. invoice \in InvoiceRow
  BY DEF TypeOK
<1>2. Written(invoice, new) \in InvoiceRow
  BY <1>1, WrittenType
<1> QED BY <1>1, <1>2 DEF Written, InvoiceRow

LEMMA IdleInformed == Informed(Idle) /\ Informed(Idle)'
  BY DEF Informed, KnowsInvoice, KnowsDraft, PlansUpdate, PlansVoid, PlansIssue,
         PlansPayment, PlansRemoval, Idle

\* Only the request that moves has to be looked at.
LEMMA Alone ==
    ASSUME TypeInv, OneAtATime, OneAtATime', NEW w \in Workers, NEW r,
           req' = [req EXCEPT ![w] = r], req[w] # Idle \/ r # Idle, Informed(r)'
    PROVE  AllInformed'
<1>1. req'[w] = r /\ \A v \in Workers \ {w} : req'[v] = req[v]
  BY DEF TypeInv, TypeOK
<1>2. \A v \in Workers \ {w} : req'[v] = Idle
  BY <1>1 DEF OneAtATime
<1> SUFFICES ASSUME NEW v \in Workers PROVE Informed(req[v])'
  BY DEF AllInformed
<1>3. CASE v = w
  <2>1. PICK x : x = r
    OBVIOUS
  <2> QED BY <1>1, <1>3
<1>4. CASE v # w
  BY <1>2, <1>4, IdleInformed
<1> QED BY <1>3, <1>4

\* A request that starts knows the row as it is.
LEMMA ArriveInformed ==
    ASSUME TypeInv, OneAtATime, OneAtATime', NEW w \in Workers, Arrive(w)
    PROVE  AllInformed'
<1>1. /\ UNCHANGED <<invoice, payments>>
      /\ invoice.status # "deleted"
  BY DEF Arrive, StartUpdate, StartIssue, StartVoid, StartDiscard, StartAdd, StartRemove,
         StartPay, StartConfirm, Accept, stripeVars
<1>2. Committed' = Committed
  BY <1>1 DEF Committed
<1>3. invoice \in InvoiceRow
  BY DEF TypeInv, TypeOK
<1>4. Idle.op = "idle"
  BY DEF Idle
<1>5. PICK inv : inv = invoice
  OBVIOUS
<1>6. inv \in InvoiceRow /\ inv.status # "deleted" /\ inv = invoice'
  BY <1>1, <1>3, <1>5
<1> DEFINE Base(op) == [Idle EXCEPT !.op = op, !.pc = "loaded", !.seen = inv, !.new = inv]
<1>7. \A op : Loaded(op) = Base(op)
  BY <1>5 DEF Loaded
<1>8. ASSUME NEW r, req' = [req EXCEPT ![w] = r], r.op # "idle", Informed(r)'
      PROVE  AllInformed'
  BY <1>4, <1>8, Alone
<1> USE DEF Informed, KnowsInvoice, KnowsDraft, PlansUpdate, PlansVoid, PlansIssue,
            PlansPayment, PlansRemoval
<1>9. CASE StartUpdate(w)
  <2> PICK total \in Totals \cup {0}, lined \in BOOLEAN :
        req' = [req EXCEPT ![w] = [Loaded("update") EXCEPT !.new.total = total,
                                                           !.new.lined = lined]]
    BY <1>9 DEF StartUpdate
  <2> DEFINE r == [Base("update") EXCEPT !.new.total = total, !.new.lined = lined]
  <2>1. req' = [req EXCEPT ![w] = r]
    BY <1>7
  <2>2. /\ r.op = "update" /\ r.seen = inv
        /\ r.new = [inv EXCEPT !.total = total, !.lined = lined]
    BY DEF Idle
  <2>3. r.new.status = inv.status /\ r.new.paid = inv.paid
    BY <2>2, <1>6 DEF InvoiceRow
  <2>4. inv.status = "draft"
    BY <1>5, <1>9 DEF StartUpdate, RequireDraft
  <2> HIDE DEF r
  <2>5. Informed(r)'
    BY <1>6, <2>2, <2>3, <2>4
  <2> QED BY <2>1, <2>2, <2>5, <1>8
<1>10. CASE StartIssue(w) \/ StartDiscard(w) \/ StartPay(w)
  <2> PICK op \in {"issue", "discard", "pay"} :
        req' = [req EXCEPT ![w] = Loaded(op)] /\ (op # "pay" => invoice.status = "draft")
    BY <1>10 DEF StartIssue, StartDiscard, StartPay, Issuable, Deletable
  <2> DEFINE r == Base(op)
  <2>1. req' = [req EXCEPT ![w] = r]
    BY <1>7
  <2>2. r.op = op /\ r.pc = "loaded" /\ r.seen = inv
    BY DEF Idle
  <2> HIDE DEF r
  <2>3. Informed(r)'
    BY <1>5, <1>6, <2>2
  <2> QED BY <2>1, <2>2, <2>3, <1>8
<1>11. CASE StartVoid(w)
  <2> DEFINE r == [Base("void") EXCEPT !.new.status = "void"]
  <2>1. req' = [req EXCEPT ![w] = r]
    BY <1>7, <1>11 DEF StartVoid
  <2>2. r.op = "void" /\ r.seen = inv /\ r.new = [inv EXCEPT !.status = "void"]
    BY DEF Idle
  <2> HIDE DEF r
  <2>3. Informed(r)'
    BY <1>6, <2>2
  <2> QED BY <2>1, <2>2, <2>3, <1>8
<1>12. CASE StartAdd(w)
  <2> PICK a \in Amounts :
        req' = [req EXCEPT ![w] = [Loaded("add") EXCEPT !.pc = "insert", !.amount = a]]
    BY <1>12 DEF StartAdd
  <2> DEFINE r == [Base("add") EXCEPT !.pc = "insert", !.amount = a]
  <2>1. req' = [req EXCEPT ![w] = r]
    BY <1>7
  <2>2. r.op = "add" /\ r.pc = "insert" /\ r.seen = inv
    BY DEF Idle
  <2> HIDE DEF r
  <2>3. Informed(r)'
    BY <1>6, <2>2
  <2> QED BY <2>1, <2>2, <2>3, <1>8
<1>13. CASE StartRemove(w)
  <2> PICK p \in Committed :
        req' = [req EXCEPT ![w] = [Loaded("remove") EXCEPT !.payment = p]]
    BY <1>13 DEF StartRemove
  <2> DEFINE r == [Base("remove") EXCEPT !.payment = p]
  <2>1. req' = [req EXCEPT ![w] = r]
    BY <1>7
  <2>2. r.op = "remove" /\ r.pc = "loaded" /\ r.seen = inv /\ r.payment = p
    BY DEF Idle
  <2> HIDE DEF r
  <2>3. Informed(r)'
    BY <1>2, <1>6, <2>2
  <2> QED BY <2>1, <2>2, <2>3, <1>8
<1>14. CASE StartConfirm(w)
  <2> PICK s \in Sessions :
        req' = [req EXCEPT ![w] = [Loaded("confirm") EXCEPT !.intent = s]]
    BY <1>14 DEF StartConfirm
  <2> DEFINE r == [Base("confirm") EXCEPT !.intent = s]
  <2>1. req' = [req EXCEPT ![w] = r]
    BY <1>7
  <2>2. r.op = "confirm" /\ r.pc = "loaded" /\ r.seen = inv
    BY DEF Idle
  <2> HIDE DEF r
  <2>3. Informed(r)'
    BY <1>6, <2>2
  <2> QED BY <2>1, <2>2, <2>3, <1>8
<1> QED
  BY <1>9, <1>10, <1>11, <1>12, <1>13, <1>14 DEF Arrive

\* What a step may do to the invoice: the body of IssuedIsFinal.
KeepsIssued ==
    /\ invoice.status # "draft" /\ invoice'.status # "deleted" =>
           <<invoice'.total, invoice'.lined>> = <<invoice.total, invoice.lined>>
    /\ invoice.status = "void" => invoice'.status = "void"
    /\ invoice'.status = "deleted" => invoice.status \in {"draft", "deleted"}

\* The committed rows and their amounts are as they were, and so is their sum.
SameBooks ==
    /\ Committed' = Committed
    /\ \A p \in Committed : payments'[p].amount = payments[p].amount

LEMMA SameSum == ASSUME SameBooks PROVE PaidTotal' = PaidTotal
  BY SumOfSame DEF SameBooks, PaidTotal

LEMMA QuietStep ==
    ASSUME RollUpExact, SameBooks, invoice' = invoice
    PROVE  RollUpExact' /\ KeepsIssued
<1>1. PaidTotal' = PaidTotal
  BY SameSum
<1> QED
  BY <1>1 DEF RollUpExact, PaidAmountIsSum, PaidExactlyWhenCovered, KeepsIssued

LEMMA UntouchedBooks == ASSUME payments' = payments PROVE SameBooks
  BY DEF SameBooks, Committed

\* A rollback touches no committed row but the one it brings back.
LEMMA UndoBooks ==
    ASSUME TypeInv, NEW w \in Workers, Undo(w)
    PROVE  SameBooks
<1>1. ASSUME NEW p \in PaymentIds
      PROVE  /\ p \in Committed' <=> p \in Committed
             /\ p \in Committed => payments'[p].amount = payments[p].amount
  <2>1. payments'[p] = payments[p] \/ payments'[p] = RolledBackRow(payments[p])
    BY DEF Undo
  <2>2. payments[p] \in PaymentRow
    BY DEF TypeInv, TypeOK
  <2>3. CASE payments'[p] = payments[p]
    BY <2>3 DEF Committed
  <2>4. CASE payments'[p] = RolledBackRow(payments[p])
    BY <2>2, <2>4 DEF Committed, RolledBackRow, UnusedRow, PaymentRow
  <2> QED BY <2>1, <2>3, <2>4
<1> QED BY <1>1 DEF SameBooks, Committed

LEMMA FinishInformed ==
    ASSUME TypeInv, OneAtATime, OneAtATime', NEW w \in Workers, Finish(w), req[w] # Idle
    PROVE  AllInformed'
  BY Alone, IdleInformed DEF Finish

\* The invoice after a commit: as the request planned it.
LEMMA CommitWrites ==
    ASSUME TypeInv, AllInformed, NEW w \in Workers,
           req[w].pc \in {"loaded", "counted", "insert", "commit"}
    PROVE  /\ req[w].seen = invoice /\ invoice.status # "deleted"
           /\ Written(req[w].seen, req[w].new) \in InvoiceRow
           /\ Written(req[w].seen, req[w].new).status = req[w].new.status
           /\ Written(req[w].seen, req[w].new).total = req[w].new.total
           /\ Written(req[w].seen, req[w].new).paid = req[w].new.paid
           /\ Written(req[w].seen, req[w].new).lined = invoice.lined
<1>1. req[w].seen = invoice /\ invoice.status # "deleted"
  BY DEF AllInformed, Informed, KnowsInvoice
<1>2. req[w].new \in InvoiceRow
  BY DEF TypeInv, TypeOK, Request
<1> QED BY <1>1, <1>2, WrittenSeen DEF TypeInv

\* An edit, a void and a deletion.
LEMMA StaffSerial ==
    ASSUME TypeInv, AllInformed, RollUpExact, OneAtATime, OneAtATime', NEW w \in Workers,
           CommitUpdate(w) \/ CommitVoid(w) \/ CommitDiscard(w)
    PROVE  AllInformed' /\ RollUpExact' /\ KeepsIssued
<1>1. req[w].pc = "loaded" /\ Finish(w)
  BY DEF CommitUpdate, CommitVoid, CommitDiscard, At
<1>2. AllInformed'
  BY <1>1, FinishInformed DEF Idle
<1>3. Informed(req[w])
  BY DEF AllInformed
<1> DEFINE old == invoice
           new == req[w].new
           written == Written(req[w].seen, req[w].new)
<1>4. /\ req[w].seen = invoice /\ invoice.status # "deleted"
      /\ written \in InvoiceRow
      /\ written.status = new.status /\ written.total = new.total
      /\ written.paid = new.paid /\ written.lined = invoice.lined
  BY <1>1, CommitWrites
<1>5. invoice \in InvoiceRow /\ invoice.paid = PaidTotal
  BY <1>4 DEF TypeInv, TypeOK, RollUpExact, PaidAmountIsSum
<1>6. CASE CommitUpdate(w)
  <2>1. /\ invoice.status = "draft" /\ new.status = "draft" /\ new.paid = invoice.paid
    BY <1>3, <1>4, <1>6 DEF CommitUpdate, At, Informed, KnowsDraft, PlansUpdate
  <2>2. invoice' = [written EXCEPT !.lined = new.lined] /\ payments' = payments
    BY <1>4, <1>6 DEF CommitUpdate
  <2>3. invoice'.status = "draft" /\ invoice'.paid = PaidTotal
    BY <1>4, <1>5, <2>1, <2>2 DEF InvoiceRow
  <2>4. PaidTotal' = PaidTotal
    BY <2>2, UntouchedBooks, SameSum
  <2> QED
    BY <1>2, <2>1, <2>3, <2>4
    DEF RollUpExact, PaidAmountIsSum, PaidExactlyWhenCovered, KeepsIssued
<1>7. CASE CommitVoid(w)
  <2>1. new = [invoice EXCEPT !.status = "void"]
    BY <1>3, <1>4, <1>7 DEF CommitVoid, At, Informed, PlansVoid
  <2>2. new.status = "void" /\ new.total = invoice.total /\ new.paid = invoice.paid
    BY <1>5, <2>1 DEF InvoiceRow
  <2>3. invoice' = written /\ payments' = payments
    BY <1>4, <1>7 DEF CommitVoid
  <2>4. PaidTotal' = PaidTotal
    BY <2>3, UntouchedBooks, SameSum
  <2> QED
    BY <1>2, <1>4, <1>5, <2>2, <2>3, <2>4
    DEF RollUpExact, PaidAmountIsSum, PaidExactlyWhenCovered, KeepsIssued
<1>8. CASE CommitDiscard(w)
  <2>1. invoice.status = "draft"
    BY <1>3, <1>4, <1>8 DEF CommitDiscard, At, Informed, KnowsDraft
  <2>2. invoice'.status = "deleted"
    BY <1>8 DEF CommitDiscard, NoInvoice
  <2> QED
    BY <1>2, <2>1, <2>2
    DEF RollUpExact, PaidAmountIsSum, PaidExactlyWhenCovered, KeepsIssued
<1> QED BY <1>6, <1>7, <1>8

\* A commit that writes a roll-up back, of the rows that are committed with it.
LEMMA RollUpCommit ==
    ASSUME TypeInv, AllInformed, RollUpExact, NEW w \in Workers, NEW base, NEW sum,
           req[w].pc \in {"loaded", "counted", "insert", "commit"},
           invoice' = Written(req[w].seen, req[w].new),
           RolledUp(base, req[w].new, sum), sum = PaidTotal',
           base.total = invoice.total, base.status = invoice.status \/ invoice.status = "draft",
           base.status # "deleted"
    PROVE  RollUpExact' /\ KeepsIssued
<1> DEFINE new == req[w].new
<1>1. /\ invoice.status # "deleted"
      /\ invoice'.status = new.status /\ invoice'.total = new.total
      /\ invoice'.paid = new.paid /\ invoice'.lined = invoice.lined
  BY CommitWrites
<1>2. /\ new.paid = PaidTotal' /\ new.total = invoice.total
      /\ new.status \in {"sent", "paid"} => (new.status = "paid" <=> new.paid >= new.total)
      /\ base.status \notin {"sent", "paid"} => new.status = base.status
      /\ base.status \in {"sent", "paid"} => new.status \in {"sent", "paid"}
  BY DEF RolledUp
<1> HIDE DEF new
<1> QED
  BY <1>1, <1>2 DEF RollUpExact, PaidAmountIsSum, PaidExactlyWhenCovered, KeepsIssued

\* Issuing: counting the lines, the flush and the commit.
LEMMA IssueSerial ==
    ASSUME TypeInv, AllInformed, RollUpExact, OneAtATime, OneAtATime', NEW w \in Workers,
           CountLines(w) \/ FlushIssue(w) \/ CommitIssue(w)
    PROVE  AllInformed' /\ RollUpExact' /\ KeepsIssued
<1>1. req[w].op = "issue" /\ req[w].pc \in {"loaded", "counted", "commit"} /\ req[w] # Idle
  BY DEF CountLines, FlushIssue, CommitIssue, At, Idle
<1>2. Informed(req[w]) /\ req[w] \in Request
  BY DEF AllInformed, TypeInv, TypeOK
<1>3. req[w].seen = invoice /\ invoice.status = "draft" /\ invoice \in InvoiceRow
  BY <1>1, <1>2 DEF Informed, KnowsInvoice, KnowsDraft, TypeInv, TypeOK
<1>4. ASSUME Finish(w) PROVE AllInformed'
  BY <1>1, <1>4, FinishInformed
<1>5. CASE CountLines(w) \/ FlushIssue(w)
  <2>1. UNCHANGED <<invoice, payments>>
    BY <1>5 DEF CountLines, FlushIssue
  <2>2. RollUpExact' /\ KeepsIssued
    BY <2>1, UntouchedBooks, QuietStep
  <2>3. CASE Finish(w)
    BY <1>4, <2>2, <2>3
  <2>4. CASE CountLines(w) /\ ~Finish(w)
    <3> DEFINE r == [req[w] EXCEPT !.pc = "counted"]
    <3>1. PICK q : q = r
      OBVIOUS
    <3>2. req' = [req EXCEPT ![w] = q]
      BY <2>4, <3>1 DEF CountLines
    <3>3. q.op = "issue" /\ q.pc = "counted" /\ q.seen = req[w].seen
      BY <1>1, <1>2, <3>1 DEF Request
    <3>4. PICK inv : inv = invoice
      OBVIOUS
    <3>5. q.seen = inv /\ inv.status = "draft" /\ inv = invoice'
      BY <1>3, <2>1, <3>3, <3>4
    <3>6. Informed(q)'
      BY <3>3, <3>5
      DEF Informed, KnowsInvoice, KnowsDraft, PlansUpdate, PlansVoid, PlansIssue,
          PlansPayment, PlansRemoval
    <3> QED BY <1>1, <2>2, <3>2, <3>6, Alone
  <2>5. CASE FlushIssue(w) /\ ~Finish(w)
    <3> DEFINE r == [req[w] EXCEPT !.pc = "commit", !.new = Issued(req[w].seen)]
    <3>1. PICK q : q = r
      OBVIOUS
    <3>2. req' = [req EXCEPT ![w] = q]
      BY <2>5, <3>1 DEF FlushIssue
    <3>3. /\ q.op = "issue" /\ q.pc = "commit" /\ q.seen = req[w].seen
          /\ q.new = Issued(req[w].seen)
      BY <1>1, <1>2, <3>1 DEF Request
    <3>4. PICK inv : inv = invoice
      OBVIOUS
    <3>5. q.seen = inv /\ inv.status = "draft" /\ inv = invoice'
      BY <1>3, <2>1, <3>3, <3>4
    <3>6. PaidTotal' = PaidTotal
      BY <2>1, UntouchedBooks, SameSum
    <3>7. q.new = Issued(inv)'
      BY <1>3, <3>3, <3>4, <3>6 DEF Issued
    <3>8. Informed(q)'
      BY <3>3, <3>5, <3>7
      DEF Informed, KnowsInvoice, KnowsDraft, PlansUpdate, PlansVoid, PlansIssue,
          PlansPayment, PlansRemoval
    <3> QED BY <1>1, <2>2, <3>2, <3>8, Alone
  <2> QED BY <1>5, <2>3, <2>4, <2>5
<1>6. CASE CommitIssue(w)
  <2>1. /\ req[w].pc = "commit" /\ Finish(w) /\ payments' = payments
        /\ invoice' = Written(req[w].seen, req[w].new)
    BY <1>6 DEF CommitIssue, At
  <2> DEFINE base == [invoice EXCEPT !.status = "sent"]
  <2>2. base \in InvoiceRow /\ base.status = "sent" /\ base.total = invoice.total
    BY <1>3 DEF InvoiceRow, InvoiceStatus
  <2>3. PaidTotal \in Nat /\ PaidTotal' = PaidTotal
    BY <2>1, UntouchedBooks, SameSum, SumOfType DEF TypeInv, TypeOK, PaidTotal, Committed
  <2>4. req[w].new = ApplyPayments(base, PaidTotal)
    BY <1>1, <1>2, <1>3, <2>1 DEF Informed, PlansIssue, Issued
  <2> HIDE DEF base
  <2>5. RolledUp(base, req[w].new, PaidTotal)
    BY <2>2, <2>3, <2>4, RollUp
  <2>6. RollUpExact' /\ KeepsIssued
    BY <1>3, <2>1, <2>2, <2>3, <2>5, RollUpCommit
  <2> QED BY <1>4, <2>1, <2>6
<1> QED BY <1>5, <1>6

\* Entering or recording a payment: the insertion.
LEMMA InsertSerial ==
    ASSUME TypeInv, AllInformed, RollUpExact, OneAtATime, OneAtATime', NEW w \in Workers,
           InsertPayment(w)
    PROVE  AllInformed' /\ RollUpExact' /\ KeepsIssued
<1>1. PICK p \in PaymentIds :
        /\ payments[p].state = "unused"
        /\ payments' = [payments EXCEPT ![p] = [state |-> "staged", amount |-> req[w].amount,
                                                intent |-> req[w].intent]]
        /\ req' = [req EXCEPT
                     ![w].pc = "commit",
                     ![w].payment = p,
                     ![w].new = ApplyPayments(req[w].seen,
                                              SumOf(payments', Committed \cup {p}))]
  BY DEF InsertPayment
<1>2. req[w].pc = "insert" /\ req[w] # Idle /\ invoice' = invoice
  BY DEF InsertPayment, Idle
<1>3. /\ payments'[p].state = "staged"
      /\ \A q \in PaymentIds \ {p} : payments'[q] = payments[q]
  BY <1>1 DEF TypeInv, TypeOK
<1>4. SameBooks
  BY <1>1, <1>3 DEF SameBooks, Committed
<1>5. RollUpExact' /\ KeepsIssued
  BY <1>2, <1>4, QuietStep
<1> DEFINE r == [req[w] EXCEPT !.pc = "commit", !.payment = p,
                               !.new = ApplyPayments(req[w].seen,
                                                     SumOf(payments', Committed \cup {p}))]
<1>6. PICK q : q = r
  OBVIOUS
<1>7. req' = [req EXCEPT ![w] = q]
  BY <1>1, <1>6
<1>8. Informed(req[w]) /\ req[w] \in Request
  BY DEF AllInformed, TypeInv, TypeOK
<1>9. /\ q.op = req[w].op /\ q.pc = "commit" /\ q.payment = p /\ q.seen = req[w].seen
      /\ q.new = ApplyPayments(req[w].seen, SumOf(payments', Committed \cup {p}))
  BY <1>6, <1>8 DEF Request
<1>10. q.op \in {"add", "confirm", "webhook"}
  BY <1>2, <1>9 DEF TypeInv, InputInHand
<1>11. q.seen = invoice' /\ invoice'.status # "deleted"
  BY <1>2, <1>8, <1>9 DEF Informed, KnowsInvoice
<1>12. q.new = ApplyPayments(q.seen, SumOf(payments', Committed' \cup {q.payment}))
  BY <1>4, <1>9 DEF SameBooks
<1>13. Informed(q)'
  BY <1>9, <1>10, <1>11, <1>12
  DEF Informed, KnowsInvoice, KnowsDraft, PlansUpdate, PlansVoid, PlansIssue,
      PlansPayment, PlansRemoval
<1> QED BY <1>2, <1>5, <1>7, <1>13, Alone

\* ... and its commit, with the webhook's ledger row.
LEMMA CommitPaymentSerial ==
    ASSUME TypeInv, RowInv, AllInformed, RollUpExact, OneAtATime, OneAtATime',
           NEW w \in Workers, CommitPayment(w)
    PROVE  AllInformed' /\ RollUpExact' /\ KeepsIssued
<1> DEFINE p == req[w].payment
<1>1. /\ req[w].op \in {"add", "confirm", "webhook"} /\ req[w].pc = "commit"
      /\ req[w] # Idle
      /\ invoice' = Written(req[w].seen, req[w].new)
      /\ payments' = [payments EXCEPT ![p].state = "live"]
  BY DEF CommitPayment, Idle
<1>2. p \in PaymentIds
  BY <1>1 DEF RowInv, RowInHand
<1>3. Informed(req[w]) /\ req[w] \in Request
  BY DEF AllInformed, TypeInv, TypeOK
<1>4. req[w].seen = invoice /\ invoice.status # "deleted" /\ invoice \in InvoiceRow
  BY <1>1, <1>3 DEF Informed, KnowsInvoice, TypeInv, TypeOK
<1> DEFINE S == Committed \cup {p}
           sum == SumOf(payments, S)
<1>5. req[w].new = ApplyPayments(invoice, sum)
  BY <1>1, <1>3, <1>4 DEF Informed, PlansPayment
<1>6. sum \in Nat
  BY <1>2, SumOfType DEF TypeInv, TypeOK, Committed
<1>7. RolledUp(invoice, req[w].new, sum)
  BY <1>4, <1>5, <1>6, RollUp
<1>8. Committed' = S /\ \A q \in S : payments'[q].amount = payments[q].amount
  BY <1>1, <1>2 DEF TypeInv, TypeOK, PaymentRow, Committed
<1> HIDE DEF S
<1>9. PaidTotal' = sum
  BY <1>8, SumOfSame DEF PaidTotal
<1>10. RollUpExact' /\ KeepsIssued
  BY <1>1, <1>4, <1>7, <1>9, RollUpCommit
<1>11. CASE Finish(w)
  BY <1>1, <1>10, <1>11, FinishInformed
<1>12. CASE ~Finish(w)
  <2>1. PICK q : q = [req[w] EXCEPT !.pc = "reply"]
    OBVIOUS
  <2>2. req' = [req EXCEPT ![w] = q] /\ req[w].op = "webhook"
    BY <1>12, <2>1 DEF CommitPayment
  <2>3. q.op = "webhook" /\ q.pc = "reply"
    BY <1>3, <2>1, <2>2 DEF Request
  <2>4. Informed(q)'
    BY <2>3
    DEF Informed, KnowsInvoice, KnowsDraft, PlansUpdate, PlansVoid, PlansIssue,
        PlansPayment, PlansRemoval
  <2> QED BY <1>1, <1>10, <2>2, <2>4, Alone
<1> QED BY <1>11, <1>12

\* Removing a payment: the deletion.
LEMMA RemoveSerial ==
    ASSUME TypeInv, AllInformed, RollUpExact, OneAtATime, OneAtATime', NEW w \in Workers,
           RemoveRow(w)
    PROVE  AllInformed' /\ RollUpExact' /\ KeepsIssued
<1> DEFINE p == req[w].payment
<1>1. /\ req[w].op = "remove" /\ req[w].pc = "loaded" /\ req[w] # Idle
      /\ invoice' = invoice /\ payments[p].state # "deleting"
  BY DEF RemoveRow, At, Idle
<1>2. Informed(req[w]) /\ req[w] \in Request
  BY DEF AllInformed, TypeInv, TypeOK
<1>3. p \in Committed /\ p \in PaymentIds /\ payments[p].state = "live"
  BY <1>1, <1>2 DEF Informed, PlansRemoval, Committed
<1>4. req[w].seen = invoice /\ invoice.status # "deleted"
  BY <1>1, <1>2 DEF Informed, KnowsInvoice
<1>5. payments' = [payments EXCEPT ![p].state = "deleting"]
  BY <1>3 DEF RemoveRow
<1>6. SameBooks
  BY <1>3, <1>5 DEF SameBooks, Committed, TypeInv, TypeOK, PaymentRow
<1>7. RollUpExact' /\ KeepsIssued
  BY <1>1, <1>6, QuietStep
<1>8. PICK q : q = [req[w] EXCEPT !.pc = "commit", !.payment = p,
                                  !.new = WithoutPayment(req[w].seen, p)]
  OBVIOUS
<1>9. req' = [req EXCEPT ![w] = q]
  BY <1>3, <1>8 DEF RemoveRow
<1>10. /\ q.op = "remove" /\ q.pc = "commit" /\ q.payment = p /\ q.seen = req[w].seen
       /\ q.new = WithoutPayment(req[w].seen, p)
  BY <1>1, <1>2, <1>8 DEF Request
<1>11. SumOf(payments', Committed' \ {p}) = SumOf(payments, Committed \ {p})
  BY <1>6, SumOfSame DEF SameBooks
<1>12. q.new = WithoutPayment(q.seen, q.payment)'
  BY <1>10, <1>11 DEF WithoutPayment
<1>13. q.seen = invoice' /\ invoice'.status # "deleted" /\ q.payment \in PaymentIds
  BY <1>1, <1>3, <1>4, <1>10
<1>14. Informed(q)'
  BY <1>10, <1>12, <1>13
  DEF Informed, KnowsInvoice, KnowsDraft, PlansUpdate, PlansVoid, PlansIssue,
      PlansPayment, PlansRemoval
<1> QED BY <1>1, <1>7, <1>9, <1>14, Alone

\* ... and its commit.
LEMMA CommitRemoveSerial ==
    ASSUME TypeInv, AllInformed, RollUpExact, OneAtATime, OneAtATime',
           NEW w \in Workers, CommitRemove(w)
    PROVE  AllInformed' /\ RollUpExact' /\ KeepsIssued
<1> DEFINE p == req[w].payment
<1>1. req[w].op = "remove" /\ req[w].pc = "commit" /\ req[w] # Idle /\ Finish(w)
  BY DEF CommitRemove, At, Idle
<1>2. Informed(req[w]) /\ req[w] \in Request
  BY DEF AllInformed, TypeInv, TypeOK
<1>3. req[w].seen = invoice /\ invoice.status # "deleted" /\ invoice \in InvoiceRow
  BY <1>1, <1>2 DEF Informed, KnowsInvoice, TypeInv, TypeOK
<1> DEFINE S == Committed \ {p}
           sum == SumOf(payments, S)
<1>4. p \in PaymentIds /\ req[w].new = ApplyPayments(invoice, sum)
  BY <1>1, <1>2, <1>3 DEF Informed, PlansRemoval, WithoutPayment
<1>5. /\ invoice' = Written(req[w].seen, req[w].new)
      /\ payments' = [payments EXCEPT ![p].state = "deleted"]
  BY <1>3, <1>4, ConstantsAssumption DEF CommitRemove
<1>6. sum \in Nat
  BY SumOfType DEF TypeInv, TypeOK, Committed
<1>7. RolledUp(invoice, req[w].new, sum)
  BY <1>3, <1>4, <1>6, RollUp
<1>8. Committed' = S /\ \A q \in S : payments'[q].amount = payments[q].amount
  BY <1>4, <1>5 DEF TypeInv, TypeOK, PaymentRow, Committed
<1> HIDE DEF S
<1>9. PaidTotal' = sum
  BY <1>8, SumOfSame DEF PaidTotal
<1>10. RollUpExact' /\ KeepsIssued
  BY <1>1, <1>3, <1>5, <1>7, <1>9, RollUpCommit
<1> QED BY <1>1, <1>10, FinishInformed

\* Steps that commit nothing: they end, or go on to an insertion or an answer.
LEMMA QuietSerial ==
    ASSUME TypeInv, AllInformed, RollUpExact, OneAtATime, OneAtATime', NEW w \in Workers,
           \/ InsertOrphan(w) \/ LoseInsertRace(w) \/ AnswerExpired(w) \/ CreateSession(w)
           \/ CheckSession(w) \/ NothingToRecord(w) \/ RefuseEvent(w) \/ RecordEvent(w)
           \/ Reply(w) \/ Crash(w)
    PROVE  AllInformed' /\ RollUpExact' /\ KeepsIssued
<1>1. invoice' = invoice /\ (payments' = payments \/ Undo(w))
  BY DEF InsertOrphan, LoseInsertRace, AnswerExpired, CreateSession, CheckSession,
         NothingToRecord, RefuseEvent, RecordEvent, Reply, Crash
<1>2. RollUpExact' /\ KeepsIssued
  BY <1>1, UntouchedBooks, UndoBooks, QuietStep
<1>3. req[w] # Idle
  BY DEF InsertOrphan, LoseInsertRace, AnswerExpired, CreateSession, CheckSession,
         NothingToRecord, RefuseEvent, RecordEvent, Reply, Crash, At, Idle
<1>4. Informed(req[w]) /\ req[w] \in Request
  BY DEF AllInformed, TypeInv, TypeOK
<1>5. ASSUME NEW q, req' = [req EXCEPT ![w] = q], q.op \in {"confirm", "webhook"},
             q.pc \in {"insert", "reply", "expired"},
             q.pc = "insert" => q.seen = invoice' /\ invoice'.status # "deleted"
      PROVE  AllInformed'
  <2>1. Informed(q)'
    BY <1>5
    DEF Informed, KnowsInvoice, KnowsDraft, PlansUpdate, PlansVoid, PlansIssue,
        PlansPayment, PlansRemoval
  <2> QED BY <1>3, <1>5, <2>1, Alone
<1>6. CASE Finish(w)
  BY <1>2, <1>3, <1>6, FinishInformed
<1>7. CASE LoseInsertRace(w)
  <2>1. PICK q : q = [req[w] EXCEPT !.pc = IF req[w].op = "webhook" THEN "reply" ELSE "expired"]
    OBVIOUS
  <2>2. req' = [req EXCEPT ![w] = q] /\ req[w].op \in {"confirm", "webhook"}
    BY <1>7, <2>1 DEF LoseInsertRace, TypeInv, InputInHand
  <2>3. q.op = req[w].op /\ q.pc \in {"reply", "expired"}
    BY <1>4, <2>1 DEF Request
  <2> QED BY <1>2, <1>5, <2>2, <2>3
<1>8. CASE CheckSession(w) /\ ~Finish(w)
  <2>1. PICK q : q = [req[w] EXCEPT !.pc = "insert", !.amount = sessions[req[w].intent].amount]
    OBVIOUS
  <2>2. req' = [req EXCEPT ![w] = q] /\ req[w].op = "confirm" /\ req[w].pc = "loaded"
    BY <1>8, <2>1 DEF CheckSession, At
  <2>3. q.op = "confirm" /\ q.pc = "insert" /\ q.seen = req[w].seen
    BY <1>4, <2>1, <2>2 DEF Request
  <2>4. q.seen = invoice' /\ invoice'.status # "deleted"
    BY <1>1, <1>4, <2>2, <2>3 DEF Informed, KnowsInvoice
  <2> QED BY <1>2, <1>5, <2>2, <2>3, <2>4
<1>9. CASE NothingToRecord(w)
  <2>1. PICK q : q = [req[w] EXCEPT !.pc = "reply"]
    OBVIOUS
  <2>2. req' = [req EXCEPT ![w] = q] /\ req[w].op = "webhook"
    BY <1>9, <2>1 DEF NothingToRecord, At
  <2>3. q.op = "webhook" /\ q.pc = "reply"
    BY <1>4, <2>1, <2>2 DEF Request
  <2> QED BY <1>2, <1>5, <2>2, <2>3
<1>10. CASE RecordEvent(w)
  <2> DEFINE e == req[w].event
  <2>1. PICK q : q = [req[w] EXCEPT !.pc = "insert", !.seen = invoice, !.new = invoice,
                                    !.intent = e[1], !.amount = sessions[e[1]].amount]
    OBVIOUS
  <2>2. req' = [req EXCEPT ![w] = q] /\ req[w].op = "webhook" /\ invoice.status # "deleted"
    BY <1>10, <2>1 DEF RecordEvent, At
  <2>3. q.op = "webhook" /\ q.pc = "insert" /\ q.seen = invoice
    BY <1>4, <2>1, <2>2 DEF Request
  <2> QED BY <1>1, <1>2, <1>5, <2>2, <2>3
<1> QED
  BY <1>6, <1>7, <1>8, <1>9, <1>10
  DEF InsertOrphan, AnswerExpired, CreateSession, RefuseEvent, Reply, Crash

LEMMA SerialStep ==
    ASSUME TypeInv, RowInv, SerialInv, OneAtATime, OneAtATime', Next
    PROVE  SerialInv' /\ KeepsIssued
<1> SUFFICES AllInformed' /\ RollUpExact' /\ KeepsIssued
  BY DEF SerialInv
<1> USE DEF SerialInv
<1>1. ASSUME NEW w \in Workers, Arrive(w)
      PROVE  AllInformed' /\ RollUpExact' /\ KeepsIssued
  <2>1. invoice' = invoice /\ payments' = payments
    BY <1>1, ArriveShape DEF TypeInv, Started
  <2> QED BY <1>1, <2>1, ArriveInformed, UntouchedBooks, QuietStep
<1>2. ASSUME NEW w \in Workers, Proceed(w)
      PROVE  AllInformed' /\ RollUpExact' /\ KeepsIssued
  <2>1. CASE CommitUpdate(w) \/ CommitVoid(w) \/ CommitDiscard(w)
    BY <2>1, StaffSerial
  <2>2. CASE CountLines(w) \/ FlushIssue(w) \/ CommitIssue(w)
    BY <2>2, IssueSerial
  <2>3. CASE InsertPayment(w)
    BY <2>3, InsertSerial
  <2>4. CASE CommitPayment(w)
    BY <2>4, CommitPaymentSerial
  <2>5. CASE RemoveRow(w)
    BY <2>5, RemoveSerial
  <2>6. CASE CommitRemove(w)
    BY <2>6, CommitRemoveSerial
  <2>7. CASE \/ InsertOrphan(w) \/ LoseInsertRace(w) \/ AnswerExpired(w) \/ CreateSession(w)
             \/ CheckSession(w) \/ NothingToRecord(w) \/ RefuseEvent(w) \/ RecordEvent(w)
             \/ Reply(w)
    BY <2>7, QuietSerial
  <2> QED BY <1>2, <2>1, <2>2, <2>3, <2>4, <2>5, <2>6, <2>7 DEF Proceed
<1>3. ASSUME NEW w \in Workers, Crash(w)
      PROVE  AllInformed' /\ RollUpExact' /\ KeepsIssued
  BY <1>3, QuietSerial
<1>4. ASSUME NEW w \in Workers, NEW e \in Events, Deliver(w, e)
      PROVE  AllInformed' /\ RollUpExact' /\ KeepsIssued
  <2>1. PICK platform \in BOOLEAN :
          req' = [req EXCEPT ![w] = [Idle EXCEPT !.op = "webhook", !.pc = "staged",
                                                 !.event = e, !.platform = platform]]
    BY <1>4 DEF Deliver
  <2>2. PICK q : q = [Idle EXCEPT !.op = "webhook", !.pc = "staged",
                                  !.event = e, !.platform = platform]
    OBVIOUS
  <2>3. q.op = "webhook" /\ q.pc = "staged" /\ q # Idle
    BY <2>2 DEF Idle
  <2>4. Informed(q)'
    BY <2>3
    DEF Informed, KnowsInvoice, KnowsDraft, PlansUpdate, PlansVoid, PlansIssue,
        PlansPayment, PlansRemoval
  <2>5. invoice' = invoice /\ payments' = payments
    BY <1>4 DEF Deliver
  <2> QED BY <2>1, <2>2, <2>3, <2>4, <2>5, Alone, UntouchedBooks, QuietStep
<1>5. CASE UNCHANGED <<invoice, payments, req>>
  <2>1. Committed' = Committed
    BY <1>5 DEF Committed
  <2>2. PaidTotal' = PaidTotal
    BY <1>5, <2>1 DEF PaidTotal
  <2>3. \A r : Informed(r)' <=> Informed(r)
    BY <1>5, <2>1, <2>2
    DEF Informed, KnowsInvoice, KnowsDraft, PlansUpdate, PlansVoid, PlansIssue, Issued,
        PlansPayment, PlansRemoval, WithoutPayment
  <2>4. AllInformed'
    BY <1>5, <2>3 DEF AllInformed
  <2> QED BY <1>5, <2>4, UntouchedBooks, QuietStep
<1> QED
  BY <1>1, <1>2, <1>3, <1>4, <1>5
  DEF Next, Replay, Stripe, PayNow, PayLater, AsyncSucceeds, AsyncFails, Expire,
      StripeStep

LEMMA SerialInit == Init => SerialInv
<1> SUFFICES ASSUME Init PROVE SerialInv
  OBVIOUS
<1>1. AllInformed
  BY IdleInformed DEF Init, AllInformed
<1>2. Committed = {}
  BY DEF Init, Committed, UnusedRow
<1>3. invoice.paid = 0 /\ invoice.status = "draft"
  BY DEF Init
<1>4. RollUpExact
  BY <1>2, <1>3, SumOfNone DEF RollUpExact, PaidAmountIsSum, PaidExactlyWhenCovered, PaidTotal
<1> QED BY <1>1, <1>4 DEF SerialInv

LEMMA SerialStutter == ASSUME SerialInv, UNCHANGED vars PROVE SerialInv'
<1>1. UNCHANGED <<invoice, payments, req>>
  BY DEF vars
<1>2. Committed' = Committed
  BY <1>1 DEF Committed
<1>3. PaidTotal' = PaidTotal
  BY <1>1, <1>2 DEF PaidTotal
<1>4. \A r : Informed(r)' <=> Informed(r)
  BY <1>1, <1>2, <1>3
  DEF Informed, KnowsInvoice, KnowsDraft, PlansUpdate, PlansVoid, PlansIssue, Issued,
      PlansPayment, PlansRemoval, WithoutPayment
<1>5. AllInformed'
  BY <1>1, <1>4 DEF SerialInv, AllInformed
<1>6. RollUpExact'
  BY <1>1, <1>3 DEF SerialInv, RollUpExact, PaidAmountIsSum, PaidExactlyWhenCovered
<1> QED BY <1>5, <1>6 DEF SerialInv

LEMMA SerialInvariant == Spec /\ []OneAtATime => []SerialInv
<1>1. TypeInv /\ RowInv /\ SerialInv /\ OneAtATime /\ OneAtATime' /\ [Next]_vars => SerialInv'
  BY SerialStep, SerialStutter
<1> QED BY <1>1, SerialInit, TypeInvariant, RowInvariant, PTL DEF Spec

\* As long as no two requests overlap, amount_paid_cents is the sum of the payments and
\* "paid" means covered, through every edit, issue, removal, redelivery and crash
\* (_apply_payments).
THEOREM RollUpIsExact == Spec /\ []OneAtATime => []RollUpExact
<1>1. SerialInv => RollUpExact
  BY DEF SerialInv
<1> QED BY <1>1, SerialInvariant, PTL

\* As long as no two requests overlap, what was issued is final: its amounts and lines,
\* and a void, and it is never deleted (_require_draft, delete_invoice).
THEOREM IssuedStaysFinal == Spec /\ []OneAtATime => IssuedIsFinal
<1>1. TypeInv /\ RowInv /\ SerialInv /\ OneAtATime /\ OneAtATime' /\ [Next]_vars
        => [/\ invoice.status # "draft" /\ invoice'.status # "deleted" =>
                   <<invoice'.total, invoice'.lined>> = <<invoice.total, invoice.lined>>
            /\ invoice.status = "void" => invoice'.status = "void"
            /\ invoice'.status = "deleted" => invoice.status \in {"draft", "deleted"}]_vars
  BY SerialStep DEF KeepsIssued
<1> QED
  BY <1>1, SerialInvariant, TypeInvariant, RowInvariant, PTL DEF Spec, IssuedIsFinal

\* One slot is the case TLC runs: requests cannot overlap there.
COROLLARY OneSlot ==
    ASSUME \A v, w \in Workers : v = w
    PROVE  Spec => []RollUpExact /\ IssuedIsFinal
<1>1. OneAtATime
  BY DEF OneAtATime
<1>2. []OneAtATime
  BY <1>1, PTL
<1> QED BY <1>2, RollUpIsExact, IssuedStaysFinal, PTL
=============================================================================
