\* Requests of staff, deliveries on both endpoints and the return page overlap on
\* one PaymentIntent; one of them may die.
CONSTANTS
    Workers = {w1, w2}
    Sessions = {s1}
    PaymentIds = {p1, p2}
    Totals = {1}
    Amounts = {1}
    Operations = {"add", "issue", "void", "remove", "update", "discard", "pay", "confirm"}
    MaxCrashes = 1
    NoIntent = NoIntent
    NoPayment = NoPayment
    NoEvent = NoEvent
SPECIFICATION Spec
SYMMETRY Symmetry
\* A voided invoice whose requests are over has nothing left to do.
CHECK_DEADLOCK FALSE
INVARIANTS
    LedgerOnlyWithEffect
    AcknowledgedOnlyWithEffect
    IntentRecordedOnce
    OnlySettledMoneyRecorded
PROPERTIES
    ImplementsRecording
    NeverDraftAgain
