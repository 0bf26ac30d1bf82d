\* One request at a time, every endpoint, webhooks included.
CONSTANTS
    Workers = {w1}
    Sessions = {s1, s2}
    PaymentIds = {p1, p2, p3}
    Totals = {1, 2}
    Amounts = {1}
    Operations = {"add", "remove", "update", "issue", "void", "discard", "pay", "confirm"}
    MaxCrashes = 1
    NoIntent = NoIntent
    NoPayment = NoPayment
    NoEvent = NoEvent
SPECIFICATION Spec
SYMMETRY Symmetry
\* A voided invoice whose requests are over has nothing left to do.
CHECK_DEADLOCK FALSE
INVARIANTS
    TypeOK
    RollUpExact
PROPERTY
    IssuedIsFinal
