\* A client pays a checkout page opened before the invoice was voided.
CONSTANTS
    Workers = {w1}
    Sessions = {s1}
    PaymentIds = {p1}
    Totals = {1}
    Amounts = {1}
    Operations = {"issue", "void", "pay"}
    MaxCrashes = 0
    NoIntent = NoIntent
    NoPayment = NoPayment
    NoEvent = NoEvent
SPECIFICATION FairSpec
\* A voided invoice whose requests are over has nothing left to do.
CHECK_DEADLOCK FALSE
PROPERTIES
    SettledAlwaysRecorded
