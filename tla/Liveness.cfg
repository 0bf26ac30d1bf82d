\* Payments under redelivery, an event socket under losses, recurring invoices however late.
CONSTANTS
    Workers = {w1, w2}
    Sessions = {s1}
    PaymentIds = {p1}
    Totals = {1}
    Amounts = {1}
    Operations = {"issue", "void", "discard", "pay", "confirm"}
    MaxCrashes = 1
    NoIntent = NoIntent
    NoPayment = NoPayment
    NoEvent = NoEvent
    Owners = {"hook"}
    MaxRuns = 3
    MaxDrops = 2
    Schedules = {s2, s3}
    Bad = {}
    Loads = {l1, l2}
    MaxPeriod = 2
    MaxBreaks = 1
SPECIFICATION LivenessSpec
\* A voided invoice, and a component that has been unmounted for good, have nothing left to do.
CHECK_DEADLOCK FALSE
INVARIANTS
    
    PeriodBilledOnce
    NoPeriodSkipped
PROPERTIES
    SettledIsRecorded
    SocketComesBack
    DueIsBilled
