\* One request at a time and no crash; a draft is edited.
CONSTANTS
    Tabs = {tab1}
    Entries = {x1}
    Invoices = {i1, i2}
    Pacing = {"serial"}
    MaxSteps = 4
    MaxCrashes = 0
    NoInvoice = NoInvoice
SPECIFICATION TimeSpec
CHECK_DEADLOCK FALSE
INVARIANTS
    BilledOnce
