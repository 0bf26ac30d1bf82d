\* The task board, a card's drawer, the session of the browser, logged time, meetings and
\* a proposal.
CONSTANTS
    Editors = {e1, e2}
    Lists = {l1, l2, l3}
    Tasks = {t1, t2}
    Modes = {"serial", "overlap"}
    MaxChanges = 3
    Nowhere = Nowhere
    Cards = {k1, k2}
    Columns = {c1, c2}
    Titles = {n1}
    Comments = {m1}
    MaxActions = 2
    MaxOthers = 1
    MaxVisits = 2
    MaxErrors = 1
    Unknown = Unknown
    Devices = {d1, d2}
    Slots = {s1, s2}
    MaxTokens = 4
    MaxLosses = 1
    Tabs = {tab1, tab2}
    Entries = {x1, x2}
    Invoices = {i1, i2}
    Pacing = {"serial", "overlap"}
    MaxSteps = 4
    MaxCrashes = 1
    NoInvoice = NoInvoice
    MeetingIds = {g1, g2}
    Requests = {r1, r2}
    NoMeeting = NoMeeting
    Starts = {0, 1, 2}
    Lengths = {1, 2}
    MaxCalls = 3
    MaxResizes = 1
    MaxDeaths = 1
    Staff = {f1, f2}
    Readers = {v1, v2}
    MaxAsked = 4
SPECIFICATION WorkspaceSpec
\* The bounds on changes, visits, tokens and requests are reached.
CHECK_DEADLOCK FALSE
INVARIANTS
    WorkspaceTypeOK
    CommentsOfTheCard
    SessionUsable
    OneTimer
    NeverBilledTwice
    
    NoDoubleBooking
    OnlyResizingUnchecks
    ClientKnows
    SignedAsShown
PROPERTIES
    CardsKept
    ContiguousAgain
    NoFalseReplay
    LockedIsFrozen
    DecisionStands
