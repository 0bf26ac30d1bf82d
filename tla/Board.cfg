\* Two browsers on a card each may move, edit and delete, with every disturbance once.
CONSTANTS
    Browsers = {b1, b2}
    Cards = {k1}
    Places = {p1, p2}
    Texts = {t1, t2}
    Disturbances = {"overtake", "reorder", "refuse", "escape", "redelete"}
    MaxCalls = 2
    MaxResyncs = 1
    MaxMishaps = 1
    None = None
    Deleted = Deleted
SPECIFICATION BoardSpec
SYMMETRY Symmetry
\* The bounds on calls and re-pulls are reached.
CHECK_DEADLOCK FALSE
INVARIANTS
    
    BoardConverges

    
