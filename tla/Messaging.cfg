\* A thread whose history has two pages, with every disturbance once.
CONSTANTS
    Bodies = {b1, b2}
    Page = 1
    Disturbances = {"overtake", "missed", "refuse", "leave", "retract", "editold", "early"}
    MaxMessages = 2
    MaxSends = 1
    MaxMoves = 2
    MaxMishaps = 1
    Gone = Gone
    Absent = Absent
SPECIFICATION MessagingSpec
SYMMETRY Symmetry
\* The bounds on messages and moves are reached.
CHECK_DEADLOCK FALSE
INVARIANTS
    MessagingTypeOK
    
    
    
