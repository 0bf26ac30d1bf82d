\* A message arrives while there is no socket.
CONSTANTS
    Bodies = {b1}
    Page = 1
    Disturbances = {"missed"}
    MaxMessages = 2
    MaxSends = 1
    MaxMoves = 2
    MaxMishaps = 1
    Gone = Gone
    Absent = Absent
SPECIFICATION MessagingSpec
CHECK_DEADLOCK FALSE
INVARIANTS
    ThreadReconciles
