\* One schedule whose invoice cannot be created beside one in order.
CONSTANTS
    Schedules = {s1, s2}
    Bad = {s1}
    Loads = {l1, l2}
    MaxPeriod = 1
    MaxBreaks = 0
SPECIFICATION RecurringFairSpec
CHECK_DEADLOCK FALSE
PROPERTIES
    DueIsBilled
