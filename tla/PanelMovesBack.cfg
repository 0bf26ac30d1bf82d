\* A card is dragged between two visits of its drawer.
CONSTANTS
    Cards = {k1}
    Columns = {c1, c2}
    Titles = {n1, n2}
    Comments = {m1}
    MaxActions = 2
    MaxOthers = 0
    MaxVisits = 2
    MaxErrors = 0
    Unknown = Unknown
SPECIFICATION PanelSpec
CHECK_DEADLOCK FALSE
PROPERTIES
    MovedOnlyWhenAsked
