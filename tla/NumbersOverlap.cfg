\* Overlapping creations, deletions and settings forms.  The number 10 looks the
\* same under both paddings, the numbers 1 to 4 do not.
CONSTANTS
    Workers = {w1, w2}
    Invoices = {i1, i2, i3}
    Prefixes = {p}
    Paddings = {1, 2}
    Typed = {10}
    Operations = {"create", "save", "delete"}
SPECIFICATION Spec
SYMMETRY Symmetry
\* With every row in use and no request open, an agency of this size may rest.
CHECK_DEADLOCK FALSE
INVARIANTS
    TypeOK
    NumbersUnique
    NumbersConsecutive
