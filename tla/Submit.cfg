\* Three adds over two categories with a table of one lock.
SPECIFICATION Spec
CONSTANTS
    a1 = a1
    a2 = a2
    a3 = a3
    c1 = c1
    c2 = c2
    Adder = {a1, a2, a3}
    Category = {c1, c2}
    CategoryOf <- Categories
    Base = {b1, b2}
    Absolute = {b2}
    Fallback = b1
    Flat = Flat
    Missing = Missing
    Unknown = Unknown
    NotFound = NotFound
    MaxLocks = 1
    MaxRetries = 2
    MakesDirs = TRUE
    MaxAdds = 4
INVARIANTS BaseSettled OneEditor
PROPERTIES CategoryFirst
SYMMETRY Symmetry
CHECK_DEADLOCK FALSE
