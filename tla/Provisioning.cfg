SPECIFICATION Spec
CONSTANTS
    Signups = {s1, s2, s3}
    Joins = {a1, a2}
    Emails = {e1, e2}
    None = None
SYMMETRY Symmetry
\* Every request ends.
CHECK_DEADLOCK FALSE
INVARIANTS
    TypeOK
    ActiveIsWhole
    AnswersAreTrue
PROPERTIES
    OwnershipIsFinal
