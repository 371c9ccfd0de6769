SPECIFICATION Spec
CONSTANTS
    Signups = {s1, s2}
    Joins = {a1}
    Emails = {e1}
    None = None
CHECK_DEADLOCK FALSE
INVARIANTS
    FailureIsRetryable
