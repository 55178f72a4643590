CONSTANTS
    Ep = {p}
    Addr <- MCAddr
    Session = {s1, s2}
    None = None
    MaxBytes = 2
SPECIFICATION Spec
INVARIANTS UnwrapSafe
CHECK_DEADLOCK FALSE
