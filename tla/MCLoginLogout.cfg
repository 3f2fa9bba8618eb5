CONSTANTS
    Users = {u1}
    Creds = {c1}
    Counting = {c1}
    Options = {o1}
    Sessions = {s1, s2}
    Browsers = {b1}
    Reqs = {r1}
    MaxCount = 2
    MayBreak = FALSE
    None = None
SPECIFICATION Spec
SYMMETRY Symmetry
CHECK_DEADLOCK FALSE
INVARIANT LogoutDropsCookie
