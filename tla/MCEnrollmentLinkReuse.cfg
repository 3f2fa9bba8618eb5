CONSTANTS
    Users = {u1}
    Links = {l1, l2}
    Kinds = {registration}
    Sessions = {s1}
    Challenges = {ch1}
    Creds = {c1}
    Reqs = {r1}
    None = None
    MayBreak = FALSE
SPECIFICATION Spec
SYMMETRY Symmetry
CHECK_DEADLOCK FALSE
INVARIANT OneLiveLinkPerPurpose
