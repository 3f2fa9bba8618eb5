CONSTANTS
    Users = {u1}
    Creds = {c1}
    Counting = {c1}
    Options = {o1, o2}
    Sessions = {s1, s2}
    Browsers = {b1}
    Reqs = {r1, r2}
    MaxCount = 2
    MayBreak = TRUE
    None = None
SPECIFICATION Spec
SYMMETRY Symmetry
CHECK_DEADLOCK FALSE
INVARIANTS TypeOK SessionsTraceable NoOrphanSessions SessionsBounded
PROPERTIES ChallengeIsOneTime CountFallsOnlyInRace
