CONSTANTS
    Users = {u1, u2}
    Links = {l1}
    Kinds = {registration}
    Sessions = {s1, s2}
    Challenges = {ch1, ch2}
    Creds = {c1}
    Reqs = {r1, r2}
    None = None
    MayBreak = TRUE
SPECIFICATION Spec
SYMMETRY Symmetry
CHECK_DEADLOCK FALSE
INVARIANTS TypeOK CredentialsTraceable NoOrphans UnregisteredExplained
    DisabledAnswersOldOnly
PROPERTY LinkIsOneTime
