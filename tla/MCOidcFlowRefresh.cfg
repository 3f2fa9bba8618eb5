CONSTANTS
    Users = {u1}
    Clients = {cl1}
    Scopes = {sc1}
    Uris = {uri1}
    Codes = {k1}
    Reqs = {r1}
    MaxTime = 1
    MayBreak = FALSE
    None = None
SPECIFICATION Spec
SYMMETRY Symmetry
CHECK_DEADLOCK FALSE
INVARIANT RefreshTokensServed
