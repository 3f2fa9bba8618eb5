CONSTANTS
    None = None
    Users = {u1}
    Clients = {cl1, cl2}
    Scopes = {sc1}
    Uris = {uri1}
    Codes = {k1, k2}
    Reqs = {r1}
    MaxTime = 1
    MayBreak = TRUE
    Workers = {w1, w2}
    Kinds = {registration}
    Links = {l1}
    Sessions = {s1, s2}
    Challenges = {ch1}
    Creds = {c1}
    Threads = {t1}
    Counting = {c1}
    Options = {o1}
    Browsers = {b1}
    MaxCount = 1
    Dashboards = {d1}
    Icons = {i1, i2, i3}
    Uploaders = {t1, t2}
    MaxCuts = 1
SPECIFICATION LiveSpec
CHECK_DEADLOCK FALSE
INVARIANTS TypeOK TokensTraceable NoOrphanTokens LostCodesExplained
PROPERTIES GrantsOnce ConsumedCodeYields
    ConsumedLinkOpensSession VerifiedGetsCredential AcceptedOpensSession IconComesBack
