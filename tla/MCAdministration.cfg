CONSTANTS
    None = None
    k1 = k1
    v1 = v1
    s0 = s0
    s1 = s1
    Keys = {k1}
    Texts = {empty, v1}
    Empty = empty
    Scopes = {s0, s1}
    SystemScopes = {s0}
    Clients = {c1}
    Mappings = {m1}
    MappingForms <- Forms
    Editors = {e1, e2}
    MaxIds = 4
    MaxSecrets = 2
    Users = {u1}
    Attributes = {a1}
    Savers = {w1, w2}
    Readers = {r1}
    Links = {l1}
    Icons = {i1, i2, i3, i4}
    Uploaders = {t1, t2}
    MaxCuts = 1
SPECIFICATION AdminSpec
SYMMETRY Symmetry
CHECK_DEADLOCK FALSE
INVARIANTS InfoTypeOK LinksTypeOK ReferencesExist ScopesOfLastEdit SecretAsTold NoOrphanOptions NoStaleReading ClaimsTraceable MissingIconExplained
    LeftFileExplained
PROPERTIES SwitchedOnKnowingly ScopeInUseStays
