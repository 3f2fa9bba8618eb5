CONSTANTS
    None = None
    Users = {u1, u2, u3}
    InitialEmail = e0
    Emails = {e0, e1}
    Threads = {t1, t2}
    MaxEvents = 1
SPECIFICATION MCSpec
SYMMETRY Symmetry
CHECK_DEADLOCK FALSE
INVARIANTS TypeOK AddressesUnique AccountsTraceable
PROPERTIES DeletedStaysDeleted DisabledStands
