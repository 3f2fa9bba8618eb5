CONSTANTS
    None = None
    Keys = {k1}
    Texts = {empty, v1}
    Empty = empty
    Users = {u1}
    Attributes = {a1}
    Savers = {w1}
SPECIFICATION OptionsSpec
CHECK_DEADLOCK FALSE
INVARIANT EveryOptionReadsBack
