CONSTANTS
    s1 = s1  s2 = s2  r = r  t = t  ctx = ctx
    None = None  Other = Other
    Sources = {s1}
    FileBacked = TRUE
    Lines = {r, t}
    Redirects = {r}
    Context <- OneContext
    ReadLimit = 2
    Window = 3
    Interval = 1
    Settle = 1
    MaxLog = 3
    MaxRotations = 2
    MaxTime = 4
SPECIFICATION FairSpec
INVARIANTS Accounted NoDoubleCount AllReadIsKept
PROPERTIES WindowEnds
CHECK_DEADLOCK FALSE
