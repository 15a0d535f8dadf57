CONSTANTS
    s1 = s1  s2 = s2  r = r  t = t  ctx = ctx
    None = None  Other = Other
    Sources = {s1}
    FileBacked = FALSE
    Lines = {r, t}
    Redirects = {r}
    Context <- OneContext
    ReadLimit = 3
    Window = 4
    Interval = 1
    Settle = 2
    MaxLog = 4
    MaxRotations = 2
    MaxTime = 5
SPECIFICATION Spec
INVARIANTS TypeOK Accounted NoDoubleCount AllReadIsKept SettledIsComplete
CHECK_DEADLOCK FALSE
