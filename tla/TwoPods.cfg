CONSTANTS
    s1 = s1  s2 = s2  r = r  t = t  ctx = ctx
    None = None  Other = Other
    Sources = {s1, s2}
    FileBacked = FALSE
    Lines = {r, t}
    Redirects = {r}
    Context <- OneContext
    ReadLimit = 1
    Window = 3
    Interval = 1
    Settle = 1
    MaxLog = 2
    MaxRotations = 1
    MaxTime = 4
SPECIFICATION Spec
INVARIANTS SettledInTime
CHECK_DEADLOCK FALSE
