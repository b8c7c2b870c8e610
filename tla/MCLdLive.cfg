SPECIFICATION FairSpec
CONSTANTS
    NULL = NULL
    o1 = o1
    o2 = o2
    o3 = o3
    o4 = o4
    prog = prog
    a = a
    b = b
    bad = bad
    raw = raw
    s1 = s1
    s2 = s2
    Objs = {o1, o2, o3}
    Main = prog
    Images = {a, b, bad, raw}
    Malformed = {bad}
    Unhashed = {raw}
    Symbols = {s1, s2}
    Exports <- MCExports
    Needs <- MCNeeds
    Failures = {}
    MaxSlots = 3
    MaxDepth = 2
    MaxSessions = 2
PROPERTIES
    CallsReturn
