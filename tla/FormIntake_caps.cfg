SPECIFICATION Spec
CONSTANTS
    f1 = f1  f2 = f2  f3 = f3  d1 = d1  d2 = d2  s1 = s1  s2 = s2  s3 = s3  c1 = c1  c2 = c2
    None = None
    Forms = {f1, f2, f3}
    Existing = {f1}
    Drops = {}
    Submitters = {s1, s2}
    Creators = {c1, c2}
    FormLimit = 2
    MonthlyLimit = 1
    StagingLimit = 1
    Caps = {None, 1}
    OwnerActs = {"edit"}
    LastMonth = 1
SYMMETRY Symmetry
CHECK_DEADLOCK FALSE
PROPERTY AcceptedAsPosted
INVARIANT CapsHold
