SPECIFICATION Spec
CONSTANTS
    f1 = f1  f2 = f2  f3 = f3  d1 = d1  d2 = d2  s1 = s1  s2 = s2  s3 = s3  c1 = c1  c2 = c2
    None = None
    Forms = {f1}
    Existing = {f1}
    Drops = {d1}
    Submitters = {s1}
    Creators = {}
    FormLimit = None
    MonthlyLimit = None
    StagingLimit = 1
    Caps = {None}
    OwnerActs = {"form"}
    LastMonth = 0
CHECK_DEADLOCK FALSE
INVARIANT NoOrphanedAttachment
