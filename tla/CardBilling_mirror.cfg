SPECIFICATION Spec
CONSTANTS
    sub = sub  i1 = i1  i2 = i2  r1 = r1  r2 = r2
    None = None
    Subs = {sub}
    FormPlans = {sub}
    Items = {i1, i2}
    Keep = 1
    Requests = {r1, r2}
    MaxVisits = 1
    Period = 1
    Grace = 0
    Recheck = 1
    Patience = 9
    Schedule = 1
    Delay = 1
    MaxTime = 3
    Troubles = {{"failures"}, {"losses"}, {"haste"}, {"kills"}}
    MaxFaults = 1
CHECK_DEADLOCK FALSE
INVARIANTS TypeOK AccessIsPaid
PROPERTIES WarningKept MirrorSettles AccountFollows
