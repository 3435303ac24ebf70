SPECIFICATION Spec
CONSTANTS
    a = a  b = b  r1 = r1  r2 = r2
    None = None
    Orders = {a, b}
    Earlier = {a}
    Sent <- RenewalIsSent
    Cards = {"none", "live", "ended"}
    Requests = {r1, r2}
    Period = 1
    Grace = 1
    Start = 0
    MaxTime = 3
    Troubles = {{"failures"}, {"haste"}, {"kills"}}
    MaxFaults = 1
CHECK_DEADLOCK FALSE
INVARIANTS TypeOK OneEntitling
PROPERTIES RefundIsFinal RemainderKeptInOrder PaidIsServed LossReachesUser
