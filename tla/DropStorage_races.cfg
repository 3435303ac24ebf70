SPECIFICATION Spec
CONSTANTS
    f1 = f1  f2 = f2  f3 = f3  d1 = d1  g = g  alice = alice  r1 = r1  r2 = r2
    Files = {f1, f2, f3}
    Drops = {d1}
    Owners = {alice}
    Guest = g
    Requests = {r1, r2}
    NoReq = NoReq
    NoDrop = NoDrop
    DropOf <- RaceDropOf
    OwnerOf <- AliceOwns
    Bytes <- UnitBytes
    Limit <- LimitTwo
    DropLimit <- NoCap
    MaxFiles <- TwoFiles
    MaxPending = 2
    MaxCrashes = 0
    Faults = {"delete", "db", "timeout"}
CHECK_DEADLOCK FALSE
SYMMETRY Symmetry
INVARIANTS TypeOK QuotaExact CompletedIsSealed StoredIsIntact OneCleaner NoLeak LimitsHold
PROPERTIES CompletedKeepsFiles ImplementsLedger
