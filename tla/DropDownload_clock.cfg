SPECIFICATION LiveSpec
CONSTANTS
    c1 = c1  c2 = c2  bob = bob  s1 = s1
    None = None
    LimitedTtl = 1  UrlTtl = 2  RequestTime = 1
    LimitGrace = 2  ExpiryGrace = 3  DeleteGrace = 4  BillingGrace = 1
    Clients = {c1}
    Recipients = {}
    Invited = {}
    Sessions = {}
    MaxDownloads = 2
    RecipientMax = None
    RecipientExpiry = None
    Expiries = {None}
    Events = {"loss", "removal"}
    PlanDays = 2
    MaxTime = 7
    MaxCount = 0
CHECK_DEADLOCK FALSE
INVARIANT UrlsStayUsable
PROPERTIES GraceClockKept SpentDropsGo
