SPECIFICATION Spec
CONSTANTS
    c1 = c1  c2 = c2  bob = bob  s1 = s1
    None = None
    LimitedTtl = 1  UrlTtl = 2  RequestTime = 1
    LimitGrace = 2  ExpiryGrace = 3  DeleteGrace = 4  BillingGrace = 1
    Clients = {c1, c2}
    Recipients = {bob}
    Invited = {bob}
    Sessions = {}
    MaxDownloads = 2
    RecipientMax = 1
    RecipientExpiry = None
    Expiries = {None}
    Events = {"takedown"}
    PlanDays = None
    MaxTime = 0
    MaxCount = 0
CHECK_DEADLOCK FALSE
SYMMETRY Symmetry
INVARIANTS TypeOK DownloadsAttributed MailedOnce
PROPERTIES ImplementsAllowance
