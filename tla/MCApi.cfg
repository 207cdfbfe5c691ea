SPECIFICATION Spec
CONSTANTS
    Tenants = {"t1", "t2"}
    Users = {"vera", "otto", "ada"}
    NoUser = "none"
    TenantOf <- Tenant
    RoleOf <- Role
    Seeded = {"vera", "otto"}
    MinPasswordLength = 12
    Sids = {s1, s2}
    NoSid = NoSid
    SessionTTL = 1
    Requests = {r1, r2}
    AuthFaults = {"db"}
    MaxTime = 1
    WsIds = {w1}
    Slugs = {g1, g2}
    NoSlug = NoSlug
    MaxNameLen = 1
    MaxDescriptionLen = 1
    MaxViews = 1
    DefaultShareTTL = 1
    Second = 4
    Int64Half = 8
    AnnIds = {a1, a2}
    Instants = {1, 2}
    MaxScopeIDLen = 1
    MaxBodyLen = 1
    DefaultListLimit = 1
    MaxListLimit = 2
    TestIds = {x1}
    PopIds = {p1}
    Horizon = 2
    Drafts <- DraftsAtLimits
    Notes <- NotesAtLimits
    Seconds <- SecondsSent
    MaxRows = 2
    MaxTables = 1
SYMMETRY Symmetry
VIEW View
INVARIANTS
    TypeOK
    PagingMissesNothing
PROPERTIES
    EndedSessionsStayEnded
    TenantsStayApart
    LinkOpensOnlyWhileGranted
