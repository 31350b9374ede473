CONSTANTS
    None = None
    c1 = c1  c2 = c2  h1 = h1  h2 = h2  z1 = z1  z2 = z2  a = a  b = b
    CRs = {c1}
    Hosts = {h1}
    HostOf <- SameHost
    Zones = {z1}
    ZoneModes = {"missing", "uninit", "ready"}
    Cfgs = {a, b}
    OutOfZone = {b}
    Specs <- ManagedSpecs
    ManagementPolicy = "manage"
    DeletePolicy = "always"
    DryRunModes = {FALSE}
    MaxRetries = 1
    CFRejectsDuplicates = TRUE
    LostReplies = TRUE
    ExtOps = {"delete", "ssl"}
    MaxRecords = 2
    MaxLag = 2
SPECIFICATION Spec
INVARIANTS TypeOK CreateUnderFinalizer NothingForgotten RecreateOnlyAfterLoss
PROPERTIES NoLostUpdate ReleaseMeansDeleted TerminatingStatusFrozen
