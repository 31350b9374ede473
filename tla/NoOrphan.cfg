CONSTANTS
    None = None
    c1 = c1  c2 = c2  h1 = h1  h2 = h2  z1 = z1  z2 = z2  a = a  b = b
    CRs = {c1}
    Hosts = {h1}
    HostOf <- SameHost
    Zones = {z1}
    ZoneModes = {"ready"}
    Cfgs = {a, b}
    OutOfZone = {}
    Specs <- OneSpec
    ManagementPolicy = "manage"
    DeletePolicy = "always"
    DryRunModes = {FALSE}
    MaxRetries = 0
    CFRejectsDuplicates = TRUE
    LostReplies = FALSE
    ExtOps = {}
    MaxRecords = 2
    MaxLag = 1
SPECIFICATION Spec
INVARIANT NoOrphan
