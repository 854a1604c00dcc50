SPECIFICATION MCSpec
CONSTANTS
    Parts = {"sites", "vhosts", "ssh", "certificates", "transfers", "containers", "files"}
    r1 = r1
    d1 = d1
    Requests <- MCRequests
    Domains <- MCDomains
    Workload <- MCWorkload
    Runtimes = {"static"}
    MaxSites = 2
    MaxJobs = 4
    MaxPort = 1
    Quota = 2
    MaxAttempts = 2
    SameHost = TRUE
    Faults <- MCFaults
    Vsites = {"s1", "s2"}
    VRequests = {1, 2}
    VLoads <- MCVLoads
    Names = {"web", "web2"}
    Dirs <- MCDirs
    Extends <- MCExtends
    SshRequests = {1, 2}
    MaxRows = 3
    SshLoads <- MCSshLoads
    CertSites = {1, 2}
    Sweepers = {"tick", "all"}
    CertJobs = {1, 2}
    LifeTime = 3
    Tries = 2
    MaxDay = 4
    CertLoads <- MCCertLoads
    Owners = {"admin", "ann", "ben"}
    SuperAdmins = {}
    MadeBy <- MCMadeBy
    Movers = {1, 2}
    TransferLoads <- MCTransferLoads
    DSites = {1, 2}
    SiteName <- MCSiteName
    DRequests <- MCDRequests
    DTasks = {1, 2}
    HostPorts = 3
    Probes = 2
    DockerLoads <- MCDockerLoads
    FileRequests = {1, 2}
    Targets <- MCTargets
    NewNames = {"b", "c"}
    MaxContent = 4
    FileLoads <- MCFileLoads
INVARIANTS
    ActiveIsServed
    
    
    
    
    
    ContentKept
CHECK_DEADLOCK FALSE
