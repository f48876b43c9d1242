SPECIFICATION Spec
CONSTANTS
    Identity = {"a", "b", "c"}
    Mine = {"a", "b"}
    NameOf <- Names
    Keep = {"kept"}
    Dir = {1, 2}
    MaxLog = 6
    MaxRuns = 2
    DryManifests = FALSE
    NoIdentity = NoIdentity
    Launcher = {"a", "b"}
    DatabaseShared <- SharedDatabases
    NoLauncher = NoLauncher
    Connection = {1, 2}
    MaxConnections = 1
    Release = {"r1", "r2", "r3", "r4"}
    Build <- Builds
    NoRelease = NoRelease
INVARIANTS SessionIsWhole AnsweredOnce DeployIsWhole
PROPERTIES CleanupIsSafe ConnectionsEnd
CHECK_DEADLOCK FALSE
