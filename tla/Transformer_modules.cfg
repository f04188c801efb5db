SPECIFICATION Spec
CONSTANTS
    r1 = r1
    r2 = r2
    s1 = s1
    s2 = s2
    l1 = l1
    l2 = l2
    Callers = {r1, r2}
    Namespaces = {s1, s2}
    Gets = {"get"}
    HostOf <- MCHostOf
    Orders <- MCOneOrder
    GlobalHosts = {"api"}
    NsHosts <- MCNsHosts
    CacheEnabled = TRUE
    VersionBound = 2
    ScriptDirs <- MCOneDir
    PasswdDirs <- MCPasswdDirs
    LuaStates = {l1, l2}
    Hosts = {"out"}
    Creds = {"alice", "nobody"}
    NoCred = "nobody"
    Files <- MCOneFile
    Uses <- MCKvUses
    Faults = {"publish", "ambiguous"}
    OpBound <- MCOpBound
INVARIANT OwnModules
CHECK_DEADLOCK FALSE
