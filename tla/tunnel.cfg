\* Every request on two goroutines, a failing command or a crash.
CONSTANTS
    Tunnels = {t1}
    Hosts = {h1}
    CFTunnelIDs = {u1, u2}
    Secrets = {s1, s2}
    NoTunnel = NoTunnel
    NoProject = NoProject
    NoFile = NoFile
    Dirs = Dirs
    Empty = Empty
    Down = Down
    Goroutines = {g1, g2}
    Nobody = Nobody
    MaxEdits = 3
    MaxFaults = 1

SPECIFICATION FairSpec
CHECK_DEADLOCK FALSE
INVARIANTS
    FilesMatchRows
PROPERTY IngressConverges
