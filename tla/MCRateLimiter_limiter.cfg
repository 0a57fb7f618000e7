SPECIFICATION Spec
CONSTANTS
    hostA = hostA
    hostB = hostB
    proxy = proxy
    c1 = c1
    c2 = c2
    c3 = c3
    l1 = l1
    l2 = l2
    l3 = l3
    NoHeader = NoHeader
    None = None
    Conns = {c1, c2, c3}
    Hosts = {hostA, hostB, proxy}
    Peer <- ProxyPeer
    XForwardedFor <- ProxyHeader
    TrustedProxy = {proxy}
    MaxParallelUploads = 2
    Ttl = 3
    Lims = {l1, l2}
    MaxStall = 1
    MaxNow = 5
SYMMETRY LimSymmetry
INVARIANTS LimiterInv PerHost
PROPERTIES LikeIdeal
CHECK_DEADLOCK FALSE
