CONSTANTS
    p1 = p1
    p2 = p2
    seed = seed
    noPeer = noPeer
    none = none
    Peers <- MCPeers
    Seed = seed
    NoPeer = noPeer
    None = none
    MaxCalls <- MCMaxCalls
    MaxClients <- MCMaxClients
    MayFail = FALSE

SPECIFICATION Spec

\* No requestLogInfo fails: overlapping .info commands alone.
INVARIANT UrlsRestored

\* The REPL may exit for good.
CHECK_DEADLOCK FALSE
