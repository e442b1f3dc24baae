SPECIFICATION FairSpec
CONSTANTS
    Servers = {s1, s2}
    Callers = {u1}
    Timeouts = {0, 1}
    None = None
INVARIANT TypeOK
INVARIANT BroadcastComplete
INVARIANT NoConnectionLeaked
INVARIANT BroadcastFindsItsClients
PROPERTY FailureEndsBroadcast
PROPERTY ContextEndsCall
