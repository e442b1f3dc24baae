SPECIFICATION FairSpec
CONSTANTS
    Calls = {c1, c2}
    Cancellable = {}
    Methods = {"found", "noService", "noMethod"}
    WireCapacity = 2
    Receiver = Receiver
    None = None
    Limits = {0, 1}
    Transports = {"tcp"}
    Overread = 2
    ReplyCapacity = 8
PROPERTY ServerIsPeer
PROPERTY CallsKeepContract
PROPERTY EveryCallReturns
PROPERTY BothEndsTerminate
