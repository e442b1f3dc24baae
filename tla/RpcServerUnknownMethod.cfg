SPECIFICATION FairSpec
CONSTANTS
    Requests = {1, 2}
    Kinds = {"ok", "noMethod"}
    Limits = {1}
    Transports = {"tcp", "http"}
    Overread = 0
PROPERTY UnknownMethodReported
