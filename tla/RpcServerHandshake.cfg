SPECIFICATION FairSpec
CONSTANTS
    Requests = {1, 2}
    Kinds = {"ok"}
    Limits = {1}
    Transports = {"tcp"}
    Overread = 2
PROPERTY RequestAnswered
