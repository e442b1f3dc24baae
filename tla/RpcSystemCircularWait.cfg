SPECIFICATION FairSpec
CONSTANTS
    Calls = {c1, c2, c3}
    Cancellable = {c3}
    Methods = {"noService"}
    WireCapacity = 2
    Receiver = Receiver
    None = None
    Limits = {1}
    Transports = {"tcp"}
    Overread = 0
    ReplyCapacity = 2
PROPERTY TimeoutCoversSending
