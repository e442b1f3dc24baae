SPECIFICATION FairSpec
CONSTANTS
    Calls = {c1, c2}
    Cancellable = {c1}
    Unencodable = {}
    Undecodable = {c1}
    Unmarshalable = {}
    Methods = {"found", "noService"}
    AnswerShape = "object"
    WireCapacity = 2
    Overread = 2
    Receiver = Receiver
    None = None
PROPERTY FairlyImplementsRpcCalls
PROPERTY TimeoutHonoured
PROPERTY ConnectionLossDrains
