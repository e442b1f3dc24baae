SPECIFICATION Spec
CONSTANTS
    Calls = {c1, c2, c3}
    Cancellable = {c2}
    Unencodable = {c3}
    Undecodable = {}
    Unmarshalable = {c1}
    Methods = {"found", "noService"}
    AnswerShape = "scalar"
    WireCapacity = 4
    Overread = 1
    Receiver = Receiver
    None = None
INVARIANT TypeOK
INVARIANT FinishedAtMostOnce
INVARIANT NoCallerLeftBehind
INVARIANT AnswerIntegrity
PROPERTY ImplementsRpcCalls
PROPERTY OutputSettled
