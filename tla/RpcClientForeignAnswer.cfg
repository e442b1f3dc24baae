SPECIFICATION Spec
CONSTANTS
    Calls = {c1, c2}
    Cancellable = {}
    Unencodable = {}
    Undecodable = {}
    Unmarshalable = {c1}
    Methods = {"found", "noService"}
    AnswerShape = "object"
    WireCapacity = 4
    Overread = 0
    Receiver = Receiver
    None = None
INVARIANT AnswerIntegrity
