SPECIFICATION FairSpec
CONSTANTS
    Calls = {c1, c2}
    Cancellable = {c1}
    Unencodable = {}
    Undecodable = {}
    Unmarshalable = {}
    Methods = {"found", "noService"}
    AnswerShape = "scalar"
    WireCapacity = 4
    Overread = 0
    Receiver = Receiver
    None = None
PROPERTY ShutdownOnlyByRuntimeError
