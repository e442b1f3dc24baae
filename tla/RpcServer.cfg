SPECIFICATION FairSpec
CONSTANTS
    Requests = {1, 2}
    Kinds = {"ok", "failing", "unmarshalable", "badInput", "noService", "noMethod", "valueOutput", "unsent"}
    Limits = {0, 1}
    Transports = {"tcp", "http"}
    Overread = 1
INVARIANT TypeOK
INVARIANT RepliesFramed
INVARIANT OneReply
INVARIANT RepliesBeforeClose
PROPERTY ConnectionReclaimed
PROPERTY TimelyReply
