\* The default two retries, bodies of one piece or three, a file or buffer with
\* room for all of it or not, or a string, empty or not; a request of two pieces,
\* its stream at the start or in the middle.
CONSTANTS
    Codes <- MCCodes
    Retry = 2
    Replies <- AllReplies
    BodyLens = {1, 3}
    Sinks = {"sink", "string"}
    Rooms = {2, 3}
    Before = {0, 2}
    Reused = TRUE
    ReqLen = 2
    Positions = {0, 1}
    NoReply = NoReply
SPECIFICATION Spec
INVARIANTS
    ReturnAgrees
    DownloadIsWhole
    BodyIsWhole
    RepeatsStartClean
    OnlyFailuresRepeat
PROPERTY Returns
