CONSTANTS
    none = none
    NoRequest = none
    Requests <- MCRequests
    MaxSession = 2
    MaxRequests = 2
    LastRequests <- MCLastRequests
    ReqsPerEvent = 1
    SndBuf = 1
SPECIFICATION Spec
INVARIANTS TypeOK AlignedUnlessUnswallowed RefsReleasedUnlessLongKey
PROPERTIES ClosedForCause RequestsAnswered ImplementsRequestReply
CHECK_DEADLOCK FALSE
