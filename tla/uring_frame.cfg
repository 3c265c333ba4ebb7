CONSTANTS
    Fds = {3}
    ReqLen = 2
    MaxBlocking = 4
    MaxAsync = 2
    Users = {"call"}
    MaxFaults = 0
SPECIFICATION Spec
CHECK_DEADLOCK FALSE
INVARIANT
    AnsweredSucceeds
