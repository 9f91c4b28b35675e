\* One check_events task at a time, no faults: does a start and an end that
\* are both in MSGS_DIR before any red always give one yellow?
CONSTANTS
    Events = {e1, e2}
    c1 = c1
    c2 = c2
    CHATS <- MC_CHATS
    MaxTasks = 1
    MaxFailures = 0
    MaxCrashes = 0
    MaxMsgs = 5
    MaxDeletes = 0
    Channels = {}
    MaxCmds = 0
SPECIFICATION Spec
PROPERTY EndedBeforeStarted
