\* Two check_events tasks may run at once.
CONSTANTS
    Events = {e1, e2}
    c1 = c1
    c2 = c2
    CHATS <- MC_CHATS
    MaxTasks = 2
    MaxFailures = 0
    MaxCrashes = 0
    MaxMsgs = 9
    MaxDeletes = 0
    Channels = {}
    MaxCmds = 0
SPECIFICATION Spec
INVARIANT TypeOK
INVARIANT ReplyThreads
PROPERTY EventuallyNotified
