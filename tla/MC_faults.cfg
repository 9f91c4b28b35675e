\* One task at a time; one send_message call may raise and the process
\* may crash once, anywhere.
CONSTANTS
    Events = {e1, e2}
    c1 = c1
    c2 = c2
    CHATS <- MC_CHATS
    MaxTasks = 1
    MaxFailures = 1
    MaxCrashes = 1
    MaxMsgs = 7
    MaxDeletes = 0
    Channels = {}
    MaxCmds = 0
SPECIFICATION Spec
INVARIANT TypeOK
INVARIANT ReplyThreads
INVARIANT TmpLeakBounded
PROPERTY EventuallyNotified
