\* One chat, one check_events task at a time, with one failing send_message, one
\* process crash and one red message deleted by a chat member.
CONSTANTS
    Events = {e1, e2}
    c1 = c1
    c2 = c2
    CHATS <- MC_CHATS1
    MaxTasks = 1
    MaxFailures = 1
    MaxCrashes = 1
    MaxMsgs = 7
    MaxDeletes = 1
    Channels = {}
    MaxCmds = 0
SPECIFICATION Spec
INVARIANT TypeOK
INVARIANT ReplyThreads
INVARIANT TmpLeakBounded
