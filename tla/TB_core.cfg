\* One check_events task at a time; no failures, crashes or deletions.
\* A user sends one message to the bot, in a group (c1) or a channel (c2).
CONSTANTS
    Events = {e1, e2}
    c1 = c1
    c2 = c2
    CHATS <- MC_CHATS
    MaxTasks = 1
    MaxFailures = 0
    MaxCrashes = 0
    MaxMsgs = 5
    MaxDeletes = 0
    Channels = {c2}
    MaxCmds = 1
SPECIFICATION Spec
INVARIANT TypeOK
PROPERTY ImplementsAnomalyNotify
INVARIANT ReplyThreads
INVARIANT NoOrphanSent
