\* One chat, one task at a time; one send_message call may raise and a
\* chat member may delete one red message; a user sends the bot one message.
CONSTANTS
    Events = {e1, e2}
    c1 = c1
    c2 = c2
    CHATS <- MC_CHATS1
    MaxTasks = 1
    MaxFailures = 1
    MaxCrashes = 0
    MaxMsgs = 6
    MaxDeletes = 1
    Channels = {}
    MaxCmds = 1
SPECIFICATION Spec
INVARIANT TypeOK
INVARIANT ReplyThreads
INVARIANT NoOrphanSent
PROPERTY NoRedAfterSent
