\* Two tasks at once: the second poll sends the red message again.
CONSTANTS
    Events = {e1}
    c1 = c1
    c2 = c2
    CHATS <- MC_CHATS
    MaxTasks = 2
    MaxFailures = 0
    MaxCrashes = 0
    MaxMsgs = 5
    MaxDeletes = 0
    Channels = {}
    MaxCmds = 0
SPECIFICATION Spec
INVARIANT AnnouncedOnce
