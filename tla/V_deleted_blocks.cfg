\* A deleted red message makes every later poll die in the first pass.
CONSTANTS
    Events = {e1, e2}
    c1 = c1
    c2 = c2
    CHATS <- MC_CHATS1
    MaxTasks = 1
    MaxFailures = 0
    MaxCrashes = 0
    MaxMsgs = 5
    MaxDeletes = 1
    Channels = {}
    MaxCmds = 0
SPECIFICATION Spec
PROPERTY EventuallyAnnounced
