\* A crash between os.rename and os.remove(e.n): the red is sent again.
CONSTANTS
    Events = {e1}
    c1 = c1
    c2 = c2
    CHATS <- MC_CHATS
    MaxTasks = 1
    MaxFailures = 0
    MaxCrashes = 1
    MaxMsgs = 5
    MaxDeletes = 0
    Channels = {}
    MaxCmds = 0
SPECIFICATION Spec
PROPERTY NoRedAfterSent
