\* Nothing goes wrong; the router restart is asked for.
SPECIFICATION FairSpec
CONSTANTS
    own = own
    tunnel = tunnel
    adapter = adapter
    LoopUrls = {own}
    AdapterUrls = {}
    Kinds = {"restart_router"}
    Faults = {}
    MaxResults = 1
    MaxCmds = 1
    MaxFaults = 0
    NoReply = NoReply
PROPERTIES
    RestartAnswered
CHECK_DEADLOCK FALSE
