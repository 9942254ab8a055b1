\* Everything that goes wrong around one machine and its adapter, and nothing.
SPECIFICATION FairSpec
CONSTANTS
    own = own
    tunnel = tunnel
    adapter = adapter
    LoopUrls = {own, tunnel}
    AdapterUrls = {adapter}
    Kinds = {"load", "set_preset", "restart_router"}
    Faults = {"lose", "timeout", "leave", "gateway", "tunnel"}
    MaxResults = 1
    MaxCmds = 2
    MaxFaults = 2
    NoReply = NoReply
INVARIANTS
    AtMostOnce
    ResultsTruthful
    AppliedInOrder
PROPERTIES
    EveryCommandAnswered
