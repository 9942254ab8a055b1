\* One machine, joined or registered once by `llm local`, over a network that loses
\* requests, with one register handler overlapping the poller.
SPECIFICATION FairSpec
CONSTANTS
    u1 = u1
    idle = idle
    busy = busy
    odd = odd
    Urls = {u1}
    Answers <- MCAnswers
    LoadedAnswers <- MCLoaded
    Unparsed = {odd}
    Garbled = {}
    Unpolled = Unpolled
    Down = Down
    Handlers = {h1}
    OnceUrls = {u1}
    BadUrls = {}
    LossyUrls = {u1}
    TTL = 3
    POLL = 1
    PollMax = 1
    HB = 1
    CurlMax = 1
INVARIANTS
    TypeOK
    BoundedStaleness
    SilentRouterUnrouted
    RoutableWasHeard
PROPERTIES
    RefinesTable
    BeatingMachineKept
    DeadMachineDropped
    GatewayConverges
    PolledForever
