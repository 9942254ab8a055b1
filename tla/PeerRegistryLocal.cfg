\* `llm local`: one machine that registers once with its own gateway.
SPECIFICATION Spec
CONSTANTS
    u1 = u1
    idle = idle
    busy = busy
    odd = odd
    Urls = {u1}
    Answers <- MCAnswers
    LoadedAnswers <- MCLoaded
    Unparsed = {odd}
    Garbled = {}
    Unpolled = Unpolled
    Down = Down
    Handlers = {h1}
    OnceUrls = {u1}
    BadUrls = {}
    LossyUrls = {}
    TTL = 3
    POLL = 1
    PollMax = 1
    HB = 1
    CurlMax = 1
PROPERTIES
    LocalMachineKept
