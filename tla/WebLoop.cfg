\* One line of the web tools, whatever it is.
SPECIFICATION Spec
CONSTANTS
    c1 = c1
    c2 = c2
    a1 = a1
    a2 = a2
    in = in
    out = out
    x = x
    a = a
    b = b
    t1 = t1
    t2 = t2
    n1 = n1
    Callers = {c1, c2}
    Addrs = {a1, a2}
    ByName = ByName
    NoEntry = NoEntry
    DNS_TTL = 2
    LookupMax = 1
    MaxTime = 4
    Logins = {c1, c2}
    NotPosted = NotPosted
    LOGIN_WINDOW = 2
    LOGIN_MAX = 2
    MUTATE_WINDOW = 2
    MUTATE_MAX = 1
    MaxClock = 3
    MaxTries = 3
    Keys = {in, out}
    Digits = {1, 2}
    Streams <- MCStreams
    Window = 4
    MaxRecords = 2
    MaxTorn = 1
    Pages <- MCPages
    Engines <- MCEngines
    Limits = {0, 1}
    MAX_BYTES = 4
    MAX_CHARS = 3
    MIN_CHARS = 2
    MAX_REDIRECTS = 1
    MaxLines = 1
    MaxBytes = 2
    Targets = {t1, t2}
    Node <- MCNode
    Pids = {1, 2, 3}
    MaxDeaths = 1
    None = None
INVARIANTS
    EveryRequestReplied
CHECK_DEADLOCK FALSE
