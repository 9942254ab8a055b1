\* Only the Models page, and nothing fails.
SPECIFICATION MachineSpec
CONSTANTS
    m1 = m1
    m2 = m2
    shared = shared
    other = other
    big = big
    tiny = tiny
    ctx = ctx
    small = small
    large = large
    padded = padded
    noGpu = noGpu
    repo1 = repo1
    repo2 = repo2
    tag = tag
    odd = odd
    Order <- MCOrder2
    Repo <- MCRepo2
    Offloaded = {}
    Shells = {s1}
    Jobs = {j1}
    ShellCmds = {}
    Batches = {0, 1}
    Faults = {}
    Sections = {big, tiny}
    Settings = {ctx}
    Plain = {small, large, padded, noGpu}
    Refused <- MCRefused
    Written <- MCWritten
    HubRepos = {repo1, repo2}
    QuantTags = {tag, odd}
    NoTag = NoTag
    NoRepo = NoRepo
    Unset = Unset
    Garbled = Garbled
    Files <- MCFiles
    Edited <- MCEdited
    MaxEdits = 0
INVARIANTS
    WarmSpared
