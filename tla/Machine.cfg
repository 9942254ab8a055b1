\* Two copies of a model, one of them offloaded; an operator and the Models page
\* load and unload them, and everything can fail.  Two edits of two
\* sections.
SPECIFICATION FairMachineSpec
CONSTANTS
    m1 = m1
    m2 = m2
    shared = shared
    other = other
    big = big
    tiny = tiny
    ctx = ctx
    small = small
    large = large
    padded = padded
    noGpu = noGpu
    repo1 = repo1
    repo2 = repo2
    tag = tag
    odd = odd
    Order <- MCOrder2
    Repo <- MCCopies2
    Offloaded = {m2}
    Shells = {s1}
    Jobs = {j1}
    ShellCmds = {"up", "down", "pause", "resume"}
    Batches = {0, 1}
    Faults = {"load", "hang", "timeout", "api"}
    Sections = {big, tiny}
    Settings = {ctx}
    Plain = {small, large, padded, noGpu}
    Refused <- MCRefused
    Written <- MCWritten
    HubRepos = {repo1, repo2}
    QuantTags = {tag, odd}
    NoTag = NoTag
    NoRepo = NoRepo
    Unset = Unset
    Garbled = Garbled
    Files <- MCFiles
    Edited <- MCEdited
    MaxEdits = 2
INVARIANTS
    PauseForgetsNothing
    PauseLeavesNothing
PROPERTIES
    ListKept
    EveryCommandEnds
    ImplementsStore
    ReadersAgree
    TextKept
    TagKeepsRepo
CHECK_DEADLOCK FALSE
