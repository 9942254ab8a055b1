\* Three kinds of site; commands are typed at any time, in one shell or in two.
SPECIFICATION FairSpec
CONSTANTS
    e1 = e1
    q1 = q1
    q2 = q2
    op1 = op1
    op2 = op2
    Engines = {e1}
    QuickUrls = {q1, q2}
    Plain = Plain
    OwnUrl = OwnUrl
    None = None
    Shells = {op1, op2}
    Sites <- MCSites
PROPERTIES
    TableFollows
    DeadEngineNotOffered
    EveryCommandEnds
