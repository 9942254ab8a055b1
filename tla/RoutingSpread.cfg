\* A copy under the base name itself beside a numbered one, on one machine, as in
\* presets/8x-24g.ini; nothing raises.
SPECIFICATION Spec
CONSTANTS
    q = q
    q1 = q1
    q2 = q2
    Urls = {u1}
    Mids = {q, q1}
    Names = {q}
    BaseName <- MCBaseName
    Answers <- MCAnswers
    Unpolled <- MCUnpolled
    Sessions = {}
    NoSession = NoSession
    NoMid = NoMid
    NoPin = NoPin
    NoUrl = NoUrl
    Reqs = {r1, r2, r3, r4}
    Unencodable = {}
    Unclosable = {}
SYMMETRY MCSymmetry
PROPERTIES
    LeastBusyCopy
