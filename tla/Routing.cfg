\* Two numbered copies, asked for by base name and by id, on two machines that come
\* and go.
SPECIFICATION Spec
CONSTANTS
    q = q
    q1 = q1
    q2 = q2
    Urls = {u1, u2}
    Mids = {q1, q2}
    Names = {q, q1}
    BaseName <- MCBaseName
    Answers <- MCAnswers
    Unpolled <- MCUnpolled
    Sessions = {s1}
    NoSession = NoSession
    NoMid = NoMid
    NoPin = NoPin
    NoUrl = NoUrl
    Reqs = {r1, r2}
    Unencodable = {r1, r2}
    Unclosable = {r1, r2}
SYMMETRY MCSymmetry
INVARIANTS
    InflightConserved
    ReplicaCountConserved
PROPERTIES
    SpreadByName
