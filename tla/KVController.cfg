CONSTANTS
    k1 = k1  k2 = k2  k3 = k3  a = a  b = b
    Key = {k1, k2, k3}
    Instance = {a, b}
    Worker = {0, 1}
    Location = {"cpu", "disk"}
    Meta <- MCMeta
    Requests <- MCRequests
    MaxCopies = 2
SPECIFICATION Spec
INVARIANTS TypeOK LookupIsLongestPrefix FirstNameIsUpstreams P2PReplyIsOnePeer
PROPERTIES ImplementsHoldings
