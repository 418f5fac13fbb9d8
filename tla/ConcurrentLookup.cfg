CONSTANTS
    k1 = k1  k2 = k2  a = a  b = b
    Key = {k1, k2}
    Instance = {a, b}
    Worker = {0}
    Location = {"cpu"}
    Meta <- MCMeta
    Requests <- MCRequests
    MaxCopies = 2
SPECIFICATION LookupSpec
INVARIANTS CreditWasHeld CreditNotMissed FailsOnlyOnLoss
SYMMETRY MCSymmetry
