CONSTANTS
    x = x  y = y  s = s  t = t
    Address = {x, y}
    EndpointLists <- MCEndpointLists
    MaxRequests = 4
    Session = {s, t}
    RingOrder <- MCRingOrder
    Qps = {0, 1}
    Prompts <- MCPrompts
    MaxSelected = 2
    Label <- MCLabel
    Configurations <- MCConfigurations
    CommandLines <- MCCommandLines
    File <- MCFile
    ModelType <- MCModelType
SPECIFICATION BaselinesSpec
INVARIANTS TurnsAreEven ServedByTheConfigured NoOrphanController AcceptedStarts EveryPolicyStarts
PROPERTIES AnotherListIsSeen SessionsStay LongestServedIsChosen RolesAreKept
