CONSTANTS
    Url <- MCUrl
    MaxStarts <- MCMaxStarts
    Loads <- MCLoads
    EndpointLists <- MCEndpointLists
    Beta <- MCBeta
    PromptTokens = 1
SPECIFICATION FairSpec
INVARIANTS TypeOK NewestIdIsLast AskedIsExact
PROPERTIES LiveHolderIsScored RefreshHasCause EveryRefreshIsRouted
