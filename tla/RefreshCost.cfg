CONSTANTS
    Url <- MCUrl
    MaxStarts <- MCMaxStarts
    Loads <- MCLoads
    EndpointLists <- MCOneList
    Beta <- MCBeta
    PromptTokens = 1
SPECIFICATION FairSpec
PROPERTIES OncePerFleetChange
