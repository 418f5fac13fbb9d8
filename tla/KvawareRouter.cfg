CONSTANTS
    Url <- MCUrl
    MaxStarts <- MCMaxStarts
    EndpointLists <- MCEndpointLists
    Matches = {1, 3}
    PromptTokens = 4
    Threshold = 2
SPECIFICATION FairSpec
PROPERTIES LiveHolderNeverFails FollowsTheName EveryRequestEnds
