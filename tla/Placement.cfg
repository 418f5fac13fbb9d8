CONSTANTS
    Url <- MCUrl
    Betas <- MCBetas
    Matches <- MCMatches
    Prompts <- MCPrompts
    Factors <- MCFactors
    MaxInFlight = 3
SPECIFICATION Spec
INVARIANTS ChoiceIsLeastBest OverloadIsBounded FallbackHasCause ScaleFree
