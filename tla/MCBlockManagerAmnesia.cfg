CONSTANTS
    Blocks <- MCBlocks
    Round <- MCRound
    Author <- MCAuthorAmnesia
    Ancestors <- MCAncestors
    OwnIndex <- MCOwnIndex
    GcDepth = 1
    MaxSuspended = 7
SPECIFICATION Spec
INVARIANT CausallyComplete
CHECK_DEADLOCK FALSE
