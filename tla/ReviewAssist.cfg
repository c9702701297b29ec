CONSTANTS
  g1 = g1
  g2 = g2
  NoGroup = NoGroup
  Groups <- MCGroups
  MaxRequests = 2
  MaxCrashes = 1
  FaultSets <- MCFaultSets
SPECIFICATION FairSpec
INVARIANTS AssistInv ApprovedHasNoJob SuggestionIsCurrent HintIsOfThisRequest
           ProcessingIsHeld
PROPERTIES AssistEnds
CHECK_DEADLOCK FALSE
