SPECIFICATION Spec
CONSTANTS
  MaxBlock = 2
  MaxOffer = 1
  MaxQueued = 2
  MaxGeneration = 4
  MaxBatch = 1
  SecretsFail = FALSE
  WakesFail = FALSE
INVARIANTS
  TypeOK
  
  LocalPromptIsFresh
  
  SessionFollowsHost
  BlocksHaveOwners
  PublishedStatusIsCurrent

  
