SPECIFICATION Spec
CONSTANTS
  MaxBlock = 2
  MaxOffer = 1
  MaxQueued = 2
  MaxGeneration = 1
  MaxBatch = 1
  SecretsFail = FALSE
  WakesFail = FALSE
INVARIANTS
  SessionPromptIsFresh
