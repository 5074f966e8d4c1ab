\* A client that waits for each answer, or sends up to three packets of any kind
\* in frames of one or two.
SPECIFICATION FairSpec
CONSTANTS
  Version <- MCVersion
  EagerVersion <- MCFewVersions
  ForceResources = TRUE
  MaxSent = 3
  MaxBatch = 2
INVARIANTS
  TypeOK
  AnswersInOrder
  ClientNeverMisreads
  VerdictMatchesVersion
  InfoFollowsSuccess
PROPERTIES
  
  UnsupportedIsTold
CHECK_DEADLOCK FALSE
