SPECIFICATION Spec
CONSTANTS
  NFrames = 2
  Failure = Failure
  None = None
  TopK = 2
  WildFrames = {2}
  Answers <- MCAnswers
  RawScores <- MCRawScores
INVARIANTS
  TypeOK
  TrapMarksSurvive
  NoWildPassedOver
PROPERTIES
  RankingDelivered
