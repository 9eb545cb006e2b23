CONSTANTS
  MaxSamples = 3
  MaxStep = 1
  MaxCapacity = 8
  HalfRange = 128
  Second = 10
  DefaultPolicy <- MCDefaultPolicy
  Answers <- MCAnswers
SPECIFICATION FairSpec
INVARIANTS TypeOK NothingForgotten TickersFollowPolicy CountedOnce
PROPERTY BatchDelivered
CHECK_DEADLOCK FALSE
