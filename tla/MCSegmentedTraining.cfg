SPECIFICATION Spec
CONSTANTS
  Aspects = 3
  MaxTurns = 6
  MaxModelLen = 15
  MaxResponseLen = 11
  Target = 8
  NextTurnReserve = 6
  ToolReserve = 2
  BaseSize = 2
  Scale = 60
  ActorSizes <- MCActorSizes
  ToolSizes <- MCToolSizes
  Gains <- MCGains
CHECK_DEADLOCK FALSE
INVARIANTS
    TargetsTrainOnce
    TrainedAsGenerated
    FragmentsFit
    NothingForgotten
    CreditIgnoresFragmentsOfClosedTurns
    CreditStaysWithItsAspect
