CONSTANTS
  Calls <- AllCalls
  Configs <- TwoConfigs
  MaxFrames = 2
  RetryMax = 2
  AuditMax = 1
  MaxSent = 6
SPECIFICATION Spec
INVARIANT OneAttempt
INVARIANT RetriedBeforeShown
INVARIANT CountedIsServed
INVARIANT DroppedReleased
PROPERTY RepeatOnlyUnseen CallEnds
CHECK_DEADLOCK FALSE
