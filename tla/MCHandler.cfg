\* One parse per text, after which the run stops.
SPECIFICATION MCSpec
CONSTANTS
  NoInput = NoInput
  Bodies <- SampleBodies
  Answers <- SampleAnswers
CHECK_DEADLOCK FALSE
INVARIANTS
  ServesExactlyComputable
  RefusedForItsReason
  QuotedAtPublishedTier
  VerifyReadAsJson
  SettleReadAsJson
