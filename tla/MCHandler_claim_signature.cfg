\* A signature with white space inside.
SPECIFICATION MCSpec
CONSTANTS
  NoInput = NoInput
  Bodies <- SampleBodies
  Answers <- SampleAnswers
CHECK_DEADLOCK FALSE
INVARIANT ReleasedOnlyWithBase58
