\* One answer of at most three rounds; the tasks end, so the run may stop.
SPECIFICATION FairSpec
CONSTANTS
  MaxRounds = 3
  Capacity = 2
  MaxCalls = 1
  Thinking = TRUE
INVARIANTS CompletionsBounded LateBounded ToldTheEnd
PROPERTIES AnswerSpec TasksEnd
CHECK_DEADLOCK FALSE
