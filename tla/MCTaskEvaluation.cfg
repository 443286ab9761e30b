SPECIFICATION Spec
CONSTANTS
  Task = {"s", "t"}
  MaxTurns = 2
  Turns <- MCTurns
  MaxAttempts = 2
  MaxStarts = 2
INVARIANTS ScoredRunsClean ExclusionsJustified AnswersCaptured
PROPERTY EvaluationEnds
CHECK_DEADLOCK FALSE
