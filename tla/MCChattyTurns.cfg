SPECIFICATION Spec
CONSTANTS
  Task = {"s", "t"}
  MaxTurns = 2
  Turns <- MCChatty
  MaxAttempts = 2
  MaxStarts = 2
INVARIANTS GoodbyeRespected NoLossScored
CHECK_DEADLOCK FALSE
