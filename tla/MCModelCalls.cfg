SPECIFICATION CallsSpec
CONSTANTS
  Deployments <- MCDeployments
  Prompt = {1}
  Permits = 1
  Workers = 1
  Retries = 1
  MaxRequests = 2
INVARIANT AnswersAgree
PROPERTY EveryCallEnds
CHECK_DEADLOCK FALSE
