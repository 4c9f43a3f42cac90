SPECIFICATION Spec
CONSTANTS
  code = code
  push = push
  Starts <- CodeStarts
  Selections = {"unset"}
  Paths = {code}
  CodePaths = {code}
  Outcomes = {"passed", "failed"}
  RemoteActions = {push}
  RetryBudgets = {1}
  MaxAttempts = 2
INVARIANTS
  ExhaustedRunStops
