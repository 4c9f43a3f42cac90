\* Every lane, and three budgets; one file that looks like code and one that does not.
SPECIFICATION SideSpec
CONSTANTS
  code = code
  text = text
  push = push
  Starts <- AllStarts
  Selections = {"unset", "hotfix", "full-sprint", "no-code/report-only"}
  Paths = {code, text}
  CodePaths = {code}
  Outcomes = {"passed", "failed"}
  RemoteActions = {push}
  RetryBudgets = {0, 1, 3}
  MaxAttempts = 4
  Files = {code, text}
  CodeFiles = {code}
  Sizes = {0, 2, 51}
  AmendedFields <- MCAmended
CONSTRAINT InUse
INVARIANTS
  UnreviewedDeliveryIsTextOnly
  DrivenChangesWereReviewed
  ClassifierAndEngineAgree
PROPERTIES
  DoomedRunsNeverDeliver
  ReviewStaysOwed
  DrivenLoopTerminates
CHECK_DEADLOCK FALSE
