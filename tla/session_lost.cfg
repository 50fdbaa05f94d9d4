SPECIFICATION SessionSpec
CONSTANTS
  MaxChanges = 1
  MaxLosses = 2
  JobsActs = 2
  PageSize = 1
  MaxJobs = 3
  SchedulesActs = 3
  UsersActs = 2
  MaxUsers = 3
  AutomationsActs = 3
  MaxRuns = 2
  SessionActs = 3
  MaxTokens = 3
  EditorActs = 4
  MaxFields = 2
  BuilderDays = {0, 1, 2, 5, 6}
  MaxMonths = 3
  XmlActs = 4
  CardsActs = 2
PROPERTIES SessionEndsForCause
CHECK_DEADLOCK FALSE
