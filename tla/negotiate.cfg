\* A room of three negotiates one task, with every fault, a retry and a restart.
SPECIFICATION FairSpec
CONSTANTS
  reporter = reporter
  keeper = keeper
  clerk = clerk
  t1 = t1
  pay = pay
  tell = tell
  hold = hold
  pause = pause
  freeze = freeze
  Handles = {reporter, keeper, clerk}
  Tasks = {t1}
  Asks = {pay, tell}
  Keys = {hold, pause, freeze}
  Nobody = Nobody
  Registry <- Room
  Colleagues = {keeper, clerk}
  Voiced = {keeper, clerk}
  Bank <- HoldRules
  Listed <- HoldListed
  NoteName <- SlugNames
  MaxApplies = 1
  MaxTurns = 3
  QuietOnError = FALSE
  Topics <- Payroll
  Errands <- Calls
  Faults = {"mark", "read", "note", "transcript", "post", "model"}
  MaxCalls = 2
  MaxRestarts = 1
INVARIANTS PlansAreTrue OwnerHearsOfEveryTask FailuresAreTrue
PROPERTIES RecordedNeverReruns RunsOnlySourced AppliedIsReported ImplementsSettlement CallsEnd CallsShorten
CHECK_DEADLOCK FALSE
