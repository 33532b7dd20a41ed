\* Two jobs of one exclusive slot, two runners; handlers may outlive the reap threshold.
SPECIFICATION Spec
CONSTANTS
  a = a
  b = b
  c = c
  Jobs = {a, b}
  Runners = {r1, r2}
  NoRunner = NoRunner
  NoKey = NoKey
  Org <- MCOrg
  Task <- MCTask
  Key <- MCKey
  Supersedes <- MCSupersedes
  MaxAttempts <- MCMaxAttempts
  KnownTasks = {"sync"}
  ExclusiveTasks = {"sync"}
  Limit = 2
  SlowHandlers = TRUE
  MaxFaults = 1
INVARIANTS TypeOK SoleExecutor  RetryBudget
SYMMETRY RunnerSymmetry
PROPERTY TerminalIsFinal
