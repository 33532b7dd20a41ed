\* The same two jobs, no crash, no slow handler: is the slot exclusive across runners?
SPECIFICATION Spec
CONSTANTS
  a = a
  b = b
  c = c
  Jobs = {a, b}
  Runners = {r1, r2}
  NoRunner = NoRunner
  NoKey = NoKey
  Org <- MCOrg
  Task <- MCTask
  Key <- MCKey
  Supersedes <- MCSupersedes
  MaxAttempts <- MCMaxAttempts
  KnownTasks = {"sync"}
  ExclusiveTasks = {"sync"}
  Limit = 2
  SlowHandlers = FALSE
  MaxFaults = 0
INVARIANT ExclusivePerKey
SYMMETRY RunnerSymmetry
