\* A retried job and one of an unknown task; no handler outlives the reap threshold.
SPECIFICATION FairSpec
CONSTANTS
  a = a
  b = b
  c = c
  Jobs = {a, b, c}
  Runners = {r1}
  NoRunner = NoRunner
  NoKey = NoKey
  Org <- MCOrg
  Task <- MCTask
  Key <- MCKey
  Supersedes <- MCSupersedes
  MaxAttempts <- MCMaxAttempts
  KnownTasks = {"sync"}
  ExclusiveTasks = {"sync"}
  Limit = 1
  SlowHandlers = FALSE
  MaxFaults = 1
PROPERTIES EveryJobSettles ImplementsLifecycle
