----------------------------- MODULE MCJobQueue -----------------------------
(* Instances of the job queue: a and b are jobs of one exclusive task and   *)
(* key, b superseding; c is a job of a task the runners do not know.        *)
EXTENDS JobQueue, TLC

CONSTANTS a, b, c

MCOrg         == [j \in Jobs |-> "org"]
MCTask        == [j \in Jobs |-> IF j = c THEN "retired" ELSE "sync"]
MCKey         == [j \in Jobs |-> IF j = c THEN NoKey ELSE "store"]
MCSupersedes  == [j \in Jobs |-> j = b]
MCMaxAttempts == [j \in Jobs |-> IF j = a THEN 2 ELSE 1]

RunnerSymmetry == Permutations(Runners)
=============================================================================
