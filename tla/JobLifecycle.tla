---------------------------- MODULE JobLifecycle ----------------------------
(***************************************************************************)
(* What an execution engine promises of each job, in the vocabulary of     *)
(* JobInstanceStatus: a job is queued, runs, may be queued again for a     *)
(* retry, and ends complete, errored or terminated for good.  Only a job   *)
(* that is not running can be cancelled or removed by a newer enqueue.     *)
(***************************************************************************)
CONSTANT Jobs
VARIABLE state

Legal ==
  { <<"unknown", "queued">>,   <<"queued", "running">>,
    <<"running", "complete">>, <<"running", "errored">>,
    <<"running", "queued">>,
    <<"queued", "terminated">>, <<"queued", "removed">> }

Init == state = [j \in Jobs |-> "unknown"]

(* One statement may move several rows. *)
Next ==
  /\ state' \in [Jobs -> {"unknown", "queued", "running", "complete",
                          "errored", "terminated", "removed"}]
  /\ \A j \in Jobs :
       state'[j] # state[j] => <<state[j], state'[j]>> \in Legal

Spec == Init /\ [][Next]_state
=============================================================================
