-------------------------- MODULE MCWorkerProcess --------------------------
(* Scenarios of a worker process for TLC.                                  *)
EXTENDS WorkerProcess, TLC

Using == {{"stop", "continue", "fail"}, {"stop", "edit"}}
Ending == {{"stop", "kill", "native"}, {"native", "lost"}}
Sharing == {{"pool"}}

MCScenarios == Using \cup Ending \cup Sharing
Editing == {{"edit"}}
Failing == {{"fail"}}
Losing == {{"lost"}}
Saving == {{"kill", "batch"}}
=============================================================================
