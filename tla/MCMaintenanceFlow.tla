------------------------- MODULE MCMaintenanceFlow -------------------------
(* Instances of MaintenanceFlow for TLC: each scenario is a set of what may  *)
(* happen together.                                                        *)
EXTENDS MaintenanceFlow, TLC

Symmetry == Permutations(Configs) \cup Permutations(Queues)

Handing == {"restart", "daily", "stop", "kill", "timeout"}
Queueing == {"restart", "daily", "queue", "timeout", "converge", "missing", "late"}
GivingBack == Kinds \cup {"stop", "fail", "converge", "crash", "timeout", "late"}
Interrupting == {"restart", "update", "force", "shutdown", "cancel"}
Ending == Kinds \cup {"queue", "stop", "kill", "fail", "timeout", "cancel"}

Flowing == {Handing, Queueing, GivingBack}
Stopping == {Interrupting, Ending}
\* Combinations that break a property, see README.
LateCancelled == {{"restart", "late", "cancel", "force"}}
LateFailing == {{"restart", "late", "fail"}}
QueuedAndStopped == {{"restart", "queue", "stop"}}
=============================================================================
