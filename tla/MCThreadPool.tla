---------------------------- MODULE MCThreadPool ----------------------------
(* Instances of the thread pool for TLC.                                   *)
EXTENDS ThreadPool, TLC

MCScenarios == {{}, {"kill", "recycle"}, {"kill", "swallow"}}
\* For the counterexamples of the README.
Killing == {{"kill"}}
Recycling == {{"kill", "recycle"}}
Swallowing == {{"kill", "swallow"}}
=============================================================================
