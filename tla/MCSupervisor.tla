---------------------------- MODULE MCSupervisor ----------------------------
(* Instances of Supervisor for TLC. *)
EXTENDS Supervisor, TLC

\* What the behaviours are about: the resume file, a crash loop, a host that
\* stops or dies, signals.
AllScenarios ==
    {{"publish", "withdraw", "restart", "crash", "undeletable"},
     {"crash", "bind", "clock", "restart"},
     {"host", "crash", "restart", "publish"},
     {"signal", "crash", "kill", "stop"}}
=============================================================================
