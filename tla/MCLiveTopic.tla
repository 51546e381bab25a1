---------------------------- MODULE MCLiveTopic ----------------------------
(* Instances of LiveTopic for TLC.  A behaviour is of a resident source or  *)
(* of a disk cache, and has pushes of the worker, config saves, the refresh *)
(* clock, expiring data, users who move on and connections that end.        *)
EXTENDS LiveTopic, TLC
Symmetry == Permutations(Conns) \cup Permutations(Configs)
AllScenarios == {{"resident", "event", "roam", "close"}, {"resident", "event"},
                 {"event", "roam"}, {"event", "expire"},
                 {"save", "close"}, {"save", "clock"}}
Pushes == {{"event", "clock"}}
Expiring == {{"event", "expire"}}
Roaming == {{"event", "roam"}}
Leaving == {{"save", "close"}}
LeavingPushes == {{"event", "close"}}
=============================================================================
