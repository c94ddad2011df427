-------------------------- MODULE MCMonitorScheduler --------------------------
(* Instances of MonitorScheduler for TLC. *)
EXTENDS MonitorScheduler, TLC

Symmetry ==
  Permutations(Monitors) \cup Permutations(Configs) \cup Permutations(Runs)
  \cup Permutations(Saves) \cup Permutations(Requests)
====
