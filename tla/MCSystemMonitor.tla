-------------------------- MODULE MCSystemMonitor --------------------------
(* Small instances of SystemMonitor for TLC. *)
EXTENDS SystemMonitor

\* Few readings per device: the reaction is the same for each of them.
MCChecks ==
    [d \in Devices \union {SysMon} |-> IF d \in {SW, SysMon} THEN {"power"} ELSE {"heartbeat"}]

\* The maximum of boots and the timeout differ from one start to the next.
MCDefaultLimits == [primary |-> 2, subsystem |-> 2, timeout |-> 1, period |-> 2]
MCLimits == [primary : {2, 3}, subsystem : {2}, timeout : {1, 2}, period : {2}]
=============================================================================
