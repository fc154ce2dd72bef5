------------------------------ MODULE MCDaemonLife ------------------------------
(* Scenarios for TLC: a daemon restarted after any failure, one peer; and one  *)
(* life of a daemon with two peers, whose closes and beats interleave.         *)
EXTENDS DaemonLife

LifeScenarios ==
    {[peers |-> 1, runs |-> 2, faults |-> FaultKinds \ {"accept"}],
     [peers |-> 2, runs |-> 1, faults |-> {"create", "destroy", "accept"}],
     [peers |-> 2, runs |-> 1, faults |-> {"create", "save", "accept"}]}
===============================================================================
