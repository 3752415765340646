---------------------------- MODULE MCEdgeRecovery ----------------------------
(* EdgeRecovery for TLC: results 1..MCResults, all of one user. *)
EXTENDS EdgeRecovery, TLC

CONSTANTS alice, w1, s1, s2, MCResults

MCResult == 1..MCResults
MCSubject == [r \in MCResult |-> alice]
MCWorkerOf == [s \in Slot |-> w1]
===============================================================================
