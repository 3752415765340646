-------------------------- MODULE MCAndroidDelivery --------------------------
(* AndroidDelivery for TLC: a user and a stranger, one worker process. *)
EXTENDS AndroidDelivery, TLC

CONSTANTS alice, w1, s1, s2

MCResult == Sighting \X {"sent", "queued"}
MCSubject == [r \in MCResult |-> IF r[1] = 1 THEN alice ELSE NoUser]
MCWorkerOf == [s \in Slot |-> w1]
===============================================================================
