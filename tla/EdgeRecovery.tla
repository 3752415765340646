----------------------------- MODULE EdgeRecovery -----------------------------
(***************************************************************************)
(* EdgeDelivery after its last failure: from some moment on the backend is *)
(* reachable and nothing crashes, times out or gets lost. Says what the    *)
(* device then owes to the results in its offline queue.                   *)
(***************************************************************************)
EXTENDS EdgeDelivery

VARIABLE calm   \* TRUE once nothing but the disk fails any more

recoveryVars == <<vars, calm>>

\* A step in which nothing fails but the disk.
Undisturbed ==
  /\ pc' # "down" /\ online' /\ ~mqtt'
  /\ ~\E w \in Worker : WorkerDies(w)
  /\ ~\E s \in Slot : LoseRequest(s)
  /\ ~GiveUp

RecoveryInit == EdgeInit /\ calm = FALSE

\* The last failure is over, and so is every request sent before it.
CalmDown ==
  /\ ~calm /\ online /\ ~mqtt /\ registered
  /\ pc # "down" /\ \A s \in Slot : st[s] = "free"
  /\ calm' = TRUE
  /\ UNCHANGED vars

Allowed(A) == A /\ (calm => Undisturbed) /\ UNCHANGED calm

RecoveryNext == Allowed(EdgeNext) \/ CalmDown

\* The device's thread keeps running (every wait has a timeout, GiveUp), and so do the
\* handlers. No face has to appear; faults, links, clock and registration owe nothing.
RecoverySpec ==
  /\ RecoveryInit /\ [][RecoveryNext]_recoveryVars
  /\ WF_recoveryVars(Allowed(Work))
  /\ \A s \in Slot : /\ WF_recoveryVars(Allowed(Handle(s) /\ UNCHANGED edgeVars))
                     /\ WF_recoveryVars(Allowed(OrphanReply(s)))

===============================================================================
