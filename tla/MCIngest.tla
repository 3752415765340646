------------------------------- MODULE MCIngest -------------------------------
(* Ingest for TLC: two results of one user, two handlers in two worker processes. *)
EXTENDS Ingest, TLC

CONSTANTS r1, r2, alice, w1, w2, s1, s2

MCSubject == r1 :> alice @@ r2 :> alice
MCWorkerOf == [s \in Slot |-> IF s = s1 THEN w1 ELSE w2]

\* The two results are alike, and so are the two workers with the slot of each.
MCSwapSlots == s1 :> s2 @@ s2 :> s1 @@ w1 :> w2 @@ w2 :> w1
MCSymmetry == Permutations({r1, r2}) \cup {MCSwapSlots}
===============================================================================
