------------------------------ MODULE MCEnrolment ------------------------------
(* Enrolment for TLC: two people, two workers, of which *)
(* one handles two requests at a time. *)
EXTENDS Enrolment

CONSTANTS ann1, bob1, ann, bob, s1, s2, s3, w1, w2

MCOf == [e \in Enrol |-> IF e = bob1 THEN bob ELSE ann]
MCWorkerOf == [s \in Slot |-> IF s = s3 THEN w2 ELSE w1]
===============================================================================
