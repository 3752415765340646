------------------------------ MODULE MCFaceCache ------------------------------
(* FaceCache for TLC: two photos of one student, two handlers in one worker process  *)
(* and one in another.                                                               *)
EXTENDS FaceCache, TLC

CONSTANTS p1, p2, ann, w1, w2, h1, h2, h3

MCPhotoOf == p1 :> ann @@ p2 :> ann
MCWorkerOf == h1 :> w1 @@ h2 :> w1 @@ h3 :> w2
===============================================================================
