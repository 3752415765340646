---------------------------- MODULE MCInferencePool ----------------------------
(* InferencePool for TLC: as many requests as slots and threads together. *)
EXTENDS InferencePool

CONSTANTS r1, r2, r3, r4
===============================================================================
