----------------------------- MODULE EdgePipeline -----------------------------
(***************************************************************************)
(* The edge device's pipeline (edge/inference/pipeline.py): of the faces   *)
(* of a frame only the largest is looked at, with a gate, two heuristics   *)
(* and an optional anti-spoofing model of its own. Its figures are those   *)
(* of module Liveness.                                                     *)
(***************************************************************************)
EXTENDS Liveness

CONSTANTS
  ModelType,      \* the configured model_type
  Accelerated,    \* onnxruntime offers CUDA or OpenVINO
  NoFace

VARIABLES
  edgeModels,   \* the models loaded at the start: the detector's name, and the anti-spoofing one
  result        \* what the last frame gave; NoFace when it gave none

edgeVars == <<edgeModels, result>>

SelectModel(type, accelerated) ==
  IF type = "auto" THEN IF accelerated THEN "full" ELSE "lightweight" ELSE type

\* An anti-spoofing model that cannot be loaded is done without.
EdgePipelineInit ==
  /\ \E spoof \in {FALSE, ModelPath} :
       edgeModels = [name |-> IF SelectModel(ModelType, Accelerated) = "lightweight"
                              THEN "buffalo_s" ELSE "buffalo_l",
                     spoof |-> spoof]
  /\ result = NoFace

EdgeQuality(f) == PassesGate(f, 60, 30, 30, 230)

\* A heuristic that raises answers one half.
EdgeHeuristic(f) ==
  {(Least(100, f.var \div 2) + (IF f.skin \in 15..75 THEN 80 ELSE 40)) \div 2, 50}

EdgeLiveness(f, spoof) ==
  LET ml == Predicted(f, spoof)
  IN  {IF ml < 0 THEN h ELSE (60 * ml + 40 * h) \div 100 : h \in EdgeHeuristic(f)}

\* process: the threshold is read from the configuration at every frame. The largest face
\* may be any: a face's area is not among its figures.
ProcessFrame(faces, threshold) ==
  /\ edgeModels' = edgeModels
  /\ IF faces = {} THEN result' = NoFace
     ELSE \E f \in faces, embedded \in BOOLEAN :
            \E score \in EdgeLiveness(f, edgeModels.spoof) :
              result' = IF EdgeQuality(f) /\ embedded
                        THEN [face |-> f, score |-> score, live |-> score >= threshold]
                        ELSE NoFace

EdgePipelineNext ==
  \E faces \in {{}} \cup {{f, g} : f, g \in Face}, t \in Threshold : ProcessFrame(faces, t)

EdgePipelineSpec == EdgePipelineInit /\ [][EdgePipelineNext]_edgeVars
-------------------------------------------------------------------------------
(* Properties *)

\* On the edge as in fuse_liveness_scores the model dominates: a frame's result is the
\* fusion of its answer with some heuristic, no heuristics, raised or not, make up for a
\* model that is surer of another face by half, and without it they decide alone.
EdgeFusion ==
  result # NoFace =>
    LET ml == Predicted(result.face, edgeModels.spoof)
    IN  /\ \E h \in 20..90 : result.score = Fused(ml, h, 1, 60, 100) \div 100
        /\ ml >= 0 =>
             \A f \in Face : f.ml \in 0..ml - 47 =>
               \A score \in EdgeLiveness(f, edgeModels.spoof) : score <= result.score

\* Every verdict, of the web application and of the edge, is the fusion of what its
\* layers count with (LivenessDetector.analyze, fuse_liveness_scores, _compute_liveness).
VerdictsSound == BetweenLayers /\ LiveIsEarned /\ FusionLaw /\ EdgeFusion
===============================================================================
