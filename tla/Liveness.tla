------------------------------- MODULE Liveness -------------------------------
(***************************************************************************)
(* The verdict on a face in the web application: the quality gate and the  *)
(* layers of LivenessDetector (app/services/liveness.py) with the          *)
(* anti-spoofing model behind one of them (app/services/antispoof.py).     *)
(* Pixels are abstracted to the figures the code measures on them; scores, *)
(* weights and shares are in hundredths, a normalised weight is a          *)
(* numerator over a common denominator, and rounding is left out.          *)
(***************************************************************************)
EXTENDS Integers

CONSTANTS
  Face,        \* the figures of the faces that are looked at (see FaceFigures)
  Requested,   \* values of enabled_layers, {} when it is not given
  Failures,    \* sets of layers whose checks raise at one face
  ModelPath,   \* an anti-spoofing model is configured or found
  Threshold    \* thresholds the detectors are made with

Layers == {"texture", "moire", "depth", "blink", "colorspace", "quality", "ml_antispoof"}

\* The layers that answer one half when their check raises.
Guarded == {"texture", "moire", "depth", "blink", "colorspace"}

LayerWeight == [texture |-> 15, moire |-> 10, depth |-> 15, blink |-> 15,
                colorspace |-> 10, quality |-> 10, ml_antispoof |-> 25]

\* side: the shorter side in pixels; blur: variance of the Laplacian; bright: mean grey;
\* var, cv: mean and relative spread of the block variances; peak: FFT peak ratio;
\* depth: spread of the landmark distances in thousandths, -1 without landmarks;
\* skin: share of skin pixels; ml: what the model answers, -1 when inference fails.
FaceFigures == {"side", "blur", "bright", "var", "cv", "peak", "depth", "skin", "ml"}

\* A variance is not negative; the other figures are whatever a camera makes of a face.
ASSUME LivenessAssumption ==
  /\ \A f \in Face : DOMAIN f = FaceFigures /\ (\A k \in FaceFigures : f[k] \in Int) /\ f.var >= 0
  /\ Failures \subseteq SUBSET Guarded /\ ModelPath \in BOOLEAN /\ Threshold \subseteq 0..100

VARIABLES
  detector,   \* the LivenessDetector of the request being handled
  verdict     \* its last LivenessResult; NoVerdict before the first

livenessVars == <<detector, verdict>>
NoVerdict == [face |-> "none"]

Least(a, b) == IF a < b THEN a ELSE b
-------------------------------------------------------------------------------
(* The quality gate *)

PassesGate(f, side, blur, dark, bright) ==
  f.side >= side /\ f.blur > blur /\ dark < f.bright /\ f.bright < bright

FaceQuality(f) == PassesGate(f, 80, 50, 40, 220)
-------------------------------------------------------------------------------
(* The heuristic layers *)

TextureScore(f) ==
  CASE f.var < 10 -> 20
    [] f.var > 500 -> 70
    [] f.var \in 10..500 /\ f.cv \in 30..250 -> Least(100, 50 + f.cv \div 5)
    [] OTHER -> 40

MoireScore(f) == IF f.peak > 8 THEN 20 ELSE IF f.peak > 5 THEN 40 ELSE IF f.peak > 3 THEN 60 ELSE 80

DepthScore(f) ==
  IF f.depth > 80 THEN 80 ELSE IF f.depth > 40 THEN 60 ELSE IF f.depth > 20 THEN 40 ELSE 20

\* The detector judges by the eye regions of the last faces it saw, once it saw ten.
BlinkScores(seen) == IF seen < 10 THEN {50} ELSE {20, 40, 60, 70, 90}

ColorScore(f) ==
  CASE f.skin \in 15..75 -> 80
    [] f.skin \in 8..14 \cup 76..85 -> 60
    [] f.skin < 5 -> 20
    [] OTHER -> 40

HeuristicScore(f, blink, failed) ==
  LET answer == [quality |-> Least(100, f.blur \div 2) \div 2 + 50, texture |-> TextureScore(f),
                 moire |-> MoireScore(f), depth |-> DepthScore(f), blink |-> blink,
                 colorspace |-> ColorScore(f)]
  IN  [k \in DOMAIN answer |-> IF k \in failed THEN 50 ELSE answer[k]]

\* Without landmarks depth is not asked.
Silent(f) == IF f.depth < 0 THEN {"depth"} ELSE {}
-------------------------------------------------------------------------------
(* Weights and the weighted sum *)

\* The sum over a set of layers, written out, as there are seven of them.
SumOver(weight, S) ==
  LET Part(k) == IF k \in S THEN weight[k] ELSE 0
  IN  Part("texture") + Part("moire") + Part("depth") + Part("blink") + Part("colorspace")
        + Part("quality") + Part("ml_antispoof")

\* Weights over the layers S, scaled so that they sum to one: numerators and denominator.
\* Of no layers there is nothing to scale, and the weighted sum is zero.
Scaled(weight, S) ==
  [num |-> [k \in S |-> weight[k]], den |-> IF S = {} THEN 1 ELSE SumOver(weight, S)]

Normalised(S) == Scaled(LayerWeight, S)

\* Mutant: the weights are left as they are when a layer is taken away.
DropLayerUnscaled(w, k) == [w EXCEPT !.num = [j \in DOMAIN @ \ {k} |-> @[j]]]

\* The model gave no score: its weight is spread over the other layers.
DropLayer(w, k) == Scaled(w.num, DOMAIN w.num \ {k})

\* A weighted layer that gave no score counts as one half.
Counted(score, k) == IF k \in DOMAIN score THEN score[k] ELSE 50

\* The total is a share of w.den.
Total(w, score) ==
  SumOver([k \in DOMAIN w.num |-> w.num[k] * Counted(score, k)], DOMAIN w.num)

\* fuse_liveness_scores, alpha given as a share of whole, the heuristic score as one of den.
\* The result is a share of whole * den.
Fused(ml, total, den, alpha, whole) ==
  IF ml < 0 THEN whole * total ELSE alpha * ml * den + (whole - alpha) * total
-------------------------------------------------------------------------------
(* The detector *)

\* LivenessDetector(enabled_layers): unknown names are dropped, and all layers are used
\* when none are asked for. Each request makes its own.
NewDetector(layers, threshold) ==
  [weights |-> Normalised(IF layers = {} THEN Layers ELSE layers \cap Layers),
   threshold |-> threshold, seen |-> 0, model |-> FALSE]

LivenessInit ==
  /\ \E layers \in Requested, t \in Threshold : detector = NewDetector(layers, t)
  /\ verdict = NoVerdict

Construct ==
  /\ \E layers \in Requested, t \in Threshold : detector' = NewDetector(layers, t)
  /\ verdict' = NoVerdict

\* A face of poor quality is refused before any layer looks at it.
AnalyzePoor(f) ==
  /\ ~FaceQuality(f)
  /\ verdict' = [face |-> f, weights |-> [num |-> <<>>, den |-> 1], score |-> <<>>,
                 total |-> 0, live |-> FALSE]
  /\ UNCHANGED detector

\* predict: the model is loaded at the first face, and again at the next if that failed.
Predicted(f, model) == IF model THEN f.ml ELSE -1

Analyze(f) ==
  /\ FaceQuality(f)
  /\ \E loaded \in BOOLEAN, blink \in BlinkScores(detector.seen + 1), failed \in Failures :
       LET w == detector.weights
           layers == DOMAIN w.num
           model == "ml_antispoof" \in layers /\ (detector.model \/ (loaded /\ ModelPath))
           ml == Predicted(f, model)
           used == IF "ml_antispoof" \in layers /\ ml < 0 THEN DropLayer(w, "ml_antispoof") ELSE w
           h == HeuristicScore(f, blink, failed)
           score == [k \in DOMAIN used.num \ Silent(f) |-> IF k = "ml_antispoof" THEN ml ELSE h[k]]
           looked == "blink" \in layers \ failed
       IN  /\ detector' = [detector EXCEPT !.model = model,
                             !.seen = IF looked THEN Least(30, @ + 1) ELSE @]
           /\ verdict' = [face |-> f, weights |-> used, score |-> score,
                          total |-> Total(used, score),
                          live |-> Total(used, score) >= detector.threshold * used.den]

LivenessNext == Construct \/ \E f \in Face : AnalyzePoor(f) \/ Analyze(f)
LivenessSpec == LivenessInit /\ [][LivenessNext]_livenessVars
-------------------------------------------------------------------------------
(* Properties *)

Judged == verdict # NoVerdict /\ FaceQuality(verdict.face)

\* The verdict is an average of what the weighted layers count with, their scores or the
\* half of a depth layer without landmarks: never below the worst of these nor above the
\* best, whichever layers are enabled and fail, and whether or not the model is there.
BetweenLayers ==
  Judged /\ DOMAIN verdict.weights.num # {} =>
    LET counts == {Counted(verdict.score, k) * verdict.weights.den : k \in DOMAIN verdict.weights.num}
    IN  (\E c \in counts : verdict.total <= c) /\ (\E c \in counts : verdict.total >= c)

\* Nothing passes for live on the strength of no layer: some layer gave it the threshold,
\* unless the half of a depth layer without landmarks already is that much.
LiveIsEarned ==
  Judged /\ verdict.live =>
    \/ detector.threshold = 0
    \/ \E k \in DOMAIN verdict.score : verdict.score[k] >= detector.threshold
    \/ detector.threshold <= 50 /\ "depth" \in DOMAIN verdict.weights.num \ DOMAIN verdict.score

\* What the weighted sum of analyze computes is the fusion its class promises and
\* fuse_liveness_scores implements, alpha being the model's share of the weights: with no
\* model the heuristics decide alone, as if it had never been enabled.
FusionLaw ==
  Judged =>
    LET w == verdict.weights.num
        heuristics == DOMAIN detector.weights.num \ {"ml_antispoof"}
        ml == IF "ml_antispoof" \in DOMAIN w THEN verdict.score["ml_antispoof"] ELSE -1
        alpha == IF "ml_antispoof" \in DOMAIN w THEN LayerWeight["ml_antispoof"] ELSE 0
        only == Normalised(heuristics)
        whole == alpha + only.den
    IN  heuristics # {} =>
          whole * only.den * verdict.total
            = verdict.weights.den * Fused(ml, Total(only, verdict.score), only.den, alpha, whole)
===============================================================================
