------------------------------ MODULE MCDecisions ------------------------------
(* Small instances of the parts that decide without talking to each other, side by  *)
(* side: a behaviour is one part's, chosen at its start, while the others stand still. *)
EXTENDS Timetable, EdgePipeline, DeviceSettings, Hardware

VARIABLE part

others == <<timetableVars, livenessVars, edgeVars, settingsVars, profile>>

MCInit ==
  /\ TimetableInit /\ LivenessInit /\ EdgePipelineInit /\ SettingsInit /\ HardwareInit
  /\ part \in {"timetable", "web", "edge", "settings", "hardware"}
  /\ part # "web" => detector = NewDetector({}, 65)
  /\ part # "edge" => ~edgeModels.spoof
  /\ part # "settings" => env = <<>>

MCNext ==
  /\ part' = part
  /\ \/ /\ part = "timetable" /\ TimetableNext
        /\ UNCHANGED <<livenessVars, edgeVars, settingsVars, profile>>
     \/ /\ part = "web" /\ LivenessNext
        /\ UNCHANGED <<timetableVars, edgeVars, settingsVars, profile>>
     \/ /\ part = "edge" /\ EdgePipelineNext
        /\ UNCHANGED <<timetableVars, livenessVars, settingsVars, profile>>
     \/ /\ part = "settings" /\ SettingsNext
        /\ UNCHANGED <<timetableVars, livenessVars, edgeVars, profile>>
     \/ /\ part = "hardware" /\ HardwareNext
        /\ UNCHANGED <<timetableVars, livenessVars, edgeVars, settingsVars>>

MCSpec == MCInit /\ [][MCNext]_<<part, others>>

\* The first two state what nobody should send; the third is an edit refused half-way.
MCBody ==
  {[start |-> 585, end |-> 645, late |-> 900, days |-> {}],
   [start |-> 1430, end |-> 1439, grace |-> Bad, days |-> {4, 9}],
   [late |-> 30, end |-> Bad],
   [late |-> -5, active |-> FALSE], [grace |-> 20, days |-> Bad]}

Figures(side, blur, bright, var, cv, peak, depth, skin, ml) ==
  [side |-> side, blur |-> blur, bright |-> bright, var |-> var, cv |-> cv,
   peak |-> peak, depth |-> depth, skin |-> skin, ml |-> ml]

\* Faces at both sides of every bound of the gates and of the layers.
MCFace ==
  {Figures(80, 52, 41, 9, 29, 3, -1, 4, 100), Figures(81, 52, 219, 10, 30, 9, 20, 8, 0),
   Figures(90, 400, 120, 500, 250, 6, 81, 75, -1), Figures(90, 400, 120, 300, 251, 4, 41, 80, 40),
   Figures(100, 200, 120, 501, 100, 8, 40, 15, 67), Figures(100, 200, 120, 200, 100, 5, 21, 5, 33),
   Figures(79, 400, 120, 400, 100, 4, 41, 40, 90), Figures(80, 50, 120, 40, 100, 4, 41, 40, 0),
   Figures(80, 52, 40, 40, 100, 4, 41, 40, 50), Figures(60, 31, 229, 40, 100, 4, 41, 40, 50),
   Figures(60, 30, 230, 40, 100, 4, 41, 40, 50), Figures(59, 31, 31, 40, 100, 4, 41, 40, 50)}

MCRequested ==
  {{}, {"texture", "sharpness"}, {"ml_antispoof", "blink", "depth"}, {"ml_antispoof"}, {"sharpness"}}

MCFailures == {{}, {"texture", "blink"}, {"moire", "depth", "colorspace"}}

MCMachine ==
  [cores : {1, 3, 4, 7, 8, 16}, ram : {20, 40, 80, 160}, vram : {19, 40, 60},
   platform : {"darwin", "linux"}, arm : {TRUE}, rocm : BOOLEAN, installed : BOOLEAN,
   providers : {{}, {"CUDA"}, {"CoreML"}, {"OpenVINO", "CoreML"}}]
===============================================================================
