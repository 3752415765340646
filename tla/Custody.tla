-------------------------------- MODULE Custody --------------------------------
(***************************************************************************)
(* What delivery of recognition results promises, whoever sends them: a    *)
(* result is new, then held by someone who can still deliver it, and in    *)
(* the end taken by the backend, once, or lost for good. Only a taken      *)
(* result is logged, once.                                                 *)
(***************************************************************************)
CONSTANT Result

VARIABLES
  stage,   \* stage[r]: "new", "held", "taken" or "lost"
  logged   \* results with an attendance log

custodyVars == <<stage, logged>>

Init == stage = [r \in Result |-> "new"] /\ logged = {}

Create(r) ==
  /\ stage[r] = "new"
  /\ stage' = [stage EXCEPT ![r] = "held"]
  /\ UNCHANGED logged

Take(r) ==
  /\ stage[r] = "held"
  /\ stage' = [stage EXCEPT ![r] = "taken"]
  /\ UNCHANGED logged

Log(r) ==
  /\ stage[r] = "taken" /\ r \notin logged
  /\ logged' = logged \cup {r}
  /\ UNCHANGED stage

\* The last holders of some results give them up, or a new one cannot even be sent.
Lose ==
  /\ stage' \in [Result -> {"new", "held", "taken", "lost"}]
  /\ \A r \in Result : stage'[r] # stage[r] => stage[r] \in {"new", "held"} /\ stage'[r] = "lost"
  /\ UNCHANGED logged

Next ==
  \/ Lose
  \/ \E r \in Result : Create(r) \/ Take(r) \/ Log(r)

Spec == Init /\ [][Next]_custodyVars
===============================================================================
