---------------------------- MODULE DeviceSettings ----------------------------
(***************************************************************************)
(* The settings of an edge device: edge/config/device_config.py, their use *)
(* by edge/main.py, and the overrides the IoT backend keeps for the device *)
(* (get_device_config and update_device_config in backend/app.py). Each    *)
(* start reads defaults, then the file, then the environment; builds the   *)
(* camera, the pipeline, the client and the store from that; and only then *)
(* asks the backend, whose answer it merges and saves for the next start.  *)
(***************************************************************************)
EXTENDS Integers, Functions

CONSTANTS
  Key,       \* settings the device knows: the keys of DEFAULT_CONFIG
  Captured,  \* those read once, by the constructors
  Foreign,   \* keys of the backend's answer that the device does not know
  Served,    \* keys the backend answers with even when nobody overrides them
  Value,     \* values somebody may give a setting
  Default,   \* a default of the device or of the backend
  NoFile,    \* the file is missing
  Torn       \* a write of the file was cut off: it does not parse

ASSUME SettingsAssumption ==
  /\ Captured \subseteq Key /\ Foreign \cap Key = {} /\ Served \subseteq Key \cup Foreign
  /\ Default \notin Value
  /\ {NoFile, Torn} \cap [Key -> Value \cup {Default}] = {}

VARIABLES
  override,   \* the device's row in the backend: its overrides
  env,        \* FRAS_* variables: settings given there
  file,       \* the configuration file
  phase,      \* the device is "down", "built" (its parts are) or "up" (asked, and running)
  config,     \* DeviceConfig._config
  taken       \* what the constructors read

\* What has happened, for the property: no action reads these.
VARIABLES
  ran,        \* the settings the device last ran with
  saved       \* the backend had answered, and they were saved whole

settingsVars == <<override, env, file, phase, config, taken, ran, saved>>

Partial(K) == UNION {[S -> Value] : S \in SUBSET K}
Defaults == [k \in Key |-> Default]

\* updates over base, as dict.update, but keeping base's keys: merge drops unknown ones.
Merged(base, updates) == [k \in DOMAIN base |-> IF k \in DOMAIN updates THEN updates[k] ELSE base[k]]

SettingsInit ==
  /\ override = <<>> /\ env \in Partial(Key) /\ file = NoFile
  /\ phase = "down" /\ config = Defaults /\ taken = Restrict(Defaults, Captured)
  /\ ran = Defaults /\ saved = FALSE

\* update_device_config: the body replaces what was there.
PutOverride ==
  /\ override' \in Partial(Key \cup Foreign)
  /\ UNCHANGED <<env, file, phase, config, taken, ran, saved>>

\* The device starts again with another environment.
SetEnvironment ==
  /\ phase = "down"
  /\ env' \in Partial(Key)
  /\ UNCHANGED <<override, file, phase, config, taken, ran, saved>>

Load == Merged(IF file \in {NoFile, Torn} THEN Defaults ELSE file, env)

\* EdgeDevice.__init__.
Build ==
  /\ phase = "down" /\ phase' = "built"
  /\ config' = Load
  /\ taken' = Restrict(config', Captured)
  /\ UNCHANGED <<override, env, file, ran, saved>>

\* get_device_config.
Answer == [k \in Served \cup DOMAIN override |-> IF k \in DOMAIN override THEN override[k] ELSE Default]

\* Mutant: what the backend sent is merged and not saved.
SyncConfigUnsaved ==
  /\ phase = "built" /\ phase' = "up"
  /\ config' = Merged(config, Answer)
  /\ ran' = config' /\ saved' = TRUE
  /\ UNCHANGED <<override, env, file, taken>>

\* _sync_config: fetch_config answers, the answer is merged, and the file is written. A
\* save that fails leaves the old file when it cannot be opened, and a torn one otherwise.
SyncConfig ==
  /\ phase = "built" /\ phase' = "up"
  /\ config' = Merged(config, Answer)
  /\ file' \in {config', file, Torn}
  /\ ran' = config' /\ saved' = (file' = config')
  /\ UNCHANGED <<override, env, taken>>

\* The backend is away, or does not know the device: the settings stay.
SyncFails ==
  /\ phase = "built" /\ phase' = "up"
  /\ ran' = config /\ saved' = FALSE
  /\ UNCHANGED <<override, env, file, config, taken>>

\* The process ends, in whatever way and wherever it stands; what it held in memory is lost.
Stop ==
  /\ phase # "down" /\ phase' = "down"
  /\ config' = Defaults /\ taken' = Restrict(Defaults, Captured)
  /\ UNCHANGED <<override, env, file, ran, saved>>

SettingsNext == PutOverride \/ SetEnvironment \/ Build \/ SyncConfig \/ SyncFails \/ Stop
SettingsSpec == SettingsInit /\ [][SettingsNext]_settingsVars
-------------------------------------------------------------------------------
(* Properties *)

\* What the device last ran with after an answer of the backend is what the parts built by
\* the next start get, whatever the backend's overrides have become, but for settings the
\* environment gives now: constructors, which run before the backend is asked, are one start
\* behind it and never more (EdgeDevice.__init__, start, DeviceConfig.save).
OneStartBehind ==
  [][phase = "down" /\ phase' = "built" /\ saved =>
       \A k \in Captured \ DOMAIN env : taken'[k] = ran[k]]_settingsVars
===============================================================================
