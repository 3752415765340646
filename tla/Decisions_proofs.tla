---------------------------- MODULE Decisions_proofs ----------------------------
(***************************************************************************)
(* Proofs about the parts that decide by themselves: schedules and what    *)
(* they say of a mark (Timetable), the settings of an edge device          *)
(* (DeviceSettings), the hardware profile (Hardware), and verdicts on      *)
(* faces (Liveness, EdgePipeline), each for any values of its constants.   *)
(***************************************************************************)
EXTENDS Timetable, DeviceSettings, Hardware, EdgePipeline, TLAPS

-------------------------------------------------------------------------------
(* Schedules and marks *)

\* The tables of handlers and rows, and what an update carries.
EditsCarryBodies ==
  /\ DOMAIN edit = Editor
  /\ \A h \in Editor : edit[h] # NoRow =>
       /\ edit[h].sid \in Sid
       /\ edit[h].op = "update" => edit[h].body \in Body

\* The inductive invariant: an update commits the body of a request, which Stored and
\* Refused make fit for the table.
TimetableInv == DOMAIN rows = Sid /\ RowsValid /\ EditsCarryBodies
--------------------------------------------------------------------------------
\* A threshold is clamped whatever was sent.
LEMMA ClampBounds ==
  ASSUME NEW v \in Int \cup {Bad} PROVE ClampThreshold(v) \in Minutes
BY DEF ClampThreshold, Minutes, MaxThreshold

\* Each field of a body that is not refused is stored as a value of its column.
LEMMA StoredFits ==
  ASSUME NEW b \in Body, ~Refused(b), NEW f \in DOMAIN b
  PROVE  /\ f \in {"start", "end"} => Stored(f, b[f]) \in Time
         /\ f \in {"late", "grace"} => Stored(f, b[f]) \in Minutes
         /\ f = "days" => Stored(f, b[f]) \in DaysSent
         /\ f = "active" => Stored(f, b[f]) \in BOOLEAN
<1>1. f \in {"start", "end"} => Stored(f, b[f]) \in Time
  BY DEF Stored, Refused
<1>2. f \in {"late", "grace"} => Stored(f, b[f]) \in Minutes
  BY ClampBounds, TimetableAssumption DEF Stored
<1>3. f = "days" => Stored(f, b[f]) \in DaysSent
  BY DEF Stored, DaysSent
<1>4. f = "active" => Stored(f, b[f]) \in BOOLEAN
  BY TimetableAssumption DEF Stored
<1> QED BY <1>1, <1>2, <1>3, <1>4

\* A new schedule is valid.
LEMMA NewRowValid ==
  ASSUME NEW b \in Body, ~Refused(b), {"start", "end"} \subseteq DOMAIN b
  PROVE  ValidRow(NewRow(b))
<1>1. NewSchedule.late \in Minutes /\ NewSchedule.grace \in Minutes
      /\ NewSchedule.days \in DaysSent /\ NewSchedule.active \in BOOLEAN
  BY DEF NewSchedule, Minutes, MaxThreshold, DaysSent
<1>2. DOMAIN NewRow(b) = Field
  BY DEF NewRow
<1>3. NewRow(b)["start"] \in Time /\ NewRow(b)["end"] \in Time
  BY StoredFits DEF NewRow, Field
<1>4. NewRow(b)["late"] \in Minutes
  BY StoredFits, <1>1 DEF NewRow, Field
<1>5. NewRow(b)["grace"] \in Minutes
  BY StoredFits, <1>1 DEF NewRow, Field
<1>6. NewRow(b)["days"] \in DaysSent
  BY StoredFits, <1>1 DEF NewRow, Field
<1>7. NewRow(b)["active"] \in BOOLEAN
  BY StoredFits, <1>1 DEF NewRow, Field
<1> QED BY <1>2, <1>3, <1>4, <1>5, <1>6, <1>7 DEF ValidRow

\* An update leaves a valid row behind.
LEMMA UpdatedRowValid ==
  ASSUME NEW b \in Body, ~Refused(b), NEW seen, NEW row, ValidRow(row)
  PROVE  ValidRow([f \in Field |-> IF f \in Changed(seen, b) THEN Stored(f, b[f]) ELSE row[f]])
<1> DEFINE new == [f \in Field |-> IF f \in Changed(seen, b) THEN Stored(f, b[f]) ELSE row[f]]
<1>1. \A f \in Field : \/ f \in DOMAIN b /\ new[f] = Stored(f, b[f])
                       \/ new[f] = row[f]
  BY DEF Changed
<1>2. DOMAIN new = Field
  OBVIOUS
<1> HIDE DEF new
<1>3. new["start"] \in Time /\ new["end"] \in Time
  BY <1>1, StoredFits DEF ValidRow, Field
<1>4. new["late"] \in Minutes /\ new["grace"] \in Minutes
  BY <1>1, StoredFits DEF ValidRow, Field
<1>5. new["days"] \in DaysSent
  BY <1>1, StoredFits DEF ValidRow, Field
<1>6. new["active"] \in BOOLEAN
  BY <1>1, StoredFits DEF ValidRow, Field
<1>7. ValidRow(new)
  BY <1>2, <1>3, <1>4, <1>5, <1>6 DEF ValidRow
<1> QED BY <1>7 DEF new

LEMMA TimetableStarts == TimetableInit => TimetableInv
BY DEF TimetableInit, TimetableInv, RowsValid, EditsCarryBodies

LEMMA TimetableSteps == TimetableInv /\ [TimetableNext]_timetableVars => TimetableInv'
<1> SUFFICES ASSUME TimetableInv, [TimetableNext]_timetableVars
             PROVE  TimetableInv'
  OBVIOUS
<1> USE DEF TimetableInv
<1>1. ASSUME NEW b \in Body, Create(b) PROVE TimetableInv'
  <2>1. PICK s \in Sid : rows[s] = NoRow /\ rows' = [rows EXCEPT ![s] = NewRow(b)]
    BY <1>1 DEF Create
  <2>2. ValidRow(NewRow(b))
    BY <1>1, NewRowValid DEF Create
  <2>3. RowsValid'
    BY <2>1, <2>2 DEF RowsValid
  <2> QED BY <1>1, <2>1, <2>3 DEF Create, EditsCarryBodies
<1>2. ASSUME NEW h \in Editor, NEW s \in Sid, NEW b \in Body, FetchForUpdate(h, s, b)
      PROVE TimetableInv'
  BY <1>2 DEF FetchForUpdate, RowsValid, EditsCarryBodies
<1>3. ASSUME NEW h \in Editor, NEW s \in Sid, FetchForDelete(h, s) PROVE TimetableInv'
  BY <1>3 DEF FetchForDelete, RowsValid, EditsCarryBodies
<1>4. ASSUME NEW h \in Editor, CommitUpdate(h) PROVE TimetableInv'
  <2> DEFINE e == edit[h]
             new == [f \in Field |-> IF f \in Changed(e.seen, e.body)
                                     THEN Stored(f, e.body[f]) ELSE rows[e.sid][f]]
  <2>1. e.sid \in Sid /\ e.body \in Body /\ ~Refused(e.body)
    BY <1>4 DEF CommitUpdate, EditsCarryBodies
  <2>2. CASE rows[e.sid] = NoRow
    BY <1>4, <2>2 DEF CommitUpdate, RowsValid, EditsCarryBodies
  <2>3. CASE rows[e.sid] # NoRow
    <3>1. rows' = [rows EXCEPT ![e.sid] = new]
      BY <1>4, <2>3 DEF CommitUpdate
    <3>2. ValidRow(new)
      BY <2>1, <2>3, UpdatedRowValid DEF RowsValid
    <3>3. DOMAIN rows' = Sid /\ RowsValid'
      BY <3>1, <3>2, <2>1 DEF RowsValid
    <3> QED BY <1>4, <3>3 DEF CommitUpdate, EditsCarryBodies
  <2> QED BY <2>2, <2>3
<1>5. ASSUME NEW h \in Editor, RefuseUpdate(h) PROVE TimetableInv'
  BY <1>5 DEF RefuseUpdate, RowsValid, EditsCarryBodies
<1>6. ASSUME NEW h \in Editor, CommitDelete(h) PROVE TimetableInv'
  BY <1>6 DEF CommitDelete, RowsValid, EditsCarryBodies
<1>7. CASE UNCHANGED timetableVars
  BY <1>7 DEF timetableVars, RowsValid, EditsCarryBodies
<1> QED BY <1>1, <1>2, <1>3, <1>4, <1>5, <1>6, <1>7 DEF TimetableNext

\* The inductive invariant holds in every state.
THEOREM TimetableInvariant == TimetableSpec => []TimetableInv
BY TimetableStarts, TimetableSteps, PTL DEF TimetableSpec
--------------------------------------------------------------------------------
\* A valid schedule judges fairly: the day and the start are the same for both marks, and
\* neither threshold is negative.
LEMMA ValidIsFair == ASSUME NEW row, ValidRow(row) PROVE Fair(row)
<1>1. row.start \in Nat /\ row.late \in Nat /\ row.grace \in Nat
  <2>1. row.start \in Time /\ row.late \in Minutes /\ row.grace \in Minutes
    BY DEF ValidRow
  <2>2. Time \subseteq Nat /\ Minutes \subseteq Nat
    BY DEF Time, Minutes, DayLength, MaxThreshold
  <2> QED BY <2>1, <2>2
<1>2. ASSUME NEW t \in Moment PROVE t \in Nat /\ ClassStart(row, t) \in Int
  BY <1>1, TimetableAssumption DEF ClassStart, DayLength
<1>3. ASSUME NEW t \in Moment, t <= ClassStart(row, t)
      PROVE  ComputeStatus(row, t) = "present"
  BY <1>1, <1>2, <1>3 DEF ComputeStatus
<1>4. ASSUME NEW t \in Moment, NEW u \in Moment, t <= u, t \div DayLength = u \div DayLength
      PROVE  Severity(ComputeStatus(row, t)) <= Severity(ComputeStatus(row, u))
  <2>1. ClassStart(row, t) = ClassStart(row, u)
    BY <1>4 DEF ClassStart
  <2>2. \/ ComputeStatus(row, t) = "present" /\ ComputeStatus(row, u) \in {"present", "late", "absent"}
        \/ ComputeStatus(row, t) = "late" /\ ComputeStatus(row, u) \in {"late", "absent"}
        \/ ComputeStatus(row, t) = "absent" /\ ComputeStatus(row, u) = "absent"
    BY <1>1, <1>2, <1>4, <2>1 DEF ComputeStatus
  <2>3. Severity("present") = 0 /\ Severity("late") = 1 /\ Severity("absent") = 2
    BY DEF Severity
  <2> QED BY <2>2, <2>3
<1> QED BY <1>3, <1>4 DEF Fair

\* After any sequence of edits the fields of every stored schedule have their types, its
\* thresholds their range, and it judges fairly, in a session and by hand.
THEOREM SchedulesSound == TimetableSpec => []ScheduleSound
<1>1. TimetableInv => ScheduleSound
  <2> SUFFICES ASSUME TimetableInv PROVE ScheduleSound
    OBVIOUS
  <2>1. RowsValid
    BY DEF TimetableInv
  <2>2. ASSUME NEW row \in {rows[s] : s \in Sid} \cup ManualSchedules, row # NoRow PROVE Fair(row)
    BY <2>1, <2>2, ValidIsFair DEF RowsValid, ManualSchedules
  <2> QED BY <2>1, <2>2 DEF ScheduleSound
<1> QED BY <1>1, TimetableInvariant, PTL

\* A field changes only to what the committing request sent for it.
THEOREM FieldsChangeAsAsked == TimetableSpec => OnlyAsked
<1> DEFINE Asks(s, f) ==
      \E h \in Editor :
        /\ edit[h] # NoRow /\ edit'[h] = NoRow
        /\ edit[h].op = "update" /\ edit[h].sid = s
        /\ ~Refused(edit[h].body) /\ f \in DOMAIN edit[h].body
        /\ rows'[s][f] = Stored(f, edit[h].body[f])
    Step == \A s \in Sid : rows[s] # NoRow /\ rows'[s] # NoRow =>
              \A f \in Field : rows'[s][f] # rows[s][f] => Asks(s, f)
<1>1. TimetableInv /\ [TimetableNext]_timetableVars => [Step]_timetableVars
  <2> SUFFICES ASSUME TimetableInv, [TimetableNext]_timetableVars,
                      NEW s \in Sid, rows[s] # NoRow, rows'[s] # NoRow,
                      NEW f \in Field, rows'[s][f] # rows[s][f]
               PROVE  Asks(s, f)
    OBVIOUS
  <2> HIDE DEF Asks
  <2>1. ASSUME NEW b \in Body, Create(b) PROVE Asks(s, f)
    BY <2>1 DEF Create, TimetableInv
  <2>2. ASSUME NEW h \in Editor, CommitUpdate(h) PROVE Asks(s, f)
    <3>1. edit[h].sid \in Sid /\ edit[h].op = "update" /\ ~Refused(edit[h].body)
      BY <2>2 DEF CommitUpdate, TimetableInv, EditsCarryBodies
    <3>2. edit[h] # NoRow /\ edit'[h] = NoRow
      BY <2>2 DEF CommitUpdate, TimetableInv, EditsCarryBodies
    <3>3. edit[h].sid = s
      BY <2>2, <3>1 DEF CommitUpdate, TimetableInv
    <3>4. rows'[s] = [g \in Field |-> IF g \in Changed(edit[h].seen, edit[h].body)
                                      THEN Stored(g, edit[h].body[g]) ELSE rows[s][g]]
      BY <2>2, <3>3 DEF CommitUpdate, TimetableInv
    <3>5. f \in Changed(edit[h].seen, edit[h].body)
      BY <3>4
    <3>6. f \in DOMAIN edit[h].body /\ rows'[s][f] = Stored(f, edit[h].body[f])
      BY <3>4, <3>5 DEF Changed
    <3> QED BY <3>1, <3>2, <3>3, <3>6 DEF Asks
  <2>3. ASSUME NEW h \in Editor, CommitDelete(h) PROVE Asks(s, f)
    BY <2>3 DEF CommitDelete, TimetableInv
  <2>4. ~UNCHANGED rows
    OBVIOUS
  <2> QED BY <2>1, <2>2, <2>3, <2>4 DEF TimetableNext, FetchForUpdate, FetchForDelete,
                                        RefuseUpdate, timetableVars
<1> QED BY <1>1, TimetableInvariant, PTL DEF TimetableSpec, OnlyAsked

-------------------------------------------------------------------------------
(* Settings of a device *)

Settings == [Key -> Value \cup {Default}]

\* The inductive invariant: settings are typed, and whenever an answer was saved whole the
\* file holds what the device last ran with, for only a save writes it.
SettingsInv ==
  /\ override \in Partial(Key \cup Foreign) /\ env \in Partial(Key)
  /\ file \in Settings \cup {NoFile, Torn} /\ config \in Settings
  /\ saved => file = ran /\ ran \in Settings
--------------------------------------------------------------------------------
\* Merging keeps the keys, and takes over values only.
LEMMA MergedSettings ==
  ASSUME NEW base \in Settings, NEW updates,
         \A k \in DOMAIN updates : updates[k] \in Value \cup {Default}
  PROVE  Merged(base, updates) \in Settings
BY DEF Merged, Settings

\* What some of the keys are given.
LEMMA PartialValues ==
  ASSUME NEW K, NEW p \in Partial(K) PROVE \A k \in DOMAIN p : p[k] \in Value
BY DEF Partial

\* A start reads settings, whatever there is of a file.
LEMMA LoadSettings == ASSUME SettingsInv PROVE Load \in Settings
<1>1. (IF file \in {NoFile, Torn} THEN Defaults ELSE file) \in Settings
  BY DEF SettingsInv, Defaults, Settings
<1>2. \A k \in DOMAIN env : env[k] \in Value \cup {Default}
  BY PartialValues DEF SettingsInv
<1> QED BY <1>1, <1>2, MergedSettings DEF Load

\* The answer of the backend holds values and defaults.
LEMMA AnswerValues ==
  ASSUME SettingsInv PROVE \A k \in DOMAIN Answer : Answer[k] \in Value \cup {Default}
<1>1. \A k \in DOMAIN override : override[k] \in Value
  BY PartialValues DEF SettingsInv
<1> QED BY <1>1 DEF Answer

LEMMA SettingsStarts == SettingsInit => SettingsInv
<1> SUFFICES ASSUME SettingsInit PROVE SettingsInv
  OBVIOUS
<1>1. <<>> \in Partial(Key \cup Foreign)
  <2>1. <<>> \in [{} -> Value]
    OBVIOUS
  <2> QED BY <2>1 DEF Partial
<1> QED BY <1>1 DEF SettingsInit, SettingsInv, Defaults, Settings

LEMMA SettingsSteps == SettingsInv /\ [SettingsNext]_settingsVars => SettingsInv'
<1> SUFFICES ASSUME SettingsInv, [SettingsNext]_settingsVars PROVE SettingsInv'
  OBVIOUS
<1>1. CASE PutOverride
  BY <1>1 DEF PutOverride, SettingsInv
<1>2. CASE SetEnvironment
  BY <1>2 DEF SetEnvironment, SettingsInv
<1>3. CASE Build
  BY <1>3, LoadSettings DEF Build, SettingsInv
<1>4. CASE SyncConfig
  <2>1. config' \in Settings
    BY <1>4, AnswerValues, MergedSettings DEF SyncConfig, SettingsInv
  <2> QED BY <1>4, <2>1 DEF SyncConfig, SettingsInv
<1>5. CASE SyncFails
  BY <1>5 DEF SyncFails, SettingsInv
<1>6. CASE Stop
  BY <1>6 DEF Stop, SettingsInv, Defaults, Settings
<1>7. CASE UNCHANGED settingsVars
  BY <1>7 DEF settingsVars, SettingsInv
<1> QED BY <1>1, <1>2, <1>3, <1>4, <1>5, <1>6, <1>7 DEF SettingsNext

\* The inductive invariant holds in every state.
THEOREM SettingsInvariant == SettingsSpec => []SettingsInv
BY SettingsStarts, SettingsSteps, PTL DEF SettingsSpec

\* The constructors of a start get what the last whole save held, but for the environment.
THEOREM ConstructorsOneStartBehind == SettingsSpec => OneStartBehind
<1> DEFINE Step == phase = "down" /\ phase' = "built" /\ saved =>
                     \A k \in Captured \ DOMAIN env : taken'[k] = ran[k]
<1>1. SettingsInv /\ [SettingsNext]_settingsVars => [Step]_settingsVars
  <2> SUFFICES ASSUME SettingsInv, [SettingsNext]_settingsVars,
                      phase = "down", phase' = "built", saved,
                      NEW k \in Captured \ DOMAIN env
               PROVE  taken'[k] = ran[k]
    OBVIOUS
  <2>1. Build
    BY DEF SettingsNext, PutOverride, SetEnvironment, SyncConfig, SyncFails, Stop, settingsVars
  <2>2. k \in Key
    BY SettingsAssumption
  <2>3. file = ran /\ file \in Settings /\ file \notin {NoFile, Torn}
    BY SettingsAssumption DEF SettingsInv, Settings
  <2>4. Load[k] = file[k]
    BY <2>2, <2>3 DEF Load, Merged, Settings
  <2> QED BY <2>1, <2>3, <2>4 DEF Build, Restrict
<1> QED BY <1>1, SettingsInvariant, PTL DEF SettingsSpec, OneStartBehind

-------------------------------------------------------------------------------
(* Hardware profiles *)

\* A profile is that of some machine.
OfMachine == profile = NoProfile \/ \E m \in Machine : profile = ProfileOf(m)
--------------------------------------------------------------------------------
\* The configured memory and cores of a machine are numbers.
LEMMA MachineTypes ==
  ASSUME NEW m \in Machine
  PROVE  m.cores \in Nat /\ m.cores >= 1 /\ m.ram \in Nat /\ m.vram \in Nat
BY HardwareAssumption DEF MachineOK

\* A GPU is taken for what onnxruntime offers, but for ROCm.
LEMMA GpuIsOffered ==
  ASSUME NEW m
  PROVE  /\ GpuType(m) \in {"nvidia_cuda", "apple_metal", "intel_igpu", "amd_rocm", "none"}
         /\ GpuType(m) = "nvidia_cuda" => Offers(m, "CUDA")
         /\ GpuType(m) = "apple_metal" => Offers(m, "CoreML")
         /\ GpuType(m) = "intel_igpu" => Offers(m, "OpenVINO")
BY DEF GpuType, HasMetal

LEMMA TierOfGpu ==
  ASSUME NEW m
  PROVE  /\ Tier(m) \in {"high_gpu", "mid_gpu", "igpu", "high_cpu", "mid_cpu", "low"}
         /\ Tier(m) \in {"high_gpu", "mid_gpu"} => GpuType(m) \in Discrete
         /\ Tier(m) = "igpu" => GpuType(m) = "intel_igpu"
         /\ Tier(m) = "high_cpu" => m.cores >= 8
BY DEF Tier

\* The providers of each tier: the accelerator of the GPU, if any, before the processor.
LEMMA ProvidersOfTier ==
  ASSUME NEW m
  PROVE  \/ /\ Tier(m) \in {"high_gpu", "mid_gpu", "igpu"}
            /\ \E x : Providers(m) = <<x, "CPU">> /\ (Offers(m, x) \/ x = "ROCM")
         \/ /\ Tier(m) \notin {"high_gpu", "mid_gpu", "igpu"}
            /\ Providers(m) = <<"CPU">>
<1>1. CASE Tier(m) \in {"high_gpu", "mid_gpu"}
  <2>1. Providers(m) = GpuProviders(m) /\ GpuType(m) \in Discrete
    BY <1>1, TierOfGpu DEF Providers
  <2>2. CASE GpuType(m) = "nvidia_cuda"
    BY <1>1, <2>1, <2>2, GpuIsOffered DEF GpuProviders
  <2>3. CASE GpuType(m) = "apple_metal"
    BY <1>1, <2>1, <2>3, GpuIsOffered DEF GpuProviders
  <2>4. CASE GpuType(m) = "amd_rocm"
    BY <1>1, <2>1, <2>4, GpuIsOffered DEF GpuProviders
  <2> QED BY <2>1, <2>2, <2>3, <2>4 DEF Discrete
<1>2. CASE Tier(m) = "igpu"
  BY <1>2, TierOfGpu, GpuIsOffered DEF Providers
<1>3. CASE Tier(m) \notin {"high_gpu", "mid_gpu", "igpu"}
  BY <1>3 DEF Providers, CpuProviders
<1> QED BY <1>1, <1>2, <1>3

\* The processor is asked for some threads, and for no more than it has.
LEMMA ThreadsFit ==
  ASSUME NEW m \in Machine
  PROVE  /\ CpuThreads(m) \in 1..m.cores
         /\ InterThreads(m) \in 1..CpuThreads(m)
         /\ Tier(m) \notin {"high_gpu", "mid_gpu", "igpu"} => OptimalConfig(m).threads \in 1..m.cores
<1>1. CpuThreads(m) \in 1..m.cores
  BY MachineTypes DEF CpuThreads, AtLeast
<1>2. InterThreads(m) \in 1..CpuThreads(m)
  BY <1>1, MachineTypes DEF InterThreads, AtLeast
<1>3. CASE Tier(m) = "high_cpu"
  <2>1. OptimalConfig(m).threads = AtLeast(m.cores \div 2, 1)
    BY <1>3 DEF OptimalConfig, Engine
  <2>2. AtLeast(m.cores \div 2, 1) \in 1..m.cores
    BY MachineTypes DEF AtLeast
  <2> QED BY <1>1, <1>2, <2>1, <2>2
<1>4. CASE Tier(m) \in {"mid_cpu", "low"}
  <2>1. OptimalConfig(m).threads = 1
    BY <1>4 DEF OptimalConfig, Engine
  <2> QED BY <1>1, <1>2, <2>1, MachineTypes
<1> QED BY <1>1, <1>2, <1>3, <1>4, TierOfGpu

\* The profile of any machine can be run.
LEMMA ProfileRuns == ASSUME NEW m \in Machine, profile = ProfileOf(m) PROVE EngineRuns
<1>1. /\ profile.machine = m /\ profile.tier = Tier(m) /\ profile.providers = Providers(m)
      /\ profile.engine = OptimalConfig(m)
      /\ profile.cpuThreads = CpuThreads(m) /\ profile.interThreads = InterThreads(m)
  BY DEF ProfileOf
<1> DEFINE p == Providers(m)
<1>2. /\ p[Len(p)] = "CPU" /\ Len(p) \in {1, 2}
      /\ Len(p) = 2 => Offers(m, p[1]) \/ p[1] = "ROCM"
      /\ Len(p) = 2 <=> Tier(m) \in {"high_gpu", "mid_gpu", "igpu"}
  BY ProvidersOfTier
<1> HIDE DEF p
<1>3. Len(p) = 1 => OptimalConfig(m).threads \in 1..m.cores
  BY <1>2, ThreadsFit
<1> QED BY <1>1, <1>2, <1>3, ThreadsFit DEF EngineRuns, p
--------------------------------------------------------------------------------
\* Less memory or fewer cores are the same kind of machine.
LEMMA SameKind ==
  ASSUME NEW m \in Machine, NEW n \in Machine, Weaker(m, n)
  PROVE  /\ GpuType(n) = GpuType(m)
         /\ GpuType(m) # "apple_metal" => Vram(n) = Vram(m)
         /\ GpuType(m) = "apple_metal" => Vram(m) = m.ram \div 2 /\ Vram(n) = n.ram \div 2
<1>1. /\ n.vram = m.vram /\ n.platform = m.platform /\ n.arm = m.arm /\ n.rocm = m.rocm
      /\ n.installed = m.installed /\ n.providers = m.providers
  BY DEF Weaker
<1>2. GpuType(n) = GpuType(m)
  BY <1>1 DEF GpuType, HasMetal, Offers
<1>3. GpuType(m) # "apple_metal" => Vram(n) = Vram(m)
  BY <1>1, <1>2, GpuIsOffered DEF Vram
<1>4. GpuType(m) = "apple_metal" => Vram(m) = m.ram \div 2 /\ Vram(n) = n.ram \div 2
  BY <1>2 DEF Vram
<1> QED BY <1>2, <1>3, <1>4

\* Where the tier can drop to: Apple's GPU, which has half of the memory, leaves so little to
\* a machine below its middle tier that no tier of the processor but the lowest remains.
LEMMA TierDrops ==
  ASSUME NEW m \in Machine, NEW n \in Machine, Weaker(m, n)
  PROVE  \/ Tier(n) = Tier(m)
         \/ Tier(m) = "high_gpu" /\ Tier(n) \in {"mid_gpu", "low"}
         \/ Tier(m) = "mid_gpu" /\ Tier(n) = "low"
         \/ Tier(m) = "high_cpu" /\ Tier(n) \in {"mid_cpu", "low"}
         \/ Tier(m) = "mid_cpu" /\ Tier(n) = "low"
<1>1. n.cores <= m.cores /\ n.ram <= m.ram
  BY DEF Weaker
<1>2. CASE GpuType(m) = "apple_metal"
  <2>1. Vram(m) = m.ram \div 2 /\ Vram(n) = n.ram \div 2 /\ GpuType(n) = "apple_metal"
    BY <1>2, SameKind
  <2>2. Vram(n) <= Vram(m) /\ (Vram(n) < 20 => n.ram < 40) /\ (Vram(m) < 20 => m.ram < 40)
    BY <2>1, <1>1, MachineTypes
  <2>3. Vram(m) \in Nat /\ Vram(n) \in Nat
    BY <2>1, MachineTypes
  <2> QED BY <1>2, <2>1, <2>2, <2>3, MachineTypes DEF Tier, Discrete
<1>3. CASE GpuType(m) # "apple_metal"
  <2>1. Vram(n) = Vram(m) /\ GpuType(n) = GpuType(m)
    BY <1>3, SameKind
  <2> QED BY <1>1, <2>1, MachineTypes DEF Tier
<1> QED BY <1>2, <1>3

\* The work of each tier.
LEMMA WorkOfTier ==
  ASSUME NEW m
  PROVE  LET c == OptimalConfig(m) IN
         /\ Tier(m) = "high_gpu" => c.batch = 16 /\ c.det = 640 /\ c.workers = 4 /\ c.skip = 1
         /\ Tier(m) = "mid_gpu" => c.batch = 4 /\ c.det = 480 /\ c.workers = 2 /\ c.skip = 1
         /\ Tier(m) = "igpu" => c.batch = 2 /\ c.det = 480 /\ c.workers = 2 /\ c.skip = 2
         /\ Tier(m) = "high_cpu" => /\ c.batch = 4 /\ c.det = 480 /\ c.skip = 2
                                   /\ c.workers = AtLeast(m.cores \div 2, 2)
         /\ Tier(m) = "mid_cpu" => c.batch = 2 /\ c.det = 320 /\ c.workers = 2 /\ c.skip = 3
         /\ Tier(m) = "low" => c.batch = 1 /\ c.det = 320 /\ c.workers = 1 /\ c.skip = 4
<1>1. CASE Tier(m) = "high_gpu" BY <1>1 DEF OptimalConfig, Engine
<1>2. CASE Tier(m) = "mid_gpu" BY <1>2 DEF OptimalConfig, Engine
<1>3. CASE Tier(m) = "igpu" BY <1>3 DEF OptimalConfig, Engine
<1>4. CASE Tier(m) = "high_cpu" BY <1>4 DEF OptimalConfig, Engine
<1>5. CASE Tier(m) = "mid_cpu" BY <1>5 DEF OptimalConfig, Engine
<1>6. CASE Tier(m) = "low" BY <1>6 DEF OptimalConfig, Engine
<1> QED BY <1>1, <1>2, <1>3, <1>4, <1>5, <1>6, TierOfGpu

\* No work shrinks with a bigger machine.
LEMMA WorkGrows ==
  ASSUME NEW m \in Machine, NEW n \in Machine, Weaker(m, n)
  PROVE  /\ OptimalConfig(n).batch <= OptimalConfig(m).batch
         /\ OptimalConfig(n).det <= OptimalConfig(m).det
         /\ OptimalConfig(n).workers <= OptimalConfig(m).workers
         /\ OptimalConfig(m).skip <= OptimalConfig(n).skip
<1>1. /\ AtLeast(n.cores \div 2, 2) <= AtLeast(m.cores \div 2, 2)
      /\ AtLeast(m.cores \div 2, 2) \in Int /\ AtLeast(n.cores \div 2, 2) \in Int
      /\ AtLeast(m.cores \div 2, 2) >= 2
  BY MachineTypes DEF AtLeast, Weaker
<1>2. CASE Tier(n) = Tier(m)
  BY <1>1, <1>2, WorkOfTier, TierOfGpu
<1>3. CASE Tier(n) # Tier(m)
  BY <1>1, <1>3, WorkOfTier, TierDrops
<1> QED BY <1>2, <1>3

\* Every machine gets a configuration it can run, and bigger ones no smaller work.
THEOREM ProfilesSound == HardwareSpec => []ProfileSound
<1>1. HardwareInit => OfMachine
  BY DEF HardwareInit, OfMachine
<1>2. OfMachine /\ [HardwareNext]_profile => OfMachine'
  BY DEF OfMachine, HardwareNext, Detect
<1>3. OfMachine => ProfileSound
  <2> SUFFICES ASSUME OfMachine, profile # NoProfile PROVE EngineRuns /\ BiggerIsNoSlower
    BY DEF ProfileSound, EngineRuns, BiggerIsNoSlower
  <2>1. PICK m \in Machine : profile = ProfileOf(m)
    BY DEF OfMachine
  <2>2. profile.machine = m /\ profile.engine = OptimalConfig(m)
    BY <2>1 DEF ProfileOf
  <2>3. BiggerIsNoSlower
    BY <2>2, WorkGrows DEF BiggerIsNoSlower
  <2> QED BY <2>1, <2>3, ProfileRuns
<1> QED BY <1>1, <1>2, <1>3, PTL DEF HardwareSpec
-------------------------------------------------------------------------------
(* Verdicts on faces *)

\* How the verdict of the request came about: D are the layers of its detector, U those
\* that are weighed, all of them or all but the model; of these depth may be silent.
Weighed(D, U) ==
  /\ U = D \/ U = D \ {"ml_antispoof"}
  /\ verdict.weights = Normalised(U)
  /\ DOMAIN verdict.score = U \/ DOMAIN verdict.score = U \ {"depth"}
  /\ \A k \in DOMAIN verdict.score : verdict.score[k] \in Int
  /\ "ml_antispoof" \in U => verdict.score["ml_antispoof"] >= 0
  /\ verdict.total = Total(Normalised(U), verdict.score)
  /\ verdict.live = (verdict.total >= detector.threshold * Normalised(U).den)

\* The inductive invariant: the detector's weights are scaled, and what is judged is weighed.
LivenessInv ==
  /\ DOMAIN detector = {"weights", "threshold", "seen", "model"}
  /\ detector.threshold \in 0..100
  /\ detector.model \in BOOLEAN
  /\ \E D \in SUBSET Layers :
       /\ detector.weights = Normalised(D)
       /\ Judged => \E U \in SUBSET D : Weighed(D, U)
--------------------------------------------------------------------------------
LEMMA NormalisedParts ==
  ASSUME NEW S \in SUBSET Layers
  PROVE  /\ DOMAIN Normalised(S).num = S
         /\ \A k \in S : Normalised(S).num[k] = LayerWeight[k]
         /\ Normalised(S).den = IF S = {} THEN 1 ELSE SumOver(LayerWeight, S)
         /\ Normalised(S).den \in 1..100
<1>1. /\ DOMAIN Normalised(S).num = S
      /\ \A k \in S : Normalised(S).num[k] = LayerWeight[k]
      /\ Normalised(S).den = IF S = {} THEN 1 ELSE SumOver(LayerWeight, S)
  BY DEF Normalised, Scaled
<1>2. S # {} => SumOver(LayerWeight, S) \in 1..100
  <2> DEFINE p(k) == IF k \in S THEN LayerWeight[k] ELSE 0
  <2>1. /\ p("texture") \in 0..15 /\ p("moire") \in 0..10 /\ p("depth") \in 0..15
        /\ p("blink") \in 0..15 /\ p("colorspace") \in 0..10 /\ p("quality") \in 0..10
        /\ p("ml_antispoof") \in 0..25
    BY DEF LayerWeight
  <2>2. S # {} => \/ p("texture") >= 1 \/ p("moire") >= 1 \/ p("depth") >= 1 \/ p("blink") >= 1
                  \/ p("colorspace") >= 1 \/ p("quality") >= 1 \/ p("ml_antispoof") >= 1
    <3>1. S # {} => \/ "texture" \in S \/ "moire" \in S \/ "depth" \in S \/ "blink" \in S
                    \/ "colorspace" \in S \/ "quality" \in S \/ "ml_antispoof" \in S
      BY DEF Layers
    <3>2. /\ "texture" \in S => p("texture") = 15
          /\ "moire" \in S => p("moire") = 10
          /\ "depth" \in S => p("depth") = 15
          /\ "blink" \in S => p("blink") = 15
          /\ "colorspace" \in S => p("colorspace") = 10
          /\ "quality" \in S => p("quality") = 10
          /\ "ml_antispoof" \in S => p("ml_antispoof") = 25
      BY DEF LayerWeight
    <3> HIDE DEF p
    <3> QED BY <3>1, <3>2
  <2>3. SumOver(LayerWeight, S) = p("texture") + p("moire") + p("depth") + p("blink")
          + p("colorspace") + p("quality") + p("ml_antispoof")
    BY DEF SumOver
  <2> HIDE DEF p
  <2> QED BY <2>1, <2>2, <2>3
<1> QED BY <1>1, <1>2

\* Taking a layer away leaves the weights of the others, scaled anew.
LEMMA DropNormalised ==
  ASSUME NEW S \in SUBSET Layers, NEW j
  PROVE  DropLayer(Normalised(S), j) = Normalised(S \ {j})
<1>1. /\ DOMAIN Normalised(S).num = S
      /\ Normalised(S).num = [k \in S |-> LayerWeight[k]]
  BY DEF Normalised, Scaled
<1>2. SumOver(Normalised(S).num, S \ {j}) = SumOver(LayerWeight, S \ {j})
  BY <1>1 DEF SumOver
<1>3. [k \in S \ {j} |-> Normalised(S).num[k]] = [k \in S \ {j} |-> LayerWeight[k]]
  BY <1>1
<1> QED BY <1>1, <1>2, <1>3 DEF DropLayer, Scaled, Normalised

\* The total is the sum of the scores, each times its layer's weight.
Weight(S, k) == IF k \in S THEN LayerWeight[k] ELSE 0
Share(S, x, k) == IF k \in S THEN LayerWeight[k] * Counted(x, k) ELSE 0

LEMMA TotalIsSum ==
  ASSUME NEW S \in SUBSET Layers, NEW x
  PROVE  Total(Normalised(S), x) =
           Share(S, x, "texture") + Share(S, x, "moire") + Share(S, x, "depth")
             + Share(S, x, "blink") + Share(S, x, "colorspace") + Share(S, x, "quality")
             + Share(S, x, "ml_antispoof")
<1> DEFINE t == [k \in DOMAIN Normalised(S).num |-> Normalised(S).num[k] * Counted(x, k)]
<1>1. \A k \in Layers : (IF k \in S THEN t[k] ELSE 0) = Share(S, x, k)
  BY NormalisedParts DEF Share
<1>2. Total(Normalised(S), x) = SumOver(t, S)
  BY NormalisedParts DEF Total
<1> HIDE DEF t
<1> QED BY <1>1, <1>2 DEF SumOver, Layers

LEMMA DenIsSum ==
  ASSUME NEW S \in SUBSET Layers, S # {}
  PROVE  Normalised(S).den =
           Weight(S, "texture") + Weight(S, "moire") + Weight(S, "depth")
             + Weight(S, "blink") + Weight(S, "colorspace") + Weight(S, "quality")
             + Weight(S, "ml_antispoof")
BY NormalisedParts DEF SumOver, Weight

LEMMA ShareTypes ==
  ASSUME NEW S \in SUBSET Layers, NEW x, \A k \in S : Counted(x, k) \in Int, NEW k \in Layers
  PROVE  /\ Weight(S, k) \in 0..25
         /\ Share(S, x, k) \in Int
BY DEF Weight, Share, LayerWeight, Layers

LEMMA TotalType ==
  ASSUME NEW S \in SUBSET Layers, NEW x, \A k \in S : Counted(x, k) \in Int
  PROVE  Total(Normalised(S), x) \in Int
BY TotalIsSum, ShareTypes DEF Layers

\* Of the scores of some layers one is the best.
LEMMA BestLayer ==
  ASSUME NEW S \in SUBSET Layers, S # {}, NEW x, \A k \in S : x[k] \in Int
  PROVE  \E k \in S : \A j \in S : x[j] <= x[k]
<1> DEFINE Best(T) == S \cap T = {} \/ \E k \in S \cap T : \A j \in S \cap T : x[j] <= x[k]
<1>1. ASSUME NEW T, NEW e, Best(T) PROVE Best(T \cup {e})
  <2>1. CASE e \notin S
    BY <1>1, <2>1
  <2>2. CASE e \in S /\ S \cap T = {}
    BY <2>2
  <2>3. CASE e \in S /\ S \cap T # {}
    <3>1. PICK k \in S \cap T : \A j \in S \cap T : x[j] <= x[k]
      BY <1>1, <2>3
    <3>2. CASE x[e] <= x[k]
      BY <3>1, <3>2, <2>3
    <3>3. CASE x[k] <= x[e]
      BY <3>1, <3>3, <2>3
    <3> QED BY <3>1, <3>2, <3>3, <2>3
  <2> QED BY <2>1, <2>2, <2>3
<1>2. Best({})
  OBVIOUS
<1> HIDE DEF Best
<1>3. Best({"texture"})
  <2>1. Best({} \cup {"texture"})
    BY <1>1, <1>2
  <2> QED BY <2>1
<1>4. Best({"texture", "moire"})
  <2>1. Best({"texture"} \cup {"moire"})
    BY <1>1, <1>3
  <2>2. {"texture"} \cup {"moire"} = {"texture", "moire"}
    OBVIOUS
  <2> QED BY <2>1, <2>2
<1>5. Best(Layers)
  <2>1. Best({"texture", "moire"} \cup {"depth"})
    BY <1>1, <1>4
  <2>2. Best({"texture", "moire"} \cup {"depth"} \cup {"blink"})
    BY <1>1, <2>1
  <2>3. Best({"texture", "moire"} \cup {"depth"} \cup {"blink"} \cup {"colorspace"})
    BY <1>1, <2>2
  <2>4. Best({"texture", "moire"} \cup {"depth"} \cup {"blink"} \cup {"colorspace"} \cup {"quality"})
    BY <1>1, <2>3
  <2>5. Best({"texture", "moire"} \cup {"depth"} \cup {"blink"} \cup {"colorspace"} \cup {"quality"}
               \cup {"ml_antispoof"})
    BY <1>1, <2>4
  <2>6. {"texture", "moire"} \cup {"depth"} \cup {"blink"} \cup {"colorspace"} \cup {"quality"}
          \cup {"ml_antispoof"} = Layers
    BY DEF Layers
  <2> QED BY <2>5, <2>6
<1>6. S \cap Layers = S
  OBVIOUS
<1> QED BY <1>5, <1>6 DEF Best

\* ... and one the worst.
LEMMA WorstLayer ==
  ASSUME NEW S \in SUBSET Layers, S # {}, NEW x, \A k \in S : x[k] \in Int
  PROVE  \E k \in S : \A j \in S : x[k] <= x[j]
<1> DEFINE y == [k \in S |-> 0 - x[k]]
<1>1. \A k \in S : y[k] \in Int /\ y[k] = 0 - x[k]
  OBVIOUS
<1> HIDE DEF y
<1>2. PICK k \in S : \A j \in S : y[j] <= y[k]
  BY BestLayer, <1>1
<1>3. \A j \in S : x[k] <= x[j]
  BY <1>1, <1>2
<1> QED BY <1>3

\* Seven products with one factor are one product.
LEMMA Distributes ==
  ASSUME NEW a \in Int, NEW b \in Int, NEW c \in Int, NEW d \in Int, NEW e \in Int, NEW f \in Int,
         NEW g \in Int, NEW m \in Int
  PROVE  a * m + b * m + c * m + d * m + e * m + f * m + g * m = m * (a + b + c + d + e + f + g)
OBVIOUS

\* A weighted sum is at most its best score, and at least its worst, times the weights.
LEMMA TotalBetween ==
  ASSUME NEW S \in SUBSET Layers, S # {}, NEW x, \A k \in S : Counted(x, k) \in Int, NEW m \in Int
  PROVE  /\ (\A k \in S : Counted(x, k) <= m) => Total(Normalised(S), x) <= m * Normalised(S).den
         /\ (\A k \in S : m <= Counted(x, k)) => m * Normalised(S).den <= Total(Normalised(S), x)
<1> DEFINE w(k) == Weight(S, k)
           s(k) == Share(S, x, k)
<1>1. \A k \in Layers : w(k) \in Int /\ s(k) \in Int /\ w(k) * m \in Int
  <2>1. \A k \in Layers : w(k) \in Int /\ s(k) \in Int
    BY ShareTypes
  <2> HIDE DEF w, s
  <2> QED BY <2>1
<1>2. ASSUME NEW k \in Layers, \A j \in S : Counted(x, j) <= m PROVE s(k) <= w(k) * m
  BY <1>2 DEF Weight, Share, LayerWeight, Layers
<1>3. ASSUME NEW k \in Layers, \A j \in S : m <= Counted(x, j) PROVE w(k) * m <= s(k)
  BY <1>3 DEF Weight, Share, LayerWeight, Layers
<1> HIDE DEF w, s
<1>4. m * Normalised(S).den =
        w("texture") * m + w("moire") * m + w("depth") * m + w("blink") * m
          + w("colorspace") * m + w("quality") * m + w("ml_antispoof") * m
  <2>1. Normalised(S).den = w("texture") + w("moire") + w("depth") + w("blink")
          + w("colorspace") + w("quality") + w("ml_antispoof")
    BY DenIsSum DEF w
  <2>2. \A k \in Layers : w(k) \in Int
    BY <1>1
  <2> QED BY <2>1, <2>2, Distributes DEF Layers
<1>5. Total(Normalised(S), x) =
        s("texture") + s("moire") + s("depth") + s("blink") + s("colorspace") + s("quality")
          + s("ml_antispoof")
  BY TotalIsSum DEF s
<1>6. (\A k \in S : Counted(x, k) <= m) => Total(Normalised(S), x) <= m * Normalised(S).den
  <2> SUFFICES ASSUME \A k \in S : Counted(x, k) <= m
               PROVE  Total(Normalised(S), x) <= m * Normalised(S).den
    OBVIOUS
  <2>1. \A k \in Layers : s(k) <= w(k) * m
    BY <1>2
  <2> QED BY <1>1, <1>4, <1>5, <2>1 DEF Layers
<1>7. (\A k \in S : m <= Counted(x, k)) => m * Normalised(S).den <= Total(Normalised(S), x)
  <2> SUFFICES ASSUME \A k \in S : m <= Counted(x, k)
               PROVE  m * Normalised(S).den <= Total(Normalised(S), x)
    OBVIOUS
  <2>1. \A k \in Layers : w(k) * m <= s(k)
    BY <1>3
  <2> QED BY <1>1, <1>4, <1>5, <2>1 DEF Layers
<1> QED BY <1>6, <1>7
\* The model's part of the weights and of the total.
LEMMA ModelApart ==
  ASSUME NEW S \in SUBSET Layers, "ml_antispoof" \in S, S \ {"ml_antispoof"} # {},
         NEW x, \A k \in S : Counted(x, k) \in Int
  PROVE  LET H == S \ {"ml_antispoof"}
         IN  /\ Normalised(S).den = 25 + Normalised(H).den
             /\ Total(Normalised(S), x) = 25 * Counted(x, "ml_antispoof") + Total(Normalised(H), x)
<1> DEFINE H == S \ {"ml_antispoof"}
<1>1. H \in SUBSET Layers /\ H # {} /\ S # {}
  OBVIOUS
<1>2. \A k \in Layers \ {"ml_antispoof"} :
        Weight(S, k) = Weight(H, k) /\ Share(S, x, k) = Share(H, x, k)
  BY DEF Weight, Share
<1>3. /\ Weight(H, "ml_antispoof") = 0 /\ Share(H, x, "ml_antispoof") = 0
      /\ Weight(S, "ml_antispoof") = 25 /\ Share(S, x, "ml_antispoof") = 25 * Counted(x, "ml_antispoof")
  BY DEF Weight, Share, LayerWeight
<1>4. \A k \in Layers : Weight(H, k) \in Int /\ Share(H, x, k) \in Int
  BY ShareTypes, <1>1
<1>5. Counted(x, "ml_antispoof") \in Int
  OBVIOUS
<1> HIDE DEF H
<1>6. Normalised(S).den = 25 + Normalised(H).den
  BY DenIsSum, <1>1, <1>2, <1>3, <1>4 DEF Layers
<1>7. Total(Normalised(S), x) = 25 * Counted(x, "ml_antispoof") + Total(Normalised(H), x)
  BY TotalIsSum, <1>1, <1>2, <1>3, <1>4, <1>5 DEF Layers
<1> QED BY <1>6, <1>7 DEF H

LEMMA FusionAlgebra ==
  ASSUME NEW d \in Int, NEW t \in Int, NEW ml \in Int, ml >= 0
  PROVE  (25 + d) * d * (25 * ml + t) = (25 + d) * Fused(ml, t, d, 25, 25 + d)
<1>1. 25 + d - 25 = d
  OBVIOUS
<1>2. d * (25 * ml + t) = 25 * ml * d + d * t
  OBVIOUS
<1>3. (25 + d) * d * (25 * ml + t) = (25 + d) * (d * (25 * ml + t))
  OBVIOUS
<1>4. Fused(ml, t, d, 25, 25 + d) = 25 * ml * d + (25 + d - 25) * t
  <2>1. ~(ml < 0)
    OBVIOUS
  <2>2. Fused(ml, t, d, 25, 25 + d) =
          IF ml < 0 THEN (25 + d) * t ELSE 25 * ml * d + (25 + d - 25) * t
    BY DEF Fused
  <2> QED BY <2>1, <2>2
<1>5. d * (25 * ml + t) = Fused(ml, t, d, 25, 25 + d)
  BY <1>1, <1>2, <1>4
<1> QED BY <1>3, <1>5

\* What a weighed layer counts with.
LEMMA WeighedCounts ==
  ASSUME NEW D \in SUBSET Layers, NEW U \in SUBSET D, Weighed(D, U)
  PROVE  /\ \A k \in U : /\ Counted(verdict.score, k) \in Int
                         /\ \/ k \in DOMAIN verdict.score /\ Counted(verdict.score, k) = verdict.score[k]
                            \/ k = "depth" /\ k \notin DOMAIN verdict.score /\ Counted(verdict.score, k) = 50
         /\ "ml_antispoof" \in U =>
              /\ Counted(verdict.score, "ml_antispoof") = verdict.score["ml_antispoof"]
              /\ verdict.score["ml_antispoof"] >= 0
<1>1. \A k \in U : k \in DOMAIN verdict.score \/ k = "depth"
  BY DEF Weighed
<1>2. \A k \in DOMAIN verdict.score : verdict.score[k] \in Int
  BY DEF Weighed
<1> QED BY <1>1, <1>2 DEF Counted, Weighed

\* What is weighed lies between what its layers count with, is earned, and is the fusion.
LEMMA WeighedBetween ==
  ASSUME NEW D \in SUBSET Layers, NEW U \in SUBSET D, Weighed(D, U), U # {}
  PROVE  /\ \E k \in U : verdict.total <= Counted(verdict.score, k) * verdict.weights.den
         /\ \E k \in U : verdict.total >= Counted(verdict.score, k) * verdict.weights.den
<1> DEFINE x == verdict.score
           y == [k \in U |-> Counted(x, k)]
           n == Normalised(U)
<1>1. /\ U \in SUBSET Layers
      /\ \A k \in U : Counted(x, k) \in Int
      /\ verdict.weights = n /\ verdict.total = Total(n, x)
  BY WeighedCounts DEF Weighed
<1> HIDE DEF x
<1>2. \A k \in U : y[k] \in Int /\ y[k] = Counted(x, k)
  BY <1>1
<1> HIDE DEF y
<1>3. PICK k \in U : \A j \in U : y[j] <= y[k]
  BY BestLayer, <1>1, <1>2
<1>4. PICK i \in U : \A j \in U : y[i] <= y[j]
  BY WorstLayer, <1>1, <1>2
<1>5. /\ \A j \in U : Counted(x, j) <= Counted(x, k)
      /\ \A j \in U : Counted(x, i) <= Counted(x, j)
  BY <1>2, <1>3, <1>4
<1>6. Counted(x, k) \in Int /\ Counted(x, i) \in Int
  BY <1>1
<1>7. Total(n, x) <= Counted(x, k) * n.den
  BY TotalBetween, <1>1, <1>5, <1>6
<1>8. Counted(x, i) * n.den <= Total(n, x)
  BY TotalBetween, <1>1, <1>5, <1>6
<1>9. Counted(x, i) * n.den \in Int /\ Total(n, x) \in Int
  <2>1. n.den \in Int
    BY <1>1, NormalisedParts
  <2> HIDE DEF n
  <2>2. Counted(x, i) * n.den \in Int
    BY <2>1, <1>6
  <2> QED BY <2>2, <1>1, TotalType DEF n
<1>10. Total(n, x) >= Counted(x, i) * n.den
  <2> HIDE DEF n
  <2> QED BY <1>8, <1>9
<1> QED BY <1>1, <1>7, <1>10 DEF x

LEMMA Cancels ==
  ASSUME NEW t \in Int, NEW x \in Int, NEW d \in 1..100, t * d <= x * d
  PROVE  t <= x
<1>1. CASE x < t
  <2>1. x + 1 <= t
    BY <1>1
  <2>2. PICK e \in Nat : t = x + 1 + e
    <3>1. t - x - 1 \in Nat /\ t = x + 1 + (t - x - 1)
      BY <2>1
    <3> QED BY <3>1
  <2>3. t * d = x * d + d + e * d
    BY <2>2
  <2>4. e * d >= 0 /\ e * d \in Int /\ x * d \in Int
    BY <2>2
  <2> QED BY <2>3, <2>4
<1> QED BY <1>1

LEMMA WeighedEarned ==
  ASSUME NEW D \in SUBSET Layers, NEW U \in SUBSET D, Weighed(D, U),
         detector.threshold \in 0..100, verdict.live
  PROVE  detector.threshold = 0 \/ \E k \in U : Counted(verdict.score, k) >= detector.threshold
<1> DEFINE t == detector.threshold
<1>1. /\ U \in SUBSET Layers
      /\ \A k \in U : Counted(verdict.score, k) \in Int
      /\ verdict.weights = Normalised(U)
      /\ verdict.total >= t * Normalised(U).den
  BY WeighedCounts DEF Weighed
<1>2. Normalised(U).den \in 1..100 /\ verdict.total \in Int /\ t * Normalised(U).den \in Int
  <2>1. Normalised(U).den \in 1..100
    BY NormalisedParts, <1>1
  <2>2. verdict.total \in Int
    BY <1>1, TotalType DEF Weighed
  <2> HIDE DEF t
  <2>3. t \in Int
    BY DEF t
  <2> QED BY <2>1, <2>2, <2>3
<1>3. CASE U = {}
  <2>1. Normalised(U).den = 1
    BY <1>3, NormalisedParts
  <2>2. verdict.total = 0
    <3>1. verdict.total = Total(Normalised(U), verdict.score)
      BY DEF Weighed
    <3>2. \A k \in Layers : Share(U, verdict.score, k) = 0
      BY <1>3 DEF Share
    <3> QED BY <3>1, <3>2, TotalIsSum, <1>1 DEF Layers
  <2> QED BY <1>1, <2>1, <2>2
<1>4. CASE U # {}
  <2>1. PICK k \in U : verdict.total <= Counted(verdict.score, k) * Normalised(U).den
    BY <1>1, <1>4, WeighedBetween
  <2>2. Counted(verdict.score, k) \in Int /\ Counted(verdict.score, k) * Normalised(U).den \in Int
    <3>1. Counted(verdict.score, k) \in Int /\ Normalised(U).den \in Int
      BY <1>1, <1>2
    <3> QED BY <3>1
  <2>3. t * Normalised(U).den <= Counted(verdict.score, k) * Normalised(U).den
    <3> HIDE DEF t
    <3> QED BY <1>1, <1>2, <2>1, <2>2
  <2>4. t <= Counted(verdict.score, k)
    <3>1. t \in Int
      OBVIOUS
    <3> HIDE DEF t
    <3> QED BY <3>1, <1>2, <2>2, <2>3, Cancels
  <2> QED BY <2>2, <2>4
<1> QED BY <1>3, <1>4

LEMMA WeighedFused ==
  ASSUME NEW D \in SUBSET Layers, NEW U \in SUBSET D, Weighed(D, U), detector.weights = Normalised(D)
  PROVE  FusionLaw
<1> DEFINE H == D \ {"ml_antispoof"}
           x == verdict.score
           d == Normalised(H).den
           t == Total(Normalised(H), x)
           ml == IF "ml_antispoof" \in U THEN x["ml_antispoof"] ELSE -1
           alpha == IF "ml_antispoof" \in U THEN LayerWeight["ml_antispoof"] ELSE 0
<1> SUFFICES ASSUME H # {}
             PROVE  (alpha + d) * d * verdict.total
                      = verdict.weights.den * Fused(ml, t, d, alpha, alpha + d)
  <2>1. /\ U \in SUBSET Layers
        /\ DOMAIN verdict.weights.num = U /\ DOMAIN detector.weights.num = D
    BY NormalisedParts DEF Weighed
  <2> QED BY <2>1 DEF FusionLaw
<1>1. /\ U \in SUBSET Layers /\ H \in SUBSET Layers
      /\ \A k \in U : Counted(x, k) \in Int
      /\ U \ {"ml_antispoof"} = H
      /\ \A k \in H : Counted(x, k) \in Int
  BY WeighedCounts DEF Weighed
<1>2. d \in Int /\ t \in Int
  BY <1>1, NormalisedParts, TotalType
<1>3. verdict.weights = Normalised(U) /\ verdict.total = Total(Normalised(U), x)
  BY DEF Weighed
<1>4. CASE "ml_antispoof" \in U
  <2>1. ml = x["ml_antispoof"] /\ ml = Counted(x, "ml_antispoof") /\ ml \in Int /\ ml >= 0
    BY <1>1, <1>4, WeighedCounts
  <2>2. alpha = 25
    BY <1>4 DEF LayerWeight
  <2>3. Normalised(U).den = 25 + d /\ Total(Normalised(U), x) = 25 * ml + t
    BY <1>1, <1>4, <2>1, ModelApart
  <2> HIDE DEF ml, d, t, alpha, x
  <2>4. (25 + d) * d * (25 * ml + t) = (25 + d) * Fused(ml, t, d, 25, 25 + d)
    BY <1>2, <2>1, FusionAlgebra
  <2>5. verdict.weights.den = 25 + d /\ verdict.total = 25 * ml + t
    BY <1>3, <2>3
  <2> QED BY <2>2, <2>4, <2>5
<1>5. CASE "ml_antispoof" \notin U
  <2>1. U = H /\ ml = -1 /\ alpha = 0
    BY <1>1, <1>5
  <2>2. verdict.total = t /\ verdict.weights.den = d
    BY <1>3, <2>1
  <2> HIDE DEF ml, d, t, alpha
  <2>3. Fused(ml, t, d, 0, d) = d * t
    BY <2>1 DEF Fused
  <2>4. 0 + d = d /\ d * d * t = d * (d * t)
    BY <1>2
  <2> QED BY <2>1, <2>2, <2>3, <2>4
<1> QED BY <1>4, <1>5
-------------------------------------------------------------------------------
\* Every heuristic gives a number.
LEMMA HeuristicTypes ==
  ASSUME NEW f \in Face, NEW n, NEW blink \in BlinkScores(n), NEW failed
  PROVE  \A k \in Layers \ {"ml_antispoof"} : HeuristicScore(f, blink, failed)[k] \in Int
<1>1. /\ f.var \in Int /\ f.cv \in Int /\ f.peak \in Int /\ f.depth \in Int /\ f.skin \in Int
      /\ f.blur \in Int /\ f.ml \in Int
  BY LivenessAssumption DEF FaceFigures
<1>2. TextureScore(f) \in Int
  BY <1>1 DEF TextureScore, Least
<1>3. MoireScore(f) \in Int
  BY DEF MoireScore
<1>4. DepthScore(f) \in Int
  BY DEF DepthScore
<1>5. ColorScore(f) \in Int
  BY <1>1 DEF ColorScore
<1>6. blink \in Int
  BY DEF BlinkScores
<1>7. Least(100, f.blur \div 2) \div 2 + 50 \in Int
  BY <1>1 DEF Least
<1> QED BY <1>2, <1>3, <1>4, <1>5, <1>6, <1>7 DEF HeuristicScore, Layers

LEMMA NewDetectorInv ==
  ASSUME NEW layers \in Requested, NEW t \in Threshold
  PROVE  LET d == NewDetector(layers, t)
         IN  /\ DOMAIN d = {"weights", "threshold", "seen", "model"}
             /\ d.threshold \in 0..100 /\ d.model \in BOOLEAN
             /\ \E D \in SUBSET Layers : d.weights = Normalised(D)
<1>1. (IF layers = {} THEN Layers ELSE layers \cap Layers) \in SUBSET Layers
  OBVIOUS
<1>2. t \in 0..100
  BY LivenessAssumption
<1> QED BY <1>1, <1>2 DEF NewDetector

LEMMA LivenessStarts == LivenessInit => LivenessInv
<1> SUFFICES ASSUME LivenessInit PROVE LivenessInv
  OBVIOUS
<1>1. verdict = NoVerdict /\ ~Judged
  BY DEF LivenessInit, Judged
<1> QED BY <1>1, NewDetectorInv DEF LivenessInit, LivenessInv

\* The face Analyze looks at is weighed by the layers that answered.
LEMMA AnalyzeWeighs ==
  ASSUME LivenessInv, NEW f \in Face, Analyze(f)
  PROVE  LivenessInv'
<1>1. PICK loaded \in BOOLEAN, blink \in BlinkScores(detector.seen + 1), failed \in Failures :
        LET w == detector.weights
            layers == DOMAIN w.num
            model == "ml_antispoof" \in layers /\ (detector.model \/ (loaded /\ ModelPath))
            ml == Predicted(f, model)
            used == IF "ml_antispoof" \in layers /\ ml < 0 THEN DropLayer(w, "ml_antispoof") ELSE w
            h == HeuristicScore(f, blink, failed)
            score == [k \in DOMAIN used.num \ Silent(f) |-> IF k = "ml_antispoof" THEN ml ELSE h[k]]
            looked == "blink" \in layers \ failed
        IN  /\ detector' = [detector EXCEPT !.model = model,
                              !.seen = IF looked THEN Least(30, @ + 1) ELSE @]
            /\ verdict' = [face |-> f, weights |-> used, score |-> score,
                           total |-> Total(used, score),
                           live |-> Total(used, score) >= detector.threshold * used.den]
  BY DEF Analyze
<1>2. PICK D \in SUBSET Layers : detector.weights = Normalised(D)
  BY DEF LivenessInv
<1> DEFINE model == "ml_antispoof" \in D /\ (detector.model \/ (loaded /\ ModelPath))
           ml == Predicted(f, model)
           U == IF "ml_antispoof" \in D /\ ml < 0 THEN D \ {"ml_antispoof"} ELSE D
           h == HeuristicScore(f, blink, failed)
           looked == "blink" \in D \ failed
           score == [k \in U \ Silent(f) |-> IF k = "ml_antispoof" THEN ml ELSE h[k]]
<1>3. DOMAIN detector.weights.num = D
  BY <1>2, NormalisedParts
<1>4. (IF "ml_antispoof" \in D /\ ml < 0 THEN DropLayer(detector.weights, "ml_antispoof")
       ELSE detector.weights) = Normalised(U)
  BY <1>2, DropNormalised
<1>5. DOMAIN Normalised(U).num = U
  BY NormalisedParts
<1>6. model \in BOOLEAN
  OBVIOUS
<1>7. /\ detector' = [detector EXCEPT !.model = model,
                        !.seen = IF looked THEN Least(30, @ + 1) ELSE @]
      /\ verdict' = [face |-> f, weights |-> Normalised(U), score |-> score,
                     total |-> Total(Normalised(U), score),
                     live |-> Total(Normalised(U), score) >= detector.threshold * Normalised(U).den]
  BY <1>1, <1>3, <1>4, <1>5
<1>8. ml \in Int
  BY LivenessAssumption DEF Predicted, FaceFigures
<1>9. \A k \in U \ Silent(f) : score[k] \in Int
  <2>1. \A k \in Layers \ {"ml_antispoof"} : h[k] \in Int
    BY HeuristicTypes
  <2> HIDE DEF h, ml
  <2>2. U \subseteq Layers
    OBVIOUS
  <2> QED BY <2>1, <2>2, <1>8
<1>10. "ml_antispoof" \in U => score["ml_antispoof"] >= 0
  <2> HIDE DEF ml
  <2> QED BY <1>8 DEF Silent
<1>11. U = D \/ U = D \ {"ml_antispoof"}
  OBVIOUS
<1> HIDE DEF model, ml, U, h, looked
<1>12. /\ DOMAIN detector' = {"weights", "threshold", "seen", "model"}
       /\ detector'.threshold = detector.threshold /\ detector'.weights = detector.weights
       /\ detector'.model = model
  BY <1>7 DEF LivenessInv
<1>13. DOMAIN score = U \ Silent(f) /\ (DOMAIN score = U \/ DOMAIN score = U \ {"depth"})
  BY DEF Silent
<1> HIDE DEF score
<1>14. /\ verdict'.weights = Normalised(U) /\ verdict'.score = score
       /\ verdict'.total = Total(Normalised(U), score)
       /\ verdict'.live = (verdict'.total >= detector'.threshold * Normalised(U).den)
  BY <1>7, <1>12
<1>15. PICK V \in SUBSET D : V = U
  BY <1>11
<1>16. Weighed(D, V)'
  BY <1>9, <1>10, <1>11, <1>13, <1>14, <1>15 DEF Weighed
<1>17. detector'.model \in BOOLEAN /\ detector'.threshold \in 0..100
  BY <1>6, <1>12 DEF LivenessInv
<1>18. detector'.weights = Normalised(D)
  BY <1>2, <1>12
<1> QED BY <1>12, <1>16, <1>17, <1>18 DEF LivenessInv

LEMMA LivenessSteps == LivenessInv /\ [LivenessNext]_livenessVars => LivenessInv'
<1> SUFFICES ASSUME LivenessInv, [LivenessNext]_livenessVars PROVE LivenessInv'
  OBVIOUS
<1>1. CASE Construct
  <2>1. verdict' = NoVerdict /\ ~Judged'
    BY <1>1 DEF Construct, Judged, NoVerdict
  <2> QED BY <1>1, <2>1, NewDetectorInv DEF Construct, LivenessInv
<1>2. CASE \E f \in Face : AnalyzePoor(f)
  <2>1. PICK f \in Face : AnalyzePoor(f)
    BY <1>2
  <2>2. verdict'.face = f /\ detector' = detector
    BY <2>1 DEF AnalyzePoor
  <2>3. ~Judged'
    BY <2>1, <2>2 DEF AnalyzePoor, Judged
  <2> QED BY <2>2, <2>3 DEF LivenessInv
<1>3. CASE \E f \in Face : Analyze(f)
  BY <1>3, AnalyzeWeighs
<1>4. CASE UNCHANGED livenessVars
  BY <1>4 DEF livenessVars, LivenessInv, Judged, Weighed
<1> QED BY <1>1, <1>2, <1>3, <1>4 DEF LivenessNext

LEMMA VerdictLaws == LivenessInv => BetweenLayers /\ LiveIsEarned /\ FusionLaw
<1> SUFFICES ASSUME LivenessInv, Judged PROVE BetweenLayers /\ LiveIsEarned /\ FusionLaw
  BY DEF BetweenLayers, LiveIsEarned, FusionLaw
<1>1. PICK D \in SUBSET Layers :
        detector.weights = Normalised(D) /\ \E U \in SUBSET D : Weighed(D, U)
  BY DEF LivenessInv
<1>2. PICK U \in SUBSET D : Weighed(D, U)
  BY <1>1
<1>3. DOMAIN verdict.weights.num = U /\ detector.threshold \in 0..100
  BY <1>2, NormalisedParts DEF Weighed, LivenessInv
<1>4. BetweenLayers
  <2> DEFINE count(k) == Counted(verdict.score, k) * verdict.weights.den
  <2>1. U # {} => /\ \E k \in U : verdict.total <= count(k)
                  /\ \E k \in U : verdict.total >= count(k)
    BY <1>2, WeighedBetween
  <2> HIDE DEF count
  <2>2. U # {} => /\ \E c \in {count(k) : k \in U} : verdict.total <= c
                  /\ \E c \in {count(k) : k \in U} : verdict.total >= c
    BY <2>1
  <2> QED BY <1>3, <2>2 DEF BetweenLayers, count
<1>5. LiveIsEarned
  <2> SUFFICES ASSUME verdict.live, detector.threshold # 0
               PROVE  \/ \E k \in DOMAIN verdict.score : verdict.score[k] >= detector.threshold
                      \/ /\ detector.threshold <= 50
                         /\ "depth" \in DOMAIN verdict.weights.num \ DOMAIN verdict.score
    BY DEF LiveIsEarned
  <2>1. PICK k \in U : Counted(verdict.score, k) >= detector.threshold
    BY <1>2, <1>3, WeighedEarned
  <2>2. \/ k \in DOMAIN verdict.score /\ Counted(verdict.score, k) = verdict.score[k]
        \/ k = "depth" /\ k \notin DOMAIN verdict.score /\ Counted(verdict.score, k) = 50
    BY <1>2, WeighedCounts
  <2>3. CASE k \in DOMAIN verdict.score
    BY <2>1, <2>2, <2>3
  <2>4. CASE k \notin DOMAIN verdict.score
    BY <1>3, <2>1, <2>2, <2>4
  <2> QED BY <2>3, <2>4
<1>6. FusionLaw
  BY <1>1, <1>2, WeighedFused
<1> QED BY <1>4, <1>5, <1>6

\* What the verdicts of a request's detector are, for any layers asked for, with or without
\* a model, loaded at any face: LivenessInv is inductive (LivenessDetector.analyze).
THEOREM LivenessInvariant == LivenessSpec => []LivenessInv
BY LivenessStarts, LivenessSteps, PTL DEF LivenessSpec
-------------------------------------------------------------------------------
(* The edge device's verdicts *)

\* The inductive invariant: a result is of a face and has that face's score.
EdgeResultInv ==
  /\ edgeModels.spoof \in BOOLEAN
  /\ result # NoFace => /\ result.face \in Face
                        /\ result.score \in EdgeLiveness(result.face, edgeModels.spoof)

LEMMA EdgeStarts == EdgePipelineInit => EdgeResultInv
<1> SUFFICES ASSUME EdgePipelineInit PROVE EdgeResultInv
  OBVIOUS
<1>1. edgeModels.spoof \in {FALSE, ModelPath}
  <2> DEFINE name == IF SelectModel(ModelType, Accelerated) = "lightweight"
                     THEN "buffalo_s" ELSE "buffalo_l"
  <2>1. PICK spoof \in {FALSE, ModelPath} : edgeModels = [name |-> name, spoof |-> spoof]
    BY DEF EdgePipelineInit
  <2> HIDE DEF name
  <2> QED BY <2>1
<1>2. result = NoFace
  BY DEF EdgePipelineInit
<1> QED BY <1>1, <1>2, LivenessAssumption DEF EdgeResultInv

LEMMA EdgeSteps == EdgeResultInv /\ [EdgePipelineNext]_edgeVars => EdgeResultInv'
<1> SUFFICES ASSUME EdgeResultInv, [EdgePipelineNext]_edgeVars PROVE EdgeResultInv'
  OBVIOUS
<1>1. ASSUME NEW faces \in {{}} \cup {{f, g} : f, g \in Face}, NEW t \in Threshold,
             ProcessFrame(faces, t)
      PROVE  EdgeResultInv'
  <2>1. faces \subseteq Face /\ edgeModels' = edgeModels
    BY <1>1 DEF ProcessFrame
  <2>2. CASE result' = NoFace
    BY <2>1, <2>2 DEF EdgeResultInv
  <2>3. CASE result' # NoFace
    <3>1. PICK f \in faces :
            /\ result'.face = f /\ result'.score \in EdgeLiveness(f, edgeModels.spoof)
      BY <1>1, <2>3 DEF ProcessFrame
    <3> QED BY <2>1, <3>1 DEF EdgeResultInv
  <2> QED BY <2>2, <2>3
<1>2. CASE UNCHANGED edgeVars
  BY <1>2 DEF edgeVars, EdgeResultInv
<1> QED BY <1>1, <1>2 DEF EdgePipelineNext

\* A heuristic score lies between 20 and 90.
LEMMA EdgeHeuristicBounds == ASSUME NEW f \in Face PROVE EdgeHeuristic(f) \subseteq 20..90
<1>1. f.var \in Nat
  BY LivenessAssumption DEF FaceFigures
<1>2. Least(100, f.var \div 2) \in 0..100
  BY <1>1 DEF Least
<1> QED BY <1>2 DEF EdgeHeuristic

LEMMA EdgeVerdicts == EdgeResultInv => EdgeFusion
<1> SUFFICES ASSUME EdgeResultInv, result # NoFace PROVE EdgeFusion
  BY DEF EdgeFusion
<1> DEFINE s == edgeModels.spoof
           g == result.face
           ml == Predicted(g, s)
<1>1. /\ g \in Face /\ s \in BOOLEAN /\ result.score \in EdgeLiveness(g, s)
  BY DEF EdgeResultInv
<1>2. ml \in Int
  BY <1>1, LivenessAssumption DEF Predicted, FaceFigures
<1>3. PICK h \in EdgeHeuristic(g) : result.score = IF ml < 0 THEN h ELSE (60 * ml + 40 * h) \div 100
  BY <1>1 DEF EdgeLiveness
<1>4. h \in 20..90
  BY <1>1, EdgeHeuristicBounds
<1>5. result.score = Fused(ml, h, 1, 60, 100) \div 100
  <2> HIDE DEF ml
  <2> QED BY <1>2, <1>3, <1>4 DEF Fused
<1>6. ASSUME ml >= 0, NEW f \in Face, f.ml \in 0..ml - 47, NEW score \in EdgeLiveness(f, s)
      PROVE  score <= result.score
  <2>1. s = TRUE
    BY <1>1, <1>6 DEF Predicted
  <2>2. Predicted(f, s) = f.ml /\ f.ml \in Int /\ f.ml >= 0 /\ f.ml <= ml - 47
    BY <1>2, <1>6, <2>1 DEF Predicted
  <2>3. PICK e \in EdgeHeuristic(f) : score = (60 * f.ml + 40 * e) \div 100
    BY <1>6, <2>2 DEF EdgeLiveness
  <2>4. e \in 20..90
    BY EdgeHeuristicBounds
  <2>5. result.score = (60 * ml + 40 * h) \div 100
    BY <1>2, <1>3, <1>6
  <2> HIDE DEF ml
  <2> QED BY <1>2, <1>4, <2>2, <2>3, <2>4, <2>5
<1> QED BY <1>4, <1>5, <1>6 DEF EdgeFusion

\* Every verdict of the web application lies between what its weighted layers count with,
\* a live one is earned, and all verdicts, the edge's too, are the fusion
\* fuse_liveness_scores defines, for any faces, layers, failures of layers and thresholds
\* (analyze, _compute_liveness).
THEOREM VerdictsAreFusions == LivenessSpec /\ EdgePipelineSpec => []VerdictsSound
<1>1. LivenessInv /\ EdgeResultInv => VerdictsSound
  BY VerdictLaws, EdgeVerdicts DEF VerdictsSound
<1>2. EdgePipelineSpec => []EdgeResultInv
  BY EdgeStarts, EdgeSteps, PTL DEF EdgePipelineSpec
<1> QED BY <1>1, <1>2, LivenessInvariant, PTL
===============================================================================
