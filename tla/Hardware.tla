------------------------------- MODULE Hardware -------------------------------
(***************************************************************************)
(* The hardware profile of the web application (app/services/hardware.py): *)
(* what a machine offers is turned into a GPU type, a tier and the         *)
(* configuration the face engine is made with. Memory is in tenths of a    *)
(* GB; the options of the providers are left out, but for their threads.   *)
(***************************************************************************)
EXTENDS Integers, Sequences

CONSTANTS
  Machine,   \* machines: see MachineOK
  NoProfile

\* cores, ram: as psutil or its stand-ins report them; vram: as nvidia-smi reports it, 40
\* when it cannot be asked; providers: those onnxruntime offers, {} when it is missing;
\* installed: onnxruntime can be imported; platform, arm: the host; rocm: /opt/rocm exists.
MachineOK(m) ==
  /\ m.cores \in Nat \ {0} /\ m.ram \in Nat /\ m.vram \in Nat
  /\ m.platform \in {"darwin", "linux", "windows"}
  /\ m.arm \in BOOLEAN /\ m.rocm \in BOOLEAN /\ m.installed \in BOOLEAN

ASSUME HardwareAssumption == \A m \in Machine : MachineOK(m)

VARIABLE profile   \* the worker's profile with its configuration, NoProfile before it is asked for

AtLeast(a, b) == IF a < b THEN b ELSE a
-------------------------------------------------------------------------------
(* Detection *)

Offers(m, p) == m.installed /\ p \in m.providers
HasMetal(m) == m.platform = "darwin" /\ m.arm /\ Offers(m, "CoreML")

\* _detect_gpu: the first that is there, in this order.
GpuType(m) ==
  IF Offers(m, "CUDA") THEN "nvidia_cuda"
  ELSE IF HasMetal(m) THEN "apple_metal"
  ELSE IF Offers(m, "OpenVINO") THEN "intel_igpu"
  ELSE IF m.installed /\ m.platform = "linux" /\ m.rocm THEN "amd_rocm"
  ELSE "none"

Vram(m) ==
  [nvidia_cuda |-> m.vram, apple_metal |-> m.ram \div 2, intel_igpu |-> 15,
   amd_rocm |-> 40, none |-> 0][GpuType(m)]

Discrete == {"nvidia_cuda", "apple_metal", "amd_rocm"}

Tier(m) ==
  LET gpu == GpuType(m) IN
  IF gpu \in Discrete /\ Vram(m) >= 60 THEN "high_gpu"
  ELSE IF gpu \in Discrete /\ Vram(m) >= 20 THEN "mid_gpu"
  ELSE IF gpu = "intel_igpu" THEN "igpu"
  ELSE IF m.cores >= 8 /\ m.ram >= 80 THEN "high_cpu"
  ELSE IF m.cores >= 4 /\ m.ram >= 40 THEN "mid_cpu"
  ELSE "low"
-------------------------------------------------------------------------------
(* Configuration *)

CpuProviders == <<"CPU">>

GpuProviders(m) ==
  CASE GpuType(m) = "nvidia_cuda" -> <<"CUDA", "CPU">>
    [] GpuType(m) = "apple_metal" -> <<"CoreML", "CPU">>
    [] GpuType(m) = "amd_rocm" -> <<"ROCM", "CPU">>
    [] OTHER -> CpuProviders

Providers(m) ==
  IF Tier(m) \in {"high_gpu", "mid_gpu"} THEN GpuProviders(m)
  ELSE IF Tier(m) = "igpu" THEN <<"OpenVINO", "CPU">>
  ELSE CpuProviders

\* Mutant: one core fewer than there are, even of one.
CpuThreadsBare(m) == m.cores - 1

CpuThreads(m) == AtLeast(m.cores - 1, 1)

InterThreads(m) == AtLeast(CpuThreads(m) \div 2, 1)

Engine(det, batch, workers, threads, skip, jpeg) ==
  [det |-> det, batch |-> batch, workers |-> workers, threads |-> threads, skip |-> skip,
   jpeg |-> jpeg]

OptimalConfig(m) ==
  CASE Tier(m) = "high_gpu" -> Engine(640, 16, 4, 2, 1, 90)
    [] Tier(m) = "mid_gpu" -> Engine(480, 4, 2, 1, 1, 85)
    [] Tier(m) = "igpu" -> Engine(480, 2, 2, 1, 2, 80)
    [] Tier(m) = "high_cpu" ->
         Engine(480, 4, AtLeast(m.cores \div 2, 2), AtLeast(m.cores \div 2, 1), 2, 80)
    [] Tier(m) = "mid_cpu" -> Engine(320, 2, 2, 1, 3, 75)
    [] Tier(m) = "low" -> Engine(320, 1, 1, 1, 4, 70)

ProfileOf(m) ==
  [machine |-> m, gpu |-> GpuType(m), tier |-> Tier(m), providers |-> Providers(m),
   engine |-> OptimalConfig(m), cpuThreads |-> CpuThreads(m), interThreads |-> InterThreads(m)]

HardwareInit == profile = NoProfile

\* get_hardware_profile: detected once, by the first that asks.
Detect == profile = NoProfile /\ \E m \in Machine : profile' = ProfileOf(m)

HardwareNext == Detect
HardwareSpec == HardwareInit /\ [][HardwareNext]_profile
-------------------------------------------------------------------------------
(* Properties *)

\* The engine can always run: the processor is its last resort, an accelerator comes first
\* only in the tiers of a GPU and where onnxruntime offers it (but for ROCm, which is taken
\* from a directory), and the processor is asked for some threads, never for more than it has.
EngineRuns ==
  profile # NoProfile =>
    LET p == profile.providers
        m == profile.machine
    IN  /\ p[Len(p)] = "CPU"
        /\ Len(p) = 2 => Offers(m, p[1]) \/ p[1] = "ROCM"
        /\ Len(p) = 2 <=> profile.tier \in {"high_gpu", "mid_gpu", "igpu"}
        /\ profile.cpuThreads \in 1..m.cores
        /\ Len(p) = 1 => profile.engine.threads \in 1..m.cores
        /\ profile.interThreads \in 1..profile.cpuThreads

Weaker(m, n) == \* n is m with less memory or fewer cores
  /\ n.cores <= m.cores /\ n.ram <= m.ram
  /\ \A f \in {"vram", "platform", "arm", "rocm", "installed", "providers"} : n[f] = m[f]

\* A bigger machine of the same kind gets no smaller work: adding cores or memory never
\* takes anything from the batch, the workers and the resolution, nor makes it skip frames.
BiggerIsNoSlower ==
  profile # NoProfile =>
    \A n \in {x \in Machine : Weaker(profile.machine, x)} :
      LET less == OptimalConfig(n)
      IN  /\ less.batch <= profile.engine.batch /\ less.det <= profile.engine.det
          /\ less.workers <= profile.engine.workers /\ profile.engine.skip <= less.skip

\* Every machine gets a configuration it can run, growing with it (tier, optimal_config).
ProfileSound == EngineRuns /\ BiggerIsNoSlower
===============================================================================
