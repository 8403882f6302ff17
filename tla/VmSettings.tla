----------------------------- MODULE VmSettings -----------------------------
(***************************************************************************)
(* What a definition says beside its disks and trays (src/src/vm.rs): how  *)
(* settings and network interfaces are validated, built, patched into what *)
(* libvirt has, and dumped.  There is no state here: VmDefinition applies  *)
(* manifests to a definition with these operators.                         *)
(*                                                                         *)
(* A definition's settings are a record of                                 *)
(*   machine, boot, console, graphics                                      *)
(*   maxMemory, currentMemory in MiB; libvirt shows both, in KiB, and the  *)
(*     code writes each in the unit it finds                               *)
(*   vcpus; cpu: NoCpu or [topology, features, cells], where a topology is *)
(*     the number of vCPUs it makes and cells are those of guest NUMA      *)
(*   io: whether a disk has io mode threads; iothreads: how many there are *)
(*     (0: no element); controller: the map of the virtio-scsi controller  *)
(*   pins, ioPins, other: the vCPUs and IOThreads that <cputune> pins, and *)
(*     what else it holds; policy, memNodes: the same of <numatune>        *)
(* A manifest's settings have the fields with which the code updates them. *)
(***************************************************************************)
EXTENDS FiniteSets, Integers, Sequences

CONSTANTS
  Keep,     \* a field that the manifest leaves out
  Remove,   \* a field that the manifest sets to null
  None,     \* an optional value that is not there
  NoCpu,    \* no cpu in the manifest, no <cpu> in the definition
  DefaultMachine

\* The CPU features that there are.
FeatureNames == {"f"}

\* The values for "none" are none of the values there are.
ASSUME VmSettingsAssumption ==
  /\ Keep # Remove
  /\ None \notin Nat
  /\ None \notin [count : Nat, queues : Nat \union {None}]
  /\ NoCpu \notin [topology : Nat \union {None}, features : SUBSET FeatureNames, cells : SUBSET Nat]
  /\ NoCpu \notin [topology : Nat \union {None}, vcpus : Nat \union {None}, features : SUBSET FeatureNames]

\* memoryGiB where the manifest has no memory.
MiBPerGiB == 1024

-----------------------------------------------------------------------------
(* Manifests.                                                               *)

EffectiveMemory(s) ==
  IF s.memory = None THEN [size |-> s.memoryGiB * MiBPerGiB, max |-> None]
  ELSE s.memory

MaxMemory(memory) == IF memory.max = None THEN memory.size ELSE memory.max

EffectiveVcpus(s) ==
  CASE s.cpu = NoCpu -> s.vcpus
    [] s.cpu # NoCpu /\ s.cpu.topology # None -> s.cpu.topology
    [] OTHER -> s.cpu.vcpus

EffectiveBoot(s) == IF s.boot = None THEN <<"hd">> ELSE s.boot

Given(field) == field \notin {Keep, Remove}

ValidMemory(s) ==
  LET memory == EffectiveMemory(s) IN memory.size > 0 /\ MaxMemory(memory) >= memory.size

\* validate_vcpu_tune, with the preserved pins as validate_manifest_domain_context
\* takes them from the definition.
PinsExist(pins, ioPins, s) ==
  /\ \A vcpu \in pins : vcpu < EffectiveVcpus(s)
  /\ ioPins # {} => s.ioThreads # None
  /\ \A thread \in ioPins : thread \in 1 .. s.ioThreads.count

ValidNumaTune(tune) ==
  Given(tune) => ~(tune.policy = "auto" /\ tune.memNodes # {})

\* Either the topology says how many vCPUs there are or the manifest does.
ValidCpu(s) ==
  /\ s.cpu # NoCpu => Cardinality({s.cpu.topology, s.cpu.vcpus} \ {None}) = 1
  /\ EffectiveVcpus(s) > 0

\* io mode threads and ioThreads need each other.
ValidIoThreads(s) ==
  /\ s.threads = (s.ioThreads # None)
  /\ s.ioThreads # None => s.ioThreads.count > 0 /\ s.ioThreads.queues # 0

\* validate_manifest
ValidSettings(s) ==
  /\ ValidMemory(s)
  /\ ValidCpu(s)
  /\ ValidIoThreads(s)
  /\ ValidNumaTune(s.numaTune)

BugInContext(s, old) ==
  Given(s.vcpuTune) => PinsExist(s.vcpuTune.pins, s.vcpuTune.ioPins, s)

Cells(old) == IF old.cpu = NoCpu THEN {} ELSE old.cpu.cells

\* What a new VM has before: nothing to preserve.
NothingYet == [cpu |-> NoCpu, pins |-> {}, ioPins |-> {}]

\* validate_manifest_domain_context
InContext(s, old) ==
  /\ Given(s.vcpuTune) => PinsExist(s.vcpuTune.pins, s.vcpuTune.ioPins, s)
  /\ s.vcpuTune = Keep => PinsExist(old.pins, old.ioPins, s)
  /\ Given(s.numaTune) => s.numaTune.memNodes \subseteq Cells(old)

\* The caller's test of the boot order.
Bootable(s, hasTray) == "cdrom" \in {EffectiveBoot(s)[i] : i \in DOMAIN EffectiveBoot(s)} => hasTray

-----------------------------------------------------------------------------
(* The XML.                                                                 *)

IoMap(ioThreads) ==
  [count |-> ioThreads.count,
   queues |-> IF ioThreads.queues = None THEN ioThreads.count ELSE ioThreads.queues]

Features(cpu) == IF cpu.features = Keep THEN {} ELSE cpu.features

BuiltCpu(cpu) ==
  IF cpu = NoCpu THEN NoCpu
  ELSE [topology |-> cpu.topology, features |-> Features(cpu), cells |-> {}]

\* patch_cpu: the topology is replaced or goes, features stay if the manifest
\* has none, all that the manifest does not manage stays.
PatchedCpu(cpu, old) ==
  IF cpu = NoCpu \/ old = NoCpu THEN IF cpu = NoCpu THEN old ELSE BuiltCpu(cpu)
  ELSE [topology |-> cpu.topology,
        features |-> IF cpu.features = Keep THEN old.features ELSE cpu.features,
        cells |-> old.cells]

\* The pins and the placement that a manifest's value stands for.
VcpuPlacement(tune) == IF Given(tune) THEN tune ELSE [pins |-> {}, ioPins |-> {}]
NumaPlacement(tune) == IF Given(tune) THEN tune ELSE [policy |-> None, memNodes |-> {}]

IoThreadCount(s) == IF s.ioThreads = None THEN 0 ELSE s.ioThreads.count

\* build_vm_launch_domain_xml.  The disks of a new definition carry no IOThreads
\* on the virtio-scsi bus, so its controller gets no map.
BuiltSettings(s) ==
  LET memory == EffectiveMemory(s)
      tune == VcpuPlacement(s.vcpuTune)
      numa == NumaPlacement(s.numaTune)
  IN [machine       |-> IF s.machine = None THEN DefaultMachine ELSE s.machine,
      boot          |-> EffectiveBoot(s),
      console       |-> s.serialLog,
      graphics      |-> s.graphics,
      maxMemory     |-> MaxMemory(memory),
      currentMemory |-> memory.size,
      vcpus         |-> EffectiveVcpus(s),
      cpu           |-> BuiltCpu(s.cpu),
      io            |-> s.threads,
      iothreads     |-> IoThreadCount(s),
      controller    |-> None,
      pins          |-> tune.pins,
      ioPins        |-> tune.ioPins,
      other         |-> FALSE,
      policy        |-> numa.policy,
      memNodes      |-> numa.memNodes]

\* patch_graphics and patch_serial_log change what is there and add nothing.
SettingsPatchable(s, old) ==
  /\ (s.graphics = None) = (old.graphics = None)
  /\ s.serialLog # None => old.console # None

PatchedMachine(s, old) == IF s.machine = None THEN old.machine ELSE s.machine
PatchedSerialLog(s, old) == IF s.serialLog = None THEN old.console ELSE s.serialLog

PatchedMemory(s, old) ==
  LET memory == EffectiveMemory(s)
  IN [old EXCEPT !.maxMemory = MaxMemory(memory), !.currentMemory = memory.size]

\* patch_virtio_scsi_controller replaces the controller as a whole.
Controller(s) == IF s.threads THEN IoMap(s.ioThreads) ELSE None

\* merge_tuning_xml: the managed children become those of the manifest, the
\* others stay.
PatchedVcpuTune(s, old) ==
  LET tune == VcpuPlacement(s.vcpuTune)
  IN IF s.vcpuTune = Keep THEN old
     ELSE [old EXCEPT !.pins = tune.pins, !.ioPins = tune.ioPins]

PatchedNumaTune(s, old) ==
  LET tune == NumaPlacement(s.numaTune)
  IN IF s.numaTune = Keep THEN old
     ELSE [old EXCEPT !.policy = tune.policy, !.memNodes = tune.memNodes]

PatchedSettings(s, old) ==
  [PatchedNumaTune(s, PatchedVcpuTune(s, PatchedMemory(s, old))) EXCEPT
     !.machine = PatchedMachine(s, old),
     !.boot = EffectiveBoot(s),
     !.console = PatchedSerialLog(s, old),
     !.graphics = s.graphics,
     !.vcpus = EffectiveVcpus(s),
     !.cpu = PatchedCpu(s.cpu, @),
     !.io = s.threads,
     !.iothreads = IoThreadCount(s),
     !.controller = Controller(s)]

\* libvirt refuses a topology that does not make the vCPUs there are.
TopologyFits(settings) ==
  settings.cpu # NoCpu => settings.cpu.topology \in {None, settings.vcpus}

-----------------------------------------------------------------------------
(* manifest_from_domain_xml.                                                *)

DumpCpu(old) ==
  IF old.cpu = NoCpu THEN NoCpu
  ELSE [topology |-> old.cpu.topology,
        vcpus    |-> IF old.cpu.topology = None THEN old.vcpus ELSE None,
        features |-> old.cpu.features]

\* Queues are dumped only if they are not what the count gives.
DumpIoThreads(old) ==
  IF old.iothreads = 0 THEN None
  ELSE [count  |-> old.iothreads,
        queues |-> IF old.controller = None \/ old.controller.queues = old.iothreads
                   THEN None ELSE old.controller.queues]

DumpVcpuTune(old) ==
  IF old.pins \union old.ioPins = {} THEN Keep
  ELSE [pins |-> old.pins, ioPins |-> old.ioPins]

DumpNumaTune(old) ==
  IF old.policy = None /\ old.memNodes = {} THEN Keep
  ELSE [policy |-> old.policy, memNodes |-> old.memNodes]

\* memory_from_domain_xml
DumpMemory(old) ==
  [size |-> old.currentMemory,
   max |-> IF old.maxMemory = old.currentMemory THEN None ELSE old.maxMemory]

DumpSettings(old) ==
  [machine   |-> old.machine,
   boot      |-> old.boot,
   serialLog |-> old.console,
   graphics  |-> old.graphics,
   memory    |-> DumpMemory(old),
   memoryGiB |-> old.currentMemory \div MiBPerGiB,
   vcpus     |-> old.vcpus,
   cpu       |-> DumpCpu(old),
   threads   |-> old.io,
   ioThreads |-> DumpIoThreads(old),
   vcpuTune  |-> DumpVcpuTune(old),
   numaTune  |-> DumpNumaTune(old)]

-----------------------------------------------------------------------------
(* What a manifest says and what it leaves open.                            *)

\* The dump of a definition repeats what the manifest said; the queues of a new
\* definition are not in it, as it has no map.
Repeats(dump, s, map) ==
  /\ s.machine \in {None, dump.machine}
  /\ dump.boot = EffectiveBoot(s)
  /\ s.serialLog \in {None, dump.serialLog}
  /\ dump.graphics = s.graphics
  /\ dump.memory.size = EffectiveMemory(s).size
  /\ MaxMemory(dump.memory) = MaxMemory(EffectiveMemory(s))
  /\ EffectiveVcpus(dump) = EffectiveVcpus(s)
  /\ s.cpu # NoCpu =>
       dump.cpu.topology = s.cpu.topology /\ s.cpu.features \in {Keep, dump.cpu.features}
  /\ dump.threads = s.threads
  /\ dump.ioThreads = None <=> s.ioThreads = None
  /\ map # None => IoMap(dump.ioThreads) = IoMap(s.ioThreads)
  /\ s.vcpuTune = Remove => dump.vcpuTune = Keep
  /\ Given(s.vcpuTune) =>
       dump.vcpuTune = IF s.vcpuTune.pins \union s.vcpuTune.ioPins = {} THEN Keep ELSE s.vcpuTune
  /\ s.numaTune = Remove => dump.numaTune = Keep
  /\ Given(s.numaTune) =>
       dump.numaTune = IF s.numaTune.policy = None /\ s.numaTune.memNodes = {} THEN Keep
                       ELSE s.numaTune

\* What the manifest does not mention, and what it cannot mention, is kept.
OpenSettingsKept(s, old, new) ==
  /\ s.machine = None => new.machine = old.machine
  /\ s.serialLog = None => new.console = old.console
  /\ s.cpu = NoCpu => new.cpu = old.cpu
  /\ old.cpu # NoCpu => new.cpu.cells = old.cpu.cells
  /\ old.cpu # NoCpu /\ s.cpu # NoCpu /\ s.cpu.features = Keep =>
       new.cpu.features = old.cpu.features
  /\ s.vcpuTune = Keep => new.pins = old.pins /\ new.ioPins = old.ioPins
  /\ s.numaTune = Keep => new.policy = old.policy /\ new.memNodes = old.memNodes
  /\ new.other = old.other

\* What is pinned, or placed, exists: the vCPUs, the IOThreads and the guest
\* NUMA cells of the same definition.
PlacementExists(settings) ==
  /\ \A vcpu \in settings.pins : vcpu < settings.vcpus
  /\ settings.ioPins \subseteq 1 .. settings.iothreads
  /\ settings.memNodes \subseteq Cells(settings)
  /\ settings.controller # None => settings.controller.count = settings.iothreads

=============================================================================
