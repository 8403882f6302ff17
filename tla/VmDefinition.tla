---------------------------- MODULE VmDefinition ----------------------------
(***************************************************************************)
(* How a manifest becomes the definition of a VM (src/src/vm.rs).  The     *)
(* first apply builds a definition, every later one patches what libvirt   *)
(* has: each device of the manifest is matched with a device of the        *)
(* definition, the others are added, a device that the manifest marks      *)
(* absent is removed, and the settings are rewritten, all of it or none.   *)
(* The HTTP API changes disks and trays by dumping the definition as a     *)
(* manifest, editing it and applying it.                                   *)
(*                                                                         *)
(* All disks are on the virtio-scsi bus, whose target names sda, sdb, ...  *)
(* they share with the trays; a target is the number of its name.          *)
(***************************************************************************)
EXTENDS FiniteSets, Integers, Sequences, VmInterfaces

CONSTANTS
  DiskIds,     \* disks[].id that people and attach_managed_image make up
  TrayIds,     \* cdroms[].id
  NicIds,      \* interfaces[].id
  Paths,       \* files that hold disks
  NoTarget,    \* no target in the manifest
  NoList,      \* no list of trays in the manifest
  NoFile,      \* nothing has been applied
  GivenMac,    \* a MAC address that people ask for
  Existing,    \* whether another program may have made the first definition
  Focuses,     \* bound: the sets of fields that a user's files change
  MaxEntries,  \* bound: disks, trays or interfaces in a manifest
  MaxTarget    \* bound: the last target a manifest asks for

ASSUME VmDefinitionAssumption ==
  /\ \A none \in {NoId, Foreign} :
       none \notin DiskIds \union TrayIds \union NicIds \union {Primary} \union [derivedFrom : Nat]
                   \union [derivedFrom : [madeFor : Nat] \union {GivenMac}]
  /\ None \notin [madeFor : Nat] \union {GivenMac}
  /\ GivenMac \notin [madeFor : Nat]
  /\ NoTarget \notin Nat
  /\ {MaxEntries, MaxTarget} \subseteq Nat
  /\ Existing \in BOOLEAN

VARIABLES
  defined,   \* whether libvirt has the VM
  disks,     \* the <disk device='disk'> elements of its definition
  trays,     \* the <disk device='cdrom'> elements
  nics,      \* the <interface> elements
  settings,  \* the rest of the definition
  focus,     \* the fields that the files of this behaviour change
  applied    \* history: the manifest of the step that led here, or NoFile

vars == <<defined, disks, trays, nics, settings, focus, applied>>

Targets(devices) == {d.target : d \in devices}

\* The id a disk or a tray has in a dump: the one in its alias, if it is qtr's.
Id(d) == IF d.alias \in {NoId, Foreign} THEN DerivedId(d.target) ELSE d.alias

-----------------------------------------------------------------------------
(* Manifests.                                                               *)

TrayList(m) == IF m.trays = NoList THEN <<>> ELSE m.trays

\* Targets for devices, some of which want a certain one: those that do not get
\* what is left.
Fill(wanted, taken) ==
  LET asked == {wanted[i] : i \in DOMAIN wanted} \ {NoTarget}
      Turn(i) == Cardinality({k \in 1 .. i : wanted[k] = NoTarget})
  IN [i \in DOMAIN wanted |-> IF wanted[i] # NoTarget THEN wanted[i]
                              ELSE Free(taken \union asked, Turn(i))]

Clash(wanted, taken) ==
  \E i \in DOMAIN wanted :
    /\ wanted[i] # NoTarget
    /\ wanted[i] \in taken \union {wanted[k] : k \in 1 .. i - 1}

Wanted(list) == [i \in DOMAIN list |-> list[i].target]

\* assign_manifest_cdrom_targets looks at the manifest only ...
AssignedTrayTargets(m) == Fill(Wanted(PresentEntries(TrayList(m))), {})

\* ... and so does assign_manifest_disk_targets, which goes through the disks
\* in order and gives the i-th at least the i-th name.
AssignedDiskTargets(m) ==
  LET list == PresentEntries(m.disks)
      onTrays == Values(AssignedTrayTargets(m))
      assigned[i \in DOMAIN list] ==
        LET taken == onTrays \union {assigned[k] : k \in 1 .. i - 1}
        IN IF list[i].target # NoTarget THEN list[i].target
           ELSE Nth((i - 1 .. i + Cardinality(taken)) \ taken, 1)
  IN assigned

\* What validate_manifest says of disks and trays.
ValidDevices(m) ==
  LET list == PresentEntries(m.disks)
      onTrays == Values(AssignedTrayTargets(m))
      assigned == AssignedDiskTargets(m)
  IN /\ m.disks # <<>>
     /\ IdsDiffer(m.disks)
     /\ \A i \in DOMAIN list :
          list[i].target \notin onTrays \union {assigned[k] : k \in 1 .. i - 1}
     /\ IdsDiffer(TrayList(m))
     /\ ~Clash(Wanted(PresentEntries(TrayList(m))), {})

\* validate_manifest, and the test of the boot order that its callers make.
Valid(m) ==
  /\ ValidDevices(m)
  /\ ValidSettings(m.settings)
  /\ ValidInterfaces(m.nics)
  /\ Bootable(m.settings, PresentEntries(TrayList(m)) # <<>>)

-----------------------------------------------------------------------------
(* patch_domain_xml.                                                        *)

Kept(list, devices) == {d \in devices : Id(d) \notin AbsentIds(list)}

\* An id marked absent that two devices have is refused.
RemovalIsClear(list, devices) ==
  \A d, e \in devices \ Kept(list, devices) : Id(d) = Id(e) => d = e

BugMatchDisk(e, unused) ==
  {d \in unused : Id(d) = e.id \/ d.target = e.target}

\* find_domain_disk_match: by id, else by target, else by path.
MatchDisk(e, unused) ==
  LET byId == {d \in unused : Id(d) = e.id}
      byTarget == {d \in unused : d.target = e.target}
  IN IF e.id # NoId /\ byId # {} THEN byId
     ELSE IF e.target # NoTarget /\ byTarget # {} THEN byTarget
     ELSE {d \in unused : d.path = e.path}

MatchTray(e, unused) == {d \in unused : Id(d) = e.id \/ d.target = e.target}

\* The devices that match each entry, out of those that the entries before it
\* have not used.
DiskMatches(m) ==
  LET list == PresentEntries(m.disks)
      match[i \in DOMAIN list] ==
        MatchDisk(list[i], Kept(m.disks, disks) \ UNION {match[k] : k \in 1 .. i - 1})
  IN match

TrayMatches(m) ==
  LET list == PresentEntries(TrayList(m))
      match[i \in DOMAIN list] ==
        MatchTray(list[i], Kept(TrayList(m), trays) \ UNION {match[k] : k \in 1 .. i - 1})
  IN match

BugRequested(list, match) == Wanted(list)

\* A matched device stays where it is unless the entry says otherwise.
Requested(list, match) ==
  [i \in DOMAIN list |->
     IF list[i].target = NoTarget /\ match[i] # {} THEN The(match[i]).target
     ELSE list[i].target]

\* What disks have to leave to trays: the targets of the trays of the definition
\* and those the manifest alone would give to its trays.
ReservedForTrays(m) == Targets(trays) \union Values(AssignedTrayTargets(m))

\* The trays that no entry of the manifest is about stay.
OtherTrays(m, match) == Kept(TrayList(m), trays) \ UNION Values(match)

\* What trays have to leave: the disks as they were, and the other trays.
TakenFromTrays(m, match) == Targets(disks) \union Targets(OtherTrays(m, match))

\* merge_disk_xml and merge_cdrom_xml rewrite what the manifest manages and copy
\* the rest of the element.
MergedDisk(d, e, target) ==
  [d EXCEPT !.alias = MergedAlias(@, e.id), !.path = e.path, !.target = target]
MergedTray(d, e, target) ==
  [d EXCEPT !.alias = MergedAlias(@, e.id), !.target = target]

\* build_disk_xml and build_cdrom_xml
NewDisk(node, e, target) ==
  [node |-> node, alias |-> e.id, path |-> e.path, target |-> target]
NewTray(node, e, target) ==
  [node |-> node, alias |-> e.id, target |-> target]

NewNode(k) == Free(Nodes(disks \union trays), k)

PatchedDisks(m) ==
  LET list == PresentEntries(m.disks)
      match == DiskMatches(m)
      target == Fill(Requested(list, match), ReservedForTrays(m))
  IN {IF match[i] = {} THEN NewDisk(NewNode(i), list[i], target[i])
      ELSE MergedDisk(The(match[i]), list[i], target[i]) : i \in DOMAIN list}

PatchedTrays(m) ==
  LET list == PresentEntries(TrayList(m))
      match == TrayMatches(m)
      target == Fill(Requested(list, match), TakenFromTrays(m, match))
  IN {IF match[i] = {} THEN NewTray(NewNode(Len(m.disks) + i), list[i], target[i])
      ELSE MergedTray(The(match[i]), list[i], target[i]) : i \in DOMAIN list}
     \union OtherTrays(m, match)

\* validate_implicit_disk_identities
ImplicitDisksDiffer(list) ==
  \A i, k \in DOMAIN list :
    /\ i # k
    /\ list[i].target = NoTarget
    /\ list[k].target = NoTarget
    => list[i].path # list[k].path

BugDisksPatchable(m) ==
  LET list == PresentEntries(m.disks)
      match == DiskMatches(m)
  IN /\ RemovalIsClear(m.disks, disks)
     /\ Unambiguous(match)
     /\ ~Clash(Requested(list, match), ReservedForTrays(m))

DisksPatchable(m) ==
  LET list == PresentEntries(m.disks)
      match == DiskMatches(m)
  IN /\ ImplicitDisksDiffer(list)
     /\ RemovalIsClear(m.disks, disks)
     /\ Unambiguous(match)
     /\ Kept(m.disks, disks) = UNION Values(match)
     /\ ~Clash(Requested(list, match), ReservedForTrays(m))

TraysPatchable(m) ==
  LET list == PresentEntries(TrayList(m))
      match == TrayMatches(m)
  IN /\ RemovalIsClear(TrayList(m), trays)
     /\ Unambiguous(match)
     /\ ~Clash(Requested(list, match), TakenFromTrays(m, match))

\* validate_unique_domain_disk_targets
TargetsDiffer(devices) ==
  \A d, e \in devices : d.target = e.target => d.node = e.node

\* The definition that a manifest leads to; none if the manifest is refused, by
\* qtr or by libvirt.
Patch(m) ==
  IF /\ Valid(m)
     /\ InContext(m.settings, settings)
     /\ SettingsPatchable(m.settings, settings)
     /\ DisksPatchable(m)
     /\ TraysPatchable(m)
     /\ NicsPatchable(m.nics, nics)
  THEN {r \in {[disks |-> PatchedDisks(m), trays |-> PatchedTrays(m),
                nics |-> NewNics(m.nics, m.network, nics),
                settings |-> PatchedSettings(m.settings, settings)]} :
          /\ TargetsDiffer(r.disks \union r.trays)
          /\ AliasesDiffer(r.disks)
          /\ AliasesDiffer(r.trays)
          /\ AliasesDiffer(Values(r.nics))
          /\ TopologyFits(r.settings)}
  ELSE {}

-----------------------------------------------------------------------------
(* The operations.                                                          *)

\* The XML is changed only if nothing is refused, and then at once.
Reconcile(m) ==
  /\ defined
  /\ \E r \in Patch(m) :
       /\ disks' = r.disks
       /\ trays' = r.trays
       /\ nics' = r.nics
       /\ settings' = r.settings
  /\ applied' = m
  /\ UNCHANGED <<defined, focus>>

\* build_manifest_domain_xml, in qtr vm apply, create_by_manifest and
\* define_new_by_manifest.
Define(m) ==
  LET list == PresentEntries(m.disks)
      tray == PresentEntries(TrayList(m))
      onDisk == AssignedDiskTargets(m)
      onTray == AssignedTrayTargets(m)
  IN /\ ~defined
     /\ Valid(m)
     /\ InContext(m.settings, NothingYet)
     /\ list # <<>>
     /\ TopologyFits(BuiltSettings(m.settings))
     /\ defined' = TRUE
     /\ disks' = {NewDisk(i, list[i], onDisk[i]) : i \in DOMAIN list}
     /\ trays' = {NewTray(Len(list) + i, tray[i], onTray[i]) : i \in DOMAIN tray}
     /\ nics' = BuiltNics(m.nics, m.network)
     /\ settings' = BuiltSettings(m.settings)
     /\ applied' = m
     /\ UNCHANGED focus

Apply(m) == Define(m) \/ Reconcile(m)

\* manifest_from_domain_xml.  The order is that of the document, on which
\* nothing depends, as every entry has an id and a target.
InOrder(devices) ==
  [i \in 1 .. Cardinality(devices) |->
     The({d \in devices : d.target = Nth(Targets(devices), i)})]

DumpDisk(d) == [present |-> TRUE, id |-> Id(d), path |-> d.path, target |-> d.target]
DumpTray(d) == [present |-> TRUE, id |-> Id(d), target |-> d.target]

Dump ==
  [disks |-> [i \in 1 .. Cardinality(disks) |-> DumpDisk(InOrder(disks)[i])],
   trays |-> IF trays = {} THEN NoList
             ELSE [i \in 1 .. Cardinality(trays) |-> DumpTray(InOrder(trays)[i])],
   nics |-> DumpNics(nics),
   network |-> DefaultNetwork.name,
   settings |-> DumpSettings(settings)]

\* attach_managed_image makes up an id and leaves the target open.
WithDisk(id, path) ==
  [Dump EXCEPT !.disks = Append(@, [present |-> TRUE, id |-> id, path |-> path,
                                    target |-> NoTarget])]

AttachImage(path) ==
  /\ defined
  /\ path \notin {d.path : d \in disks}
  /\ Cardinality(disks) < MaxEntries
  /\ \E id \in DiskIds \ {d.alias : d \in disks} : Reconcile(WithDisk(id, path))

DetachImage(path) ==
  /\ defined
  /\ Cardinality(disks) > 1
  /\ \E i \in DOMAIN Dump.disks :
       /\ Dump.disks[i].path = path
       /\ Reconcile([Dump EXCEPT !.disks[i] = Absent(@.id)])

\* add_managed_cdrom
WithTray(id) ==
  [Dump EXCEPT !.trays = Append(TrayList(Dump), [present |-> TRUE, id |-> id,
                                                 target |-> NoTarget])]

AddTray(id) ==
  /\ defined
  /\ id \notin {Id(d) : d \in trays}
  /\ Cardinality(trays) < MaxEntries
  /\ Reconcile(WithTray(id))

RemoveTray ==
  /\ defined
  /\ \E i \in DOMAIN TrayList(Dump) :
       Reconcile([Dump EXCEPT !.trays[i] = Absent(@.id)])

\* set_inactive_cdrom_media: the trays and disks of the dump are applied as
\* they are, but now they get their derived ids as aliases.
SetMedia ==
  /\ defined
  /\ trays # {}
  /\ Reconcile(Dump)

-----------------------------------------------------------------------------
(* The manifests that people apply.  Those of a behaviour change the fields *)
(* of its focus: disks and trays, of which they list any; or settings or    *)
(* interfaces, one at a time, in a first file or in a dump.                 *)

AnyTarget == 0 .. MaxTarget \union {NoTarget}
ListsOf(S) == UNION {[1 .. n -> S] : n \in 0 .. MaxEntries}
DiskEntries == [present : {TRUE}, id : DiskIds \union {NoId}, path : Paths, target : AnyTarget]
               \union [present : {FALSE}, id : DiskIds]
TrayEntries == [present : {TRUE}, id : TrayIds, target : AnyTarget]
               \union [present : {FALSE}, id : TrayIds]
TrayLists == {NoList} \union {<<e>> : e \in TrayEntries}

\* The template of vm create, without what is optional.
DefaultSettings ==
  [machine |-> None, boot |-> None, serialLog |-> None, graphics |-> None,
   memory |-> None, memoryGiB |-> 1, vcpus |-> 1, cpu |-> NoCpu,
   threads |-> FALSE, ioThreads |-> None, vcpuTune |-> Keep, numaTune |-> Keep]

FileWith(diskList, trayList) ==
  [disks |-> diskList, trays |-> trayList, settings |-> DefaultSettings,
   nics |-> NoInterfaces, network |-> DefaultNetwork.name]

DeviceFiles ==
  {m \in {FileWith(d, c) : d \in ListsOf(DiskEntries), c \in TrayLists} : Valid(m)}

FirstFile(id, path, tray) ==
  FileWith(<<[present |-> TRUE, id |-> id, path |-> path, target |-> NoTarget]>>,
           <<[present |-> TRUE, id |-> tray, target |-> 1]>>)

Sizes == {1024, 1536}
Counts == 1 .. 2
Optional(S) == S \union {None}

MemoryEdits(s) ==
  {[s EXCEPT !.memory = memory] : memory \in Optional([size : Sizes, max : Optional(Sizes)])}

PlainEdits(s) ==
  {[s EXCEPT !.machine = machine] : machine \in {None, "other"}}
  \union {[s EXCEPT !.boot = boot] : boot \in {None, <<"hd">>, <<"cdrom", "hd">>}}
  \union {[s EXCEPT !.serialLog = log] : log \in {None, "log"}}
  \union {[s EXCEPT !.graphics = vnc] : vnc \in {None, "auto", "port"}}

CpuEdits(s) ==
  {[s EXCEPT !.cpu = cpu] :
     cpu \in [topology : Optional(Counts), vcpus : Optional(Counts),
              features : {Keep} \union SUBSET FeatureNames]}
  \union {[s EXCEPT !.cpu = NoCpu, !.vcpus = vcpus] : vcpus \in Counts}

IoEdits(s) ==
  UNION {{[s EXCEPT !.threads = threads, !.ioThreads = io] : threads \in BOOLEAN} :
           io \in Optional([count : Counts, queues : Optional(Counts)])}

\* The second vCPU, the second IOThread and the first cell are those that may
\* not be there.
TuneEdits(s) ==
  {[s EXCEPT !.vcpuTune = tune] :
     tune \in {Keep, Remove} \union [pins : {{}, {1}}, ioPins : {{}, {2}}]}
  \union {[s EXCEPT !.numaTune = tune] :
     tune \in {Keep, Remove}
              \union [policy : {None, "static", "auto"}, memNodes : {{}, {0}}]}

SettingsEdits(s) ==
  IF focus = "machine" THEN MemoryEdits(s) \union PlainEdits(s)
  ELSE CpuEdits(s) \union IoEdits(s) \union TuneEdits(s)

NewEntry(id, mac, source, vlan) ==
  [present |-> TRUE, id |-> id, mac |-> mac, source |-> source, vlan |-> vlan]

AnySource == {DefaultNetwork, [type |-> "bridge", name |-> "br0"]}

NicEntries ==
  {NewEntry(id, mac, source, vlan) :
     id \in NicIds, mac \in Optional({GivenMac}), source \in AnySource, vlan \in {Keep, 1}}

EditedEntry(e) ==
  {Absent(e.id)}
  \union {[e EXCEPT !.id = id] : id \in NicIds}
  \union {[e EXCEPT !.mac = mac] : mac \in Optional({GivenMac})}
  \union {[e EXCEPT !.source = source] : source \in AnySource}
  \union {[e EXCEPT !.vlan = vlan] : vlan \in {Keep, Remove, 1}}

NicListEdits(list) ==
  {<<e>> : e \in NicEntries}
  \union (IF Len(list) < MaxEntries THEN {Append(list, e) : e \in NicEntries} ELSE {})
  \union {<<e>> \o list : e \in {x \in NicEntries : Len(list) < MaxEntries}}
  \union UNION {{[list EXCEPT ![i] = e] : e \in EditedEntry(list[i])} : i \in DOMAIN list}

\* People give no interface the MAC address of one that they list elsewhere.
MacsAreFree(list) ==
  \A i, k \in DOMAIN Entries(list), nic \in Values(nics) :
    Entries(list)[i].mac = nic.mac /\ Entries(list)[k].id = IdOf(nic) => i = k

InterfaceEdits(m) ==
  {[m EXCEPT !.nics = list] : list \in {l \in NicListEdits(Listed(m.nics)) : MacsAreFree(l)}}
  \union {[m EXCEPT !.nics = NoInterfaces, !.network = "other"]}

\* The same file without what it may leave out.
Sparse(m) ==
  [m EXCEPT
     !.settings = [@ EXCEPT !.machine = None, !.cpu = NoCpu, !.vcpuTune = Keep,
                            !.numaTune = Keep, !.serialLog = None],
     !.nics = [i \in DOMAIN @ |-> [@[i] EXCEPT !.mac = None, !.vlan = Keep]]]

Files ==
  IF defined THEN {Dump, Sparse(Dump)}
  ELSE {FirstFile(id, path, tray) : id \in DiskIds, path \in Paths, tray \in TrayIds}

EditedFiles ==
  UNION {IF focus = "interfaces" THEN InterfaceEdits(m)
         ELSE {[m EXCEPT !.settings = s] : s \in SettingsEdits(m.settings)} : m \in Files}

Edited(e) == {Absent(e.id)}
             \union {[e EXCEPT !.id = id] : id \in DiskIds \union {NoId}}
             \union {[e EXCEPT !.path = path] : path \in Paths}
             \union {[e EXCEPT !.target = target] : target \in AnyTarget}

ApplyFile ==
  \E m \in (IF focus = "devices" THEN DeviceFiles ELSE EditedFiles) : Apply(m)

ApplyEdited ==
  /\ focus = "devices"
  /\ defined
  /\ \E i \in DOMAIN Dump.disks : \E e \in Edited(Dump.disks[i]) :
       Reconcile([Dump EXCEPT !.disks[i] = e])

\* Definitions that other programs make: one disk, at most one tray; guest NUMA,
\* tuning and interfaces that qtr does not make.
OtherDisks == {[node |-> 1, alias |-> a, path |-> p, target |-> 0] : a \in {NoId, Foreign}, p \in Paths}
OtherTray == [node |-> 2, alias |-> Foreign, target |-> 1]
OtherNic(alias) == NewNic(0, NewEntry(alias, GivenMac, DefaultNetwork, 1))
OtherSettings ==
  LET built == BuiltSettings(DefaultSettings)
  IN {[built EXCEPT !.console = log, !.graphics = vnc] :
        log \in {None, "log"}, vnc \in {None, "auto"}}
     \union {[built EXCEPT !.cpu = [topology |-> None, features |-> FeatureNames, cells |-> {0}],
                           !.other = TRUE]}

Other ==
  /\ Existing
  /\ defined = TRUE
  /\ IF focus = "devices"
     THEN /\ \E disk \in OtherDisks : disks = {disk}
          /\ trays \in {{}, {OtherTray}}
          /\ settings = BuiltSettings(DefaultSettings)
     ELSE /\ \E disk \in OtherDisks : disk.alias = Foreign /\ disks = {disk}
          /\ trays = {OtherTray}
          /\ settings \in IF focus = "interfaces" THEN {BuiltSettings(DefaultSettings)}
                          ELSE OtherSettings
  /\ \E alias \in IF focus = "interfaces" THEN {NoId, Foreign} ELSE {NoId} :
       nics = <<OtherNic(alias)>>

Init ==
  /\ applied = NoFile
  /\ focus \in Focuses
  /\ \/ /\ defined = FALSE
        /\ disks = {}
        /\ trays = {}
        /\ nics = <<>>
        /\ settings = BuiltSettings(DefaultSettings)
     \/ Other

Next ==
  \/ ApplyFile
  \/ ApplyEdited
  \/ focus = "devices" /\ \E path \in Paths : AttachImage(path) \/ DetachImage(path)
  \/ focus = "devices" /\ \E id \in TrayIds : AddTray(id)
  \/ focus = "devices" /\ RemoveTray
  \/ SetMedia

Spec == Init /\ [][Next]_vars

-----------------------------------------------------------------------------
(* What has to hold.                                                        *)

Aliases(ids) == ids \union {NoId, Foreign} \union [derivedFrom : Nat]

TypeOK ==
  /\ defined \in BOOLEAN
  /\ \A d \in disks : d.alias \in Aliases(DiskIds) /\ d.path \in Paths
  /\ \A d \in trays : d.alias \in Aliases(TrayIds)
  /\ \A d \in disks \union trays : {d.node, d.target} \subseteq Nat
  /\ Cardinality(Nodes(disks \union trays)) = Cardinality(disks) + Cardinality(trays)
  /\ disks \union trays # {} => defined

\* A definition refers to nothing twice and to nothing that is not there: no two
\* disks or trays are at one target, although each kind is planned from what the
\* other was before, no two interfaces have one MAC address, and what is pinned
\* or placed exists, whether the manifest said so or left it as it was.
DefinitionIsSound ==
  /\ TypeOK
  /\ \A d, e \in disks \union trays : d.target = e.target => d.node = e.node
  /\ \A i, k \in DOMAIN nics : nics[i].mac = nics[k].mac => i = k
  /\ PlacementExists(settings)

\* A device leaves the definition only when the manifest names it as absent:
\* leaving it out is not enough, and neither is reusing its path or target.
LeavesOnlyWhenNamed ==
  [][/\ \A d \in disks : d.node \in Nodes(disks') \/ Id(d) \in AbsentIds(applied'.disks)
     /\ \A d \in trays : d.node \in Nodes(trays') \/ Id(d) \in AbsentIds(TrayList(applied'))
     /\ \A nic \in Values(nics) :
          nic.node \in Nodes(Values(nics')) \/ IdOf(nic) \in AbsentIds(Listed(applied'.nics))]_vars

\* What the manifest leaves open is kept: the target of a device, an alias that is
\* not qtr's, the fields of an interface, settings, and what it cannot mention.
OpenIsKept ==
  [][defined =>
       /\ \A d \in disks \union trays, e \in (disks \union trays)' :
            d.node = e.node =>
              /\ d.target = e.target
                   \/ e.target \in Values(Wanted(PresentEntries(applied'.disks)
                                                 \o PresentEntries(TrayList(applied'))))
              /\ d.alias = Foreign <=> e.alias = Foreign
       /\ OpenNicsKept(applied'.nics, nics, nics')
       /\ OpenSettingsKept(applied'.settings, settings, settings')]_vars

\* Every present entry has a disk of its own, with what the entry says, or an
\* interface, and a dump says of the settings what the manifest said.
ManifestRealised ==
  [][LET list == PresentEntries(applied'.disks)
     IN /\ Cardinality(disks') = Len(list)
        /\ \A i \in DOMAIN list :
             \E d \in disks' :
               /\ d.path = list[i].path
               /\ list[i].target \in {NoTarget, d.target}
               /\ list[i].id # NoId => d.alias \in {list[i].id, Foreign}
        /\ NicsRealised(applied'.nics, nics')
        /\ Repeats(DumpSettings(settings'), applied'.settings, settings'.controller)]_vars

\* Applying the same manifest again is accepted and changes nothing, if its paths
\* differ; but see ThreadsAreMapped.
SameDevices(S, T) ==
  {[d EXCEPT !.node = 0] : d \in S} = {[d EXCEPT !.node = 0] : d \in T}

Settled ==
  LET list == PresentEntries(applied.disks)
      pathsDiffer == \A i, k \in DOMAIN list : list[i].path = list[k].path => i = k
  IN pathsDiffer =>
       \E r \in Patch(applied) :
         /\ SameDevices(r.disks, disks)
         /\ SameDevices(r.trays, trays)
         /\ r.nics = nics
         /\ r.settings = [settings EXCEPT !.controller = r.settings.controller]

ApplyIsSettled == [][Settled']_vars

\* The id is the identity of a disk: while manifests name it, it is the id of
\* the same device of the guest.
StableIdentity ==
  [][\A d \in disks, e \in disks' :
       d.alias \in DiskIds /\ d.alias = e.alias => d.node = e.node]_vars

\* io.mode threads attaches the disks of a virtio-scsi controller to the map of
\* IOThreads.
ThreadsAreMapped == defined /\ settings.io => settings.controller # None

=============================================================================
