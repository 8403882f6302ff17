---------------------------- MODULE VmInterfaces ----------------------------
(***************************************************************************)
(* The network interfaces of a definition (src/src/vm.rs): how a manifest  *)
(* is validated, built and matched with what libvirt has.  VmDefinition    *)
(* applies manifests with these operators.                                 *)
(*                                                                         *)
(* A definition's interfaces are a sequence, in the order of the document. *)
(* A vlan stands for the fields that a manifest may leave out, set to null *)
(* or give: vlan, mtu, link and the mode of a direct interface.            *)
(***************************************************************************)
EXTENDS VmEntries, VmSettings

CONSTANTS
  NoInterfaces,   \* no list of interfaces in the manifest
  Primary         \* the id of the one interface of such a manifest

DefaultNetwork == [type |-> "network", name |-> "default"]

IdOf(nic) == IF nic.alias \in {NoId, Foreign} THEN DerivedId(nic.mac) ELSE nic.alias

Listed(list) == IF list = NoInterfaces THEN <<>> ELSE list
Entries(list) == PresentEntries(Listed(list))

MacsDiffer(list) ==
  \A i, k \in DOMAIN list : i # k /\ list[i].mac = list[k].mac => list[i].mac = None

\* validate_interfaces
ValidInterfaces(list) ==
  /\ IdsDiffer(Listed(list))
  /\ MacsDiffer(Entries(list))
  /\ \A i \in DOMAIN Entries(list) :
       LET e == Entries(list)[i] IN Given(e.vlan) => e.source.type = "bridge"

\* libvirt makes up a MAC address for an interface that has none.
Mac(e, node) == IF e.mac = None THEN [madeFor |-> node] ELSE e.mac

\* build_interface_xml
NewNic(node, e) ==
  [node |-> node, alias |-> e.id, mac |-> Mac(e, node), source |-> e.source,
   vlan |-> IF Given(e.vlan) THEN e.vlan ELSE None]

\* What becomes of a field that the manifest may leave out, set to null or give.
MergedField(old, field) ==
  CASE field = Keep -> old
    [] field = Remove -> None
    [] OTHER -> field

\* merge_interface_xml
MergedNic(nic, e) ==
  [nic EXCEPT
     !.alias = MergedAlias(@, e.id),
     !.mac = IF e.mac = None THEN @ ELSE e.mac,
     !.source = e.source,
     !.vlan = MergedField(@, e.vlan)]

LegacyEntry(network) ==
  [present |-> TRUE, id |-> Primary, mac |-> None, vlan |-> Keep,
   source |-> [type |-> "network", name |-> network]]

\* The interfaces of a new definition.
BuiltNics(list, network) ==
  LET present == IF list = NoInterfaces THEN <<LegacyEntry(network)>> ELSE Entries(list)
  IN [i \in DOMAIN present |-> NewNic(i - 1, present[i])]

\* By id, or by the MAC address if the entry has one.
MatchNic(e, unused) ==
  {nic \in unused : IdOf(nic) = e.id \/ (e.mac # None /\ nic.mac = e.mac)}

AbsentNics(list, nics) == {nic \in Values(nics) : IdOf(nic) \in AbsentIds(list)}

NicMatches(list, nics) ==
  LET match[i \in DOMAIN Entries(list)] ==
        MatchNic(Entries(list)[i],
                 (Values(nics) \ AbsentNics(list, nics)) \ UNION {match[k] : k \in 1 .. i - 1})
  IN match

\* A device with one of qtr's aliases has to be mentioned.
Unmentioned(list, nics) ==
  {nic \in (Values(nics) \ AbsentNics(list, nics)) \ UNION Values(NicMatches(list, nics)) :
     nic.alias \notin {NoId, Foreign}}

NetworkNics(nics) == {k \in DOMAIN nics : nics[k].source.type = "network"}

NicsPatchable(list, nics) ==
  IF list = NoInterfaces THEN NetworkNics(nics) # {}
  ELSE /\ \A nic, other \in AbsentNics(list, nics) : IdOf(nic) = IdOf(other) => nic = other
       /\ Unambiguous(NicMatches(list, nics))
       /\ Unmentioned(list, nics) = {}

\* patch_network: the first interface that is on a network.
MovedToNetwork(nics, network) ==
  LET first == CHOOSE k \in NetworkNics(nics) : \A other \in NetworkNics(nics) : k <= other
  IN [nics EXCEPT ![first].source.name = network]

\* patch_interfaces: those that stay are rewritten in their place, new ones go to
\* the end.
PatchedNics(list, nics) ==
  LET match == NicMatches(list, nics)
      EntryOf(nic) == {i \in DOMAIN match : nic \in match[i]}
      stay == Picked(nics, {k \in DOMAIN nics : nics[k] \notin AbsentNics(list, nics)})
      added == Picked(Entries(list), {i \in DOMAIN match : match[i] = {}})
  IN [k \in DOMAIN stay |->
        IF EntryOf(stay[k]) = {} THEN stay[k]
        ELSE MergedNic(stay[k], Entries(list)[The(EntryOf(stay[k]))])]
     \o [k \in DOMAIN added |-> NewNic(Free(Nodes(Values(nics)), k), added[k])]

NewNics(list, network, nics) ==
  IF list = NoInterfaces THEN MovedToNetwork(nics, network) ELSE PatchedNics(list, nics)

\* interfaces_from_domain_xml
DumpNic(nic) ==
  [present |-> TRUE, id |-> IdOf(nic), mac |-> nic.mac, source |-> nic.source,
   vlan |-> IF nic.vlan = None THEN Keep ELSE nic.vlan]

DumpNics(nics) == [k \in DOMAIN nics |-> DumpNic(nics[k])]

-----------------------------------------------------------------------------

\* Every entry has an interface, which is what the entry says.
NicsRealised(list, nics) ==
  \A i \in DOMAIN Entries(list) :
    LET e == Entries(list)[i]
    IN \E nic \in Values(nics) :
         /\ nic.alias \in {e.id, Foreign}
         /\ nic.source = e.source
         /\ e.mac \in {None, nic.mac}
         /\ e.vlan \in {Keep, nic.vlan} \/ (e.vlan = Remove /\ nic.vlan = None)

\* Interfaces stay what they are, as far as the manifest does not mention them, by
\* id or MAC address, or leaves the field open.  A manifest without a list says
\* what network one of them is on.
OpenNicsKept(list, nics, after) ==
  \A nic \in Values(nics), new \in Values(after) :
    nic.node = new.node =>
      LET about == {i \in DOMAIN Entries(list) :
                      Entries(list)[i].id = IdOf(nic) \/ Entries(list)[i].mac = nic.mac}
      IN IF list = NoInterfaces THEN [new EXCEPT !.source.name = nic.source.name] = nic
         ELSE IF about = {} THEN new = nic
         ELSE \E i \in about :
                LET e == Entries(list)[i]
                IN /\ new.alias = IF nic.alias = Foreign THEN Foreign ELSE e.id
                   /\ e.mac = None => new.mac = nic.mac
                   /\ e.vlan = Keep => new.vlan = nic.vlan

=============================================================================
