----------------------------- MODULE VmEntries ------------------------------
(***************************************************************************)
(* Lists of devices in a manifest and the devices of a definition: what    *)
(* disks, CD-ROM trays and network interfaces have in common               *)
(* (src/src/vm.rs, vm_model.rs, vm_reconcile.rs).                          *)
(***************************************************************************)
EXTENDS FiniteSets, Integers, Sequences

CONSTANTS
  NoId,     \* no id in the manifest, no alias in the definition
  Foreign   \* an alias that is not one of qtr's

ASSUME VmEntriesAssumption == NoId # Foreign

\* A device is known by its node: the element with all the content that no
\* manifest mentions, such as its address.
Nodes(devices) == {d.node : d \in devices}

The(S) == CHOOSE x \in S : TRUE
Values(f) == {f[i] : i \in DOMAIN f}

\* The k-th number of a set, and the members of a list at certain places.
Nth(S, k) == CHOOSE x \in S : Cardinality({y \in S : y <= x}) = k
Picked(list, places) == [k \in 1 .. Cardinality(places) |-> list[Nth(places, k)]]

\* The k-th number that is not taken.
Free(taken, k) == Nth((0 .. Cardinality(taken) + k) \ taken, k)

\* The id that a device without one of qtr's aliases has in a dump.
DerivedId(from) == [derivedFrom |-> from]

Absent(id) == [present |-> FALSE, id |-> id]

\* All of a list, if none of it is absent.
PresentEntries(list) ==
  IF \A i \in DOMAIN list : list[i].present THEN list
  ELSE Picked(list, {i \in DOMAIN list : list[i].present})
AbsentIds(list) == {list[i].id : i \in {k \in DOMAIN list : ~list[k].present}}

IdsDiffer(list) ==
  \A i, k \in DOMAIN list : i # k /\ list[i].id = list[k].id => list[i].id = NoId

Unambiguous(match) == \A i \in DOMAIN match : Cardinality(match[i]) <= 1

BugMergedAlias(old, id) == IF old = NoId THEN id ELSE old

\* An alias that is not qtr's, or that the manifest does not mention, is kept.
MergedAlias(old, id) == IF old = Foreign \/ id = NoId THEN old ELSE id

\* libvirt refuses a definition in which two devices have the same alias.
AliasesDiffer(devices) ==
  \A d, e \in devices :
    d.alias = e.alias /\ d.node # e.node => d.alias \in {NoId, Foreign}

=============================================================================
