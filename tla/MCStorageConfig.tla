-------------------------- MODULE MCStorageConfig --------------------------
(***************************************************************************)
(* Two commands at a time and one backend with three targets, whose names  *)
(* collide with one another and with a name that was made up.              *)
(***************************************************************************)
EXTENDS StorageConfig, TLC

MCTargets == {"t1", "t2", "t3"}
db == 0
MCParts == {db} \union 2 .. MaxSuffix
MCBaseName == [t1 |-> <<db>>, t2 |-> <<db>>, t3 |-> <<db, 2>>]
MCSymmetry == Permutations(Commands)
=============================================================================
