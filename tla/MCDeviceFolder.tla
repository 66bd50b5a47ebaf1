--------------------------- MODULE MCDeviceFolder ---------------------------
(* Contents are numbered in the order they are written; folders and servers  *)
(* are alike.                                                                *)
EXTENDS DeviceFolder, TLC
MCHashes == 1 .. MaxVersions
Symmetry == Permutations(Folders) \cup Permutations(Servers)
=============================================================================
