---------------------------- MODULE MCSyncSystem ----------------------------
\* Small instances of SyncSystem: two devices and one user file.
EXTENDS SyncSystem, TLC

CONSTANTS f1, d1, d2

MCFiles   == {f1}
MCHashes  == 1 .. MaxVersions
MCDevices == {d1, d2}

Symmetry == Permutations(MCDevices)
=============================================================================
