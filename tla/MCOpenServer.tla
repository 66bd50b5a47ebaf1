---------------------------- MODULE MCOpenServer ----------------------------
\* Small instance of OpenServer: one user file and its first conflict path.
EXTENDS OpenServer, TLC

CONSTANTS f1, v1, v2, d1, d2

MCFiles   == {f1}
MCHashes  == {v1, v2}
MCDevices == {d1, d2}

F  == UserPath(f1)
F1 == ConflictPath(F, 1)

PutOf(hash, mtime) == [op |-> "put", hash |-> hash, mtime |-> mtime]
DeleteOf           == [op |-> "delete"]

Edits == {PutOf(v1, 1), PutOf(v2, 2), DeleteOf}

\* Reports about the user file, alone or with a marker the server lacks.
MCReports == UNION {[paths -> Edits] : paths \in SUBSET {F}}
             \cup {[p \in {F, F1} |-> IF p = F THEN PutOf(v1, 1) ELSE PutOf(v2, 1)]}

Symmetry == Permutations(MCDevices)
=============================================================================
