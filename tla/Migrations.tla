----------------------------- MODULE Migrations -----------------------------
(***************************************************************************)
(* Opening a database, as both programs do it (crates/core/src/db.rs and   *)
(* apps/server/src/db.rs): read user_version once, then run every block of *)
(* statements meant for an older one.  SQLite commits each statement by    *)
(* itself, so the process may stop, or another process opening the same    *)
(* file may run, between any two.  The statements themselves are the       *)
(* Script; DesktopMigrations and ServerMigrations hold the two programs'.  *)
(***************************************************************************)
EXTENDS Integers, FiniteSets, Sequences

CONSTANTS Script,       \* the statements of `open`, in order
          Latest,       \* the version this program brings a database to
          Emulators,    \* the rows `open` seeds
          Processes,    \* programs that may open the file at the same time
          MaxStops      \* bound: boots killed half-way

VARIABLES
    schema,     \* table -> columns added to it since it was created
    version,    \* user_version
    procs,      \* emulators row -> its process_name: "", "default" or "own"
    modes,      \* history_settings row -> legacy mode and the flags after v5
    from,       \* process -> the version it read when it opened the file
    pc,         \* process -> the statement it is at, or Off, Up, Failed
    stops       \* boots killed so far

db   == <<schema, version, procs, modes>>
databaseVars == <<db, from, pc, stops>>

LegacyModes == {"incremental", "full"}

\* One statement, run by programs that found a version under `below`; `on` is
\* the table, or the row, or the version it is about.
Statement(below, op, on, column) == [below |-> below, op |-> op, on |-> on, column |-> column]

Create(below, table)            == Statement(below, "create", table, "")
AddColumn(below, table, column) == Statement(below, "add", table, column)
SetVersion(below, to)           == Statement(below, "version", to, "")

Sts == {Script[i] : i \in DOMAIN Script}

Always == Latest + 1     \* `below` of what every boot runs

ASSUME MigrationsAssumption ==
    /\ Script \in Seq(Sts)
    /\ Latest \in Nat /\ MaxStops \in Nat /\ IsFiniteSet(Emulators)
    /\ \A s \in Sts : s.below \in 1..Always

\* The tables and columns an undisturbed program of version k leaves behind:
\* the first statements of every boot made what v0 had.
SchemaAt == [k \in 0..Latest |->
    LET run == {s \in Sts : s.below <= k \/ s.below = Always}
    IN  [t \in {s.on : s \in {x \in run : x.op = "create"}} |->
            {s.column : s \in {x \in run : x.op = "add" /\ x.on = t}}]]

HasColumn(t, c) == t \in DOMAIN schema /\ c \in schema[t]

-----------------------------------------------------------------------------
CreateTable(s) ==     \* IF NOT EXISTS
    /\ s.op = "create"
    /\ schema' = [t \in DOMAIN schema \cup {s.on} |->
                     IF t \in DOMAIN schema THEN schema[t] ELSE {}]
    /\ UNCHANGED <<version, procs, modes>>

\* A new column holds its default in the rows there are.
Alter(s) ==
    /\ s.op = "add"
    /\ schema' = [schema EXCEPT ![s.on] = @ \cup {s.column}]
    /\ modes' = IF s.column = "incremental_enabled"
                THEN [e \in DOMAIN modes |-> [modes[e] EXCEPT !.flags = "incremental"]]
                ELSE modes
    /\ UNCHANGED <<version, procs>>

Stamp(s) ==
    /\ s.op = "version"
    /\ version' = s.on
    /\ UNCHANGED <<schema, procs, modes>>

\* seed_process_names, one row: only a name nobody has set.
NameProcess(s) ==
    /\ s.op = "name"
    /\ procs' = [e \in DOMAIN procs |->
                    IF e = s.on /\ procs[e] = "" THEN "default" ELSE procs[e]]
    /\ UNCHANGED <<schema, version, modes>>

\* v5: the old word becomes the two booleans.
TranslateModes(s) ==
    /\ s.op = "modes"
    /\ modes' = [e \in DOMAIN modes |-> [modes[e] EXCEPT !.flags = modes[e].mode]]
    /\ UNCHANGED <<schema, version, procs>>

\* seed, one row of a table that was empty when it was counted.
Insert(s) ==
    /\ s.op = "insert"
    /\ procs' = [e \in DOMAIN procs \cup {s.on} |->
                    IF e = s.on THEN "default" ELSE procs[e]]
    /\ UNCHANGED <<schema, version, modes>>

\* A duplicate column, or a row that another process has inserted.
Fails(s) ==
    \/ s.op = "add" /\ HasColumn(s.on, s.column)
    \/ s.op = "insert" /\ s.on \in DOMAIN procs

-----------------------------------------------------------------------------
Stopped    == 0
Up     == Len(Script) + 1
Failed == Len(Script) + 2

Booting == {p \in Processes : pc[p] \in DOMAIN Script}

\* The first statement from the i-th on that a database read at v needs.
NextFor(v, i) ==
    LET due == {j \in i..Len(Script) : v < Script[j].below}
    IN  CHOOSE j \in due \cup {Up} : \A k \in due : j <= k

At(p) == Script[pc[p]]

GoOn(p) == pc' = [pc EXCEPT ![p] = NextFor(from[p], pc[p] + 1)]

\* The file is opened.
Boot(p) ==
    /\ pc[p] = Stopped
    /\ from' = [from EXCEPT ![p] = 0]
    /\ pc' = [pc EXCEPT ![p] = 1]
    /\ UNCHANGED <<db, stops>>

\* Its version is read once, before any migration runs.
ReadVersion(p) ==
    /\ p \in Booting
    /\ At(p).op = "read"
    /\ from' = [from EXCEPT ![p] = version]
    /\ pc' = [pc EXCEPT ![p] = NextFor(version, @ + 1)]
    /\ UNCHANGED <<db, stops>>

Execute(p) ==
    /\ p \in Booting
    /\ LET s == At(p)
       IN  /\ ~Fails(s)
           /\ \/ CreateTable(s) \/ Alter(s) \/ Stamp(s)
              \/ NameProcess(s) \/ TranslateModes(s) \/ Insert(s)
    /\ GoOn(p)
    /\ UNCHANGED <<from, stops>>

\* seed: a table with any row in it is left alone.
Count(p) ==
    /\ p \in Booting
    /\ At(p).op = "count"
    /\ IF procs = << >> THEN GoOn(p) ELSE pc' = [pc EXCEPT ![p] = Up]
    /\ UNCHANGED <<db, from, stops>>

\* The error reaches `open`'s caller: the program does not start.
Fail(p) ==
    /\ p \in Booting
    /\ Fails(At(p))
    /\ pc' = [pc EXCEPT ![p] = Failed]
    /\ UNCHANGED <<db, from, stops>>

Kill(p) ==
    /\ p \in Booting
    /\ stops < MaxStops
    /\ stops' = stops + 1
    /\ pc' = [pc EXCEPT ![p] = Stopped]
    /\ UNCHANGED <<db, from>>

Exit(p) ==
    /\ pc[p] \in {Up, Failed}
    /\ pc' = [pc EXCEPT ![p] = Stopped]
    /\ UNCHANGED <<db, from, stops>>

\* The running program's user: set_process_name, set_history_settings.
NameOwn(p) ==
    /\ pc[p] = Up
    /\ \E e \in DOMAIN procs : procs' = [procs EXCEPT ![e] = "own"]
    /\ UNCHANGED <<schema, version, modes, from, pc, stops>>

\* The legacy column keeps what it held; a new row has its default.
ChooseMode(p) ==
    /\ pc[p] = Up
    /\ \E e \in DOMAIN procs, f \in LegacyModes :
           modes' = [x \in DOMAIN modes \cup {e} |->
                        IF x = e
                        THEN [mode |-> IF e \in DOMAIN modes THEN modes[e].mode ELSE "incremental",
                              flags |-> f, chosen |-> f]
                        ELSE modes[x]]
    /\ UNCHANGED <<schema, version, procs, from, pc, stops>>

\* A new file (only its name exists), or one that an older program left in
\* good order: rows from the first day, process names since v1, legacy modes
\* in v4, flags since v5.
MigrationsInit ==
    /\ \/ version = 0 /\ schema = << >> /\ procs = << >>
       \/ /\ version \in 0..Latest
          /\ schema = SchemaAt[version]
          /\ procs \in [Emulators -> IF version = 0 THEN {""} ELSE {"default", "own"}]
    /\ \E rows \in SUBSET Emulators :
          /\ version < 4 => rows = {}
          /\ \E f \in [rows -> LegacyModes] :
                modes = [e \in rows |-> [mode |-> f[e], chosen |-> f[e],
                                         flags |-> IF version = 4 THEN "" ELSE f[e]]]
    /\ from = [p \in Processes |-> 0]
    /\ pc = [p \in Processes |-> Stopped]
    /\ stops = 0

MigrationsNext == \E p \in Processes :
           \/ Boot(p) \/ ReadVersion(p) \/ Execute(p)    \/ Count(p) \/ Fail(p)
           \/ Kill(p) \/ Exit(p)        \/ NameOwn(p)    \/ ChooseMode(p)

MigrationsSpec == MigrationsInit /\ [][MigrationsNext]_databaseVars

-----------------------------------------------------------------------------
\* Types.  A column is only ever added to a table that exists.
MigrationsTypeOK ==
    /\ DOMAIN schema \subseteq {s.on : s \in {x \in Sts : x.op = "create"}}
    /\ \A t \in DOMAIN schema : schema[t] \subseteq SchemaAt[Latest][t]
    /\ version \in 0..Latest
    /\ DOMAIN procs \subseteq Emulators
    /\ \A e \in DOMAIN procs : procs[e] \in {"", "default", "own"}
    /\ DOMAIN modes \subseteq Emulators
    /\ \A e \in DOMAIN modes :
           modes[e] \in [mode : LegacyModes, chosen : LegacyModes, flags : LegacyModes \cup {""}]
    /\ from \in [Processes -> 0..Latest]
    /\ pc \in [Processes -> 0..Failed]
    /\ stops \in 0..MaxStops

\* The number in the file never promises a table, a column or a translation
\* that is not there, wherever boots are killed and however two of them
\* overlap: a program that trusts the number and skips a block can run its
\* queries, and once the file says v5 a row's flags are what its user chose
\* last, in the old column or in the new ones.
ColumnsThere ==
    version > 0 => \A t \in DOMAIN SchemaAt[version] :
        t \in DOMAIN schema /\ SchemaAt[version][t] \subseteq schema[t]
ChoicesKept == version >= 5 => \A e \in DOMAIN modes : modes[e].flags = modes[e].chosen
VersionIsEarned == ColumnsThere /\ ChoicesKept

\* The server's test migration_is_idempotent: opening again is no error.
OpensAgain == \A p \in Processes : pc[p] # Failed

=============================================================================
