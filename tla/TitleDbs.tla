------------------------------ MODULE TitleDbs ------------------------------
(* One title database (id -> game name): a file downloaded to a cache, parsed *)
(* into a table in memory.  The desktop app and the server use the same       *)
(* download and parse, the app behind a `refreshing` flag, the server without *)
(* one.  The file is written in place, in more than one step.                 *)
EXTENDS Naturals, FiniteSets
CONSTANTS Refreshers,   \* refresh requests that may be under way at once
          MaxVersions,  \* bound: editions the upstream publishes
          MaxFailures,  \* bound: downloads that fail
          MaxBoots      \* bound: starts of the process

ASSUME TitleDbsAssumption ==
    /\ MaxVersions \in Nat \ {0}
    /\ {MaxFailures, MaxBoots} \subseteq Nat

Loader == "loader"
Tasks == {Loader} \cup Refreshers
Absent == 0          \* no file, or an empty table
Versions == 1 .. MaxVersions
Torn == MaxVersions + 1
Whole(v) == v \in Versions

VARIABLES desktop,                 \* the app or the server
          lenient,                 \* a cut file still parses: the line scanner of
                                   \* the PS2 index; the JSON of the Switch one does not
          upstream, file, stamp,   \* stamp: the edition of the file's mtime
          names, namesDate,        \* the table in memory and its last_update
          refreshing, at, carried, \* each task's place, and what it holds
          running, failed, boots, failures

disk == <<file, stamp>>
table == <<names, namesDate>>
bounds == <<boots, failures>>
program == <<desktop, lenient>>  \* what a behaviour is about; never changes
titleVars == <<upstream, disk, table, refreshing, at, carried, running, failed, bounds>>

TitlesInit ==
    /\ desktop \in BOOLEAN /\ lenient \in BOOLEAN
    /\ upstream = 1 /\ file = Absent /\ stamp = Absent
    /\ names = Absent /\ namesDate = Absent
    /\ refreshing = FALSE
    /\ at = [t \in Tasks |-> "none"] /\ carried = [t \in Tasks |-> Absent]
    /\ running = FALSE /\ failed = FALSE
    /\ boots = 0 /\ failures = 0

Goes(t, from, to) == at[t] = from /\ at' = [at EXCEPT ![t] = to]

Publish ==
    /\ upstream < MaxVersions /\ upstream' = upstream + 1
    /\ UNCHANGED <<disk, table, refreshing, at, carried, running, failed, bounds>>

(* ---- what the parser returns for a file: a table, or nothing ---- *)
\* A cut index gives the names before the cut, possibly none.
Parsed(f) == CASE Whole(f) -> {f}
               [] f = Torn -> IF lenient THEN {Torn, Absent} ELSE {}
               [] OTHER -> {}

(* ---- boot ---- *)
\* The app parses in the background what it has and downloads what it has not
\* (`exists`); until then its table is empty.
BootApp ==
    /\ at' = [t \in Tasks |-> IF t = Loader
                              THEN IF file = Absent THEN "raising" ELSE "parsing"
                              ELSE "none"]
    /\ UNCHANGED table

\* A slip: the server too asks whether the file exists, not whether it was read.
BootServerByFile ==
    /\ \E n \in IF Parsed(file) = {} THEN {Absent} ELSE Parsed(file) :
        /\ names' = n
        /\ namesDate' = IF Parsed(file) = {} THEN Absent ELSE stamp
    /\ at' = [t \in Tasks |-> IF t = Loader /\ file = Absent THEN "fetching" ELSE "none"]

\* The server parses before it listens (load_cached), and downloads in the
\* background what came out empty (ensure_in_background).
BootServer ==
    /\ \E n \in IF Parsed(file) = {} THEN {Absent} ELSE Parsed(file) :
        /\ names' = n
        /\ namesDate' = IF Parsed(file) = {} THEN Absent ELSE stamp
        /\ at' = [t \in Tasks |-> IF t = Loader /\ n = Absent THEN "fetching" ELSE "none"]

Boot ==
    /\ ~running /\ boots < MaxBoots
    /\ boots' = boots + 1 /\ running' = TRUE /\ failed' = FALSE
    /\ IF desktop THEN BootApp ELSE BootServer
    /\ UNCHANGED <<upstream, disk, refreshing, carried, failures>>

\* The process ends anywhere; a file being written stays as far as it got.
Quit ==
    /\ running /\ running' = FALSE
    /\ at' = [t \in Tasks |-> "none"] /\ carried' = [t \in Tasks |-> Absent]
    /\ names' = Absent /\ namesDate' = Absent /\ refreshing' = FALSE
    /\ UNCHANGED <<upstream, disk, failed, bounds>>

(* ---- a refresh ---- *)
\* The app's loader raises the flag without looking at it.
RaiseFlag ==
    /\ Goes(Loader, "raising", "fetching")
    /\ refreshing' = TRUE
    /\ UNCHANGED <<upstream, disk, table, carried, running, failed, bounds>>

\* refresh_title_db and refresh_ps2_db; the server's has no flag.
Refresh(r) ==
    /\ r \in Refreshers /\ running
    /\ desktop => ~refreshing
    /\ Goes(r, "none", "fetching")
    /\ refreshing' = desktop
    /\ UNCHANGED <<upstream, disk, table, carried, running, failed, bounds>>

\* The whole body arrives, and then the file is opened and cut.
Fetch(t) ==
    /\ Goes(t, "fetching", "writing")
    /\ carried' = [carried EXCEPT ![t] = upstream]
    /\ file' = Torn /\ stamp' = upstream
    /\ UNCHANGED <<upstream, table, refreshing, running, failed, bounds>>

\* The download fails, or the file does not parse: the flag is lowered, the
\* table stays as it was and the error goes to the UI.
Fail(t) ==
    /\ \/ at[t] = "fetching" /\ failures < MaxFailures /\ failures' = failures + 1
       \/ at[t] = "parsing" /\ Parsed(file) = {} /\ UNCHANGED failures
    /\ at' = [at EXCEPT ![t] = "none"] /\ carried' = [carried EXCEPT ![t] = Absent]
    /\ refreshing' = FALSE /\ failed' = TRUE
    /\ UNCHANGED <<upstream, disk, table, running, boots>>

\* The last byte is written.  With another task writing another edition to the
\* same path, the file may be neither.
Write(t) ==
    /\ Goes(t, "writing", "parsing")
    /\ \E f \in {carried[t], Torn} :
        /\ f = Torn => \E u \in Tasks \ {t} : carried[u] \notin {Absent, carried[t]}
        /\ file' = f
    /\ stamp' = IF carried[t] > stamp THEN carried[t] ELSE stamp
    /\ UNCHANGED <<upstream, table, refreshing, carried, running, failed, bounds>>

Parse(t) ==
    /\ Goes(t, "parsing", "installing")
    /\ \E n \in Parsed(file) : carried' = [carried EXCEPT ![t] = n]
    /\ UNCHANGED <<upstream, disk, table, refreshing, running, failed, bounds>>

\* A slip: the date is that of the edition the table had before.
InstallDatedBefore(t) ==
    /\ Goes(t, "installing", "none")
    /\ names' = carried[t] /\ namesDate' = names
    /\ carried' = [carried EXCEPT ![t] = Absent] /\ refreshing' = FALSE
    /\ UNCHANGED <<upstream, disk, running, failed, bounds>>

\* Under the lock: the table, the mtime the file has now, the flag.
Install(t) ==
    /\ Goes(t, "installing", "none")
    /\ names' = carried[t] /\ namesDate' = stamp
    /\ carried' = [carried EXCEPT ![t] = Absent] /\ refreshing' = FALSE
    /\ UNCHANGED <<upstream, disk, running, failed, bounds>>

Step(t) == Fetch(t) \/ Write(t) \/ Parse(t) \/ Install(t) \/ Fail(t)

TitlesNext ==
    \/ Publish \/ Boot \/ Quit \/ RaiseFlag
    \/ \E r \in Refreshers : Refresh(r)
    \/ \E t \in Tasks : Step(t)

\* The runtime runs the tasks, and a download ends, one way or the other.
TitlesSpec ==
    /\ TitlesInit /\ [][TitlesNext /\ UNCHANGED program]_<<titleVars, program>>
    /\ WF_titleVars(Boot) /\ WF_titleVars(RaiseFlag)
    /\ \A t \in Tasks : WF_titleVars(Step(t))

-----------------------------------------------------------------------------
\* The shape of the state; what is about to be installed was parsed whole;
\* nothing is in memory, and no task runs, while the process is down.
TitlesTypeOK ==
    /\ upstream \in Versions /\ file \in 0 .. Torn /\ stamp \in 0 .. MaxVersions
    /\ names \in 0 .. Torn /\ namesDate \in 0 .. MaxVersions
    /\ \A t \in Tasks : /\ carried[t] \in 0 .. Torn
                        /\ at[t] \in {"none", "raising", "fetching", "writing", "parsing",
                                      "installing"}
                        /\ at[t] # "none" => running
                        /\ (at[t] = "installing" /\ ~lenient) => Whole(carried[t])
    /\ ~running => names = Absent /\ ~refreshing
    /\ desktop \in BOOLEAN /\ lenient \in BOOLEAN

\* The date the UI shows is never older than the names it shows, however the
\* loader and the refreshes overlap (last_update read at the install).
DateCoversNames == Whole(names) => namesDate >= names

Settled == Whole(names) \/ failed \/ ~running

\* docs/client-pc.md, of both databases: missing names settle by themselves.  A
\* program that is up has a whole table in the end, unless a download or a parse
\* failed and was reported.
NamesSettle == running ~> Settled

\* A cut index where somebody parses it next: a process that starts, after one
\* that ended in the middle of a write; a task beside another that is writing.
CutIndexInReach ==
    lenient /\ file = Torn /\ (running => \E t \in Tasks : at[t] = "parsing")

\* The flag of the app is lowered again, whoever raised it and whatever fails, so
\* that no refresh is refused for good.
FlagComesDown == refreshing ~> ~refreshing

\* The names settle, whoever is interrupted and however refreshes overlap, of the
\* Switch database; of the PS2 index as long as no cut one comes to be parsed.
\* The flag comes down in any case.
NamesSettleUnlessCut == ([]~CutIndexInReach => NamesSettle) /\ FlagComesDown

=============================================================================
