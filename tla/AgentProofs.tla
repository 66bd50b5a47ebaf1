------------------------------ MODULE AgentProofs ------------------------------
(***************************************************************************)
(* The desktop, for any number of triggers, configured pairs, subtrees,    *)
(* saves, losers and runs of history: when the resync flag can be trusted  *)
(* (Bisync), what becomes of the losers of conflicts (Conflicts), where    *)
(* the versions a bisync writes over are (SaveHistory), what the version   *)
(* in a database's file promises (Migrations), and what a cycle with a     *)
(* server leaves in folder, baseline and index (DeviceFolder).             *)
(***************************************************************************)
EXTENDS AgentParts, ServerMigrations, SyncPlanProofs

-----------------------------------------------------------------------------
(***************************************************************************)
(* The resync flag.  Apart from faults and from what overlaps a cycle, a   *)
(* listing goes stale only in a revert or a resolution, and nothing else   *)
(* runs until that has taken the flag back.                                *)
(***************************************************************************)

\* Every subtree of p has a listing that is right.
Listed(p) == p \in Pairs /\ \A s \in Subfolders : listing[p][s] = "good"

\* A cycle is about the configured pair; one without --resync began with good
\* listings, one with --resync has written those it is past.
JobTrusted(j) ==
    /\ Running(j) => outside.step = "idle" /\ job[j].pair = pair /\ pair \in Pairs
    /\ job[j].step = "normal" => Listed(pair)
    /\ job[j].step = "initial" =>
           \A s \in Subfolders : s < job[j].next => listing[pair][s] = "good"

\* Until something is meddled with, cycles and flag are to be trusted.
FlagInvariant ==
    /\ BisyncTypeOK
    /\ ~ meddled =>
        /\ \A j \in Jobs : JobTrusted(j)
        /\ outside.step # "idle" => outside.pair = pair /\ pair \in Pairs
        /\ GetHistory.initialized /\ outside.step # "mark" => Listed(pair)

\* The flag is read from the row or from the defaults, where it is off.
LEMMA FlagRead ==
    ASSUME BisyncTypeOK
    PROVE  /\ GetHistory.initialized \in BOOLEAN
           /\ row = NoRow => ~ GetHistory.initialized
           /\ row # NoRow => GetHistory.initialized = row.initialized
  BY DEF BisyncTypeOK, GetHistory, Defaults, HistoryRow

\* Nothing is listed and no flag is set when the desktop starts.
LEMMA FlagInit == BisyncInit => FlagInvariant
<1> SUFFICES ASSUME BisyncInit PROVE FlagInvariant
  OBVIOUS
<1>1. BisyncTypeOK
  <2>1. 1 \in 1 .. Subtrees + 1 /\ 0 \in 0 .. MaxFaults
    BY BisyncAssumption
  <2>2. listing \in [Pairs -> [Subfolders -> {"none", "good", "stale"}]]
    BY DEF BisyncInit
  <2>3. job \in [Jobs -> [step : {"idle", "initial", "normal"}, pair : Pairs \cup {NoPair},
                         next : 1..Subtrees + 1]]
    BY <2>1 DEF BisyncInit, Idle
  <2> QED BY <2>1, <2>2, <2>3 DEF BisyncInit, BisyncTypeOK, NothingOutside
<1>2. ~ GetHistory.initialized
  BY <1>1, FlagRead DEF BisyncInit
<1> QED BY <1>1, <1>2 DEF BisyncInit, FlagInvariant, JobTrusted, Running, Idle, NothingOutside

Rows    == [enabled : BOOLEAN, incremental : BOOLEAN, full : BOOLEAN, initialized : BOOLEAN]
Cycles  == [step : {"idle", "initial", "normal"}, pair : Pairs \cup {NoPair}, next : 1..Subtrees + 1]

\* The state keeps its types.
LEMMA FlagTypes ==
    ASSUME BisyncTypeOK, BisyncNext
    PROVE  BisyncTypeOK'
<1> USE BisyncAssumption
<1>1. /\ pair \in Pairs \cup {NoPair} /\ row \in {NoRow} \cup Rows
      /\ listing \in [Pairs -> [Subfolders -> {"none", "good", "stale"}]]
      /\ job \in [Jobs -> Cycles]
      /\ outside \in [step : {"idle", "destination", "mark"}, pair : Pairs \cup {NoPair}]
      /\ faults \in 0..MaxFaults /\ meddled \in BOOLEAN
  BY DEF BisyncTypeOK, Rows, Cycles
<1> DEFINE Typed == /\ pair \in Pairs \cup {NoPair} /\ row \in {NoRow} \cup Rows
                    /\ listing \in [Pairs -> [Subfolders -> {"none", "good", "stale"}]]
                    /\ job \in [Jobs -> Cycles]
                    /\ outside \in [step : {"idle", "destination", "mark"}, pair : Pairs \cup {NoPair}]
                    /\ faults \in 0..MaxFaults /\ meddled \in BOOLEAN
<1>2. SUFFICES Typed'
  BY DEF BisyncTypeOK, Rows, Cycles
<1>3. Idle \in Cycles /\ NothingOutside \in [step : {"idle", "destination", "mark"}, pair : Pairs \cup {NoPair}]
  BY DEF Idle, Cycles, NothingOutside
<1>4. ASSUME NEW j \in Jobs, CycleStep(j) PROVE Typed'
  <2>1. CASE Start(j)
    <3>1. [step |-> IF GetHistory.initialized THEN "normal" ELSE "initial", pair |-> pair, next |-> 1] \in Cycles
      BY <1>1 DEF Cycles
    <3> QED BY <1>1, <2>1, <3>1 DEF Start
  <2>2. ASSUME job[j].next \in Subfolders
        PROVE  job[j].next + 1 \in 1..Subtrees + 1
    BY <2>2 DEF Subfolders
  <2>3. ASSUME Advance(j), job[j].next \in Subfolders PROVE job' \in [Jobs -> Cycles]
    BY <1>1, <2>2, <2>3 DEF Advance, Cycles
  <2>4. ASSUME ListedAs(j, "good") PROVE listing' \in [Pairs -> [Subfolders -> {"none", "good", "stale"}]]
    BY <1>1, <2>4 DEF ListedAs
  <2>5. CASE ResyncFolder(j) \/ BisyncFolder(j)
    BY <1>1, <2>3, <2>4, <2>5 DEF ResyncFolder, BisyncFolder
  <2>6. CASE FailCycle(j)
    BY <1>1, <1>3, <2>6 DEF FailCycle
  <2>7. CASE Finish(j)
    BY <1>1, <1>3, <2>7 DEF Finish, Rows, ColumnDefaults, HistoryRow
  <2> QED BY <1>4, <2>1, <2>5, <2>6, <2>7 DEF CycleStep
<1>5. ASSUME NeedsResync PROVE row' \in {NoRow} \cup Rows
  BY <1>1, <1>5 DEF NeedsResync, Rows
<1>6. ASSUME NEW p \in Pairs, SetPaths(p) PROVE Typed'
  BY <1>1, <1>5, <1>6 DEF SetPaths, Quiet
<1>7. ASSUME NEW c \in OfferedModes, SetHistoryModes(c.enabled, c.incremental, c.full) PROVE Typed'
  <2>1. GetHistory.initialized \in BOOLEAN
    BY FlagRead
  <2>2. c \in [enabled : BOOLEAN, incremental : BOOLEAN, full : BOOLEAN]
    OBVIOUS
  <2>3. HistoryRow(c.enabled, c.incremental /\ ~FileBased, c.full, GetHistory.initialized) \in Rows
    BY <2>1, <2>2 DEF HistoryRow, Rows
  <2> QED BY <1>1, <1>7, <2>3 DEF SetHistoryModes
<1>8. ASSUME OutsideStep PROVE Typed'
  <2>1. CASE ChangeOutside
    BY <1>1, <2>1 DEF ChangeOutside, Quiet
  <2>2. CASE WriteDestination
    <3>1. PICK s \in Subfolders : listing' = IF listing[outside.pair][s] = "good"
                                           THEN [listing EXCEPT ![outside.pair][s] = "stale"]
                                           ELSE listing
      BY <2>2 DEF WriteDestination
    <3>2. listing' \in [Pairs -> [Subfolders -> {"none", "good", "stale"}]]
      BY <1>1, <3>1
    <3> QED BY <1>1, <2>2, <3>2 DEF WriteDestination
  <2>3. CASE MarkOutside
    BY <1>1, <1>3, <1>5, <2>3 DEF MarkOutside
  <2>4. CASE GiveUpOutside
    BY <1>1, <1>3, <2>4 DEF GiveUpOutside
  <2>5. CASE FailOutside
    BY <1>1, <1>3, <2>5 DEF FailOutside, BisyncFault
  <2> QED BY <1>8, <2>1, <2>2, <2>3, <2>4, <2>5 DEF OutsideStep
<1>9. ASSUME Crash PROVE Typed'
  <2>1. job' \in [Jobs -> Cycles]
    BY <1>3, <1>9 DEF Crash
  <2> QED BY <1>1, <1>3, <1>9, <2>1 DEF Crash, BisyncFault
<1> QED BY <1>4, <1>6, <1>7, <1>8, <1>9 DEF BisyncNext

\* What is said of the flag while nothing has been meddled with.
FlagHolds ==
    /\ \A j \in Jobs : JobTrusted(j)
    /\ outside.step # "idle" => outside.pair = pair /\ pair \in Pairs
    /\ GetHistory.initialized /\ outside.step # "mark" => Listed(pair)

\* A step of a cycle.
LEMMA CycleKeepsFlag ==
    ASSUME BisyncTypeOK, BisyncTypeOK', FlagHolds, NEW j \in Jobs, CycleStep(j), ~ meddled'
    PROVE  FlagHolds'
<1>1. /\ job \in [Jobs -> Cycles] /\ job' \in [Jobs -> Cycles]
      /\ listing \in [Pairs -> [Subfolders -> {"none", "good", "stale"}]]
  BY DEF BisyncTypeOK, Cycles
<1>2. pair' = pair /\ outside' = outside
  BY DEF CycleStep, Start, ResyncFolder, BisyncFolder, FailCycle, Finish
<1>3. ASSUME UNCHANGED row
      PROVE  GetHistory' = GetHistory
  BY <1>3 DEF GetHistory, Defaults
<1>4. CASE Start(j)
  <2>1. outside.step = "idle" /\ pair \in Pairs
    BY <1>4 DEF Start, BisyncTypeOK
  <2>2. GetHistory' = GetHistory /\ listing' = listing
    BY <1>3, <1>4 DEF Start
  <2>3. GetHistory.initialized \in BOOLEAN
    BY FlagRead
  <2>4. JobTrusted(j)'
    <3>1. job'[j] = [step |-> IF GetHistory.initialized THEN "normal" ELSE "initial",
                     pair |-> pair, next |-> 1]
      BY <1>1, <1>4 DEF Start
    <3>2. \A s \in Subfolders : ~ s < 1
      BY DEF Subfolders
    <3>3. job'[j].step = "normal" => Listed(pair)
      BY <2>1, <3>1 DEF FlagHolds
    <3> QED BY <1>2, <2>1, <2>2, <3>1, <3>2, <3>3 DEF JobTrusted, Listed
  <2>5. ASSUME NEW k \in Jobs, k # j PROVE JobTrusted(k)'
    <3>1. job'[k] = job[k]
      BY <1>1, <1>4, <2>5 DEF Start
    <3> QED BY <1>2, <2>2, <3>1 DEF FlagHolds, JobTrusted, Running, Listed
  <2> QED BY <1>2, <2>2, <2>4, <2>5 DEF FlagHolds, Listed
<1>5. CASE ResyncFolder(j) \/ BisyncFolder(j)
  <2>1. /\ job[j].next \in Subfolders /\ Running(j)
        /\ ListedAs(j, "good") /\ Advance(j) /\ UNCHANGED row
    BY <1>5 DEF ResyncFolder, BisyncFolder, Running
  <2>2. outside.step = "idle" /\ job[j].pair = pair /\ pair \in Pairs
    BY <2>1 DEF FlagHolds, JobTrusted
  <2>3. \A s \in Subfolders : listing'[pair][s] = IF s = job[j].next THEN "good" ELSE listing[pair][s]
    BY <1>1, <2>1, <2>2 DEF ListedAs
  <2>4. GetHistory' = GetHistory
    BY <1>3, <2>1
  <2>5. Listed(pair) => Listed(pair)'
    BY <1>2, <2>3 DEF Listed
  <2>6. job'[j] = [job[j] EXCEPT !.next = @ + 1]
    BY <1>1, <2>1 DEF Advance
  <2>7. job'[j].step = job[j].step /\ job'[j].pair = job[j].pair /\ job'[j].next = job[j].next + 1
    BY <1>1, <2>6 DEF Cycles
  <2>8. JobTrusted(j)'
    <3>1. \A s \in Subfolders : s < job[j].next + 1 => s < job[j].next \/ s = job[j].next
      BY <2>1 DEF Subfolders
    <3> QED BY <1>2, <2>2, <2>3, <2>5, <2>7, <3>1 DEF FlagHolds, JobTrusted, Running
  <2>9. ASSUME NEW k \in Jobs, k # j PROVE JobTrusted(k)'
    <3>1. job'[k] = job[k]
      BY <1>1, <2>1, <2>9 DEF Advance
    <3> QED BY <1>2, <2>3, <2>5, <3>1 DEF FlagHolds, JobTrusted, Running
  <2> QED BY <1>2, <2>4, <2>5, <2>8, <2>9 DEF FlagHolds
<1>6. CASE FailCycle(j) \/ Finish(j)
  <2>1. Running(j) /\ listing' = listing /\ job' = [job EXCEPT ![j] = Idle]
    BY <1>6 DEF FailCycle, Finish
  <2>2. outside.step = "idle" /\ pair \in Pairs /\ job[j].pair = pair
    BY <2>1 DEF FlagHolds, JobTrusted
  <2>3. \A k \in Jobs : JobTrusted(k)'
    <3>1. \A k \in Jobs : job'[k] = IF k = j THEN Idle ELSE job[k]
      BY <1>1, <2>1
    <3> QED BY <1>2, <2>1, <3>1 DEF FlagHolds, JobTrusted, Running, Listed, Idle
  <2>4. CASE FailCycle(j)
    <3>1. GetHistory' = GetHistory
      BY <1>3, <2>4 DEF FailCycle
    <3> QED BY <1>2, <2>1, <2>3, <3>1 DEF FlagHolds, Listed
  <2>5. CASE Finish(j)
    <3>1. CASE job[j].step = "initial"
      <4>1. \A s \in Subfolders : s < job[j].next
        BY <1>1, <2>5, BisyncAssumption DEF Finish, Cycles, Subfolders
      <4>2. Listed(pair)
        BY <2>2, <3>1, <4>1 DEF FlagHolds, JobTrusted, Listed
      <4> QED BY <1>2, <2>1, <2>3, <4>2 DEF FlagHolds, Listed
    <3>2. CASE job[j].step # "initial"
      <4>1. GetHistory' = GetHistory
        BY <1>3, <2>5, <3>2 DEF Finish
      <4> QED BY <1>2, <2>1, <2>3, <4>1 DEF FlagHolds, Listed
    <3> QED BY <3>1, <3>2
  <2> QED BY <1>6, <2>4, <2>5
<1> QED BY <1>4, <1>5, <1>6 DEF CycleStep

\* What the flag says after it is taken back.
LEMMA FlagTaken ==
    ASSUME BisyncTypeOK, BisyncTypeOK', NeedsResync
    PROVE  ~ GetHistory'.initialized
<1>1. CASE row = NoRow
  <2>1. row' = NoRow
    BY <1>1 DEF NeedsResync
  <2> QED BY <2>1 DEF GetHistory, Defaults, HistoryRow
<1>2. CASE row # NoRow
  <2>1. row \in Rows
    BY <1>2 DEF BisyncTypeOK, Rows
  <2>2. row' = [row EXCEPT !.initialized = FALSE]
    BY <1>2 DEF NeedsResync
  <2> QED BY <2>1, <2>2 DEF GetHistory, Defaults, HistoryRow, Rows
<1> QED BY <1>1, <1>2

\* A cycle that nothing else touches keeps what is said of it.
LEMMA JobStays ==
    ASSUME NEW j \in Jobs, JobTrusted(j), job' = job, ~ Running(j)
    PROVE  JobTrusted(j)'
  BY DEF JobTrusted, Running

\* A step of the user.
LEMMA UserKeepsFlag ==
    ASSUME BisyncTypeOK, BisyncTypeOK', FlagHolds, ~ meddled',
           \/ \E p \in Pairs : SetPaths(p)
           \/ \E c \in OfferedModes : SetHistoryModes(c.enabled, c.incremental, c.full)
    PROVE  FlagHolds'
<1>1. ASSUME NEW p \in Pairs, SetPaths(p)
      PROVE  FlagHolds'
  <2>1. Quiet
    BY <1>1 DEF SetPaths
  <2>2. \A j \in Jobs : JobTrusted(j)'
    BY <1>1, <2>1, JobStays DEF SetPaths, Quiet, FlagHolds
  <2>3. ~ GetHistory'.initialized
    BY <1>1, FlagTaken DEF SetPaths
  <2> QED BY <1>1, <2>1, <2>2, <2>3 DEF SetPaths, Quiet, FlagHolds
<1>2. ASSUME NEW c \in OfferedModes, SetHistoryModes(c.enabled, c.incremental, c.full)
      PROVE  FlagHolds'
  <2>1. /\ UNCHANGED <<pair, listing, job, outside>>
        /\ row' = HistoryRow(c.enabled, c.incremental /\ ~FileBased, c.full, GetHistory.initialized)
    BY <1>2 DEF SetHistoryModes
  <2>2. GetHistory'.initialized => GetHistory.initialized
    <3>1. GetHistory' = IF row' = NoRow THEN Defaults ELSE row'
      BY DEF GetHistory, Defaults
    <3> QED BY <2>1, <3>1 DEF HistoryRow, Defaults
  <2>3. \A j \in Jobs : JobTrusted(j)'
    BY <2>1 DEF FlagHolds, JobTrusted, Running, Listed
  <2> QED BY <2>1, <2>2, <2>3 DEF FlagHolds, Listed
<1> QED BY <1>1, <1>2

\* A step of a revert or of a resolution.
LEMMA OutsideKeepsFlag ==
    ASSUME BisyncTypeOK, BisyncTypeOK', FlagHolds, OutsideStep, ~ meddled'
    PROVE  FlagHolds'
<1>1. UNCHANGED <<pair, job>>
  BY DEF OutsideStep, ChangeOutside, WriteDestination, MarkOutside, GiveUpOutside, FailOutside
<1>2. ~ FailOutside
  BY DEF FailOutside, BisyncFault
<1>3. \A j \in Jobs : ~ Running(j)
  <2>1. CASE ChangeOutside
    BY <2>1 DEF ChangeOutside, Quiet
  <2>2. CASE outside.step # "idle"
    BY <2>2 DEF FlagHolds, JobTrusted
  <2> QED BY <1>2, <2>1, <2>2 DEF OutsideStep, WriteDestination, MarkOutside, GiveUpOutside
<1>4. \A j \in Jobs : JobTrusted(j)'
  BY <1>1, <1>3, JobStays DEF FlagHolds
<1>5. ASSUME UNCHANGED row
      PROVE  GetHistory' = GetHistory
  BY <1>5 DEF GetHistory, Defaults
<1>6. CASE ChangeOutside
  <2>1. pair \in Pairs
    BY <1>6 DEF ChangeOutside, BisyncTypeOK
  <2> QED BY <1>1, <1>4, <1>5, <1>6, <2>1 DEF ChangeOutside, FlagHolds, Listed
<1>7. CASE WriteDestination
  <2>1. outside'.step = "mark" /\ outside'.pair = outside.pair /\ outside.step # "idle"
    BY <1>7 DEF WriteDestination, BisyncTypeOK
  <2> QED BY <1>1, <1>4, <2>1 DEF FlagHolds
<1>8. CASE MarkOutside
  <2>1. ~ GetHistory'.initialized
    BY <1>8, FlagTaken DEF MarkOutside
  <2> QED BY <1>1, <1>4, <1>8, <2>1 DEF MarkOutside, NothingOutside, FlagHolds
<1>9. CASE GiveUpOutside
  BY <1>1, <1>4, <1>5, <1>9 DEF GiveUpOutside, NothingOutside, FlagHolds, Listed
<1> QED BY <1>2, <1>6, <1>7, <1>8, <1>9 DEF OutsideStep

\* Every step keeps the invariant of the flag.
LEMMA FlagStep ==
    ASSUME FlagInvariant, [BisyncNext]_bisyncVars
    PROVE  FlagInvariant'
<1>1. CASE UNCHANGED bisyncVars
  <2>1. BisyncTypeOK'
    BY <1>1 DEF FlagInvariant, BisyncTypeOK, bisyncVars
  <2> QED BY <1>1, <2>1 DEF FlagInvariant, bisyncVars, JobTrusted, Running, Listed, GetHistory, Defaults
<1>2. CASE BisyncNext
  <2>1. BisyncTypeOK'
    BY <1>2, FlagTypes DEF FlagInvariant
  <2>2. SUFFICES ASSUME ~ meddled'
                 PROVE  FlagHolds'
    BY <2>1 DEF FlagInvariant, FlagHolds
  <2>3. ~ Crash
    BY <2>2 DEF Crash, BisyncFault
  <2>4. ~ meddled
    BY <1>2, <2>2 DEF BisyncNext, CycleStep, Start, ResyncFolder, BisyncFolder, FailCycle, Finish,
                      SetPaths, SetHistoryModes, OutsideStep, ChangeOutside, WriteDestination,
                      MarkOutside, GiveUpOutside, FailOutside, BisyncFault, Crash
  <2>5. FlagHolds
    BY <2>4 DEF FlagInvariant, FlagHolds
  <2> QED BY <1>2, <2>1, <2>2, <2>3, <2>5, CycleKeepsFlag, UserKeepsFlag, OutsideKeepsFlag
          DEF BisyncNext, FlagInvariant
<1> QED BY <1>1, <1>2

\* Nothing has been meddled with, nothing runs, and the flag is on: every
\* subtree of the configured pair has a good listing, after any cycles that
\* failed half-way and any changes of paths and settings (lib.rs run_sync,
\* core/db.rs mark_bisync_initialized).
THEOREM FlagsMeanListed == BisyncSpec => []FlagMeansListed
<1>1. BisyncInit => FlagInvariant
  BY FlagInit
<1>2. FlagInvariant /\ [BisyncNext]_bisyncVars => FlagInvariant'
  BY FlagStep
<1>3. FlagInvariant => FlagMeansListed
  BY DEF FlagInvariant, FlagMeansListed, Quiet, Listed
<1> QED BY <1>1, <1>2, <1>3, PTL DEF BisyncSpec

\* A cycle that runs without --resync finds good listings in every subtree it
\* has yet to go through (engine.rs do_sync).
THEOREM NormalCyclesAreTrusted == BisyncSpec => []NormalCyclesTrusted
<1>1. BisyncInit => FlagInvariant
  BY FlagInit
<1>2. FlagInvariant /\ [BisyncNext]_bisyncVars => FlagInvariant'
  BY FlagStep
<1>3. FlagInvariant => NormalCyclesTrusted
  <2>1. SUFFICES ASSUME FlagInvariant, ~ meddled, NEW j \in Jobs, job[j].step = "normal",
                        NEW s \in job[j].next..Subtrees
                 PROVE  listing[job[j].pair][s] = "good"
    BY DEF NormalCyclesTrusted
  <2>2. s \in Subfolders
    <3>1. job[j].next \in 1..Subtrees + 1
      BY <2>1 DEF FlagInvariant, BisyncTypeOK
    <3> QED BY <2>1, <3>1, BisyncAssumption DEF Subfolders
  <2>3. Listed(pair) /\ job[j].pair = pair
    BY <2>1 DEF FlagInvariant, JobTrusted, Running
  <2> QED BY <2>2, <2>3 DEF Listed
<1> QED BY <1>1, <1>2, <1>3, PTL DEF BisyncSpec

-----------------------------------------------------------------------------
(***************************************************************************)
(* Losers.  Markers differ between the two sides only after a resolution   *)
(* that failed, and then on one side there is none: the resync it asks for *)
(* unites them.  Without failures the sides differ in the save alone, and  *)
(* no version is at two paths.                                             *)
(***************************************************************************)

\* v is the loser of some marker, on some side.
Marked(v) == \E n \in Numbers : folder[Marker(n)] = v \/ destination[Marker(n)] = v

\* Both sides have the same markers, the same files beside the save, ...
SameMarkers == \A n \in Numbers : folder[Marker(n)] = destination[Marker(n)]

SameAside == \A p \in Paths : p # Save => folder[p] = destination[p]

\* ... and no version at two of its paths.
Sides(p) == {folder[p], destination[p]}

Apart == \A p, q \in Paths : p # q => Sides(p) \cap Sides(q) \subseteq {Absent}

OwedInvariant ==
    /\ fileBased => owed = {}
    /\ ~ fileBased =>
        /\ begun => SameMarkers
        /\ \A n \in Numbers : Absent \in Sides(Marker(n)) \/ folder[Marker(n)] = destination[Marker(n)]
        /\ \A v \in owed : Marked(v)

NoFailureInvariant ==
    failures = 0 =>
        /\ SameAside
        /\ Apart
        /\ \A v \in discarded : ~Holds(folder, v) /\ ~Holds(destination, v)

LosersInvariant == ConflictsTypeOK /\ OwedInvariant /\ NoFailureInvariant

\* The paths.
LEMMA PathsApart ==
    /\ Save \in Paths
    /\ \A n \in Numbers : /\ Marker(n) \in Paths /\ Kept(n) \in Paths
                          /\ Marker(n) # Save /\ Kept(n) # Save
                          /\ Marker(n)[1] = "conflict" /\ Kept(n)[1] = "kept"
                          /\ Marker(n)[2] = n /\ Kept(n)[2] = n
    /\ \A m, n \in Numbers : /\ Marker(m) # Kept(n)
                             /\ m # n => Marker(m) # Marker(n) /\ Kept(m) # Kept(n)
    /\ Save[1] = "save"
    /\ \A p \in Paths : \/ p = Save
                        \/ \E n \in Numbers : p = Marker(n) \/ p = Kept(n)
<1>1. \A n \in Numbers : Marker(n)[1] = "conflict" /\ Kept(n)[1] = "kept" /\ Marker(n)[2] = n /\ Kept(n)[2] = n
  BY DEF Marker, Kept
<1>2. Save[1] = "save"
  BY DEF Save
<1>3. /\ Save \in Paths
      /\ \A n \in Numbers : Marker(n) \in Paths /\ Kept(n) \in Paths
      /\ \A p \in Paths : p = Save \/ \E n \in Numbers : p = Marker(n) \/ p = Kept(n)
  BY DEF Paths
<1> QED BY <1>1, <1>2, <1>3

\* Trees hold versions.
LEMMA TreeTypes ==
    ASSUME ConflictsTypeOK
    PROVE  /\ folder \in [Paths -> 0..newest] /\ destination \in [Paths -> 0..newest]
           /\ agreed \in [Paths -> 0..newest]
           /\ newest \in Nat /\ newest >= 1 /\ newest <= MaxSaves /\ failures \in Nat
           /\ failures <= MaxFailures /\ MaxSaves \in Nat /\ MaxFailures \in Nat
           /\ owed \subseteq 1..newest /\ discarded \subseteq 1..newest
           /\ fileBased \in BOOLEAN /\ begun \in BOOLEAN
<1>1. MaxSaves \in Nat /\ MaxFailures \in Nat
  BY ConflictsAssumption
<1>2. newest \in 1..MaxSaves /\ failures \in 0..MaxFailures
  BY DEF ConflictsTypeOK, SaveVersions
<1>3. /\ folder \in [Paths -> 0..newest] /\ destination \in [Paths -> 0..newest]
      /\ agreed \in [Paths -> 0..newest]
  BY DEF ConflictsTypeOK
<1> QED BY <1>1, <1>2, <1>3 DEF ConflictsTypeOK

\* The larger and the smaller of two.
LEMMA OfTwo ==
    ASSUME NEW a \in Nat, NEW b \in Nat
    PROVE  /\ Max({a, b}) = IF a >= b THEN a ELSE b
           /\ Min({a, b}) = IF a <= b THEN a ELSE b
<1>1. \E x \in {a, b} : \A y \in {a, b} : x >= y
  OBVIOUS
<1>2. \E x \in {a, b} : \A y \in {a, b} : x =< y
  OBVIOUS
<1>3. Max({a, b}) \in {a, b} /\ \A y \in {a, b} : Max({a, b}) >= y
  BY <1>1 DEF Max
<1>4. Min({a, b}) \in {a, b} /\ \A y \in {a, b} : Min({a, b}) =< y
  BY <1>2 DEF Min
<1> QED BY <1>3, <1>4

\* The least of one.
LEMMA OfOne ==
    ASSUME NEW a \in Nat
    PROVE  Min({a}) = a
<1>1. \E x \in {a} : \A y \in {a} : x =< y
  OBVIOUS
<1> QED BY <1>1 DEF Min

\* A set of numbers has a least one.
LEMMA LeastNumber ==
    ASSUME NEW S \in SUBSET Nat, S # {}
    PROVE  \E x \in S : \A y \in S : x =< y
<1> DEFINE less == {ss \in Nat \X Nat : ss[1] < ss[2]}
<1>1. IsWellFoundedOn(less, Nat)
  BY NatLessThanWellFounded DEF OpToRel
<1>2. PICK n \in S : \A m \in S : ~ <<m, n>> \in less
  <2> HIDE DEF less
  <2> QED BY <1>1, WFMin
<1>3. S \subseteq Nat
  OBVIOUS
<1>4. \A m, k \in S : ~ (<<m, k>> \in less) => k =< m
  BY <1>3
<1> HIDE DEF less
<1> QED BY <1>2, <1>4

\* A set of numbers that is not empty has a least one.
LEMMA LeastOf ==
    ASSUME NEW S \in SUBSET Nat, S # {}
    PROVE  Min(S) \in S
BY LeastNumber DEF Min

\* A merge takes what is on one of the two sides.
LEMMA Merging ==
    ASSUME ConflictsTypeOK, NEW p \in Paths
    PROVE  /\ Merged(p) \in Sides(p) /\ Merged(p) \in 0..newest
           /\ folder[p] = destination[p] => Merged(p) = folder[p]
<1>1. folder[p] \in 0..newest /\ destination[p] \in 0..newest /\ newest \in Nat
  BY TreeTypes
<1>2. Max({folder[p], destination[p]}) = IF folder[p] >= destination[p] THEN folder[p] ELSE destination[p]
  BY <1>1, OfTwo
<1> QED BY <1>1, <1>2 DEF Merged, Sides

\* The two files of a clash go to the save and to a free marker.
Preserved(outcome) ==
    \E n \in FreeNumbers, loser \in Sides(Save), winner \in Sides(Save) :
        /\ loser # winner /\ loser # Absent
        /\ outcome[Marker(n)] = loser /\ outcome[Save] = winner
        /\ \A p \in Paths : p # Save /\ p # Marker(n) => outcome[p] = Merged(p)
        /\ owed' = IF fileBased THEN owed ELSE owed \cup {loser}

\* What a cycle does to the two trees, apart from the renames: nothing is new.
LEMMA CycleResult ==
    ASSUME ConflictsTypeOK, Bisync
    PROVE  \E outcome \in [Paths -> 0..newest] :
              /\ agreed' = outcome
              /\ ~ fileBased => folder' = outcome /\ destination' = outcome
              /\ {folder', destination'} \subseteq {outcome, Duplicated(outcome)}
              /\ failures' = 0 => /\ failures = 0
                                  /\ folder' = destination'
              /\ failures' \in {failures, failures + 1} /\ failures' <= MaxFailures
              /\ \/ Preserved(outcome)
                 \/ owed' = owed /\ \A p \in Paths : outcome[p] = Merged(p)
<1> DEFINE merged == [p \in Paths |-> Merged(p)]
           loser  == IF Clash THEN {Min({folder[Save], destination[Save]})} ELSE {}
           outcome == IF Clash THEN [merged EXCEPT ![Marker(Min(FreeNumbers))] = Min(loser)]
                     ELSE merged
           done   == IF fileBased THEN Duplicated(outcome) ELSE outcome
<1>1. /\ Clash => FreeNumbers # {}
      /\ agreed' = outcome
      /\ \/ folder' = done /\ destination' = done /\ UNCHANGED failures
         \/ /\ done # outcome /\ OperationFails
            /\ \/ folder' = outcome /\ destination' = done
               \/ folder' = done /\ destination' = outcome
      /\ owed' = IF fileBased THEN owed ELSE owed \cup loser
  BY DEF Bisync
<1>2. merged \in [Paths -> 0..newest] /\ failures \in Nat /\ failures <= MaxFailures /\ MaxFailures \in Nat
  BY Merging, TreeTypes
<1>3. CASE ~ Clash
  <2>1. outcome = merged /\ loser = {}
    BY <1>3
  <2>2. owed' = owed
    BY <1>1, <2>1
  <2>3. agreed' = merged
    BY <1>1, <2>1
  <2>4. ~ fileBased => done = merged
    BY <2>1
  <2>5. done \in {merged, Duplicated(merged)}
    BY <2>1
  <2>6. \A p \in Paths : merged[p] = Merged(p)
    OBVIOUS
  <2>7. ~ fileBased => folder' = merged /\ destination' = merged
    BY <1>1, <2>1, <2>4
  <2>8. {folder', destination'} \subseteq {merged, Duplicated(merged)}
    BY <1>1, <2>1, <2>5
  <2>9. failures' \in {failures, failures + 1} /\ failures' <= MaxFailures
    BY <1>1, <1>2 DEF OperationFails
  <2>10. failures' = 0 => failures = 0 /\ folder' = destination'
    BY <1>1, <1>2 DEF OperationFails
  <2> HIDE DEF merged, loser, outcome, done
  <2> QED BY <1>2, <2>2, <2>3, <2>6, <2>7, <2>8, <2>9, <2>10
<1>4. CASE Clash
  <2> DEFINE small == Min({folder[Save], destination[Save]})
             n     == Min(FreeNumbers)
             large == Merged(Save)
  <2>1. /\ folder[Save] \in 0..newest /\ destination[Save] \in 0..newest /\ newest \in Nat
        /\ folder[Save] # destination[Save] /\ folder[Save] # 0 /\ destination[Save] # 0
        /\ folder[Save] # agreed[Save] /\ destination[Save] # agreed[Save]
    BY <1>4, TreeTypes, PathsApart DEF Clash, Absent
  <2>2. /\ small = IF folder[Save] <= destination[Save] THEN folder[Save] ELSE destination[Save]
        /\ large = IF folder[Save] >= destination[Save] THEN folder[Save] ELSE destination[Save]
    BY <2>1, OfTwo DEF Merged
  <2>3. small \in Sides(Save) /\ large \in Sides(Save) /\ small # large /\ small # Absent /\ small \in 0..newest
    BY <2>1, <2>2 DEF Sides, Absent
  <2>4. loser = {small} /\ Min(loser) = small
    <3>1. loser = {small}
      BY <1>4
    <3>2. small \in Nat
      BY <2>1, <2>3
    <3> HIDE DEF small, loser
    <3> QED BY <3>1, <3>2, OfOne
  <2>5. n \in FreeNumbers
    <3>1. FreeNumbers \in SUBSET Nat
      BY DEF FreeNumbers, Numbers
    <3> QED BY <1>1, <1>4, <3>1, LeastOf
  <2>6. n \in Numbers
    BY <2>5 DEF FreeNumbers
  <2>7. outcome = [merged EXCEPT ![Marker(n)] = small]
    BY <1>4, <2>4
  <2> HIDE DEF small, n, large, merged, loser, outcome
  <2>8. outcome \in [Paths -> 0..newest]
    BY <1>2, <2>3, <2>7
  <2>9. /\ outcome[Marker(n)] = small
        /\ \A p \in Paths : p # Marker(n) => outcome[p] = merged[p]
    BY <1>2, <2>6, <2>7, PathsApart
  <2>10. \A p \in Paths : merged[p] = Merged(p)
    BY DEF merged
  <2>11. outcome[Save] = large
    BY <2>6, <2>9, <2>10, PathsApart DEF large
  <2>12. owed' = IF fileBased THEN owed ELSE owed \cup {small}
    BY <1>1, <2>4
  <2>13. Preserved(outcome)
    BY <2>3, <2>5, <2>9, <2>10, <2>11, <2>12 DEF Preserved
  <2>14. /\ ~ fileBased => folder' = outcome /\ destination' = outcome
         /\ {folder', destination'} \subseteq {outcome, Duplicated(outcome)}
    BY <1>1
  <2>15. failures' \in {failures, failures + 1} /\ failures' <= MaxFailures
    BY <1>1, <1>2 DEF OperationFails
  <2>16. failures' = 0 => failures = 0 /\ folder' = destination'
    BY <1>1, <1>2 DEF OperationFails
  <2> HIDE DEF done
  <2> QED BY <1>1, <2>8, <2>13, <2>14, <2>15, <2>16
<1> QED BY <1>3, <1>4

\* The renames of a cycle, path by path.
LEMMA Duplicating ==
    ASSUME NEW tree
    PROVE  /\ Duplicated(tree) = [p \in Paths |-> Duplicated(tree)[p]]
           /\ Duplicated(tree)[Save] = tree[Save]
           /\ \A n \in Numbers :
                /\ Duplicated(tree)[Marker(n)] = Absent
                /\ Duplicated(tree)[Kept(n)] = IF tree[Marker(n)] # Absent THEN tree[Marker(n)]
                                               ELSE tree[Kept(n)]
  BY PathsApart DEF Duplicated

\* The trees of a state.
TypedTrees == [Paths -> 0..newest]

\* The operations on trees keep their type.
LEMMA TreeOperations ==
    ASSUME ConflictsTypeOK, NEW tree \in TypedTrees, NEW p \in Paths, NEW q \in Paths
    PROVE  /\ Duplicated(tree) \in TypedTrees
           /\ Without(tree, p) \in TypedTrees
           /\ CopyOver(tree, p, q) \in TypedTrees
           /\ Moved(tree, p, q) \in TypedTrees
<1>1. 0 \in 0..newest
  BY TreeTypes
<1>2. Duplicated(tree) \in TypedTrees
  <2>1. \A r \in Paths : Duplicated(tree)[r] \in 0..newest
    BY <1>1, Duplicating, PathsApart DEF TypedTrees, Absent
  <2> QED BY <2>1, Duplicating DEF TypedTrees
<1>3. Without(tree, p) \in TypedTrees /\ CopyOver(tree, p, q) \in TypedTrees
  BY <1>1 DEF TypedTrees, Without, CopyOver, Absent
<1>4. Without(CopyOver(tree, p, q), p) \in TypedTrees
  BY <1>1, <1>3 DEF TypedTrees, Without, Absent
<1> QED BY <1>2, <1>3, <1>4 DEF Moved

\* Their values.
LEMMA TreeValues ==
    ASSUME ConflictsTypeOK, NEW tree \in TypedTrees, NEW p \in Paths, NEW q \in Paths, p # q
    PROVE  /\ \A r \in Paths : Without(tree, p)[r] = IF r = p THEN Absent ELSE tree[r]
           /\ \A r \in Paths : CopyOver(tree, p, q)[r] = IF r = q THEN tree[p] ELSE tree[r]
           /\ \A r \in Paths :
                Moved(tree, p, q)[r] = CASE tree[p] = Absent -> tree[r]
                                         [] tree[p] # Absent /\ r = p -> Absent
                                         [] tree[p] # Absent /\ r = q -> tree[p]
                                         [] OTHER -> tree[r]
<1>1. \A r \in Paths : Without(tree, p)[r] = IF r = p THEN Absent ELSE tree[r]
  BY DEF Without, TypedTrees
<1>2. \A r \in Paths : CopyOver(tree, p, q)[r] = IF r = q THEN tree[p] ELSE tree[r]
  BY DEF CopyOver, TypedTrees
<1>3. CopyOver(tree, p, q) \in TypedTrees
  BY TreeOperations
<1>4. \A r \in Paths : Without(CopyOver(tree, p, q), p)[r] =
          IF r = p THEN Absent ELSE IF r = q THEN tree[p] ELSE tree[r]
  BY <1>2, <1>3 DEF Without, TypedTrees
<1> QED BY <1>1, <1>2, <1>4 DEF Moved

\* A decision about losers keeps the types of what it changes.
LEMMA ResolvedTypes ==
    ASSUME ConflictsTypeOK, NEW settled, NEW gone \in SUBSET (0..newest), Resolved(settled, gone),
           folder' \in TypedTrees, destination' \in TypedTrees, failures' = failures \/ OperationFails
    PROVE  ConflictsTypeOK'
<1>1. /\ newest' = newest /\ agreed' \in TypedTrees /\ fileBased' \in BOOLEAN /\ begun' \in BOOLEAN
  BY TreeTypes DEF Resolved, TypedTrees
<1>2. owed' \subseteq 1..newest /\ discarded' \subseteq 1..newest
  <2>1. owed \subseteq 1..newest /\ discarded \subseteq 1..newest /\ newest \in Nat
    BY TreeTypes
  <2>2. gone \ {Absent} \subseteq 1..newest
    BY <2>1 DEF Absent
  <2>3. owed' = owed \ settled /\ discarded' = (discarded \ settled) \cup (gone \ {Absent})
    BY DEF Resolved
  <2> QED BY <2>1, <2>2, <2>3
<1>3. failures' \in 0..MaxFailures
  BY TreeTypes DEF OperationFails
<1>4. newest \in 1..MaxSaves
  BY TreeTypes
<1> QED BY <1>1, <1>2, <1>3, <1>4 DEF ConflictsTypeOK, SaveVersions, TypedTrees

\* The state keeps its types.
LEMMA ConflictTypes ==
    ASSUME ConflictsTypeOK, ConflictsNext
    PROVE  ConflictsTypeOK'
<1>1. /\ folder \in TypedTrees /\ destination \in TypedTrees /\ agreed \in TypedTrees
      /\ newest \in 1..MaxSaves /\ newest \in Nat /\ failures \in 0..MaxFailures
      /\ owed \subseteq 1..newest /\ discarded \subseteq 1..newest
      /\ fileBased \in BOOLEAN /\ begun \in BOOLEAN
  BY TreeTypes DEF TypedTrees
<1>2. CASE Bisync
  <2>1. PICK outcome \in TypedTrees :
              /\ agreed' = outcome
              /\ {folder', destination'} \subseteq {outcome, Duplicated(outcome)}
              /\ failures' \in {failures, failures + 1} /\ failures' <= MaxFailures
              /\ \/ Preserved(outcome)
                 \/ owed' = owed
    BY <1>2, CycleResult DEF TypedTrees
  <2>2. Duplicated(outcome) \in TypedTrees
    BY PathsApart, TreeOperations
  <2>3. UNCHANGED <<fileBased, begun, newest, discarded>>
    BY <1>2 DEF Bisync
  <2>4. owed' \subseteq 1..newest
    <3>1. CASE Preserved(outcome)
      <4>1. PICK loser \in Sides(Save) : loser # Absent /\ owed' = IF fileBased THEN owed ELSE owed \cup {loser}
        BY <3>1 DEF Preserved
      <4>2. loser \in 0..newest
        BY <1>1, <4>1, PathsApart DEF Sides, TypedTrees
      <4>3. loser \in 1..newest
        BY <1>1, <4>1, <4>2 DEF Absent
      <4> QED BY <1>1, <4>1, <4>3
    <3> QED BY <1>1, <2>1, <3>1
  <2>5. failures' \in 0..MaxFailures
    BY <1>1, <2>1
  <2>6. folder' \in TypedTrees /\ destination' \in TypedTrees /\ agreed' \in TypedTrees
    BY <2>1, <2>2
  <2> QED BY <1>1, <2>3, <2>4, <2>5, <2>6 DEF ConflictsTypeOK, SaveVersions, TypedTrees
<1>3. CASE Resync
  <2>1. \A p \in Paths : Max({folder[p], destination[p]}) \in 0..newest
    <3>1. \A p \in Paths : folder[p] \in 0..newest /\ destination[p] \in 0..newest
      BY <1>1 DEF TypedTrees
    <3> QED BY <1>1, <3>1, OfTwo
  <2>2. folder' \in TypedTrees /\ destination' \in TypedTrees /\ agreed' \in TypedTrees
    BY <1>3, <2>1 DEF Resync, TypedTrees
  <2>3. UNCHANGED <<fileBased, newest, failures, owed, discarded>> /\ begun' = TRUE
    BY <1>3 DEF Resync
  <2> QED BY <1>1, <2>2, <2>3 DEF ConflictsTypeOK, SaveVersions, TypedTrees
<1>4. ASSUME NEW n \in Numbers, KeepCurrent(n) \/ UseConflict(n) \/ UseConflictFails(n) \/ KeepBoth(n)
      PROVE  ConflictsTypeOK'
  <2>1. Marker(n) \in Paths /\ Kept(n) \in Paths /\ Save \in Paths
    BY PathsApart
  <2>2. /\ Without(folder, Marker(n)) \in TypedTrees /\ Without(destination, Marker(n)) \in TypedTrees
        /\ Moved(folder, Marker(n), Save) \in TypedTrees /\ Moved(destination, Marker(n), Save) \in TypedTrees
        /\ Moved(folder, Marker(n), Kept(n)) \in TypedTrees /\ Moved(destination, Marker(n), Kept(n)) \in TypedTrees
        /\ CopyOver(destination, Marker(n), Save) \in TypedTrees
        /\ CopyOver(folder, Marker(n), Save) \in TypedTrees
    BY <1>1, <2>1, TreeOperations
  <2>3. /\ destination[Marker(n)] \in 0..newest /\ destination[Save] \in 0..newest
        /\ folder[Save] \in 0..newest
    BY <1>1, <2>1 DEF TypedTrees
  <2>4. CASE KeepCurrent(n)
    BY <1>1, <2>2, <2>3, <2>4, ResolvedTypes DEF KeepCurrent
  <2>5. CASE UseConflict(n)
    BY <1>1, <2>2, <2>3, <2>5, ResolvedTypes DEF UseConflict
  <2>6. CASE UseConflictFails(n)
    <3>1. failures' \in 0..MaxFailures
      BY <1>1, <2>6, TreeTypes DEF UseConflictFails, OperationFails
    <3> QED BY <1>1, <2>2, <2>6, <3>1 DEF UseConflictFails, ConflictsTypeOK, SaveVersions, TypedTrees
  <2>7. CASE KeepBoth(n)
    BY <1>1, <2>2, <2>3, <2>7, ResolvedTypes DEF KeepBoth
  <2> QED BY <1>4, <2>4, <2>5, <2>6, <2>7
<1>5. CASE PlayHere \/ PlayThere
  <2>1. newest' = newest + 1 /\ newest' \in 1..MaxSaves
    BY <1>1, <1>5, TreeTypes DEF PlayHere, PlayThere
  <2>2. \A tree \in TypedTrees : tree \in [Paths -> 0..newest'] /\ [tree EXCEPT ![Save] = newest + 1] \in [Paths -> 0..newest']
    <3>1. newest + 1 \in 0..newest' /\ \A v \in 0..newest : v \in 0..newest'
      BY <1>1, <2>1
    <3> QED BY <3>1 DEF TypedTrees
  <2>3. /\ folder' \in [Paths -> 0..newest'] /\ destination' \in [Paths -> 0..newest']
        /\ agreed' \in [Paths -> 0..newest']
    BY <1>1, <1>5, <2>2 DEF PlayHere, PlayThere
  <2>4. owed \subseteq 1..newest' /\ discarded \subseteq 1..newest'
    BY <1>1, <2>1
  <2> QED BY <1>1, <1>5, <2>1, <2>3, <2>4 DEF PlayHere, PlayThere, ConflictsTypeOK, SaveVersions
<1>6. CASE DeleteSave
  <2>1. folder' \in TypedTrees
    BY <1>1, <1>6, PathsApart, TreeOperations DEF DeleteSave
  <2> QED BY <1>1, <1>6, <2>1 DEF DeleteSave, ConflictsTypeOK, SaveVersions, TypedTrees
<1> QED BY <1>2, <1>3, <1>4, <1>5, <1>6 DEF ConflictsNext

\* Both sides hold versions everywhere.
LEMMA Values ==
    ASSUME ConflictsTypeOK
    PROVE  /\ \A p \in Paths : folder[p] \in 0..newest /\ destination[p] \in 0..newest
           /\ \A v \in owed \cup discarded : v # Absent
           /\ folder \in TypedTrees /\ destination \in TypedTrees
  BY TreeTypes DEF TypedTrees, Absent

\* A pair that is listed has its loser at the destination.
LEMMA ListedHas ==
    ASSUME NEW n \in ListedPairs
    PROVE  /\ n \in Numbers /\ begun
           /\ destination[Save] # Absent /\ destination[Marker(n)] # Absent
  BY DEF ListedPairs

\* A resolution of n: the marker of n goes at the destination, and in the save
\* folder too or the loser stays owed.
LEMMA OwedResolved ==
    ASSUME ConflictsTypeOK, OwedInvariant, NEW n \in ListedPairs,
           NEW settled \in SUBSET {destination[Marker(n)]}, NEW gone, Resolved(settled, gone),
           \A k \in Numbers : destination'[Marker(k)] = IF k = n THEN Absent ELSE destination[Marker(k)],
           \/ \A k \in Numbers : folder'[Marker(k)] = IF k = n THEN Absent ELSE folder[Marker(k)]
           \/ \A k \in Numbers : folder'[Marker(k)] = folder[Marker(k)],
           (\A k \in Numbers : folder'[Marker(k)] = folder[Marker(k)]) \/ settled = {destination[Marker(n)]}
    PROVE  OwedInvariant'
<1>1. fileBased' = fileBased /\ begun' = FALSE /\ owed' = owed \ settled
  BY DEF Resolved
<1>2. CASE fileBased
  BY <1>1, <1>2 DEF OwedInvariant
<1>3. CASE ~ fileBased
  <2>1. SameMarkers
    BY <1>3, ListedHas DEF OwedInvariant
  <2>2. \A k \in Numbers : Absent \in Sides(Marker(k))' \/ folder'[Marker(k)] = destination'[Marker(k)]
    BY <2>1 DEF Sides, SameMarkers
  <2>3. ASSUME NEW v \in owed' PROVE Marked(v)'
    <3>1. v \in owed /\ v \notin settled
      BY <1>1, <2>3
    <3>2. PICK k \in Numbers : folder[Marker(k)] = v \/ destination[Marker(k)] = v
      BY <1>3, <3>1 DEF OwedInvariant, Marked
    <3>3. folder[Marker(k)] = v /\ destination[Marker(k)] = v
      BY <2>1, <3>2 DEF SameMarkers
    <3>4. CASE k # n
      BY <3>3, <3>4 DEF Marked
    <3>5. CASE k = n
      BY <3>1, <3>3, <3>5 DEF Marked
    <3> QED BY <3>4, <3>5
  <2> QED BY <1>1, <1>3, <2>2, <2>3 DEF OwedInvariant
<1> QED BY <1>2, <1>3

\* A step that leaves the markers alone.
LEMMA OwedStays ==
    ASSUME OwedInvariant, UNCHANGED <<fileBased, begun, owed>>,
           \A k \in Numbers : /\ folder'[Marker(k)] = folder[Marker(k)]
                              /\ destination'[Marker(k)] = destination[Marker(k)]
    PROVE  OwedInvariant'
<1>1. SameMarkers => SameMarkers'
  BY DEF SameMarkers
<1>2. \A v \in owed : Marked(v) => Marked(v)'
  BY DEF Marked
<1>3. \A n \in Numbers : Sides(Marker(n))' = Sides(Marker(n))
  BY DEF Sides
<1>4. fileBased' = fileBased /\ begun' = begun /\ owed' = owed
  OBVIOUS
<1>5. CASE fileBased
  BY <1>4, <1>5 DEF OwedInvariant
<1>6. CASE ~ fileBased
  <2>1. \A n \in Numbers : \/ Absent \in Sides(Marker(n))'
                           \/ folder'[Marker(n)] = destination'[Marker(n)]
    BY <1>3, <1>6 DEF OwedInvariant
  <2>2. begun' => SameMarkers'
    BY <1>1, <1>4, <1>6 DEF OwedInvariant
  <2>3. \A v \in owed' : Marked(v)'
    BY <1>2, <1>4, <1>6 DEF OwedInvariant
  <2>4. ~ fileBased'
    BY <1>4, <1>6
  <2> QED BY <2>1, <2>2, <2>3, <2>4 DEF OwedInvariant
<1> QED BY <1>5, <1>6

\* A cycle marks the loser it makes and leaves the others.
LEMMA OwedCycle ==
    ASSUME ConflictsTypeOK, OwedInvariant, Bisync
    PROVE  OwedInvariant'
<1>1. fileBased' = fileBased /\ begun' = begun /\ begun
  BY DEF Bisync
<1>2. PICK outcome \in [Paths -> 0..newest] :
          /\ ~ fileBased => folder' = outcome /\ destination' = outcome
          /\ \/ Preserved(outcome)
             \/ owed' = owed /\ \A p \in Paths : outcome[p] = Merged(p)
  BY CycleResult
<1>3. CASE fileBased
  BY <1>1, <1>2, <1>3 DEF OwedInvariant, Preserved
<1>4. CASE ~ fileBased
  <2>1. SameMarkers
    BY <1>1, <1>4 DEF OwedInvariant
  <2>2. ASSUME NEW v \in owed, NEW n \in Numbers, folder[Marker(n)] = v, NEW m \in FreeNumbers
        PROVE  m # n
    BY <2>2, Values DEF FreeNumbers
  <2>3. ASSUME NEW v \in owed PROVE \E n \in Numbers : outcome[Marker(n)] = v
    <3>1. PICK n \in Numbers : folder[Marker(n)] = v
      BY <1>4, <2>1 DEF OwedInvariant, Marked, SameMarkers
    <3>2. Merged(Marker(n)) = v
      BY <2>1, <3>1, Merging, PathsApart DEF SameMarkers
    <3>3. CASE Preserved(outcome)
      <4>1. PICK m \in FreeNumbers :
                \A p \in Paths : p # Save /\ p # Marker(m) => outcome[p] = Merged(p)
        BY <3>3 DEF Preserved
      <4>2. m \in Numbers /\ m # n
        BY <2>2, <3>1, <4>1 DEF FreeNumbers
      <4> QED BY <3>2, <4>1, <4>2, PathsApart
    <3>4. CASE ~ Preserved(outcome)
      BY <1>2, <3>2, <3>4, PathsApart
    <3> QED BY <3>3, <3>4
  <2>4. ASSUME NEW v \in owed', v \notin owed PROVE \E n \in Numbers : outcome[Marker(n)] = v
    <3>1. PICK m \in FreeNumbers, loser \in Sides(Save) :
              outcome[Marker(m)] = loser /\ owed' = owed \cup {loser}
      BY <1>2, <1>4, <2>4 DEF Preserved
    <3>2. m \in Numbers
      BY <3>1 DEF FreeNumbers
    <3> QED BY <2>4, <3>1, <3>2
  <2>5. \A v \in owed' : Marked(v)'
    BY <1>2, <1>4, <2>3, <2>4 DEF Marked
  <2> QED BY <1>1, <1>2, <1>4, <2>5 DEF OwedInvariant, SameMarkers
<1> QED BY <1>3, <1>4

\* A resync brings a marker that one side has lost back to it.
LEMMA OwedResync ==
    ASSUME ConflictsTypeOK, OwedInvariant, Resync
    PROVE  OwedInvariant'
<1>1. UNCHANGED <<fileBased, owed>> /\ folder' = destination'
  BY DEF Resync
<1>2. CASE fileBased
  BY <1>1, <1>2 DEF OwedInvariant
<1>3. CASE ~ fileBased
  <2>1. ASSUME NEW v \in owed PROVE Marked(v)'
    <3>1. PICK n \in Numbers : folder[Marker(n)] = v \/ destination[Marker(n)] = v
      BY <1>3 DEF OwedInvariant, Marked
    <3>2. /\ folder[Marker(n)] \in 0..newest /\ destination[Marker(n)] \in 0..newest
          /\ v # 0 /\ newest \in Nat
      BY Values, TreeTypes, PathsApart DEF Absent
    <3>3. \/ folder[Marker(n)] = 0 \/ destination[Marker(n)] = 0
          \/ folder[Marker(n)] = destination[Marker(n)]
      BY <1>3 DEF OwedInvariant, Sides, Absent
    <3>4. Max({folder[Marker(n)], destination[Marker(n)]}) =
             IF folder[Marker(n)] >= destination[Marker(n)] THEN folder[Marker(n)] ELSE destination[Marker(n)]
      BY <3>2, OfTwo
    <3>5. folder'[Marker(n)] = v
      <4>1. folder'[Marker(n)] = Max({folder[Marker(n)], destination[Marker(n)]})
        BY PathsApart DEF Resync
      <4> QED BY <3>1, <3>2, <3>3, <3>4, <4>1
    <3> QED BY <3>5 DEF Marked
  <2> QED BY <1>1, <1>3, <2>1 DEF OwedInvariant, SameMarkers
<1> QED BY <1>2, <1>3

\* Every step keeps what is said of the losers nobody has decided about.
LEMMA OwedStep ==
    ASSUME ConflictsTypeOK, OwedInvariant, ConflictsNext
    PROVE  OwedInvariant'
<1>1. ASSUME NEW n \in Numbers, KeepCurrent(n) \/ UseConflict(n) \/ UseConflictFails(n) \/ KeepBoth(n)
      PROVE  OwedInvariant'
  <2>1. n \in ListedPairs
    BY <1>1 DEF KeepCurrent, UseConflict, UseConflictFails, KeepBoth
  <2>2. /\ Marker(n) \in Paths /\ Kept(n) \in Paths /\ Save \in Paths
        /\ Marker(n) # Save /\ Marker(n) # Kept(n)
        /\ \A k \in Numbers : Marker(k) \in Paths /\ Marker(k) # Save /\ Marker(k) # Kept(n)
        /\ \A k \in Numbers : Marker(k) = Marker(n) <=> k = n
    BY PathsApart
  <2>3. destination[Marker(n)] # Absent
    BY <2>1, ListedHas
  <2>4. ASSUME NEW tree \in TypedTrees, NEW k \in Numbers
        PROVE  /\ Without(tree, Marker(n))[Marker(k)] = IF k = n THEN Absent ELSE tree[Marker(k)]
               /\ Moved(tree, Marker(n), Save)[Marker(k)] = IF k = n THEN Absent ELSE tree[Marker(k)]
               /\ Moved(tree, Marker(n), Kept(n))[Marker(k)] = IF k = n THEN Absent ELSE tree[Marker(k)]
               /\ CopyOver(tree, Marker(n), Save)[Marker(k)] = tree[Marker(k)]
    <3>1. /\ Without(tree, Marker(n))[Marker(k)] = IF k = n THEN Absent ELSE tree[Marker(k)]
          /\ CopyOver(tree, Marker(n), Save)[Marker(k)] = tree[Marker(k)]
      BY <2>2, TreeValues
    <3>2. ASSUME NEW q \in Paths, q # Marker(n), q # Marker(k)
          PROVE  Moved(tree, Marker(n), q)[Marker(k)] = IF k = n THEN Absent ELSE tree[Marker(k)]
      BY <2>2, <3>2, TreeValues
    <3> QED BY <2>2, <3>1, <3>2
  <2>5. folder \in TypedTrees /\ destination \in TypedTrees
    BY Values
  <2>6. CASE KeepCurrent(n)
    <3>1. \A k \in Numbers : destination'[Marker(k)] = IF k = n THEN Absent ELSE destination[Marker(k)]
      BY <2>4, <2>5, <2>6 DEF KeepCurrent
    <3>2. CASE /\ folder' = Without(folder, Marker(n))
               /\ Resolved({destination[Marker(n)]}, {destination[Marker(n)]})
      <4>1. \A k \in Numbers : folder'[Marker(k)] = IF k = n THEN Absent ELSE folder[Marker(k)]
        BY <2>4, <2>5, <3>2
      <4> QED BY <2>1, <3>1, <3>2, <4>1, OwedResolved
    <3>3. CASE UNCHANGED folder /\ Resolved({}, {})
      BY <2>1, <3>1, <3>3, OwedResolved
    <3> QED BY <2>6, <3>2, <3>3 DEF KeepCurrent
  <2>7. CASE UseConflict(n)
    <3>1. \A k \in Numbers : destination'[Marker(k)] = IF k = n THEN Absent ELSE destination[Marker(k)]
      BY <2>4, <2>5, <2>7 DEF UseConflict
    <3>2. \/ \A k \in Numbers : folder'[Marker(k)] = IF k = n THEN Absent ELSE folder[Marker(k)]
          \/ \A k \in Numbers : folder'[Marker(k)] = folder[Marker(k)]
      <4>1. folder' = Moved(folder, Marker(n), Save) \/ folder' = CopyOver(folder, Marker(n), Save)
        BY <2>7 DEF UseConflict
      <4> QED BY <2>4, <2>5, <4>1
    <3>3. Resolved({destination[Marker(n)]}, {destination[Save], folder[Save]})
      BY <2>7 DEF UseConflict
    <3> QED BY <2>1, <3>1, <3>2, <3>3, OwedResolved
  <2>8. CASE UseConflictFails(n)
    <3>1. /\ UNCHANGED <<fileBased, begun, owed>>
          /\ folder' \in {folder, CopyOver(folder, Marker(n), Save)}
          /\ destination' = CopyOver(destination, Marker(n), Save)
      BY <2>8 DEF UseConflictFails
    <3>2. \A k \in Numbers : /\ folder'[Marker(k)] = folder[Marker(k)]
                             /\ destination'[Marker(k)] = destination[Marker(k)]
      BY <2>4, <2>5, <3>1
    <3> QED BY <3>1, <3>2, OwedStays
  <2>9. CASE KeepBoth(n)
    <3>1. /\ \A k \in Numbers : destination'[Marker(k)] = IF k = n THEN Absent ELSE destination[Marker(k)]
          /\ Resolved({destination[Marker(n)]}, {})
      BY <2>4, <2>5, <2>9 DEF KeepBoth
    <3>2. \/ \A k \in Numbers : folder'[Marker(k)] = IF k = n THEN Absent ELSE folder[Marker(k)]
          \/ \A k \in Numbers : folder'[Marker(k)] = folder[Marker(k)]
      <4>1. folder' = Moved(folder, Marker(n), Kept(n)) \/ folder' = folder
        BY <2>9 DEF KeepBoth
      <4> QED BY <2>4, <2>5, <4>1
    <3> QED BY <2>1, <3>1, <3>2, OwedResolved
  <2> QED BY <1>1, <2>6, <2>7, <2>8, <2>9
<1>2. CASE PlayHere \/ PlayThere \/ DeleteSave
  <2>1. /\ UNCHANGED <<fileBased, begun, owed>>
        /\ \A k \in Numbers : /\ folder'[Marker(k)] = folder[Marker(k)]
                              /\ destination'[Marker(k)] = destination[Marker(k)]
    BY <1>2, PathsApart, Values DEF PlayHere, PlayThere, DeleteSave, Without, TypedTrees
  <2> QED BY <2>1, OwedStays
<1> QED BY <1>1, <1>2, OwedCycle, OwedResync DEF ConflictsNext

\* Versions given up are nowhere, path by path.
LEMMA Nowhere ==
    \A v : (~Holds(folder, v) /\ ~Holds(destination, v)) <=> \A p \in Paths : v \notin Sides(p)
  BY DEF Holds, Sides

\* What is known as long as nothing has failed, in a form that is easy to keep.
LEMMA NoFailureSays ==
    ASSUME NoFailureInvariant, failures = 0
    PROVE  /\ SameAside /\ Apart
           /\ \A v \in discarded, p \in Paths : v \notin Sides(p)
  BY Nowhere DEF NoFailureInvariant

\* And back from that form.
LEMMA NoFailureKept ==
    ASSUME failures' = 0 => /\ SameAside' /\ Apart'
                            /\ \A v \in discarded', p \in Paths : v \notin Sides(p)'
    PROVE  NoFailureInvariant'
<1>1. ASSUME NEW v, \A p \in Paths : v \notin Sides(p)'
      PROVE  ~Holds(folder', v) /\ ~Holds(destination', v)
  BY <1>1 DEF Holds, Sides
<1> QED BY <1>1 DEF NoFailureInvariant

\* Both sides get one tree, made of versions that were there, each at one path.
LEMMA UnitedKeeps ==
    ASSUME ConflictsTypeOK, NoFailureInvariant, failures = 0, NEW tree,
           folder' = tree, destination' = tree, discarded' = discarded,
           \A p \in Paths : tree[p] # Absent => \E q \in Paths : tree[p] \in Sides(q),
           \A p, q \in Paths : p # q /\ tree[p] # Absent => tree[p] # tree[q]
    PROVE  NoFailureInvariant'
<1>1. \A p \in Paths : Sides(p)' = {tree[p]}
  BY DEF Sides
<1>2. SameAside' /\ Apart'
  BY <1>1 DEF SameAside, Apart
<1>3. \A v \in discarded', p \in Paths : v \notin Sides(p)'
  BY <1>1, NoFailureSays, Values
<1> QED BY <1>2, <1>3, NoFailureKept

\* A merged tree has each version at one path.
LEMMA MergeApart ==
    ASSUME ConflictsTypeOK, SameAside, Apart, NEW outcome \in TypedTrees,
           \/ Preserved(outcome)
           \/ \A p \in Paths : outcome[p] = Merged(p)
    PROVE  /\ \A p \in Paths : \E q \in Paths : outcome[p] \in Sides(q)
           /\ \A p, q \in Paths : p # q /\ outcome[p] # Absent => outcome[p] # outcome[q]
<1>1. \A p \in Paths : Merged(p) \in Sides(p)
  BY Merging
<1>2. CASE Preserved(outcome)
  <2>1. PICK n \in FreeNumbers, loser \in Sides(Save), winner \in Sides(Save) :
            /\ loser # winner /\ loser # Absent
            /\ outcome[Marker(n)] = loser /\ outcome[Save] = winner
            /\ \A p \in Paths : p # Save /\ p # Marker(n) => outcome[p] = Merged(p)
    BY <1>2 DEF Preserved
  <2>2. Marker(n) \in Paths /\ Save \in Paths /\ Marker(n) # Save
    BY PathsApart DEF FreeNumbers
  <2>3. \A p \in Paths : p # Marker(n) => outcome[p] \in Sides(p)
    BY <1>1, <2>1
  <2>4. ASSUME NEW p \in Paths, p # Marker(n) PROVE outcome[p] # loser
    <3>1. CASE p = Save
      BY <2>1, <3>1
    <3>2. CASE p # Save
      BY <2>1, <2>2, <2>3, <2>4, <3>2 DEF Apart
    <3> QED BY <3>1, <3>2
  <2>5. \A p, q \in Paths : p # q /\ p # Marker(n) /\ q # Marker(n) /\ outcome[p] # Absent => outcome[p] # outcome[q]
    BY <2>3 DEF Apart
  <2> QED BY <2>1, <2>2, <2>3, <2>4, <2>5
<1>3. CASE \A p \in Paths : outcome[p] = Merged(p)
  <2>1. \A p \in Paths : outcome[p] \in Sides(p)
    BY <1>1, <1>3
  <2> QED BY <2>1 DEF Apart
<1> QED BY <1>2, <1>3

\* So has one whose losers are renamed.
LEMMA DuplicatedApart ==
    ASSUME NEW tree, \A p, q \in Paths : p # q /\ tree[p] # Absent => tree[p] # tree[q]
    PROVE  LET done == Duplicated(tree)
           IN  /\ \A p \in Paths : done[p] # Absent => \E q \in Paths : done[p] = tree[q]
               /\ \A p, q \in Paths : p # q /\ done[p] # Absent => done[p] # done[q]
<1> DEFINE done == Duplicated(tree)
           moved(p, q) == \/ p = Save /\ q = Save
                         \/ \E n \in Numbers : p = Kept(n) /\ q \in {Marker(n), Kept(n)}
<1>1. /\ done[Save] = tree[Save]
      /\ \A n \in Numbers :
            /\ done[Marker(n)] = Absent
            /\ done[Kept(n)] = IF tree[Marker(n)] # Absent THEN tree[Marker(n)] ELSE tree[Kept(n)]
  BY Duplicating
<1> HIDE DEF done
<1>2. ASSUME NEW p \in Paths, done[p] # Absent PROVE \E q \in Paths : moved(p, q) /\ done[p] = tree[q]
  <2>1. CASE p = Save
    BY <1>1, <2>1
  <2>2. ASSUME NEW n \in Numbers, p = Kept(n) PROVE \E q \in Paths : moved(p, q) /\ done[p] = tree[q]
    BY <1>1, <2>2, PathsApart
  <2> QED BY <1>1, <1>2, <2>1, <2>2, PathsApart
<1>3. \A p, q, r, t \in Paths : p # q /\ moved(p, r) /\ moved(q, t) => r # t
  BY PathsApart
<1> HIDE DEF moved
<1>4. ASSUME NEW p \in Paths, NEW q \in Paths, p # q, done[p] # Absent PROVE done[p] # done[q]
  <2>1. PICK r \in Paths : moved(p, r) /\ done[p] = tree[r]
    BY <1>2, <1>4
  <2>2. CASE done[q] = Absent
    BY <1>4, <2>2
  <2>3. CASE done[q] # Absent
    <3>1. PICK t \in Paths : moved(q, t) /\ done[q] = tree[t]
      BY <1>2, <2>3
    <3>2. r # t
      BY <1>3, <1>4, <2>1, <3>1
    <3> QED BY <1>4, <2>1, <3>1, <3>2
  <2> QED BY <2>2, <2>3
<1> QED BY <1>2, <1>4 DEF done

\* Cycles and resyncs.
LEMMA NoFailureCycle ==
    ASSUME ConflictsTypeOK, NoFailureInvariant, Bisync \/ Resync
    PROVE  NoFailureInvariant'
<1>1. SUFFICES ASSUME failures' = 0
               PROVE  NoFailureInvariant'
  BY NoFailureKept
<1>2. CASE Bisync
  <2>1. PICK outcome \in TypedTrees :
              /\ {folder', destination'} \subseteq {outcome, Duplicated(outcome)}
              /\ failures = 0 /\ folder' = destination'
              /\ \/ Preserved(outcome)
                 \/ \A p \in Paths : outcome[p] = Merged(p)
    BY <1>1, <1>2, CycleResult DEF TypedTrees
  <2>2. SameAside /\ Apart
    BY <2>1, NoFailureSays
  <2>3. /\ \A p \in Paths : \E q \in Paths : outcome[p] \in Sides(q)
        /\ \A p, q \in Paths : p # q /\ outcome[p] # Absent => outcome[p] # outcome[q]
    BY <2>1, <2>2, MergeApart
  <2>4. discarded' = discarded
    BY <1>2 DEF Bisync
  <2>5. CASE folder' = outcome
    BY <2>1, <2>3, <2>4, <2>5, UnitedKeeps
  <2>6. CASE folder' = Duplicated(outcome)
    <3> DEFINE done == Duplicated(outcome)
    <3>1. /\ \A p \in Paths : done[p] # Absent => \E q \in Paths : done[p] = outcome[q]
          /\ \A p, q \in Paths : p # q /\ done[p] # Absent => done[p] # done[q]
      BY <2>3, DuplicatedApart
    <3>2. folder' = done /\ destination' = done
      BY <2>1, <2>6
    <3> HIDE DEF done
    <3>3. \A p \in Paths : done[p] # Absent => \E q \in Paths : done[p] \in Sides(q)
      BY <2>3, <3>1
    <3> QED BY <2>1, <2>4, <3>1, <3>2, <3>3, UnitedKeeps
  <2> QED BY <2>1, <2>5, <2>6
<1>3. CASE Resync
  <2> DEFINE union == [p \in Paths |-> Max({folder[p], destination[p]})]
  <2>1. folder' = union /\ destination' = union /\ failures = 0 /\ discarded' = discarded
    BY <1>1, <1>3 DEF Resync
  <2>2. \A p \in Paths : union[p] \in Sides(p)
    <3>1. ASSUME NEW p \in Paths PROVE Max({folder[p], destination[p]}) \in Sides(p)
      <4>1. folder[p] \in Nat /\ destination[p] \in Nat
        BY Values, TreeTypes
      <4> QED BY <4>1, OfTwo DEF Sides
    <3> QED BY <3>1
  <2>3. Apart
    BY <2>1, NoFailureSays
  <2> HIDE DEF union
  <2>4. \A p, q \in Paths : p # q /\ union[p] # Absent => union[p] # union[q]
    BY <2>2, <2>3 DEF Apart
  <2> QED BY <2>1, <2>2, <2>4, UnitedKeeps
<1> QED BY <1>2, <1>3

\* A loser moves over what is at q, on both sides.
LEMMA LoserMoves ==
    ASSUME ConflictsTypeOK, NoFailureInvariant, failures = 0, NEW n \in ListedPairs,
           NEW q \in Paths, q # Marker(n),
           folder' = Moved(folder, Marker(n), q), destination' = Moved(destination, Marker(n), q),
           NEW gone \in SUBSET Sides(q), Resolved({destination[Marker(n)]}, gone)
    PROVE  NoFailureInvariant'
<1> DEFINE v == destination[Marker(n)]
<1>1. Marker(n) \in Paths /\ Marker(n) # Save /\ v # Absent
  BY PathsApart, ListedHas
<1>2. SameAside /\ Apart /\ \A w \in discarded, p \in Paths : w \notin Sides(p)
  BY NoFailureSays
<1>3. folder[Marker(n)] = v
  BY <1>1, <1>2 DEF SameAside
<1>4. \A p \in Paths : /\ folder'[p] = IF p = Marker(n) THEN Absent ELSE IF p = q THEN v ELSE folder[p]
                       /\ destination'[p] = IF p = Marker(n) THEN Absent ELSE IF p = q THEN v
                                            ELSE destination[p]
  <2>1. folder \in TypedTrees /\ destination \in TypedTrees
    BY Values
  <2>2. ASSUME NEW tree \in TypedTrees, tree[Marker(n)] = v, NEW p \in Paths
        PROVE  Moved(tree, Marker(n), q)[p] = IF p = Marker(n) THEN Absent ELSE IF p = q THEN v ELSE tree[p]
    BY <1>1, <2>2, TreeValues
  <2> QED BY <1>3, <2>1, <2>2
<1>5. Sides(Marker(n)) = {v}
  BY <1>3 DEF Sides
<1>6. \A p \in Paths : Sides(p)' = IF p = Marker(n) THEN {Absent} ELSE IF p = q THEN {v} ELSE Sides(p)
  BY <1>4 DEF Sides
<1> HIDE DEF v
<1>7. \A p \in Paths : p # Marker(n) => v \notin Sides(p)
  BY <1>1, <1>2, <1>5 DEF Apart
<1>8. Apart'
  BY <1>2, <1>6, <1>7 DEF Apart
<1>9. SameAside'
  BY <1>2, <1>4 DEF SameAside
<1>10. ASSUME NEW w \in discarded', NEW p \in Paths PROVE w \notin Sides(p)'
  <2>1. w \in discarded \/ w \in gone
    BY <1>10 DEF Resolved
  <2>2. w # Absent /\ w # v
    <3>1. discarded' = (discarded \ {v}) \cup (gone \ {Absent})
      BY DEF Resolved, v
    <3>2. w \in gone => w # v
      BY <1>7
    <3> QED BY <1>10, <3>1, <3>2, Values
  <2>3. CASE w \in discarded
    BY <1>2, <1>6, <2>2, <2>3
  <2>4. CASE w \in gone
    <3>1. p # q => w \notin Sides(p)
      BY <1>2, <2>2, <2>4 DEF Apart
    <3> QED BY <1>6, <2>2, <3>1
  <2> QED BY <2>1, <2>3, <2>4
<1> QED BY <1>8, <1>9, <1>10, NoFailureKept

\* A loser is removed on both sides.
LEMMA LoserGoes ==
    ASSUME ConflictsTypeOK, NoFailureInvariant, failures = 0, NEW n \in ListedPairs,
           folder' = Without(folder, Marker(n)), destination' = Without(destination, Marker(n)),
           Resolved({destination[Marker(n)]}, {destination[Marker(n)]})
    PROVE  NoFailureInvariant'
<1> DEFINE v == destination[Marker(n)]
<1>1. Marker(n) \in Paths /\ Marker(n) # Save /\ Save \in Paths
  BY PathsApart, ListedHas
<1>2. SameAside /\ Apart /\ \A w \in discarded, p \in Paths : w \notin Sides(p)
  BY NoFailureSays
<1>3. \A p \in Paths : /\ folder'[p] = IF p = Marker(n) THEN Absent ELSE folder[p]
                       /\ destination'[p] = IF p = Marker(n) THEN Absent ELSE destination[p]
  BY <1>1, TreeValues, Values
<1>4. \A p \in Paths : Sides(p)' = IF p = Marker(n) THEN {Absent} ELSE Sides(p)
  BY <1>3 DEF Sides
<1>5. v \in Sides(Marker(n)) /\ v # Absent
  BY ListedHas DEF Sides
<1> HIDE DEF v
<1>6. Apart'
  BY <1>2, <1>4 DEF Apart
<1>7. SameAside'
  BY <1>2, <1>3 DEF SameAside
<1>8. ASSUME NEW w \in discarded', NEW p \in Paths PROVE w \notin Sides(p)'
  <2>1. (w \in discarded \/ w = v)
    BY <1>8 DEF Resolved, v
  <2>2. w # Absent
    BY <1>5, <2>1, Values
  <2>3. p # Marker(n) => w \notin Sides(p)
    BY <1>1, <1>2, <1>5, <2>1, <2>2 DEF Apart
  <2> QED BY <1>4, <2>2, <2>3
<1> QED BY <1>6, <1>7, <1>8, NoFailureKept

\* The save changes on one side, to nothing or to a version that is new.
LEMMA SaveChanges ==
    ASSUME ConflictsTypeOK, NoFailureInvariant, failures = 0, discarded' = discarded,
           NEW v, v = Absent \/ v = newest + 1,
           \/ folder' = [folder EXCEPT ![Save] = v] /\ destination' = destination
           \/ destination' = [destination EXCEPT ![Save] = v] /\ folder' = folder
    PROVE  NoFailureInvariant'
<1>1. SameAside /\ Apart /\ \A w \in discarded, p \in Paths : w \notin Sides(p)
  BY NoFailureSays
<1>2. \A p \in Paths : p # Save => folder'[p] = folder[p] /\ destination'[p] = destination[p]
  BY Values DEF TypedTrees
<1>3. Sides(Save)' \subseteq Sides(Save) \cup {v}
  BY Values, PathsApart DEF Sides, TypedTrees
<1>4. \A p \in Paths : p # Save => Sides(p)' = Sides(p)
  BY <1>2 DEF Sides
<1>5. \A p \in Paths : \A w \in Sides(p) : w \in Nat /\ w <= newest
  BY Values, TreeTypes DEF Sides
<1>6. newest \in Nat /\ \A w \in discarded : w \in Nat /\ w <= newest /\ w # Absent
  BY Values, TreeTypes
<1>7. SameAside'
  BY <1>1, <1>2 DEF SameAside
<1>8. v = Absent \/ \A p \in Paths : v \notin Sides(p)
  BY <1>5, <1>6
<1>9. Apart'
  BY <1>1, <1>3, <1>4, <1>8 DEF Apart
<1>10. ASSUME NEW w \in discarded', NEW p \in Paths PROVE w \notin Sides(p)'
  <2>1. w \in discarded /\ w # v
    BY <1>6, <1>10
  <2>2. w \notin Sides(p)
    BY <1>1, <2>1
  <2> QED BY <1>3, <1>4, <2>1, <2>2
<1> QED BY <1>7, <1>9, <1>10, NoFailureKept

\* Every step keeps what is said of a history without failures.
LEMMA NoFailureStep ==
    ASSUME ConflictsTypeOK, NoFailureInvariant, ConflictsNext
    PROVE  NoFailureInvariant'
<1>1. SUFFICES ASSUME failures' = 0
               PROVE  NoFailureInvariant'
  BY NoFailureKept
<1>2. ~ OperationFails
  BY <1>1, TreeTypes DEF OperationFails
<1>3. ASSUME NEW n \in Numbers, KeepCurrent(n) \/ UseConflict(n) \/ UseConflictFails(n) \/ KeepBoth(n)
      PROVE  NoFailureInvariant'
  <2>1. n \in ListedPairs
    BY <1>3 DEF KeepCurrent, UseConflict, UseConflictFails, KeepBoth
  <2>2. /\ Marker(n) \in Paths /\ Kept(n) \in Paths /\ Save \in Paths
        /\ Marker(n) # Save /\ Marker(n) # Kept(n)
    BY PathsApart
  <2>3. failures = 0
    BY <1>1, <1>2, <1>3 DEF KeepCurrent, UseConflict, UseConflictFails, KeepBoth
  <2>4. folder[Marker(n)] = destination[Marker(n)] /\ folder[Marker(n)] # Absent
    BY <2>1, <2>2, <2>3, NoFailureSays, ListedHas DEF SameAside
  <2>5. CASE KeepCurrent(n)
    BY <1>2, <2>1, <2>3, <2>5, LoserGoes DEF KeepCurrent
  <2>6. CASE UseConflict(n)
    BY <1>2, <2>1, <2>2, <2>3, <2>6, LoserMoves DEF UseConflict, Sides
  <2>7. CASE UseConflictFails(n)
    BY <1>2, <2>4, <2>7 DEF UseConflictFails
  <2>8. CASE KeepBoth(n)
    BY <1>2, <2>1, <2>2, <2>3, <2>8, LoserMoves DEF KeepBoth
  <2> QED BY <1>3, <2>5, <2>6, <2>7, <2>8
<1>4. CASE PlayHere
  BY <1>1, <1>4, SaveChanges DEF PlayHere
<1>5. CASE PlayThere
  BY <1>1, <1>5, SaveChanges DEF PlayThere
<1>6. CASE DeleteSave
  BY <1>1, <1>6, SaveChanges DEF DeleteSave, Without
<1> QED BY <1>3, <1>4, <1>5, <1>6, NoFailureCycle DEF ConflictsNext

\* The invariant holds at first, ...
LEMMA LosersInit == ConflictsInit => LosersInvariant
<1> SUFFICES ASSUME ConflictsInit PROVE LosersInvariant
  OBVIOUS
<1>1. MaxFailures \in Nat /\ MaxSaves \in Nat \ {0}
  BY ConflictsAssumption
<1>2. /\ \A p \in Paths : Sides(p) = IF p = Save THEN {0, 1} ELSE {0}
      /\ \A p \in Paths : p # Save => folder[p] = destination[p]
  BY DEF ConflictsInit, Sides, Absent
<1>3. OwedInvariant
  <2>1. SameMarkers /\ \A n \in Numbers : Absent \in Sides(Marker(n))
    BY <1>2, PathsApart DEF SameMarkers, Absent
  <2> QED BY <2>1 DEF OwedInvariant, ConflictsInit
<1>4. NoFailureInvariant
  <2>1. SameAside /\ Apart
    BY <1>2 DEF SameAside, Apart, Absent
  <2> QED BY <2>1 DEF NoFailureInvariant, ConflictsInit
<1>5. ConflictsTypeOK
  <2>1. newest = 1 /\ newest \in SaveVersions /\ failures \in 0..MaxFailures
    BY <1>1 DEF ConflictsInit, SaveVersions
  <2>2. folder \in [Paths -> 0..1] /\ destination \in [Paths -> 0..1] /\ agreed \in [Paths -> 0..1]
    BY DEF ConflictsInit, Absent
  <2>3. owed = {} /\ discarded = {} /\ fileBased \in BOOLEAN /\ begun = FALSE
    BY DEF ConflictsInit
  <2> QED BY <2>1, <2>2, <2>3 DEF ConflictsTypeOK
<1> QED BY <1>3, <1>4, <1>5 DEF LosersInvariant

\* ... and every step keeps it.
LEMMA LosersStep ==
    ASSUME LosersInvariant, [ConflictsNext]_conflictVars
    PROVE  LosersInvariant'
<1>1. CASE ConflictsNext
  BY <1>1, ConflictTypes, OwedStep, NoFailureStep DEF LosersInvariant
<1>2. CASE UNCHANGED conflictVars
  <2>1. ConflictsTypeOK'
    BY <1>2 DEF LosersInvariant, ConflictsTypeOK, conflictVars
  <2>2. OwedInvariant'
    BY <1>2, OwedStays DEF LosersInvariant, conflictVars
  <2>3. NoFailureInvariant'
    <3>1. \A p \in Paths : Sides(p)' = Sides(p)
      BY <1>2 DEF Sides, conflictVars
    <3>2. Apart => Apart'
      BY <3>1 DEF Apart
    <3>3. SameAside => SameAside'
      BY <1>2 DEF SameAside, conflictVars
    <3> QED BY <1>2, <3>1, <3>2, <3>3, NoFailureSays, NoFailureKept DEF LosersInvariant, conflictVars
  <2> QED BY <2>1, <2>2, <2>3 DEF LosersInvariant
<1> QED BY <1>1, <1>2

\* A loser nobody has decided about is on a side, on both and marked as long
\* as no operation failed, through any number of conflicts, deletions and
\* resyncs (rclone.rs --conflict-loser num; lib.rs resolve_conflict).
THEOREM LosersStayOnHand == ConflictsSpec => []LosersOnHand
<1>1. ConflictsInit => LosersInvariant
  BY LosersInit
<1>2. LosersInvariant /\ [ConflictsNext]_conflictVars => LosersInvariant'
  BY LosersStep
<1>3. LosersInvariant => LosersOnHand
  <2>1. SUFFICES ASSUME LosersInvariant, NEW v \in owed
                 PROVE  /\ Holds(folder, v) \/ Holds(destination, v)
                        /\ failures = 0 =>
                              \E n \in Numbers : folder[Marker(n)] = v /\ destination[Marker(n)] = v
    BY DEF LosersOnHand
  <2>2. PICK n \in Numbers : folder[Marker(n)] = v \/ destination[Marker(n)] = v
    BY <2>1 DEF LosersInvariant, OwedInvariant, Marked
  <2>3. Marker(n) \in Paths /\ Marker(n) # Save
    BY PathsApart
  <2>4. failures = 0 => folder[Marker(n)] = destination[Marker(n)]
    BY <2>1, <2>3 DEF LosersInvariant, NoFailureInvariant, SameAside
  <2> QED BY <2>2, <2>3, <2>4 DEF Holds
<1> QED BY <1>1, <1>2, <1>3, PTL DEF ConflictsSpec

\* What a resolution gave up does not come back as long as no operation
\* failed: the resync it asks for unites two sides that both lack it (lib.rs
\* resolve_conflict, mark_bisync_needs_resync).
THEOREM DiscardedAreGone == ConflictsSpec => []DiscardedStayGone
<1>1. ConflictsInit => LosersInvariant
  BY LosersInit
<1>2. LosersInvariant /\ [ConflictsNext]_conflictVars => LosersInvariant'
  BY LosersStep
<1>3. LosersInvariant => DiscardedStayGone
  BY DEF LosersInvariant, NoFailureInvariant, DiscardedStayGone
<1> QED BY <1>1, <1>2, <1>3, PTL DEF ConflictsSpec

-----------------------------------------------------------------------------
(***************************************************************************)
(* The history of a save.  A cycle that neither shares its second with     *)
(* another nor meets a revert has its run for itself until it has written  *)
(* over the destination.                                                   *)
(***************************************************************************)

\* What a folder of the history holds has been written.
RunsTyped ==
    \A r \in DOMAIN runs : runs[r] \in [Halves -> 0..fresh]

\* The types that the argument needs; no version that was written over belongs to
\* a run later than the last cycle.
HistoryTypes ==
    /\ now \in Nat /\ fresh \in Nat
    /\ source \in 1..fresh /\ live \in 1..fresh /\ base \in 1..fresh
    /\ RunsTyped
    /\ settings.enabled => settings.incremental \/ settings.full
    /\ cycle = [step |-> cycle.step, ts |-> cycle.ts, use |-> cycle.use]
    /\ cycle.ts \in Nat /\ cycle.ts <= now
    /\ cycle.use.enabled => cycle.use.incremental \/ cycle.use.full
    /\ revert = [step |-> revert.step, ts |-> revert.ts, half |-> revert.half]
    /\ revert.half \in Halves
    /\ \A lost \in replaced : lost[1] \in Nat /\ lost[1] <= cycle.ts

\* The run of the cycle is its own, and has the destination in it when that is
\* about to be written over.
OwnRun ==
    /\ cycle.step \in {"snapshot", "bisync"} /\ cycle.ts \notin disturbed =>
           \A lost \in replaced : lost[1] # cycle.ts
    /\ /\ cycle.step = "bisync" /\ cycle.ts \notin purged \cup disturbed
       /\ cycle.use.enabled /\ cycle.use.full /\ live = base
       => RunAt(cycle.ts)["full"] = live

HistoryInvariant == HistoryTypes /\ OwnRun /\ ReplacedIsInItsRun

\* What a folder holds after a write to one of its halves.
LEMMA Putting ==
    ASSUME RunsTyped, NEW ts, NEW h \in Halves, NEW v \in 0..fresh, Put(ts, h, v), fresh \in Nat
    PROVE  /\ \A r \in DOMAIN runs' : runs'[r] \in [Halves -> 0..fresh]
           /\ RunAt(ts)'[h] = v
           /\ \A r : r # ts => RunAt(r)' = RunAt(r)
<1>1. RunAt(ts) \in [Halves -> 0..fresh]
  BY DEF RunAt, RunsTyped, NoRun, None
<1>2. /\ DOMAIN runs' = DOMAIN runs \cup {ts}
      /\ \A r \in DOMAIN runs' : runs'[r] = IF r = ts THEN [RunAt(ts) EXCEPT ![h] = v] ELSE runs[r]
  BY DEF Put
<1>3. \A r : RunAt(r)' = IF r \in DOMAIN runs' THEN runs'[r] ELSE NoRun
  BY DEF RunAt, NoRun
<1>4. RunAt(ts)'[h] = v
  <2>1. RunAt(ts)' = [RunAt(ts) EXCEPT ![h] = v]
    BY <1>2, <1>3
  <2> QED BY <1>1, <2>1
<1>5. \A r : r # ts => RunAt(r)' = RunAt(r)
  BY <1>2, <1>3 DEF RunAt
<1>6. \A r \in DOMAIN runs' : runs'[r] \in [Halves -> 0..fresh]
  BY <1>1, <1>2 DEF RunsTyped
<1> QED BY <1>4, <1>5, <1>6

\* A step that leaves the runs, the ghosts and the cycle alone.
LEMMA HistoryStays ==
    ASSUME HistoryInvariant, UNCHANGED <<runs, replaced, purged, disturbed, cycle>>,
           live' = live \/ live' # base, base' = base
    PROVE  OwnRun' /\ ReplacedIsInItsRun'
<1>1. \A r : RunAt(r)' = RunAt(r)
  BY DEF RunAt, NoRun
<1> QED BY <1>1 DEF HistoryInvariant, OwnRun, ReplacedIsInItsRun

\* What a revert reads.
LEMMA RevertReads ==
    ASSUME HistoryTypes
    PROVE  Reverting \in 0..fresh
  BY DEF HistoryTypes, RunsTyped, Reverting, RunAt, NoRun, None

\* The types, action by action: those that write a run first.
LEMMA HistoryTypesOfWrites ==
    ASSUME HistoryTypes, TakeFull \/ RunBisync
    PROVE  HistoryTypes'
<1>1. /\ now \in Nat /\ fresh \in Nat /\ source \in 1..fresh /\ live \in 1..fresh /\ base \in 1..fresh
      /\ RunsTyped
  BY DEF HistoryTypes
<1>2. ASSUME NEW h \in Halves, Put(cycle.ts, h, live), fresh' = fresh
      PROVE  RunsTyped'
  <2>1. live \in 0..fresh
    BY <1>1
  <2> QED BY <1>1, <1>2, <2>1, Putting DEF RunsTyped
<1>3. ASSUME UNCHANGED <<runs, fresh>>
      PROVE  RunsTyped'
  BY <1>1, <1>3 DEF RunsTyped
<1>4. "full" \in Halves /\ "delta" \in Halves
  BY DEF Halves
<1>5. CASE TakeFull
  <2>1. UNCHANGED <<now, settings, revert, replaced, source, live, base, fresh>>
    BY <1>5 DEF TakeFull, SaveStill
  <2>2. RunsTyped'
    BY <1>2, <1>3, <1>4, <1>5, <2>1 DEF TakeFull
  <2>3. /\ cycle'.ts = cycle.ts /\ cycle'.use = cycle.use
        /\ cycle' = [step |-> cycle'.step, ts |-> cycle'.ts, use |-> cycle'.use]
    BY <1>5 DEF TakeFull, HistoryTypes
  <2> QED BY <2>1, <2>2, <2>3 DEF HistoryTypes
<1>6. CASE RunBisync
  <2>1. UNCHANGED <<now, settings, revert, fresh>>
    BY <1>6 DEF RunBisync
  <2>2. RunsTyped'
    BY <1>2, <1>3, <1>4, <1>6, <2>1 DEF RunBisync
  <2>3. /\ cycle'.ts = cycle.ts /\ cycle'.use = cycle.use
        /\ cycle' = [step |-> cycle'.step, ts |-> cycle'.ts, use |-> cycle'.use]
    BY <1>6 DEF RunBisync, HistoryTypes
  <2>4. source' \in {source, live, Max({source, live})} /\ live' = source' /\ base' = source'
    BY <1>6 DEF RunBisync
  <2>5. Max({source, live}) \in 1..fresh
    BY <1>1, OfTwo
  <2>6. \A lost \in replaced' : lost \in replaced \/ lost = <<cycle.ts, live>>
    BY <1>6 DEF RunBisync
  <2>7. \A lost \in replaced' : lost[1] \in Nat /\ lost[1] <= cycle.ts
    BY <2>6 DEF HistoryTypes
  <2> QED BY <1>1, <2>1, <2>2, <2>3, <2>4, <2>5, <2>7 DEF HistoryTypes
<1> QED BY <1>5, <1>6

\* The types, for every action.
LEMMA HistoryTypesKept ==
    ASSUME HistoryTypes, SaveHistoryNext
    PROVE  HistoryTypes'
<1>1. /\ now \in Nat /\ fresh \in Nat /\ source \in 1..fresh /\ live \in 1..fresh /\ base \in 1..fresh
      /\ RunsTyped
  BY DEF HistoryTypes
<1>2. ASSUME UNCHANGED runs, fresh' = fresh \/ fresh' = fresh + 1
      PROVE  RunsTyped'
  <2>1. \A v \in 0..fresh : v \in 0..fresh'
    BY <1>1, <1>2
  <2>2. \A run \in [Halves -> 0..fresh] : run \in [Halves -> 0..fresh']
    BY <2>1
  <2> QED BY <1>1, <1>2, <2>2 DEF RunsTyped
<1>3. CASE TakeFull \/ RunBisync
  BY <1>3, HistoryTypesOfWrites
<1>4. CASE InitialBisync
  <2>1. Max({source, live}) \in 1..fresh
    BY <1>1, OfTwo
  <2>2. /\ UNCHANGED <<now, fresh, runs, settings, revert, cycle, replaced>>
        /\ source' = Max({source, live}) /\ live' = Max({source, live}) /\ base' = Max({source, live})
    BY <1>4 DEF InitialBisync, CycleStill
  <2> QED BY <1>2, <2>1, <2>2 DEF HistoryTypes
<1>5. CASE StartCycle
  <2>1. /\ UNCHANGED <<now, runs, settings, revert, replaced, source, live, base, fresh>>
        /\ cycle' = [step |-> "snapshot", ts |-> now, use |-> settings]
    BY <1>5 DEF StartCycle, SaveStill
  <2>2. \A lost \in replaced : lost[1] \in Nat /\ lost[1] <= now
    BY DEF HistoryTypes
  <2> QED BY <1>1, <1>2, <2>1, <2>2 DEF HistoryTypes
<1>6. CASE FailBisync \/ PruneAfterCycle
  <2>1. /\ UNCHANGED <<now, runs, settings, revert, replaced, source, live, base, fresh>>
        /\ cycle' = AtRest(cycle.ts)
    BY <1>6 DEF FailBisync, PruneAfterCycle, SaveStill
  <2>2. cycle'.ts = cycle.ts /\ ~ cycle'.use.enabled
        /\ cycle' = [step |-> cycle'.step, ts |-> cycle'.ts, use |-> cycle'.use]
    BY <2>1 DEF AtRest, Off
  <2> QED BY <1>2, <2>1, <2>2 DEF HistoryTypes
<1>7. ASSUME NEW p \in Pruners, Purge(p) PROVE HistoryTypes'
  <2>1. UNCHANGED <<now, settings, revert, cycle, replaced, source, live, base, fresh>>
    BY <1>7 DEF Purge, SaveStill
  <2>2. RunsTyped'
    <3>1. CASE runs' = [r \in DOMAIN runs \ {Min(pruning[p])} |-> runs[r]]
      BY <1>1, <2>1, <3>1 DEF RunsTyped
    <3>2. CASE UNCHANGED runs
      BY <1>2, <2>1, <3>2
    <3> QED BY <1>7, <3>1, <3>2 DEF Purge
  <2> QED BY <2>1, <2>2 DEF HistoryTypes
<1>8. CASE PruneNow
  BY <1>2, <1>8 DEF PruneNow, CycleStill, SaveStill, HistoryTypes
<1>9. ASSUME NEW ts \in DOMAIN runs \ Malformed, StartRevert(ts) PROVE HistoryTypes'
  <2>1. /\ UNCHANGED <<now, runs, settings, cycle, replaced, source, live, base, fresh>>
        /\ revert' = [step |-> "live", ts |-> ts,
                      half |-> IF runs[ts]["full"] # None THEN "full" ELSE "delta"]
    BY <1>9 DEF StartRevert, CycleStill, SaveStill
  <2>2. revert'.half \in Halves
        /\ revert' = [step |-> revert'.step, ts |-> revert'.ts, half |-> revert'.half]
    BY <2>1 DEF Halves
  <2> QED BY <1>2, <2>1, <2>2 DEF HistoryTypes
<1>10. CASE RevertLive \/ RevertSource \/ RevertFails
  <2>1. Reverting # None => Reverting \in 1..fresh
    BY <1>1, RevertReads DEF None
  <2>2. /\ UNCHANGED <<now, runs, settings, cycle, replaced, base, fresh>>
        /\ source' \in 1..fresh /\ live' \in 1..fresh
    BY <1>1, <1>10, <2>1 DEF RevertLive, RevertSource, RevertFails, CycleStill, SaveStill
  <2>3. revert'.half \in Halves
        /\ revert' = [step |-> revert'.step, ts |-> revert'.ts, half |-> revert'.half]
    BY <1>10 DEF RevertLive, RevertSource, RevertFails, NoRevert, Halves, HistoryTypes
  <2> QED BY <1>2, <2>2, <2>3 DEF HistoryTypes
<1>11. CASE Play \/ PlayElsewhere
  BY <1>1, <1>2, <1>11 DEF Play, PlayElsewhere, CycleStill, HistoryTypes
<1>12. CASE \E e \in BOOLEAN, m \in Modes, d \in Days, c \in Caps : SetHistory(e, m, d, c)
  BY <1>2, <1>12 DEF SetHistory, CycleStill, SaveStill, HistoryTypes
<1>13. CASE Tick
  BY <1>2, <1>13 DEF Tick, CycleStill, SaveStill, HistoryTypes
<1> QED BY <1>3, <1>4, <1>5, <1>6, <1>7, <1>8, <1>9, <1>10, <1>11, <1>12, <1>13 DEF SaveHistoryNext

\* The snapshot: a cycle that nothing disturbs takes it into a run of its own.
LEMMA SnapshotKeeps ==
    ASSUME HistoryInvariant, TakeFull
    PROVE  OwnRun' /\ ReplacedIsInItsRun'
<1>1. /\ UNCHANGED <<live, base, fresh, replaced, purged, disturbed>>
      /\ cycle.step = "snapshot"
      /\ cycle' = [cycle EXCEPT !.step = "bisync"]
  BY DEF TakeFull, SaveStill
<1>2. cycle'.step = "bisync" /\ cycle'.ts = cycle.ts /\ cycle'.use = cycle.use
  BY <1>1 DEF HistoryInvariant, HistoryTypes
<1>3. /\ cycle.use.enabled /\ cycle.use.full =>
            \A r : r = cycle.ts => RunAt(r)'["full"] = live
      /\ \A r : r # cycle.ts => RunAt(r)' = RunAt(r)
  <2>1. CASE cycle.use.enabled /\ cycle.use.full
    <3>1. Put(cycle.ts, "full", live)
      BY <2>1 DEF TakeFull
    <3>2. RunsTyped /\ "full" \in Halves /\ live \in 0..fresh /\ fresh \in Nat
      BY DEF HistoryInvariant, HistoryTypes, Halves
    <3> QED BY <3>1, <3>2, Putting
  <2>2. CASE ~ (cycle.use.enabled /\ cycle.use.full)
    BY <2>2 DEF TakeFull, RunAt, NoRun
  <2> QED BY <2>1, <2>2
<1>4. cycle.ts \notin disturbed => \A lost \in replaced : lost[1] # cycle.ts
  BY <1>1 DEF HistoryInvariant, OwnRun
<1>5. OwnRun'
  <2>1. cycle'.ts \notin disturbed' => \A lost \in replaced' : lost[1] # cycle'.ts
    BY <1>1, <1>2, <1>4
  <2>2. cycle'.use.enabled /\ cycle'.use.full => RunAt(cycle.ts)'["full"] = live'
    BY <1>1, <1>2, <1>3
  <2> QED BY <2>1, <2>2 DEF OwnRun
<1>6. ReplacedIsInItsRun'
  <2>1. \A lost \in replaced : \/ lost[1] \in purged \cup disturbed
                               \/ \E h \in Halves : RunAt(lost[1])'[h] = lost[2]
    BY <1>3, <1>4 DEF HistoryInvariant, ReplacedIsInItsRun
  <2> QED BY <1>1, <2>1 DEF ReplacedIsInItsRun, RunAt, NoRun
<1> QED BY <1>5, <1>6

\* The bisync: what it writes over goes to delta/, or is in full/ already.
LEMMA BisyncKeeps ==
    ASSUME HistoryInvariant, RunBisync
    PROVE  OwnRun' /\ ReplacedIsInItsRun'
<1> DEFINE pushed == source # base /\ live = base
           put    == pushed /\ cycle.use.enabled /\ cycle.use.incremental
<1>1. /\ UNCHANGED <<purged, disturbed>>
      /\ cycle.step = "bisync"
      /\ cycle' = [cycle EXCEPT !.step = "prune"]
      /\ replaced' = IF pushed /\ cycle.use.enabled
                     THEN replaced \cup {<<cycle.ts, live>>} ELSE replaced
      /\ put => Put(cycle.ts, "delta", live)
      /\ ~ put => UNCHANGED runs
  BY DEF RunBisync
<1>2. cycle'.step = "prune"
  BY <1>1 DEF HistoryInvariant, HistoryTypes
<1>3. /\ put => \A r : r = cycle.ts => RunAt(r)'["delta"] = live
      /\ ~ put => \A r : RunAt(r)' = RunAt(r)
      /\ \A r : r # cycle.ts => RunAt(r)' = RunAt(r)
  <2>1. CASE put
    <3>1. RunsTyped /\ "delta" \in Halves /\ live \in 0..fresh /\ fresh \in Nat
      BY DEF HistoryInvariant, HistoryTypes, Halves
    <3> QED BY <1>1, <2>1, <3>1, Putting
  <2>2. CASE ~ put
    BY <1>1, <2>2 DEF RunAt, NoRun
  <2> QED BY <2>1, <2>2
<1>4. cycle.ts \notin disturbed => \A lost \in replaced : lost[1] # cycle.ts
  BY <1>1 DEF HistoryInvariant, OwnRun
<1>5. ASSUME NEW lost \in replaced'
      PROVE  \/ lost[1] \in purged \cup disturbed
             \/ \E h \in Halves : RunAt(lost[1])'[h] = lost[2]
  <2>1. CASE lost \in replaced
    BY <1>3, <1>4, <2>1 DEF HistoryInvariant, ReplacedIsInItsRun
  <2>2. CASE lost \notin replaced
    <3>1. pushed /\ cycle.use.enabled /\ lost[1] = cycle.ts /\ lost[2] = live
      BY <1>1, <1>5, <2>2
    <3>2. CASE cycle.use.incremental
      BY <1>3, <3>1, <3>2 DEF Halves
    <3>3. CASE ~ cycle.use.incremental
      <4>1. cycle.use.full
        BY <3>1, <3>3 DEF HistoryInvariant, HistoryTypes
      <4>2. cycle.ts \in purged \cup disturbed \/ RunAt(cycle.ts)["full"] = live
        BY <1>1, <3>1, <4>1 DEF HistoryInvariant, OwnRun
      <4> QED BY <1>3, <3>1, <3>3, <4>2 DEF Halves
    <3> QED BY <3>2, <3>3
  <2> QED BY <2>1, <2>2
<1>6. ReplacedIsInItsRun'
  BY <1>1, <1>5 DEF ReplacedIsInItsRun, RunAt, NoRun
<1> QED BY <1>2, <1>6 DEF OwnRun

\* What is said of the runs, for every action.
LEMMA HistoryKept ==
    ASSUME HistoryInvariant, SaveHistoryNext
    PROVE  OwnRun' /\ ReplacedIsInItsRun'
<1>1. /\ now \in Nat /\ fresh \in Nat /\ base \in 1..fresh
      /\ cycle.ts \in Nat /\ cycle.ts <= now
      /\ \A lost \in replaced : lost[1] \in Nat /\ lost[1] <= cycle.ts
  BY DEF HistoryInvariant, HistoryTypes
<1>2. CASE TakeFull
  BY <1>2, SnapshotKeeps
<1>3. CASE RunBisync
  BY <1>3, BisyncKeeps
<1>4. ASSUME UNCHANGED <<runs, replaced, purged, disturbed>>, cycle'.step = "idle"
      PROVE  OwnRun' /\ ReplacedIsInItsRun'
  <2>1. \A r : RunAt(r)' = RunAt(r)
    BY <1>4 DEF RunAt, NoRun
  <2> QED BY <1>4, <2>1 DEF HistoryInvariant, OwnRun, ReplacedIsInItsRun
<1>5. CASE InitialBisync
  BY <1>4, <1>5 DEF InitialBisync, CycleStill
<1>6. CASE StartCycle
  <2>1. /\ UNCHANGED <<runs, replaced, purged>>
        /\ cycle' = [step |-> "snapshot", ts |-> now, use |-> settings]
        /\ disturbed' = IF cycle.ts = now THEN disturbed \cup {now} ELSE disturbed
    BY <1>6 DEF StartCycle
  <2>2. now \notin disturbed' => \A lost \in replaced : lost[1] # now
    BY <1>1, <2>1
  <2>3. OwnRun'
    BY <2>1, <2>2 DEF OwnRun
  <2>4. \A r : RunAt(r)' = RunAt(r)
    BY <2>1 DEF RunAt, NoRun
  <2>5. ReplacedIsInItsRun'
    BY <2>1, <2>4 DEF HistoryInvariant, ReplacedIsInItsRun
  <2> QED BY <2>3, <2>5
<1>7. CASE FailBisync \/ PruneAfterCycle
  BY <1>4, <1>7 DEF FailBisync, PruneAfterCycle, AtRest
<1>8. ASSUME NEW p \in Pruners, Purge(p) PROVE OwnRun' /\ ReplacedIsInItsRun'
  <2> DEFINE next == Min(pruning[p])
  <2>1. UNCHANGED <<cycle, replaced, disturbed, live, base>>
    BY <1>8 DEF Purge, SaveStill
  <2>2. CASE UNCHANGED <<runs, purged>>
    BY <2>1, <2>2, HistoryStays
  <2>3. CASE runs' = [r \in DOMAIN runs \ {next} |-> runs[r]] /\ purged' = purged \cup {next}
    <3>1. \A r : r # next => RunAt(r)' = RunAt(r)
      BY <2>3 DEF RunAt, NoRun
    <3>2. OwnRun'
      BY <2>1, <2>3, <3>1 DEF HistoryInvariant, OwnRun
    <3>3. \A lost \in replaced : \/ lost[1] \in purged' \cup disturbed
                                 \/ \E h \in Halves : RunAt(lost[1])'[h] = lost[2]
      BY <2>3, <3>1 DEF HistoryInvariant, ReplacedIsInItsRun
    <3>4. ReplacedIsInItsRun'
      BY <2>1, <3>3 DEF ReplacedIsInItsRun, RunAt, NoRun
    <3> QED BY <3>2, <3>4
  <2> QED BY <1>8, <2>2, <2>3 DEF Purge
<1>9. CASE RevertLive
  <2>1. /\ UNCHANGED <<runs, replaced, purged, cycle, base>>
        /\ disturbed' = IF cycle.step = "bisync" THEN disturbed \cup {cycle.ts} ELSE disturbed
    BY <1>9 DEF RevertLive
  <2>2. \A r : RunAt(r)' = RunAt(r)
    BY <2>1 DEF RunAt, NoRun
  <2>3. OwnRun'
    BY <2>1 DEF HistoryInvariant, OwnRun
  <2>4. ReplacedIsInItsRun'
    BY <2>1, <2>2 DEF HistoryInvariant, ReplacedIsInItsRun
  <2> QED BY <2>3, <2>4
<1>10. CASE PruneNow
  BY <1>10, HistoryStays DEF PruneNow, CycleStill, SaveStill
<1>11. ASSUME NEW ts \in DOMAIN runs \ Malformed, StartRevert(ts)
       PROVE  OwnRun' /\ ReplacedIsInItsRun'
  BY <1>11, HistoryStays DEF StartRevert, CycleStill, SaveStill
<1>12. CASE RevertSource \/ RevertFails
  BY <1>12, HistoryStays DEF RevertSource, RevertFails, CycleStill, SaveStill
<1>13. CASE Play
  BY <1>13, HistoryStays DEF Play, CycleStill
<1>14. CASE PlayElsewhere
  <2>1. live' # base
    BY <1>1, <1>14 DEF PlayElsewhere
  <2> QED BY <1>14, <2>1, HistoryStays DEF PlayElsewhere, CycleStill
<1>15. CASE \E e \in BOOLEAN, m \in Modes, d \in Days, c \in Caps : SetHistory(e, m, d, c)
  BY <1>15, HistoryStays DEF SetHistory, CycleStill, SaveStill
<1>16. CASE Tick
  BY <1>16, HistoryStays DEF Tick, CycleStill, SaveStill
<1> QED BY <1>2, <1>3, <1>5, <1>6, <1>7, <1>8, <1>9, <1>10, <1>11, <1>12, <1>13, <1>14,
           <1>15, <1>16 DEF SaveHistoryNext

\* At first there is only a folder that is no run.
LEMMA HistoryInit == SaveHistoryInit => HistoryInvariant
<1> SUFFICES ASSUME SaveHistoryInit PROVE HistoryInvariant
  OBVIOUS
<1>1. /\ now = 1 /\ source = 1 /\ live = 1 /\ base = 1 /\ fresh = 1
      /\ settings.enabled => settings.incremental \/ settings.full
      /\ cycle = AtRest(0) /\ revert = NoRevert /\ replaced = {}
      /\ runs = [r \in {0} |-> [full |-> 1, delta |-> 0]]
  BY SaveHistoryAssumption DEF SaveHistoryInit, None
<1>2. RunsTyped
  <2>1. [full |-> 1, delta |-> 0] \in [Halves -> 0..1]
    BY DEF Halves
  <2> QED BY <1>1, <2>1 DEF RunsTyped
<1>3. HistoryTypes
  <2>1. cycle.ts = 0 /\ ~ cycle.use.enabled
        /\ cycle = [step |-> cycle.step, ts |-> cycle.ts, use |-> cycle.use]
    BY <1>1 DEF AtRest, Off
  <2>2. revert.half \in Halves
        /\ revert = [step |-> revert.step, ts |-> revert.ts, half |-> revert.half]
    BY <1>1 DEF NoRevert, Halves
  <2> QED BY <1>1, <1>2, <2>1, <2>2 DEF HistoryTypes
<1>4. cycle.step = "idle"
  BY <1>1 DEF AtRest
<1> QED BY <1>1, <1>3, <1>4 DEF HistoryInvariant, OwnRun, ReplacedIsInItsRun

\* A step that changes nothing.
LEMMA HistoryInvariantStutters ==
    ASSUME HistoryInvariant, UNCHANGED saveHistoryVars
    PROVE  HistoryInvariant'
<1>1. UNCHANGED <<now, source, live, base, fresh, runs, settings, cycle, revert,
                  replaced, purged, disturbed>>
  BY DEF saveHistoryVars
<1>2. OwnRun' /\ ReplacedIsInItsRun'
  BY <1>1, HistoryStays
<1> QED BY <1>1, <1>2 DEF HistoryInvariant, HistoryTypes, RunsTyped

\* Whatever the constants: a version that a bisync writes over in the destination
\* is in the run of that cycle until the run is pruned, unless two cycles share
\* the second or a revert met the cycle half-way.  With incremental on the bisync
\* itself moves it there; with only full on it is the snapshot, because a bisync
\* writes over the destination only when that is still what the last one left.
THEOREM ReplacedAreInTheirRun == SaveHistorySpec => []ReplacedIsInItsRun
<1>1. HistoryInvariant /\ [SaveHistoryNext]_saveHistoryVars => HistoryInvariant'
  <2>1. ASSUME HistoryInvariant, SaveHistoryNext PROVE HistoryInvariant'
    BY <2>1, HistoryTypesKept, HistoryKept DEF HistoryInvariant
  <2>2. ASSUME HistoryInvariant, UNCHANGED saveHistoryVars PROVE HistoryInvariant'
    BY <2>2, HistoryInvariantStutters
  <2> QED BY <2>1, <2>2
<1>2. HistoryInvariant => ReplacedIsInItsRun
  BY DEF HistoryInvariant
<1> QED BY HistoryInit, <1>1, <1>2, PTL DEF SaveHistorySpec

\* The n-th run of the order is one of the runs: there are as many runs as places,
\* and no two of them in one place.
LEMMA OrderIsOfRuns ==
    ASSUME NEW listed \in SUBSET Nat, IsFiniteSet(listed)
    PROVE  /\ Cardinality(listed) \in Nat
           /\ \A n \in 1..Cardinality(listed) : InOrder(listed)[n] \in listed
<1> DEFINE Older(r) == {older \in listed : older < r}
           count == Cardinality(listed)
           place == [r \in listed |-> Cardinality(Older(r))]
<1>1. count \in Nat /\ \A r : IsFiniteSet(Older(r)) /\ Cardinality(Older(r)) \in Nat
  BY FS_Subset, FS_CardinalityType
<1>2. ASSUME NEW r \in listed
      PROVE  Cardinality(Older(r)) \in 0..count - 1
  <2>1. Older(r) \subseteq listed /\ Older(r) # listed
    <3>1. r \notin Older(r)
      OBVIOUS
    <3> QED BY <3>1
  <2>2. Cardinality(Older(r)) =< count /\ Cardinality(Older(r)) # count
    BY <2>1, FS_Subset
  <2> QED BY <1>1, <2>2
<1>3. ASSUME NEW r \in listed, NEW s \in listed, r < s
      PROVE  Cardinality(Older(r)) # Cardinality(Older(s))
  <2>1. r \in Nat /\ s \in Nat /\ \A x \in listed : x \in Nat
    OBVIOUS
  <2>2. \A x \in listed : x < r => x < s
    BY <1>3, <2>1
  <2>3. r \in Older(s) /\ r \notin Older(r)
    BY <1>3, <2>1
  <2>4. Older(r) \subseteq Older(s) /\ Older(r) # Older(s)
    BY <2>2, <2>3
  <2> QED BY <1>1, <2>4, FS_Subset
<1>4. place \in Injection(listed, 0..count - 1)
  <2>1. place \in [listed -> 0..count - 1]
    BY <1>2
  <2>2. \A r, s \in listed : place[r] = place[s] => r = s
    <3>1. \A r, s \in listed : r # s => r < s \/ s < r
      OBVIOUS
    <3>2. \A r, s \in listed : r # s => Cardinality(Older(r)) # Cardinality(Older(s))
      BY <1>3, <3>1
    <3> QED BY <3>2
  <2> HIDE DEF place
  <2> QED BY <2>1, <2>2 DEF Injection, IsInjective
<1>5. IsFiniteSet(0..count - 1) /\ Cardinality(0..count - 1) = count
  <2> HIDE DEF count
  <2>1. 0 \in Int /\ count - 1 \in Int
    BY <1>1
  <2>2. IsFiniteSet(0..count - 1)
        /\ Cardinality(0..count - 1) = IF 0 > count - 1 THEN 0 ELSE count - 1 - 0 + 1
    BY <2>1, FS_Interval
  <2> QED BY <1>1, <2>2
<1>6. place \in Surjection(listed, 0..count - 1)
  <2> HIDE DEF place, count
  <2>1. Cardinality(listed) = Cardinality(0..count - 1)
    BY <1>5 DEF count
  <2> QED BY <1>4, <1>5, <2>1, FS_Injection
<1>7. ASSUME NEW n \in 1..count
      PROVE  InOrder(listed)[n] \in listed
  <2>1. n - 1 \in 0..count - 1
    BY <1>1
  <2>2. \E r \in listed : Cardinality(Older(r)) = n - 1
    BY <1>6, <2>1 DEF Surjection
  <2>3. InOrder(listed)[n] = CHOOSE r \in listed : Cardinality(Older(r)) = n - 1
    BY DEF InOrder
  <2> QED BY <2>2, <2>3
<1> QED BY <1>1, <1>7

\* A prune chooses among the runs that it was given.
LEMMA PicksAreRuns ==
    ASSUME NEW listed \in SUBSET Nat, IsFiniteSet(listed),
           NEW size, NEW days, NEW cap, NEW clock
    PROVE  PickSnapshotsToPrune(listed, size, days, cap, clock) \subseteq listed
<1> DEFINE aged  == Aged(listed, days, clock)
           young == listed \ aged
<1>1. aged \subseteq listed
  BY DEF Aged
<1>2. young \in SUBSET Nat /\ IsFiniteSet(young) /\ young \subseteq listed
  BY FS_Subset
<1>3. Oversize(young, size, cap) \subseteq young
  <2> HIDE DEF young
  <2> DEFINE order == InOrder(young)
             count == Cardinality(young)
             left[k \in 0..count] ==
                 IF k = 0 THEN Total(young, size) ELSE left[k - 1] - size[order[k]]
             fits  == {k \in 0..count : left[k] <= cap \/ k = count}
  <2>1. count \in Nat /\ \A n \in 1..count : order[n] \in young
    BY <1>2, OrderIsOfRuns
  <2>2. Oversize(young, size, cap) = IF cap = 0 THEN {} ELSE {order[i] : i \in 1..Min(fits)}
    BY DEF Oversize
  <2>3. Min(fits) \in 0..count
    <3>1. fits \subseteq 0..count /\ count \in fits
      <4> HIDE DEF left, count
      <4> QED BY <2>1
    <3>2. fits \in SUBSET Nat /\ fits # {}
      BY <3>1
    <3> HIDE DEF fits
    <3> QED BY <3>1, <3>2, LeastOf
  <2> HIDE DEF order, count, fits
  <2> QED BY <2>1, <2>2, <2>3
<1> HIDE DEF aged
<1>4. PickSnapshotsToPrune(listed, size, days, cap, clock)
          = aged \cup Oversize(young, size, cap)
  BY DEF PickSnapshotsToPrune, aged
<1> HIDE DEF young
<1> QED BY <1>1, <1>2, <1>3, <1>4

\* The rest of the types: nothing is of a time to come, or beyond its bound.
HistoryBounds ==
    /\ now \in 1..MaxTime /\ fresh \in Versions /\ commands \in 0..MaxCommands
    /\ DOMAIN runs \subseteq 0..now
    /\ settings \in Settings /\ initialized \in BOOLEAN
    /\ cycle.step \in {"idle", "snapshot", "bisync", "prune"} /\ cycle.use \in Settings
    /\ pruning \in [Pruners -> SUBSET (0..now)]
    /\ revert.step \in {"idle", "live", "source"} /\ revert.ts \in 0..now
    /\ purged \subseteq 0..now /\ disturbed \subseteq 0..now

\* What is not of a cycle, a prune, a revert or a command.
LEMMA BoundsStay ==
    ASSUME HistoryBounds, UNCHANGED <<now, runs, settings, cycle, pruning, revert, purged>>,
           fresh' \in Versions, commands' \in 0..MaxCommands, initialized' \in BOOLEAN,
           disturbed' \subseteq 0..now
    PROVE  HistoryBounds'
  BY DEF HistoryBounds

LEMMA OffIsASetting ==
    ASSUME HistoryBounds
    PROVE  Off \in Settings
<1>1. Days \in SUBSET Nat /\ Caps \in SUBSET Nat
  BY SaveHistoryAssumption
<1>2. Days # {} /\ Caps # {}
  BY DEF HistoryBounds, Settings
<1>3. Min(Days) \in Days /\ Min(Caps) \in Caps
  BY <1>1, <1>2, LeastOf
<1> QED BY <1>3 DEF Off, Settings

\* The steps of a cycle.
LEMMA CycleKeepsBounds ==
    ASSUME HistoryTypes, HistoryBounds, StartCycle \/ TakeFull \/ RunBisync \/ FailBisync
    PROVE  HistoryBounds'
<1>1. cycle.ts \in 0..now /\ now \in Nat
  BY DEF HistoryTypes
<1>2. CASE StartCycle
  <2>1. /\ UNCHANGED <<now, runs, settings, initialized, pruning, revert, purged, fresh, commands>>
        /\ cycle' = [step |-> "snapshot", ts |-> now, use |-> settings]
        /\ disturbed' \subseteq disturbed \cup {now}
    BY <1>2 DEF StartCycle, SaveStill
  <2> QED BY <1>1, <2>1 DEF HistoryBounds
<1>3. CASE TakeFull \/ RunBisync
  <2>1. /\ UNCHANGED <<now, settings, initialized, pruning, revert, purged, fresh, commands,
                       disturbed>>
        /\ cycle' \in {[cycle EXCEPT !.step = "bisync"], [cycle EXCEPT !.step = "prune"]}
    BY <1>3 DEF TakeFull, RunBisync, SaveStill
  <2>2. cycle'.step \in {"bisync", "prune"} /\ cycle'.use = cycle.use
    BY <2>1 DEF HistoryTypes
  <2>3. DOMAIN runs' \subseteq DOMAIN runs \cup {cycle.ts}
    BY <1>3 DEF TakeFull, RunBisync, Put
  <2> QED BY <1>1, <2>1, <2>2, <2>3 DEF HistoryBounds
<1>4. CASE FailBisync
  <2>1. /\ UNCHANGED <<now, runs, settings, initialized, pruning, revert, purged, fresh, commands,
                       disturbed>>
        /\ cycle' = [step |-> "idle", ts |-> cycle.ts, use |-> Off]
    BY <1>4 DEF FailBisync, AtRest, SaveStill
  <2> QED BY <2>1, OffIsASetting DEF HistoryBounds
<1> QED BY <1>2, <1>3, <1>4

\* A prune: what it has decided, and one purge after the other.
LEMMA PrunesKeepBounds ==
    ASSUME HistoryTypes, HistoryBounds,
           PruneAfterCycle \/ PruneNow \/ \E p \in Pruners : Purge(p)
    PROVE  HistoryBounds'
<1>1. now \in Nat /\ DOMAIN runs \subseteq 0..now
  BY DEF HistoryTypes, HistoryBounds
<1>2. ASSUME NEW use, NEW p \in Pruners, Decide(p, use), now' = now
      PROVE  pruning' \in [Pruners -> SUBSET (0..now')]
  <2> DEFINE picked == PickSnapshotsToPrune(DOMAIN runs, Sizes, use.days, use.cap, now)
             decided == IF use.enabled THEN picked ELSE {}
  <2>1. IsFiniteSet(DOMAIN runs) /\ DOMAIN runs \in SUBSET Nat
    <3>1. IsFiniteSet(0..now)
      BY <1>1, FS_Interval
    <3> QED BY <1>1, <3>1, FS_Subset
  <2>2. picked \subseteq DOMAIN runs
    BY <2>1, PicksAreRuns
  <2>3. pruning' = [pruning EXCEPT ![p] = decided]
    BY <1>2 DEF Decide
  <2> HIDE DEF picked
  <2>4. decided \in SUBSET (0..now)
    BY <1>1, <2>2
  <2> HIDE DEF decided
  <2> QED BY <1>2, <2>3, <2>4 DEF HistoryBounds
<1>3. CASE PruneAfterCycle
  <2>1. /\ UNCHANGED <<now, runs, settings, initialized, revert, purged, fresh, commands, disturbed>>
        /\ cycle' = [step |-> "idle", ts |-> cycle.ts, use |-> Off]
        /\ Decide("cycle", cycle.use)
    BY <1>3 DEF PruneAfterCycle, AtRest, SaveStill
  <2>2. pruning' \in [Pruners -> SUBSET (0..now')]
    BY <1>2, <2>1 DEF Pruners
  <2> QED BY <2>1, <2>2, OffIsASetting DEF HistoryBounds
<1>4. CASE PruneNow
  <2>1. /\ UNCHANGED <<now, runs, settings, initialized, revert, cycle, purged, fresh, disturbed>>
        /\ Command /\ Decide("button", settings)
    BY <1>4 DEF PruneNow, CycleStill, SaveStill
  <2>2. pruning' \in [Pruners -> SUBSET (0..now')]
    BY <1>2, <2>1 DEF Pruners
  <2>3. commands' \in 0..MaxCommands
    BY <2>1, SaveHistoryAssumption DEF Command, HistoryBounds
  <2> QED BY <2>1, <2>2, <2>3 DEF HistoryBounds
<1>5. ASSUME NEW p \in Pruners, Purge(p) PROVE HistoryBounds'
  <2> DEFINE next == Min(pruning[p])
  <2>1. /\ UNCHANGED <<now, settings, initialized, revert, cycle, fresh, commands, disturbed>>
        /\ pruning[p] # {}
        /\ pruning' = [pruning EXCEPT ![p] = @ \ {next}]
        /\ DOMAIN runs' \subseteq DOMAIN runs
        /\ purged' \subseteq purged \cup {next}
    BY <1>5 DEF Purge, SaveStill
  <2>2. pruning[p] \subseteq 0..now
    BY DEF HistoryBounds
  <2>3. next \in 0..now
    <3>1. pruning[p] \in SUBSET Nat /\ pruning[p] # {}
      BY <2>1, <2>2
    <3> QED BY <2>2, <3>1, LeastOf
  <2> HIDE DEF next
  <2>4. pruning' \in [Pruners -> SUBSET (0..now)]
    BY <2>1, <2>2 DEF HistoryBounds
  <2> QED BY <2>1, <2>3, <2>4 DEF HistoryBounds
<1> QED BY <1>3, <1>4, <1>5

\* A revert, from its choice of a run to its end.
LEMMA RevertsKeepBounds ==
    ASSUME HistoryTypes, HistoryBounds,
           \/ \E ts \in DOMAIN runs \ Malformed : StartRevert(ts)
           \/ RevertLive \/ RevertSource \/ RevertFails
    PROVE  HistoryBounds'
<1>1. cycle.ts \in 0..now /\ now \in Nat
  BY DEF HistoryTypes
<1>2. ASSUME NEW ts \in DOMAIN runs, StartRevert(ts) PROVE HistoryBounds'
  <2>1. /\ UNCHANGED <<now, runs, settings, initialized, pruning, cycle, purged, fresh, disturbed>>
        /\ revert'.step = "live" /\ revert'.ts = ts /\ Command
    BY <1>2 DEF StartRevert, CycleStill, SaveStill
  <2>2. commands' \in 0..MaxCommands
    BY <2>1, SaveHistoryAssumption DEF Command, HistoryBounds
  <2> QED BY <2>1, <2>2 DEF HistoryBounds
<1>3. CASE RevertLive
  <2>1. /\ UNCHANGED <<now, runs, settings, initialized, pruning, cycle, purged, fresh, commands>>
        /\ revert'.step = "source" /\ revert'.ts = revert.ts
        /\ disturbed' \subseteq disturbed \cup {cycle.ts}
    BY <1>3 DEF RevertLive, HistoryTypes
  <2> QED BY <1>1, <2>1 DEF HistoryBounds
<1>4. CASE RevertSource \/ RevertFails
  <2>1. /\ UNCHANGED <<now, runs, settings, pruning, cycle, purged, fresh, commands, disturbed>>
        /\ initialized' \in {initialized, FALSE}
        /\ revert'.step = "idle" /\ revert'.ts = 0
    <3>1. Foreign = 0
      BY SaveHistoryAssumption
    <3>2. CASE RevertSource
      BY <3>1, <3>2 DEF RevertSource, NoRevert, CycleStill
    <3>3. CASE RevertFails
      BY <3>1, <3>3 DEF RevertFails, NoRevert, CycleStill, SaveStill
    <3> QED BY <1>4, <3>2, <3>3
  <2>2. 0 \in 0..now
    BY <1>1
  <2> QED BY <2>1, <2>2 DEF HistoryBounds
<1> QED BY <1>2, <1>3, <1>4

\* Every step.
LEMMA BoundsKept ==
    ASSUME HistoryTypes, HistoryBounds, SaveHistoryNext
    PROVE  HistoryBounds'
<1>1. now \in Nat /\ fresh \in Nat /\ MaxTime \in Nat /\ MaxVersion \in Nat /\ MaxCommands \in Nat
  BY SaveHistoryAssumption DEF HistoryTypes
<1>2. CASE StartCycle \/ TakeFull \/ RunBisync \/ FailBisync
  BY <1>2, CycleKeepsBounds
<1>3. CASE PruneAfterCycle \/ PruneNow \/ \E p \in Pruners : Purge(p)
  BY <1>3, PrunesKeepBounds
<1>4. CASE \/ \E ts \in DOMAIN runs \ Malformed : StartRevert(ts)
           \/ RevertLive \/ RevertSource \/ RevertFails
  BY <1>4, RevertsKeepBounds
<1>5. CASE InitialBisync
  <2>1. /\ UNCHANGED <<now, fresh, commands, runs, settings, cycle, pruning, revert, purged, disturbed>>
        /\ initialized' = TRUE
    BY <1>5 DEF InitialBisync, CycleStill
  <2> QED BY <2>1 DEF HistoryBounds
<1>6. CASE Play \/ PlayElsewhere
  <2>1. /\ UNCHANGED <<now, initialized, commands, runs, settings, cycle, pruning, revert, purged,
                       disturbed>>
        /\ fresh < MaxVersion /\ fresh' = fresh + 1
    BY <1>6 DEF Play, PlayElsewhere, CycleStill
  <2>2. fresh' \in Versions
    BY <1>1, <2>1 DEF Versions
  <2> QED BY <2>1, <2>2 DEF HistoryBounds
<1>7. ASSUME NEW e \in BOOLEAN, NEW m \in Modes, NEW d \in Days, NEW c \in Caps,
             SetHistory(e, m, d, c)
      PROVE  HistoryBounds'
  <2>1. /\ UNCHANGED <<now, fresh, initialized, runs, cycle, pruning, revert, purged, disturbed>>
        /\ settings' = [enabled |-> e, incremental |-> m.incremental, full |-> m.full,
                        days |-> d, cap |-> c]
        /\ Command
    BY <1>7 DEF SetHistory, CycleStill, SaveStill
  <2>2. m.incremental \in BOOLEAN /\ m.full \in BOOLEAN
    BY SaveHistoryAssumption
  <2>3. settings' \in Settings
    BY <2>1, <2>2 DEF Settings
  <2>4. commands' \in 0..MaxCommands
    BY <1>1, <2>1 DEF Command, HistoryBounds
  <2> QED BY <2>1, <2>3, <2>4 DEF HistoryBounds
<1>8. CASE Tick
  <2>1. /\ UNCHANGED <<fresh, initialized, commands, runs, settings, cycle, pruning, revert, purged,
                       disturbed>>
        /\ now < MaxTime /\ now' = now + 1
    BY <1>8 DEF Tick, CycleStill, SaveStill
  <2>2. now' \in 1..MaxTime
    BY <1>1, <2>1
  <2>3. \A S : S \subseteq 0..now => S \subseteq 0..now'
    BY <1>1, <2>1
  <2>4. pruning' \in [Pruners -> SUBSET (0..now')]
    BY <2>1, <2>3 DEF HistoryBounds
  <2>5. revert'.ts \in 0..now'
    BY <1>1, <2>1 DEF HistoryBounds
  <2> QED BY <2>1, <2>2, <2>3, <2>4, <2>5 DEF HistoryBounds
<1> QED BY <1>2, <1>3, <1>4, <1>5, <1>6, <1>7, <1>8 DEF SaveHistoryNext

LEMMA BoundsInit == SaveHistoryInit => HistoryBounds
<1> SUFFICES ASSUME SaveHistoryInit PROVE HistoryBounds
  OBVIOUS
<1>1. /\ now = 1 /\ fresh = 1 /\ commands = 0 /\ DOMAIN runs = {Foreign}
      /\ settings \in Settings /\ initialized = FALSE
      /\ cycle = [step |-> "idle", ts |-> Foreign, use |-> Off]
      /\ pruning = [p \in Pruners |-> {}]
      /\ revert = [step |-> "idle", ts |-> Foreign, half |-> "full"]
      /\ purged = {} /\ disturbed = {}
  BY DEF SaveHistoryInit, AtRest, NoRevert
<1>2. Foreign = 0 /\ MaxTime \in Nat \ {0} /\ MaxVersion \in Nat \ {0} /\ MaxCommands \in Nat
  BY SaveHistoryAssumption
<1>3. Off \in Settings
  <2>1. Days \in SUBSET Nat /\ Caps \in SUBSET Nat /\ Days # {} /\ Caps # {}
    BY <1>1, SaveHistoryAssumption DEF Settings
  <2>2. Min(Days) \in Days /\ Min(Caps) \in Caps
    BY <2>1, LeastOf
  <2> QED BY <2>2 DEF Off, Settings
<1>4. now \in 1..MaxTime /\ fresh \in Versions /\ commands \in 0..MaxCommands
  BY <1>1, <1>2 DEF Versions
<1>5. DOMAIN runs \subseteq 0..now /\ revert.ts \in 0..now
  BY <1>1, <1>2
<1>6. pruning \in [Pruners -> SUBSET (0..now)]
  BY <1>1
<1> QED BY <1>1, <1>3, <1>4, <1>5, <1>6 DEF HistoryBounds

\* Type correctness of the history: for any sizes, modes and retentions, a prune
\* still to be done, a revert under way and what they have removed are of runs that
\* have been listed, and settings stay among those the user may choose.
THEOREM SaveHistoryIsTyped == SaveHistorySpec => []SaveHistoryTypeOK
<1> DEFINE Typed == HistoryInvariant /\ HistoryBounds
<1>1. SaveHistoryInit => Typed
  BY HistoryInit, BoundsInit
<1>2. Typed /\ [SaveHistoryNext]_saveHistoryVars => Typed'
  <2>1. ASSUME Typed, SaveHistoryNext PROVE Typed'
    <3>1. HistoryInvariant'
      BY <2>1, HistoryTypesKept, HistoryKept DEF HistoryInvariant
    <3>2. HistoryBounds'
      BY <2>1, BoundsKept DEF HistoryInvariant
    <3> QED BY <3>1, <3>2
  <2>2. ASSUME Typed, UNCHANGED saveHistoryVars PROVE Typed'
    <3>1. HistoryInvariant'
      BY <2>2, HistoryInvariantStutters
    <3>2. HistoryBounds'
      BY <2>2 DEF HistoryBounds, saveHistoryVars
    <3> QED BY <3>1, <3>2
  <2> QED BY <2>1, <2>2
<1>3. Typed => SaveHistoryTypeOK
  <2> SUFFICES ASSUME HistoryTypes, HistoryBounds PROVE SaveHistoryTypeOK
    BY DEF HistoryInvariant
  <2>1. fresh \in 1..MaxVersion /\ now \in Nat /\ MaxVersion \in Nat
    BY SaveHistoryAssumption DEF HistoryBounds, HistoryTypes, Versions
  <2>2. \A r \in DOMAIN runs : runs[r] \in Run
    <3>1. 0..fresh \subseteq Versions \cup {None}
      BY <2>1 DEF Versions, None
    <3> QED BY <3>1 DEF HistoryTypes, RunsTyped, Run
  <2>3. /\ cycle \in [step : {"idle", "snapshot", "bisync", "prune"}, ts : 0..now, use : Settings]
        /\ revert \in [step : {"idle", "live", "source"}, ts : 0..now, half : Halves]
    <3>1. cycle.ts \in 0..now
      BY DEF HistoryTypes
    <3> QED BY <3>1 DEF HistoryTypes, HistoryBounds
  <2> QED BY <2>2, <2>3 DEF SaveHistoryTypeOK, HistoryTypes, HistoryBounds
<1> HIDE DEF Typed
<1> QED BY <1>1, <1>2, <1>3, PTL DEF SaveHistorySpec

-----------------------------------------------------------------------------
(***************************************************************************)
(* The version in a database's file, for any script of statements that has *)
(* the two programs' discipline, any number of programs that open the file *)
(* at once and any number of them killed.  Tables and columns are never    *)
(* taken away, so what a program has run stays run; and it has run, or     *)
(* found in the version it read, all that comes before the statement it is *)
(* at.                                                                     *)
(***************************************************************************)

\* What makes tables and columns, and what a statement has made.
Makes(s) == s.op \in {"create", "add"}
Made(s)  == s.on \in DOMAIN schema /\ (s.op = "add" => s.column \in schema[s.on])

\* A program of version v has run statement s.
RunBy(v, s) == s.below <= v \/ s.below = Always

\* A version is stamped after all it promises, a column is added once and
\* after its table, and only what every boot runs comes before the version is
\* read.
ScriptInOrder ==
    \A i \in DOMAIN Script :
        /\ Script[i].op = "version" =>
               /\ Script[i].on \in 0..Latest
               /\ \A j \in DOMAIN Script :
                      Makes(Script[j]) /\ RunBy(Script[i].on, Script[j]) => j < i
        /\ Script[i].op = "add" =>
               /\ Script[i].below # Always
               /\ \E j \in 1..i-1 : /\ Script[j].op = "create" /\ Script[j].on = Script[i].on
                                    /\ RunBy(Script[i].below, Script[j])
        /\ Script[i].op = "read" => \A j \in 1..i-1 : Script[j].below = Always
        /\ Script[i].op = "insert" => Script[i].on \in Emulators

SchemaHolds(v) == \A s \in Sts : Makes(s) /\ RunBy(v, s) => Made(s)

\* What a booting program has run, or need not run.
Earned(p) ==
    /\ from[p] < At(p).below
    /\ \A i \in 1..pc[p]-1 : Makes(Script[i]) /\ from[p] < Script[i].below => Made(Script[i])

SchemaInvariant ==
    /\ MigrationsTypeOK
    /\ version > 0 => SchemaHolds(version)
    /\ \A p \in Processes : from[p] > 0 => SchemaHolds(from[p])
    /\ \A p \in Booting : Earned(p)

\* The numbers a boot counts with.
LEMMA ScriptIs ==
    /\ Len(Script) \in Nat /\ DOMAIN Script = 1..Len(Script)
    /\ Up = Len(Script) + 1 /\ Failed = Len(Script) + 2
    /\ Latest \in Nat /\ MaxStops \in Nat /\ Always = Latest + 1
    /\ \A i \in 1..Len(Script) : Script[i] \in Sts /\ Script[i].below \in 1..Always
  <1>1. Script \in Seq(Sts)
    BY MigrationsAssumption
  <1> HIDE DEF Sts
  <1>2. Len(Script) \in Nat /\ DOMAIN Script = 1..Len(Script)
    BY <1>1
  <1>3. \A i \in 1..Len(Script) : Script[i] \in Sts
    BY <1>1
  <1> QED BY <1>2, <1>3, MigrationsAssumption DEF Up, Failed, Always

\* The next statement that is due, with none skipped that is.
LEMMA NextForIs ==
    ASSUME NEW v \in 0..Latest, NEW i \in 1..Up, NEW n, n = NextFor(v, i)
    PROVE  /\ n \in i..Up
           /\ n # Up => v < Script[n].below
           /\ \A j \in i..n-1 : ~ (v < Script[j].below)
<1> DEFINE due == {j \in i..Len(Script) : v < Script[j].below}
<1>1. n = CHOOSE j \in due \cup {Up} : \A k \in due : j <= k
  BY DEF NextFor
<1>2. \E j \in due \cup {Up} : \A k \in due : j <= k
  <2>1. due \cup {Up} \in SUBSET Nat
    BY ScriptIs
  <2> HIDE DEF due
  <2>2. PICK j \in due \cup {Up} : \A k \in due \cup {Up} : j <= k
    BY <2>1, LeastNumber
  <2> QED BY <2>2
<1>3. n \in due \cup {Up} /\ \A k \in due : n <= k
  <2> HIDE DEF due
  <2> QED BY <1>1, <1>2
<1>4. Len(Script) \in Nat /\ Up = Len(Script) + 1 /\ i \in Nat /\ i <= Up
  BY ScriptIs
<1>5. n \in i..Up
  BY <1>3, <1>4
<1>6. n # Up => v < Script[n].below
  BY <1>3
<1>7. ASSUME NEW j \in i..n-1, v < Script[j].below PROVE FALSE
  <2>1. j \in i..Len(Script) /\ j < n
    <3> HIDE DEF due
    <3> QED BY <1>4, <1>5
  <2>2. j \in due
    BY <1>7, <2>1
  <2>3. n <= j
    <3> HIDE DEF due
    <3> QED BY <1>3, <2>2
  <2> QED BY <1>4, <1>5, <2>1, <2>3
<1> HIDE DEF due
<1> QED BY <1>5, <1>6, <1>7

\* The tables and columns a version promises.
LEMMA SchemaIs ==
    ASSUME NEW v \in 0..Latest
    PROVE  /\ DOMAIN SchemaAt[v] = {s.on : s \in {x \in Sts : x.op = "create" /\ RunBy(v, x)}}
           /\ \A t \in DOMAIN SchemaAt[v] :
                  SchemaAt[v][t] =
                      {s.column : s \in {x \in Sts : x.op = "add" /\ x.on = t /\ RunBy(v, x)}}
<1> DEFINE run == {s \in Sts : s.below <= v \/ s.below = Always}
<1>1. SchemaAt[v] = [t \in {s.on : s \in {x \in run : x.op = "create"}} |->
                         {s.column : s \in {x \in run : x.op = "add" /\ x.on = t}}]
  BY DEF SchemaAt
<1>2. {x \in run : x.op = "create"} = {x \in Sts : x.op = "create" /\ RunBy(v, x)}
  BY DEF RunBy
<1>3. \A t : {x \in run : x.op = "add" /\ x.on = t}
                 = {x \in Sts : x.op = "add" /\ x.on = t /\ RunBy(v, x)}
  BY DEF RunBy
<1> HIDE DEF run
<1> QED BY <1>1, <1>2, <1>3

\* A version that has a column has its table.
LEMMA TableOf ==
    ASSUME ScriptInOrder, NEW v \in 0..Latest, NEW s \in Sts, s.op = "add", RunBy(v, s)
    PROVE  \E x \in Sts : x.op = "create" /\ x.on = s.on /\ RunBy(v, x)
<1>1. PICK i \in DOMAIN Script : s = Script[i]
  BY DEF Sts
<1>2. PICK j \in 1..i-1 : Script[j].op = "create" /\ Script[j].on = s.on /\ RunBy(s.below, Script[j])
  BY <1>1 DEF ScriptInOrder
<1>3. s.below # Always
  BY <1>1 DEF ScriptInOrder
<1>4. j \in 1..Len(Script)
  BY ScriptIs
<1>5. RunBy(v, Script[j])
  <2>1. s.below <= v
    BY <1>3 DEF RunBy
  <2>2. Script[j].below <= s.below \/ Script[j].below = Always
    BY <1>2 DEF RunBy
  <2> QED BY <1>1, <1>4, <2>1, <2>2, ScriptIs DEF RunBy
<1>6. Script[j] \in Sts
  BY <1>4, ScriptIs
<1> QED BY <1>2, <1>5, <1>6

\* So they are there when all has been made.
LEMMA PromisesKept ==
    ASSUME SchemaInvariant
    PROVE  ColumnsThere
<1>1. SUFFICES ASSUME version > 0, NEW t \in DOMAIN SchemaAt[version]
               PROVE  t \in DOMAIN schema /\ SchemaAt[version][t] \subseteq schema[t]
  BY DEF ColumnsThere
<1>2. version \in 0..Latest /\ SchemaHolds(version)
  BY <1>1 DEF SchemaInvariant, MigrationsTypeOK
<1>3. t \in DOMAIN schema
  BY <1>2, SchemaIs DEF SchemaHolds, Makes, Made
<1>4. ASSUME NEW c \in SchemaAt[version][t]
      PROVE  c \in schema[t]
  <2>1. PICK s \in Sts : s.op = "add" /\ s.on = t /\ RunBy(version, s) /\ s.column = c
    BY <1>2, SchemaIs
  <2> QED BY <1>2, <2>1 DEF SchemaHolds, Makes, Made
<1> QED BY <1>3, <1>4

\* A row of the history settings.
LEMMA RowIs ==
    ASSUME NEW mode \in LegacyModes, NEW chosen \in LegacyModes, NEW flags \in LegacyModes \cup {""}
    PROVE  [mode |-> mode, chosen |-> chosen, flags |-> flags]
               \in [mode : LegacyModes, chosen : LegacyModes, flags : LegacyModes \cup {""}]
OBVIOUS

\* What a program may find.
LEMMA SchemaBegins ==
    ASSUME MigrationsInit, ScriptInOrder
    PROVE  SchemaInvariant
<1>1. from = [p \in Processes |-> 0] /\ pc = [p \in Processes |-> Stopped] /\ stops = 0
  BY Zenon DEF MigrationsInit
<1>0. \/ version = 0 /\ schema = << >> /\ procs = << >>
      \/ /\ version \in 0..Latest /\ schema = SchemaAt[version]
         /\ procs \in [Emulators -> IF version = 0 THEN {""} ELSE {"default", "own"}]
  BY Zenon DEF MigrationsInit
<1>2. version \in 0..Latest /\ ((schema = << >> /\ version = 0) \/ schema = SchemaAt[version])
  <2>1. 0 \in 0..Latest
    BY ScriptIs
  <2> QED BY <1>0, <2>1, Zenon
<1>3. DOMAIN modes \subseteq Emulators
      /\ \A e \in DOMAIN modes :
           modes[e] \in [mode : LegacyModes, chosen : LegacyModes, flags : LegacyModes \cup {""}]
  <2>1. PICK rows \in SUBSET Emulators :
            \E f \in [rows -> LegacyModes] :
                modes = [e \in rows |-> [mode |-> f[e], chosen |-> f[e],
                                         flags |-> IF version = 4 THEN "" ELSE f[e]]]
    BY Zenon DEF MigrationsInit
  <2>2. PICK f \in [rows -> LegacyModes] :
            modes = [e \in rows |-> [mode |-> f[e], chosen |-> f[e],
                                     flags |-> IF version = 4 THEN "" ELSE f[e]]]
    BY <2>1
  <2>3. DOMAIN modes = rows
    BY <2>2
  <2>4. \A e \in rows : f[e] \in LegacyModes
    OBVIOUS
  <2>5. ASSUME NEW e \in rows
        PROVE  modes[e] \in [mode : LegacyModes, chosen : LegacyModes, flags : LegacyModes \cup {""}]
    <3>1. PICK g \in LegacyModes \cup {""} : modes[e] = [mode |-> f[e], chosen |-> f[e], flags |-> g]
      BY <2>2, <2>4
    <3>2. f[e] \in LegacyModes
      BY <2>4
    <3>3. [mode |-> f[e], chosen |-> f[e], flags |-> g]
              \in [mode : LegacyModes, chosen : LegacyModes, flags : LegacyModes \cup {""}]
      BY <3>2, RowIs
    <3> QED BY <3>1, <3>3, Zenon
  <2> QED BY <2>3, <2>5
<1>5. DOMAIN procs \subseteq Emulators /\ \A e \in DOMAIN procs : procs[e] \in {"", "default", "own"}
  <2>1. CASE procs = << >>
    BY <2>1
  <2>2. CASE procs \in [Emulators -> IF version = 0 THEN {""} ELSE {"default", "own"}]
    BY <2>2
  <2> QED BY <1>0, <2>1, <2>2, Zenon
<1>6. (version = 0 /\ DOMAIN schema = {}) \/ schema = SchemaAt[version]
  <2>1. CASE schema = << >> /\ version = 0
    BY <2>1
  <2> QED BY <1>2, <2>1
<1>7. /\ DOMAIN schema \subseteq {s.on : s \in {x \in Sts : x.op = "create"}}
      /\ \A t \in DOMAIN schema : schema[t] \subseteq SchemaAt[Latest][t]
  <2>1. CASE schema = SchemaAt[version]
    <3>1. \A s \in Sts : RunBy(version, s) => RunBy(Latest, s)
      BY <1>2, ScriptIs, MigrationsAssumption DEF RunBy
    <3>2. Latest \in 0..Latest
      BY ScriptIs
    <3>3. \A t \in DOMAIN SchemaAt[version] :
              t \in DOMAIN SchemaAt[Latest] /\ SchemaAt[version][t] \subseteq SchemaAt[Latest][t]
      BY <1>2, <3>1, <3>2, SchemaIs
    <3>4. DOMAIN SchemaAt[version] \subseteq {s.on : s \in {x \in Sts : x.op = "create"}}
      BY <1>2, SchemaIs
    <3> QED BY <2>1, <3>3, <3>4
  <2> QED BY <1>6, <2>1
<1>8. MigrationsTypeOK
  <2>1. from \in [Processes -> 0..Latest] /\ pc \in [Processes -> 0..Failed] /\ stops \in 0..MaxStops
    BY <1>1, ScriptIs DEF Stopped
  <2> QED BY <1>2, <1>3, <1>5, <1>7, <2>1, Zenon DEF MigrationsTypeOK
<1>9. Booting = {}
  BY <1>1, ScriptIs DEF Booting, Stopped
<1>10. ASSUME version > 0
       PROVE  SchemaHolds(version)
  <2>1. schema = SchemaAt[version]
    BY <1>6, <1>10
  <2>2. ASSUME NEW s \in Sts, Makes(s), RunBy(version, s)
        PROVE  Made(s)
    <3>1. CASE s.op = "create"
      BY <1>2, <2>1, <2>2, <3>1, SchemaIs DEF Made
    <3>2. CASE s.op = "add"
      <4>1. PICK x \in Sts : x.op = "create" /\ x.on = s.on /\ RunBy(version, x)
        BY <1>2, <2>2, <3>2, TableOf
      <4>2. s.on \in DOMAIN SchemaAt[version]
        BY <1>2, <4>1, SchemaIs
      <4> QED BY <1>2, <2>1, <2>2, <3>2, <4>2, SchemaIs DEF Made
    <3> QED BY <2>2, <3>1, <3>2 DEF Makes
  <2> QED BY <2>2 DEF SchemaHolds
<1> QED BY <1>1, <1>8, <1>9, <1>10 DEF SchemaInvariant

\* Nothing that was made is taken away.
Grown == \A s \in Sts : Made(s) => Made(s)'

\* Every statement is in the latest version.
LEMMA LatestRunsAll ==
    ASSUME NEW s \in Sts
    PROVE  RunBy(Latest, s)
  BY MigrationsAssumption, ScriptIs DEF RunBy

\* A booting program is at a statement of the script.
LEMMA AtIs ==
    ASSUME NEW p \in Booting
    PROVE  /\ p \in Processes /\ pc[p] \in 1..Len(Script) /\ pc[p] \in DOMAIN Script
           /\ At(p) \in Sts /\ At(p) = Script[pc[p]]
  BY ScriptIs DEF Booting, At

\* A program that moves to a statement has earned it.
LEMMA MovesOn ==
    ASSUME SchemaInvariant, MigrationsTypeOK', Grown,
           version' > 0 => SchemaHolds(version)',
           NEW p \in Processes, NEW v, NEW n,
           from' = [from EXCEPT ![p] = v], pc' = [pc EXCEPT ![p] = n],
           v > 0 => SchemaHolds(v),
           n \in DOMAIN Script =>
               /\ v < Script[n].below
               /\ \A i \in 1..n-1 :
                      Makes(Script[i]) /\ v < Script[i].below => Made(Script[i])'
    PROVE  SchemaInvariant'
<1>1. /\ from \in [Processes -> 0..Latest] /\ pc \in [Processes -> 0..Failed]
      /\ from' \in [Processes -> 0..Latest] /\ pc' \in [Processes -> 0..Failed]
  BY DEF SchemaInvariant, MigrationsTypeOK
<1>2. \A w : SchemaHolds(w) => \A s \in Sts : Makes(s) /\ RunBy(w, s) => Made(s)'
  BY DEF SchemaHolds, Grown
<1>3. ASSUME NEW q \in Processes, from'[q] > 0
      PROVE  SchemaHolds(from[q])'
  <2>1. from'[q] = IF q = p THEN v ELSE from[q]
    BY <1>1
  <2>2. SchemaHolds(from'[q])
    BY <1>3, <2>1 DEF SchemaInvariant
  <2>3. \A s \in Sts : Makes(s) /\ RunBy(from'[q], s) => Made(s)'
    BY <1>2, <2>2
  <2> QED BY <2>3 DEF SchemaHolds
<1>4. ASSUME NEW q \in Booting'
      PROVE  Earned(q)'
  <2>1. q \in Processes /\ pc'[q] \in DOMAIN Script
    BY <1>4 DEF Booting
  <2>2. /\ pc'[q] = IF q = p THEN n ELSE pc[q]
        /\ from'[q] = IF q = p THEN v ELSE from[q]
    BY <1>1, <2>1
  <2>3. /\ from'[q] < Script[pc'[q]].below
        /\ \A i \in 1..pc'[q]-1 :
               Makes(Script[i]) /\ from'[q] < Script[i].below => Made(Script[i])'
    <3>1. CASE q = p
      BY <2>1, <2>2, <3>1
    <3>2. CASE q # p
      <4>1. Earned(q)
        BY <2>1, <2>2, <3>2 DEF SchemaInvariant, Booting
      <4>2. \A i \in 1..pc[q]-1 : Script[i] \in Sts
        BY <2>1, <2>2, <3>2, ScriptIs
      <4> QED BY <2>2, <3>2, <4>1, <4>2 DEF Earned, Grown, At
    <3> QED BY <3>1, <3>2
  <2> QED BY <2>3 DEF Earned, At
<1> QED BY <1>3, <1>4 DEF SchemaInvariant

\* What a program counts with, apart from the tables.
LEMMA CountersAre ==
    ASSUME SchemaInvariant
    PROVE  /\ MigrationsTypeOK /\ version \in 0..Latest
           /\ from \in [Processes -> 0..Latest] /\ pc \in [Processes -> 0..Failed]
           /\ stops \in 0..MaxStops
           /\ \A p \in Processes : from[p] \in 0..Latest /\ pc[p] \in 0..Failed
<1>1. /\ MigrationsTypeOK /\ version \in 0..Latest
      /\ from \in [Processes -> 0..Latest] /\ pc \in [Processes -> 0..Failed]
      /\ stops \in 0..MaxStops
  BY Zenon DEF SchemaInvariant, MigrationsTypeOK
<1> QED BY <1>1

\* A column is only added to a table that is there.
LEMMA TableIsThere ==
    ASSUME SchemaInvariant, ScriptInOrder, NEW p \in Booting, At(p).op = "add"
    PROVE  At(p).on \in DOMAIN schema
<1>1. /\ p \in Processes /\ pc[p] \in 1..Len(Script) /\ pc[p] \in DOMAIN Script
      /\ At(p) = Script[pc[p]] /\ Earned(p)
  BY AtIs DEF SchemaInvariant
<1>2. PICK j \in 1..pc[p]-1 : Script[j].op = "create" /\ Script[j].on = At(p).on
  <2>1. PICK here, s : here = pc[p] /\ s = At(p)
    OBVIOUS
  <2>2. here \in DOMAIN Script /\ Script[here].op = "add" /\ Script[here] = s
    BY <1>1, <2>1
  <2>3. \E j \in 1..here-1 : Script[j].op = "create" /\ Script[j].on = Script[here].on
    BY <2>2, Zenon DEF ScriptInOrder
  <2> QED BY <2>1, <2>2, <2>3, Zenon
<1>3. j \in 1..Len(Script) /\ from[p] \in 0..Latest
  BY <1>1, ScriptIs, CountersAre
<1>4. Script[j] \in Sts /\ Script[j].below \in 1..Always /\ Makes(Script[j])
  BY <1>2, <1>3, ScriptIs DEF Makes
<1>5. CASE from[p] < Script[j].below
  BY <1>1, <1>2, <1>4, <1>5 DEF Earned, Made
<1>6. CASE Script[j].below <= from[p]
  <2>1. from[p] > 0 /\ RunBy(from[p], Script[j])
    BY <1>3, <1>4, <1>6, ScriptIs DEF RunBy
  <2> QED BY <1>1, <1>2, <1>4, <2>1 DEF SchemaInvariant, SchemaHolds, Made
<1> QED BY <1>3, <1>4, <1>5, <1>6, ScriptIs

\* What a version promises is there when it is stamped.
LEMMA StampIsEarned ==
    ASSUME SchemaInvariant, ScriptInOrder, NEW p \in Booting, At(p).op = "version"
    PROVE  At(p).on \in 0..Latest /\ SchemaHolds(At(p).on)
<1>1. /\ p \in Processes /\ pc[p] \in 1..Len(Script) /\ pc[p] \in DOMAIN Script
      /\ At(p) = Script[pc[p]] /\ Earned(p) /\ from[p] \in 0..Latest
  BY AtIs DEF SchemaInvariant, MigrationsTypeOK
<1> DEFINE here == pc[p]
<1>2. /\ At(p).on \in 0..Latest
      /\ \A j \in DOMAIN Script : Makes(Script[j]) /\ RunBy(At(p).on, Script[j]) => j < here
  <2>1. here \in DOMAIN Script /\ At(p) = Script[here]
    BY <1>1
  <2> HIDE DEF here
  <2> QED BY <2>1, Zenon DEF ScriptInOrder
<1>3. ASSUME NEW s \in Sts, Makes(s), RunBy(At(p).on, s)
      PROVE  Made(s)
  <2>1. PICK j \in DOMAIN Script : s = Script[j]
    BY DEF Sts
  <2>2. j \in 1..pc[p]-1
    BY <1>1, <1>2, <1>3, <2>1, ScriptIs
  <2>3. s.below \in 1..Always
    BY <2>1, ScriptIs
  <2>4. CASE from[p] < s.below
    BY <1>1, <1>3, <2>1, <2>2, <2>4 DEF Earned
  <2>5. CASE s.below <= from[p]
    <3>1. from[p] > 0 /\ RunBy(from[p], s)
      BY <1>1, <2>3, <2>5, ScriptIs DEF RunBy
    <3> QED BY <1>1, <1>3, <3>1 DEF SchemaInvariant, SchemaHolds
  <2> QED BY <1>1, <2>3, <2>4, <2>5, ScriptIs
<1> QED BY <1>2, <1>3 DEF SchemaHolds

\* A statement only adds to the schema, and what it says is there.
LEMMA StatementMakes ==
    ASSUME SchemaInvariant, ScriptInOrder, NEW p \in Booting, Execute(p), NEW s, s = At(p)
    PROVE  /\ Grown
           /\ Makes(s) => Made(s)'
           /\ DOMAIN schema' \subseteq {x.on : x \in {y \in Sts : y.op = "create"}}
           /\ \A t \in DOMAIN schema' : schema'[t] \subseteq SchemaAt[Latest][t]
<1>1. /\ CreateTable(s) \/ Alter(s) \/ Stamp(s) \/ NameProcess(s) \/ TranslateModes(s) \/ Insert(s)
      /\ s \in Sts
  BY AtIs DEF Execute
<1>2. /\ DOMAIN schema \subseteq {x.on : x \in {y \in Sts : y.op = "create"}}
      /\ \A t \in DOMAIN schema : schema[t] \subseteq SchemaAt[Latest][t]
  BY DEF SchemaInvariant, MigrationsTypeOK
<1>3. s.op = "add" => s.on \in DOMAIN schema
  BY TableIsThere
<1>4. Latest \in 0..Latest
  BY ScriptIs
<1>5. CASE CreateTable(s)
  <2>1. /\ s.op = "create"
        /\ schema' = [t \in DOMAIN schema \cup {s.on} |->
                         IF t \in DOMAIN schema THEN schema[t] ELSE {}]
    BY <1>5 DEF CreateTable
  <2>2. /\ DOMAIN schema' = DOMAIN schema \cup {s.on}
        /\ \A t \in DOMAIN schema : schema'[t] = schema[t]
        /\ s.on \notin DOMAIN schema => schema'[s.on] = {}
    BY <2>1
  <2>3. Grown
    BY <2>2, Zenon DEF Grown, Made
  <2>4. Made(s)'
    <3>1. s.on \in DOMAIN schema' /\ s.op # "add"
      BY <2>1, <2>2
    <3> QED BY <3>1, Zenon DEF Made
  <2>5. s.on \in {x.on : x \in {y \in Sts : y.op = "create"}}
    BY <1>1, <2>1
  <2> QED BY <1>2, <2>2, <2>3, <2>4, <2>5
<1>6. CASE Alter(s)
  <2>1. s.op = "add" /\ schema' = [schema EXCEPT ![s.on] = @ \cup {s.column}]
    BY <1>6, Zenon DEF Alter
  <2>2. /\ DOMAIN schema' = DOMAIN schema
        /\ \A t \in DOMAIN schema : t # s.on => schema'[t] = schema[t]
        /\ schema'[s.on] = schema[s.on] \cup {s.column}
    BY <1>3, <2>1
  <2>3. Grown
    <3>1. ASSUME NEW x \in Sts, Made(x)
          PROVE  Made(x)'
      <4>1. x.on \in DOMAIN schema' /\ schema[x.on] \subseteq schema'[x.on]
        BY <2>2, <3>1 DEF Made
      <4> QED BY <3>1, <4>1 DEF Made
    <3> QED BY <3>1 DEF Grown
  <2>4. Made(s)'
    <3>1. s.on \in DOMAIN schema' /\ s.column \in schema'[s.on]
      BY <1>3, <2>1, <2>2
    <3> QED BY <3>1, Zenon DEF Made
  <2>5. s.column \in SchemaAt[Latest][s.on]
    <3>1. RunBy(Latest, s)
      BY <1>1, LatestRunsAll
    <3>2. PICK table \in Sts :
               table.op = "create" /\ table.on = s.on /\ RunBy(Latest, table)
      BY <1>1, <1>4, <2>1, <3>1, TableOf
    <3>3. s.on \in DOMAIN SchemaAt[Latest]
      BY <1>4, <3>2, SchemaIs
    <3>4. SchemaAt[Latest][s.on] =
              {x.column : x \in {y \in Sts : y.op = "add" /\ y.on = s.on /\ RunBy(Latest, y)}}
      BY <1>4, <3>3, SchemaIs
    <3>5. s \in {y \in Sts : y.op = "add" /\ y.on = s.on /\ RunBy(Latest, y)}
      BY <1>1, <2>1, <3>1
    <3> QED BY <3>4, <3>5
  <2> QED BY <1>2, <1>3, <2>1, <2>2, <2>3, <2>4, <2>5
<1>7. CASE Stamp(s) \/ NameProcess(s) \/ TranslateModes(s) \/ Insert(s)
  <2>1. schema' = schema /\ ~ Makes(s)
    BY <1>7 DEF Stamp, NameProcess, TranslateModes, Insert, Makes
  <2> QED BY <1>2, <2>1 DEF Grown, Made
<1> QED BY <1>1, <1>5, <1>6, <1>7

\* The flags of a row may be set to any mode.
LEMMA FlagsAre ==
    ASSUME NEW kept \in [mode : LegacyModes, chosen : LegacyModes, flags : LegacyModes \cup {""}],
           NEW g \in LegacyModes
    PROVE  /\ [kept EXCEPT !.flags = g]
                  \in [mode : LegacyModes, chosen : LegacyModes, flags : LegacyModes \cup {""}]
           /\ [kept EXCEPT !.flags = g].mode = kept.mode
           /\ [kept EXCEPT !.flags = g].chosen = kept.chosen
           /\ [kept EXCEPT !.flags = g].flags = g
<1> HIDE DEF LegacyModes
<1> QED OBVIOUS

\* The rows keep their shape.
LEMMA StatementTyped ==
    ASSUME SchemaInvariant, ScriptInOrder, NEW p \in Booting, Execute(p)
    PROVE  MigrationsTypeOK'
<1>0. PICK s : s = At(p)
  OBVIOUS
<1>1. /\ CreateTable(s) \/ Alter(s) \/ Stamp(s) \/ NameProcess(s) \/ TranslateModes(s) \/ Insert(s)
      /\ s \in Sts /\ p \in Processes /\ pc[p] \in 1..Len(Script) /\ s = Script[pc[p]]
      /\ pc' = [pc EXCEPT ![p] = NextFor(from[p], pc[p] + 1)] /\ from' = from /\ stops' = stops
  BY <1>0, AtIs DEF Execute, GoOn
<1>2. MigrationsTypeOK
  BY DEF SchemaInvariant
<1>3. pc' \in [Processes -> 0..Failed]
  <2>1. from[p] \in 0..Latest /\ pc[p] + 1 \in 1..Up
    BY <1>1, ScriptIs, CountersAre
  <2>2. NextFor(from[p], pc[p] + 1) \in 0..Failed
    <3>1. PICK v, i, n : v = from[p] /\ i = pc[p] + 1 /\ n = NextFor(v, i)
      OBVIOUS
    <3>2. n \in i..Up /\ i \in Nat
      BY <2>1, <3>1, NextForIs, ScriptIs
    <3> QED BY <3>1, <3>2, ScriptIs
  <2> QED BY <1>1, <2>2, CountersAre
<1>4. s.op = "version" => s.on \in 0..Latest
  BY <1>0, StampIsEarned
<1>5. s.op = "insert" => s.on \in Emulators
  <2>1. \A i \in DOMAIN Script : Script[i].op = "insert" => Script[i].on \in Emulators
    BY Zenon DEF ScriptInOrder
  <2>2. PICK i \in DOMAIN Script : s = Script[i]
    BY <1>1, Zenon DEF Sts
  <2> QED BY <2>1, <2>2, Zenon
<1>6. version' \in 0..Latest
  <2>1. CASE Stamp(s)
    BY <1>4, <2>1 DEF Stamp
  <2>2. CASE ~ Stamp(s)
    <3>1. version' = version
      BY <1>1, <2>2, Zenon DEF CreateTable, Alter, NameProcess, TranslateModes, Insert
    <3> QED BY <1>2, <3>1 DEF MigrationsTypeOK
  <2> QED BY <2>1, <2>2
<1>7. DOMAIN procs' \subseteq Emulators /\ \A e \in DOMAIN procs' : procs'[e] \in {"", "default", "own"}
  <2>1. CASE NameProcess(s)
    <3>1. procs' = [e \in DOMAIN procs |->
                       IF e = s.on /\ procs[e] = "" THEN "default" ELSE procs[e]]
      BY <2>1, Zenon DEF NameProcess
    <3> QED BY <1>2, <3>1 DEF MigrationsTypeOK
  <2>2. CASE Insert(s)
    <3>1. /\ s.on \in Emulators
          /\ procs' = [e \in DOMAIN procs \cup {s.on} |-> IF e = s.on THEN "default" ELSE procs[e]]
      BY <1>5, <2>2, Zenon DEF Insert
    <3> QED BY <1>2, <3>1 DEF MigrationsTypeOK
  <2>3. CASE ~ NameProcess(s) /\ ~ Insert(s)
    <3>1. procs' = procs
      BY <1>1, <2>3, Zenon DEF CreateTable, Alter, Stamp, TranslateModes
    <3> QED BY <1>2, <3>1, Zenon DEF MigrationsTypeOK
  <2> QED BY <2>1, <2>2, <2>3, Zenon
<1>8. /\ DOMAIN modes' \subseteq Emulators
      /\ \A e \in DOMAIN modes' :
           modes'[e] \in [mode : LegacyModes, chosen : LegacyModes, flags : LegacyModes \cup {""}]
  <2> DEFINE Legal == [mode : LegacyModes, chosen : LegacyModes, flags : LegacyModes \cup {""}]
  <2>1. DOMAIN modes \subseteq Emulators /\ \A e \in DOMAIN modes : modes[e] \in Legal
    BY <1>2, Zenon DEF MigrationsTypeOK
  <2>2. \A kept \in Legal, g \in LegacyModes : [kept EXCEPT !.flags = g] \in Legal
    BY FlagsAre, Zenon
  <2>8. \A kept \in Legal : kept.mode \in LegacyModes
    BY DEF LegacyModes
  <2>3. "incremental" \in LegacyModes
    BY DEF LegacyModes
  <2> HIDE DEF Legal
  <2>4. CASE modes' = modes
    BY <2>1, <2>4, Zenon DEF Legal
  <2>5. CASE modes' = [e \in DOMAIN modes |-> [modes[e] EXCEPT !.flags = "incremental"]]
    <3>1. \A e \in DOMAIN modes : [modes[e] EXCEPT !.flags = "incremental"] \in Legal
      BY <2>1, <2>2, <2>3, Zenon
    <3>2. DOMAIN modes' = DOMAIN modes /\ \A e \in DOMAIN modes : modes'[e] = [modes[e] EXCEPT !.flags = "incremental"]
      BY <2>5, Zenon
    <3> QED BY <2>1, <3>1, <3>2, Zenon DEF Legal
  <2>6. CASE modes' = [e \in DOMAIN modes |-> [modes[e] EXCEPT !.flags = modes[e].mode]]
    <3>0. ASSUME NEW e \in DOMAIN modes, NEW kept, kept = modes[e]
          PROVE  [kept EXCEPT !.flags = kept.mode] \in Legal
      <4>1. PICK g : g = kept.mode
        OBVIOUS
      <4>2. [kept EXCEPT !.flags = g] \in Legal
        BY <2>1, <2>2, <2>8, <3>0, <4>1, Zenon
      <4> QED BY <4>1, <4>2, Zenon
    <3>1. \A e \in DOMAIN modes : [modes[e] EXCEPT !.flags = modes[e].mode] \in Legal
      BY <3>0, Zenon
    <3>2. DOMAIN modes' = DOMAIN modes /\ \A e \in DOMAIN modes : modes'[e] = [modes[e] EXCEPT !.flags = modes[e].mode]
      BY <2>6, Zenon
    <3> QED BY <2>1, <3>1, <3>2, Zenon DEF Legal
  <2>7. \/ modes' = modes
        \/ modes' = [e \in DOMAIN modes |-> [modes[e] EXCEPT !.flags = "incremental"]]
        \/ modes' = [e \in DOMAIN modes |-> [modes[e] EXCEPT !.flags = modes[e].mode]]
    BY <1>1, Zenon DEF CreateTable, Alter, Stamp, NameProcess, TranslateModes, Insert
  <2> QED BY <2>4, <2>5, <2>6, <2>7, Zenon
<1>9. /\ DOMAIN schema' \subseteq {x.on : x \in {y \in Sts : y.op = "create"}}
      /\ \A t \in DOMAIN schema' : schema'[t] \subseteq SchemaAt[Latest][t]
  BY <1>0, StatementMakes, Zenon
<1>10. from' \in [Processes -> 0..Latest] /\ stops' \in 0..MaxStops
  BY <1>1, <1>2 DEF MigrationsTypeOK
<1> QED BY <1>3, <1>6, <1>7, <1>8, <1>9, <1>10, Zenon DEF MigrationsTypeOK

\* A program that goes on to the next statement that is due has earned it.
LEMMA GoesOn ==
    ASSUME SchemaInvariant, MigrationsTypeOK', Grown,
           version' > 0 => SchemaHolds(version)',
           NEW p \in Booting, NEW s, s = At(p), GoOn(p), from' = from,
           Makes(s) => Made(s)'
    PROVE  SchemaInvariant'
<1>0. PICK v, here, n : v = from[p] /\ here = pc[p] /\ n = NextFor(v, here + 1)
  OBVIOUS
<1>1. /\ p \in Processes /\ here \in 1..Len(Script) /\ s = Script[here]
      /\ pc' = [pc EXCEPT ![p] = n]
  BY <1>0, AtIs DEF GoOn
<1>2. /\ v \in 0..Latest /\ (v > 0 => SchemaHolds(v)) /\ from' = [from EXCEPT ![p] = v]
      /\ \A i \in 1..here-1 : Makes(Script[i]) /\ v < Script[i].below => Made(Script[i])
  <2>1. from \in [Processes -> 0..Latest] /\ Earned(p) /\ (from[p] > 0 => SchemaHolds(from[p]))
    BY <1>1, CountersAre DEF SchemaInvariant
  <2> QED BY <1>0, <1>1, <2>1 DEF Earned
<1>4. /\ n \in here+1..Up
      /\ n # Up => v < Script[n].below
      /\ \A j \in here+1..n-1 : ~ (v < Script[j].below)
  <2>1. here + 1 \in 1..Up
    BY <1>1, ScriptIs
  <2> QED BY <1>0, <1>2, <2>1, NextForIs
<1>6. ASSUME n \in DOMAIN Script
      PROVE  /\ v < Script[n].below
             /\ \A i \in 1..n-1 : Makes(Script[i]) /\ v < Script[i].below => Made(Script[i])'
  <2>1. n \in 1..Len(Script) /\ n # Up
    BY <1>6, ScriptIs
  <2>2. ASSUME NEW i \in 1..n-1, Makes(Script[i]), v < Script[i].below
        PROVE  Made(Script[i])'
    <3>1. i \in 1..here-1 \/ i = here \/ i \in here+1..n-1
      BY <1>1, <2>1
    <3>2. CASE i \in 1..here-1
      <4>1. Made(Script[i])
        BY <1>2, <2>2, <3>2
      <4>2. Script[i] \in Sts
        BY <2>1, ScriptIs
      <4> QED BY <4>1, <4>2 DEF Grown
    <3>3. CASE i = here
      BY <1>1, <2>2, <3>3
    <3> QED BY <1>4, <2>2, <3>1, <3>2, <3>3
  <2> QED BY <1>4, <2>1, <2>2
<1> QED BY <1>1, <1>2, <1>6, MovesOn

\* One statement of a boot.
LEMMA ExecuteEarns ==
    ASSUME SchemaInvariant, ScriptInOrder, NEW p \in Booting, Execute(p)
    PROVE  SchemaInvariant'
<1>0. PICK s : s = At(p)
  OBVIOUS
<1>1. GoOn(p) /\ from' = from
  BY DEF Execute
<1>2. Grown /\ (Makes(s) => Made(s)') /\ MigrationsTypeOK'
  BY <1>0, StatementMakes, StatementTyped
<1>3. version' > 0 => SchemaHolds(version)'
  <2>1. \A w : SchemaHolds(w) => \A x \in Sts : Makes(x) /\ RunBy(w, x) => Made(x)'
    BY <1>2 DEF SchemaHolds, Grown
  <2>2. version' = version \/ (s.op = "version" /\ version' = s.on)
    <3>1. CreateTable(s) \/ Alter(s) \/ Stamp(s) \/ NameProcess(s) \/ TranslateModes(s) \/ Insert(s)
      BY <1>0 DEF Execute
    <3> QED BY <3>1, Zenon DEF CreateTable, Alter, Stamp, NameProcess, TranslateModes, Insert
  <2>3. version' > 0 => SchemaHolds(version')
    BY <1>0, <2>2, StampIsEarned DEF SchemaInvariant
  <2>4. version' > 0 => \A x \in Sts : Makes(x) /\ RunBy(version', x) => Made(x)'
    BY <2>1, <2>3
  <2> QED BY <2>4 DEF SchemaHolds
<1> QED BY <1>0, <1>1, <1>2, <1>3, GoesOn

\* What a step that leaves the database alone keeps.
LEMMA SameDatabase ==
    ASSUME SchemaInvariant, UNCHANGED db,
           from' \in [Processes -> 0..Latest], pc' \in [Processes -> 0..Failed], stops' \in 0..MaxStops
    PROVE  MigrationsTypeOK' /\ Grown /\ (version' > 0 => SchemaHolds(version)')
           /\ \A s : Made(s)' <=> Made(s)
<1>1. schema' = schema /\ version' = version /\ procs' = procs /\ modes' = modes
  BY DEF db
<1>2. MigrationsTypeOK'
  BY <1>1, Zenon DEF SchemaInvariant, MigrationsTypeOK
<1>3. \A s : Made(s)' <=> Made(s)
  BY <1>1, Zenon DEF Made
<1>4. version' > 0 => SchemaHolds(version)'
  BY <1>1, <1>3, Zenon DEF SchemaInvariant, SchemaHolds
<1> QED BY <1>2, <1>3, <1>4 DEF Grown

\* The file is opened.
LEMMA BootEarns ==
    ASSUME SchemaInvariant, NEW p \in Processes, Boot(p)
    PROVE  SchemaInvariant'
<1>1. /\ from' = [from EXCEPT ![p] = 0] /\ pc' = [pc EXCEPT ![p] = 1]
      /\ UNCHANGED db /\ stops' = stops
  BY DEF Boot
<1>2. from' \in [Processes -> 0..Latest] /\ pc' \in [Processes -> 0..Failed] /\ stops' \in 0..MaxStops
  BY <1>1, CountersAre, ScriptIs
<1>3. 1 \in DOMAIN Script => 0 < Script[1].below
  BY ScriptIs
<1>4. ~ (0 > 0) /\ \A i \in 1..1-1 : FALSE
  OBVIOUS
<1>5. MigrationsTypeOK' /\ Grown /\ (version' > 0 => SchemaHolds(version)')
  BY <1>1, <1>2, SameDatabase
<1> QED BY <1>1, <1>3, <1>4, <1>5, MovesOn

\* Only what every boot runs comes before the version is read.
LEMMA ReadVersionEarns ==
    ASSUME SchemaInvariant, ScriptInOrder, NEW p \in Processes, ReadVersion(p)
    PROVE  SchemaInvariant'
<1>0. PICK v, here, n : v = version /\ here = pc[p] /\ n = NextFor(v, here + 1)
  OBVIOUS
<1>1. /\ from' = [from EXCEPT ![p] = v] /\ UNCHANGED db /\ stops' = stops
      /\ pc' = [pc EXCEPT ![p] = n] /\ p \in Booting /\ At(p).op = "read"
  BY <1>0 DEF ReadVersion
<1>2. /\ here \in 1..Len(Script) /\ here \in DOMAIN Script
      /\ Script[here].op = "read" /\ v \in 0..Latest
  BY <1>0, <1>1, AtIs, CountersAre
<1>3. /\ n \in here+1..Up
      /\ n # Up => v < Script[n].below
      /\ \A j \in here+1..n-1 : ~ (v < Script[j].below)
  <2>1. here + 1 \in 1..Up
    BY <1>2, ScriptIs
  <2> QED BY <1>0, <1>2, <2>1, NextForIs
<1>4. from' \in [Processes -> 0..Latest] /\ pc' \in [Processes -> 0..Failed] /\ stops' \in 0..MaxStops
  BY <1>1, <1>2, <1>3, CountersAre, ScriptIs
<1>5. /\ MigrationsTypeOK' /\ Grown /\ (version' > 0 => SchemaHolds(version)')
      /\ \A s : Made(s)' <=> Made(s)
  BY <1>1, <1>4, SameDatabase
<1>6. v > 0 => SchemaHolds(v)
  BY <1>0 DEF SchemaInvariant
<1>7. \A i \in 1..here-1 : Script[i].below = Always
  BY <1>2, Zenon DEF ScriptInOrder
<1>8. /\ from[p] \in 0..Latest
      /\ \A i \in 1..here-1 : Makes(Script[i]) /\ from[p] < Script[i].below => Made(Script[i])
  BY <1>0, <1>1, CountersAre DEF SchemaInvariant, Earned
<1>9. ASSUME n \in DOMAIN Script
      PROVE  /\ v < Script[n].below
             /\ \A i \in 1..n-1 : Makes(Script[i]) /\ v < Script[i].below => Made(Script[i])'
  <2>1. n \in 1..Len(Script) /\ n # Up
    BY <1>9, ScriptIs
  <2>2. ASSUME NEW i \in 1..n-1, Makes(Script[i]), v < Script[i].below
        PROVE  Made(Script[i])'
    <3>1. i \in 1..here-1 \/ i = here \/ i \in here+1..n-1
      BY <1>2, <2>1
    <3>2. CASE i \in 1..here-1
      <4>1. from[p] < Script[i].below
        BY <1>7, <1>8, <3>2, ScriptIs
      <4> QED BY <1>5, <1>8, <2>2, <3>2, <4>1
    <3>3. CASE i = here
      BY <1>2, <2>2, <3>3 DEF Makes
    <3> QED BY <1>3, <2>2, <3>1, <3>2, <3>3
  <2> QED BY <1>3, <2>1, <2>2
<1> QED BY <1>1, <1>5, <1>6, <1>9, MovesOn

\* A program that leaves the boot, or a statement that makes nothing.
LEMMA LeavesEarned ==
    ASSUME SchemaInvariant, NEW p \in Processes, NEW n \in {Stopped, Up, Failed},
           pc' = [pc EXCEPT ![p] = n], from' = from, stops' \in 0..MaxStops, UNCHANGED db
    PROVE  SchemaInvariant'
<1>1. n \in 0..Failed /\ n \notin DOMAIN Script
  BY ScriptIs DEF Stopped
<1>2. from' \in [Processes -> 0..Latest] /\ pc' \in [Processes -> 0..Failed]
  BY <1>1, CountersAre
<1>3. MigrationsTypeOK' /\ Grown /\ (version' > 0 => SchemaHolds(version)')
  BY <1>2, SameDatabase
<1>4. PICK v : v = from[p]
  OBVIOUS
<1>5. from' = [from EXCEPT ![p] = v] /\ (v > 0 => SchemaHolds(v))
  BY <1>4, CountersAre DEF SchemaInvariant
<1> QED BY <1>1, <1>3, <1>5, MovesOn

\* Counting the rows decides only where the program goes on.
LEMMA CountEarns ==
    ASSUME SchemaInvariant, NEW p \in Processes, Count(p)
    PROVE  SchemaInvariant'
<1>1. /\ p \in Booting /\ At(p).op = "count" /\ UNCHANGED db /\ from' = from /\ stops' = stops
      /\ GoOn(p) \/ pc' = [pc EXCEPT ![p] = Up]
  BY DEF Count
<1>2. CASE GoOn(p)
  <2>1. PICK s, v, i, n : s = At(p) /\ v = from[p] /\ i = pc[p] + 1 /\ n = NextFor(v, i)
    OBVIOUS
  <2>2. ~ Makes(s)
    BY <1>1, <2>1 DEF Makes
  <2>3. v \in 0..Latest /\ i \in 1..Up
    BY <1>1, <2>1, AtIs, CountersAre, ScriptIs
  <2>4. n \in 0..Failed
    <3>1. n \in i..Up
      BY <2>1, <2>3, NextForIs
    <3> QED BY <2>3, <3>1, ScriptIs
  <2>5. pc' \in [Processes -> 0..Failed]
    BY <1>2, <2>1, <2>4, CountersAre DEF GoOn
  <2>6. MigrationsTypeOK' /\ Grown /\ (version' > 0 => SchemaHolds(version)')
    BY <1>1, <2>5, CountersAre, SameDatabase
  <2> QED BY <1>1, <1>2, <2>1, <2>2, <2>6, GoesOn
<1>3. CASE pc' = [pc EXCEPT ![p] = Up]
  BY <1>1, <1>3, CountersAre, LeavesEarned
<1> QED BY <1>1, <1>2, <1>3

\* What users do changes no table.
LEMMA UsersEarn ==
    ASSUME SchemaInvariant, NEW p \in Processes, NameOwn(p) \/ ChooseMode(p)
    PROVE  SchemaInvariant'
<1>1. schema' = schema /\ version' = version /\ from' = from /\ pc' = pc /\ stops' = stops
  BY DEF NameOwn, ChooseMode
<1>2. /\ DOMAIN procs' \subseteq Emulators
      /\ \A e \in DOMAIN procs' : procs'[e] \in {"", "default", "own"}
  <2>1. /\ DOMAIN procs \subseteq Emulators
        /\ \A e \in DOMAIN procs : procs[e] \in {"", "default", "own"}
    BY Zenon DEF SchemaInvariant, MigrationsTypeOK
  <2>2. CASE NameOwn(p)
    <3>1. PICK e \in DOMAIN procs : procs' = [procs EXCEPT ![e] = "own"]
      BY <2>2, Zenon DEF NameOwn
    <3> QED BY <2>1, <3>1
  <2>3. CASE ChooseMode(p)
    BY <2>1, <2>3, Zenon DEF ChooseMode
  <2> QED BY <2>2, <2>3
<1>3. /\ DOMAIN modes' \subseteq Emulators
      /\ \A e \in DOMAIN modes' :
             modes'[e] \in [mode : LegacyModes, chosen : LegacyModes, flags : LegacyModes \cup {""}]
  <2> DEFINE Legal == [mode : LegacyModes, chosen : LegacyModes, flags : LegacyModes \cup {""}]
  <2>1. /\ DOMAIN procs \subseteq Emulators /\ DOMAIN modes \subseteq Emulators
        /\ \A e \in DOMAIN modes : modes[e] \in Legal
    BY Zenon DEF SchemaInvariant, MigrationsTypeOK
  <2>2. CASE NameOwn(p)
    BY <2>1, <2>2, Zenon DEF NameOwn
  <2>3. CASE ChooseMode(p)
    <3>1. PICK e \in DOMAIN procs, f \in LegacyModes :
              modes' = [x \in DOMAIN modes \cup {e} |->
                           IF x = e
                           THEN [mode |-> IF e \in DOMAIN modes THEN modes[e].mode ELSE "incremental",
                                 flags |-> f, chosen |-> f]
                           ELSE modes[x]]
      BY <2>3, Zenon DEF ChooseMode
    <3>2. PICK g : g = IF e \in DOMAIN modes THEN modes[e].mode ELSE "incremental"
      OBVIOUS
    <3>3. g \in LegacyModes
      BY <2>1, <3>2 DEF LegacyModes
    <3>4. PICK kept \in Legal : kept = [mode |-> g, flags |-> f, chosen |-> f]
      BY <3>3
    <3>5. modes' = [x \in DOMAIN modes \cup {e} |-> IF x = e THEN kept ELSE modes[x]]
      BY <3>1, <3>2, <3>4, Zenon
    <3> HIDE DEF Legal
    <3>6. DOMAIN modes' = DOMAIN modes \cup {e}
      BY <3>5, Zenon
    <3>7. \A x \in DOMAIN modes' : modes'[x] = kept \/ (x \in DOMAIN modes /\ modes'[x] = modes[x])
      BY <3>5
    <3>8. kept \in Legal
      BY <3>4
    <3> QED BY <2>1, <3>6, <3>7, <3>8, Zenon DEF Legal
  <2> HIDE DEF Legal
  <2> QED BY <2>2, <2>3
<1>4. MigrationsTypeOK'
  BY <1>1, <1>2, <1>3, Zenon DEF SchemaInvariant, MigrationsTypeOK
<1>5. \A s : Made(s)' <=> Made(s)
  BY <1>1, Zenon DEF Made
<1>6. \A p_1 \in Booting' : p_1 \in Booting /\ At(p_1)' = At(p_1)
  BY <1>1, Zenon DEF Booting, At
<1> QED BY <1>1, <1>4, <1>5, <1>6 DEF SchemaInvariant, SchemaHolds, Earned

\* The schema half, for every script in order.
LEMMA SchemaKept ==
    ASSUME SchemaInvariant, ScriptInOrder, [MigrationsNext]_databaseVars
    PROVE  SchemaInvariant'
<1>1. CASE UNCHANGED databaseVars
  <2>1. UNCHANGED db /\ from' = from /\ pc' = pc /\ stops' = stops /\ schema' = schema /\ version' = version
    BY <1>1 DEF databaseVars, db
  <2>2. MigrationsTypeOK' /\ (version' > 0 => SchemaHolds(version)') /\ \A s : Made(s)' <=> Made(s)
    BY <2>1, CountersAre, SameDatabase
  <2>3. \A p \in Booting' : p \in Booting /\ At(p)' = At(p)
    BY <2>1, Zenon DEF Booting, At
  <2> QED BY <2>1, <2>2, <2>3 DEF SchemaInvariant, SchemaHolds, Earned
<1>2. ASSUME NEW p \in Processes, Boot(p) \/ ReadVersion(p) \/ Execute(p) \/ Count(p)
      PROVE  SchemaInvariant'
  BY <1>2, BootEarns, ReadVersionEarns, ExecuteEarns, CountEarns DEF Execute
<1>3. ASSUME NEW p \in Processes, Fail(p) \/ Kill(p) \/ Exit(p)
      PROVE  SchemaInvariant'
  <2>1. /\ pc' = [pc EXCEPT ![p] = Failed] \/ pc' = [pc EXCEPT ![p] = Stopped]
        /\ from' = from /\ UNCHANGED db
    BY <1>3, Zenon DEF Fail, Kill, Exit
  <2>2. stops' \in 0..MaxStops
    BY <1>3, CountersAre, ScriptIs DEF Fail, Kill, Exit
  <2> QED BY <2>1, <2>2, LeavesEarned
<1>4. ASSUME NEW p \in Processes, NameOwn(p) \/ ChooseMode(p)
      PROVE  SchemaInvariant'
  BY <1>4, UsersEarn
<1> QED BY <1>1, <1>2, <1>3, <1>4 DEF MigrationsNext

-----------------------------------------------------------------------------
(***************************************************************************)
(* The other half: what users chose.  A row's old word becomes its flags   *)
(* between the column's being added (statement a) and the stamp of v5      *)
(* (statement s), by the one program that added the column: nobody else    *)
(* gets past a.                                                            *)
(***************************************************************************)
ChoicesInOrder(a, m, s) ==
    /\ {a, m, s} \subseteq DOMAIN Script /\ a < m /\ m < s
    /\ Script[a] = AddColumn(5, "history_settings", "incremental_enabled")
    /\ Script[m] = Statement(5, "modes", "", "")
    /\ Script[s] = SetVersion(5, 5)
    /\ \A i \in DOMAIN Script :
           /\ Script[i].column = "incremental_enabled" => i = a
           /\ Script[i].op = "modes" => i = m
           /\ Script[i].op = "version" /\ Script[i].on >= 5 => i >= s
           /\ Script[i].op = "read" => i < a
           /\ Script[i].op = "count" => i > s

Added   == HasColumn("history_settings", "incremental_enabled")
AsOld   == \A e \in DOMAIN modes : modes[e].chosen = modes[e].mode
Settled == \A e \in DOMAIN modes : modes[e].flags = modes[e].chosen

Past(p, a) == pc[p] \in a+1..Up

\* Only p translates, and it has when it is past statement m.
Translates(p, a, m) ==
    /\ version < 5 /\ AsOld /\ (pc[p] > m => Settled)
    /\ \A q \in Processes : from[q] < 5 /\ (q # p => ~ Past(q, a))

ChoicesInvariant(a, m, s) ==
    /\ ~ Added => version < 5 /\ AsOld /\ \A p \in Processes : ~ Past(p, a)
    /\ \A p \in Processes : Past(p, a) /\ pc[p] <= s /\ from[p] < 5 => Translates(p, a, m)
    /\ \A p \in Processes : from[p] >= 5 \/ pc[p] \in s+1..Up => Settled
    /\ version >= 5 => Settled

\* What the order says of the numbers.
LEMMA OrderIs ==
    ASSUME ScriptInOrder, NEW a, NEW m, NEW s, ChoicesInOrder(a, m, s)
    PROVE  /\ a \in 1..Len(Script) /\ m \in 1..Len(Script) /\ s \in 1..Len(Script)
           /\ a < m /\ m < s /\ s < Up /\ Latest >= 5
           /\ Script[a].op = "add" /\ Script[a].on = "history_settings"
           /\ Script[a].column = "incremental_enabled"
           /\ Script[m].op = "modes" /\ Script[s].op = "version" /\ Script[s].on = 5
           /\ Script[a].below = 5 /\ Script[m].below = 5 /\ Script[s].below = 5
<1>1. /\ Script[a].op = "add" /\ Script[a].on = "history_settings"
      /\ Script[a].column = "incremental_enabled"
      /\ Script[m].op = "modes" /\ Script[s].op = "version" /\ Script[s].on = 5
      /\ Script[a].below = 5 /\ Script[m].below = 5 /\ Script[s].below = 5
  <2>1. /\ Script[a] = AddColumn(5, "history_settings", "incremental_enabled")
        /\ Script[m] = Statement(5, "modes", "", "")
        /\ Script[s] = SetVersion(5, 5)
    BY Zenon DEF ChoicesInOrder
  <2>2. LET x == AddColumn(5, "history_settings", "incremental_enabled")
        IN  x.op = "add" /\ x.on = "history_settings" /\ x.column = "incremental_enabled" /\ x.below = 5
    BY DEF AddColumn, Statement
  <2>3. Statement(5, "modes", "", "").op = "modes" /\ Statement(5, "modes", "", "").below = 5
    BY DEF Statement
  <2>4. SetVersion(5, 5).op = "version" /\ SetVersion(5, 5).on = 5 /\ SetVersion(5, 5).below = 5
    BY DEF SetVersion, Statement
  <2> QED BY <2>1, <2>2, <2>3, <2>4, Zenon
<1>2. /\ a \in DOMAIN Script /\ m \in DOMAIN Script /\ s \in DOMAIN Script /\ a < m /\ m < s
  BY Zenon DEF ChoicesInOrder
<1>3. Script[s].on \in 0..Latest
  BY <1>1, <1>2, Zenon DEF ScriptInOrder
<1> QED BY <1>1, <1>2, <1>3, ScriptIs

\* A version from the fifth on has the column.
LEMMA FifthHasIt ==
    ASSUME ScriptInOrder, NEW a, NEW m, NEW s, ChoicesInOrder(a, m, s),
           NEW v \in 0..Latest, v >= 5, SchemaHolds(v)
    PROVE  Added
<1>1. Script[a] \in Sts /\ Script[a].op = "add" /\ RunBy(v, Script[a])
  BY OrderIs, ScriptIs DEF RunBy
<1>2. Made(Script[a])
  BY <1>1 DEF SchemaHolds, Makes
<1> QED BY <1>2, OrderIs DEF Made, Added, HasColumn

\* The column is only added by statement a, and a table is never emptied.
LEMMA ColumnStays ==
    ASSUME SchemaInvariant, ScriptInOrder, NEW a, NEW m, NEW s, ChoicesInOrder(a, m, s),
           NEW p \in Booting, Execute(p)
    PROVE  /\ Added => Added'
           /\ pc[p] # a => (Added <=> Added') /\ (pc[p] # m => modes' = modes)
           /\ pc[p] = a => ~ Added /\ Added' /\ version' = version
                            /\ modes' = [e \in DOMAIN modes |-> [modes[e] EXCEPT !.flags = "incremental"]]
           /\ pc[p] = m => /\ version' = version
                           /\ modes' = [e \in DOMAIN modes |-> [modes[e] EXCEPT !.flags = modes[e].mode]]
           /\ version' # version => At(p).op = "version" /\ version' = At(p).on
<1>0. PICK st, here : st = At(p) /\ here = pc[p]
  OBVIOUS
<1>1. /\ CreateTable(st) \/ Alter(st) \/ Stamp(st) \/ NameProcess(st) \/ TranslateModes(st) \/ Insert(st)
      /\ ~ Fails(st)
  BY <1>0 DEF Execute
<1>2. here \in DOMAIN Script /\ st = Script[here]
  BY <1>0, AtIs
<1>3. st.column = "incremental_enabled" => here = a
  BY <1>2, Zenon DEF ChoicesInOrder
<1>4. st.op = "modes" => here = m
  BY <1>2, Zenon DEF ChoicesInOrder
<1>5. /\ a # m /\ (here = a => st.op = "add" /\ st.on = "history_settings" /\ st.column = "incremental_enabled")
      /\ (here = m => st.op = "modes")
  BY <1>2, OrderIs
<1>6. CASE CreateTable(st)
  <2>1. /\ st.op = "create" /\ version' = version /\ modes' = modes
        /\ schema' = [t \in DOMAIN schema \cup {st.on} |->
                         IF t \in DOMAIN schema THEN schema[t] ELSE {}]
    BY <1>6, Zenon DEF CreateTable
  <2>2. Added <=> Added'
    BY <2>1 DEF Added, HasColumn
  <2>3. here # a /\ here # m
    BY <1>5, <2>1
  <2> QED BY <1>0, <2>1, <2>2, <2>3
<1>7. CASE Alter(st)
  <2>1. /\ st.op = "add" /\ version' = version
        /\ schema' = [schema EXCEPT ![st.on] = schema[st.on] \cup {st.column}]
        /\ modes' = IF st.column = "incremental_enabled"
                    THEN [e \in DOMAIN modes |-> [modes[e] EXCEPT !.flags = "incremental"]]
                    ELSE modes
    BY <1>7, Zenon DEF Alter
  <2>2. here # m /\ st.on \in DOMAIN schema
    BY <1>0, <1>5, <2>1, TableIsThere
  <2>3. CASE here = a
    <3>1. ~ HasColumn(st.on, st.column)
      BY <1>1, <2>1, Zenon DEF Fails
    <3>2. ~ Added
      BY <1>5, <2>3, <3>1 DEF Added
    <3>3. Added'
      BY <1>5, <2>1, <2>2, <2>3 DEF Added, HasColumn
    <3>4. modes' = [e \in DOMAIN modes |-> [modes[e] EXCEPT !.flags = "incremental"]]
      BY <1>5, <2>1, <2>3, Zenon
    <3> QED BY <1>0, <1>5, <2>1, <2>3, <3>2, <3>3, <3>4, Zenon
  <2>4. CASE here # a
    <3>1. st.column # "incremental_enabled"
      BY <1>3, <2>4
    <3>2. modes' = modes
      BY <2>1, <3>1, Zenon
    <3>3. Added <=> Added'
      BY <2>1, <2>2, <3>1 DEF Added, HasColumn
    <3> QED BY <1>0, <2>1, <2>2, <2>4, <3>2, <3>3, Zenon
  <2> QED BY <2>3, <2>4, Zenon
<1>8. CASE Stamp(st) \/ NameProcess(st) \/ Insert(st)
  <2>1. schema' = schema /\ modes' = modes /\ st.op # "add" /\ st.op # "modes"
    BY <1>8 DEF Stamp, NameProcess, Insert
  <2>2. version' # version => st.op = "version" /\ version' = st.on
    BY <1>8, Zenon DEF Stamp, NameProcess, Insert
  <2>3. (Added <=> Added') /\ here # a /\ here # m
    BY <1>5, <2>1 DEF Added, HasColumn
  <2> QED BY <1>0, <2>1, <2>2, <2>3, Zenon
<1>9. CASE TranslateModes(st)
  <2>1. /\ schema' = schema /\ version' = version /\ st.op = "modes"
        /\ modes' = [e \in DOMAIN modes |-> [modes[e] EXCEPT !.flags = modes[e].mode]]
    BY <1>9, Zenon DEF TranslateModes
  <2>2. (Added <=> Added') /\ here = m /\ here # a
    BY <1>4, <1>5, <2>1 DEF Added, HasColumn
  <2> QED BY <1>0, <2>1, <2>2, Zenon
<1> QED BY <1>1, <1>6, <1>7, <1>8, <1>9, Zenon

\* What the two changes to the old rows do.
LEMMA RowsDefaulted ==
    ASSUME SchemaInvariant, AsOld,
           modes' = [e \in DOMAIN modes |-> [modes[e] EXCEPT !.flags = "incremental"]]
    PROVE  AsOld'
<1>1. \A e \in DOMAIN modes :
          modes[e] \in [mode : LegacyModes, chosen : LegacyModes, flags : LegacyModes \cup {""}]
  BY Zenon DEF SchemaInvariant, MigrationsTypeOK
<1>2. "incremental" \in LegacyModes
  BY DEF LegacyModes
<1>3. \A e \in DOMAIN modes : /\ modes'[e].mode = modes[e].mode
                              /\ modes'[e].chosen = modes[e].chosen
  BY <1>1, <1>2, FlagsAre, Zenon
<1>4. DOMAIN modes' = DOMAIN modes
  BY Zenon
<1> QED BY <1>3, <1>4, Zenon DEF AsOld

\* Rows whose old word is the user's choice get it as their flags.
LEMMA RowsTranslated ==
    ASSUME SchemaInvariant, AsOld,
           modes' = [e \in DOMAIN modes |-> [modes[e] EXCEPT !.flags = modes[e].mode]]
    PROVE  AsOld' /\ Settled'
<1>1. \A e \in DOMAIN modes :
          modes[e] \in [mode : LegacyModes, chosen : LegacyModes, flags : LegacyModes \cup {""}]
  BY Zenon DEF SchemaInvariant, MigrationsTypeOK
<1>2. ASSUME NEW e \in DOMAIN modes
      PROVE  /\ modes'[e].mode = modes[e].mode /\ modes'[e].chosen = modes[e].chosen
             /\ modes'[e].flags = modes[e].mode
  <2>1. PICK kept, g : kept = modes[e] /\ g = kept.mode
    OBVIOUS
  <2>2. kept \in [mode : LegacyModes, chosen : LegacyModes, flags : LegacyModes \cup {""}]
    BY <1>1, <2>1, Zenon
  <2>3. g \in LegacyModes
    BY <2>1, <2>2
  <2>4. modes'[e] = [kept EXCEPT !.flags = g]
    BY <2>1, Zenon
  <2> QED BY <2>1, <2>2, <2>3, <2>4, FlagsAre, Zenon
<1>3. \A e \in DOMAIN modes' : e \in DOMAIN modes
  BY Zenon
<1>4. AsOld'
  BY <1>2, <1>3, Zenon DEF AsOld
<1>5. ASSUME NEW e \in DOMAIN modes'
      PROVE  modes'[e].flags = modes'[e].chosen
  <2>1. e \in DOMAIN modes
    BY <1>3
  <2>2. modes[e].chosen = modes[e].mode
    BY <2>1 DEF AsOld
  <2> QED BY <1>2, <2>1, <2>2, Zenon
<1> QED BY <1>4, <1>5, Zenon DEF Settled

\* What a program finds.
LEMMA ChoicesBegin ==
    ASSUME MigrationsInit, SchemaInvariant, ScriptInOrder, NEW a, NEW m, NEW s, ChoicesInOrder(a, m, s)
    PROVE  ChoicesInvariant(a, m, s)
<1>1. /\ from = [p \in Processes |-> 0] /\ pc = [p \in Processes |-> Stopped]
  BY Zenon DEF MigrationsInit
<1>0. PICK rows \in SUBSET Emulators :
          \E f \in [rows -> LegacyModes] :
              modes = [e \in rows |-> [mode |-> f[e], chosen |-> f[e],
                                       flags |-> IF version = 4 THEN "" ELSE f[e]]]
  BY Zenon DEF MigrationsInit
<1>2. PICK f \in [rows -> LegacyModes] :
          modes = [e \in rows |-> [mode |-> f[e], chosen |-> f[e],
                                   flags |-> IF version = 4 THEN "" ELSE f[e]]]
  BY <1>0
<1>3. AsOld
  BY <1>2 DEF AsOld
<1>4. version # 4 => Settled
  BY <1>2 DEF Settled
<1>5. \A p \in Processes : from[p] = 0 /\ pc[p] = 0
  BY <1>1 DEF Stopped
<1>6. version \in 0..Latest /\ a >= 1 /\ s >= 1 /\ a \in Nat /\ s \in Nat
  BY CountersAre, OrderIs
<1>7. \A p \in Processes : ~ Past(p, a) /\ pc[p] \notin s+1..Up
  BY <1>5, <1>6 DEF Past
<1>8. version >= 5 => Added
  BY <1>6, FifthHasIt DEF SchemaInvariant
<1> QED BY <1>3, <1>4, <1>5, <1>6, <1>7, <1>8 DEF ChoicesInvariant

\* A program that is not past the column, or no longer booting.
LEMMA ChoicesUntouched ==
    ASSUME SchemaInvariant, ScriptInOrder, NEW a, NEW m, NEW s, ChoicesInOrder(a, m, s),
           ChoicesInvariant(a, m, s),
           NEW p \in Processes, NEW v \in 0..Latest, NEW n \in Nat,
           from' = [from EXCEPT ![p] = v], pc' = [pc EXCEPT ![p] = n],
           v < 5 \/ v = from[p], n \notin a+1..Up,
           UNCHANGED <<version, schema, modes>>
    PROVE  ChoicesInvariant(a, m, s)'
<1>1. /\ version' = version /\ version \in 0..Latest
      /\ (Added <=> Added') /\ (AsOld <=> AsOld') /\ (Settled <=> Settled')
  BY CountersAre DEF Added, HasColumn, AsOld, Settled
<1>2. \A q \in Processes : /\ from[q] \in 0..Latest /\ pc[q] \in 0..Failed
                           /\ q # p => from'[q] = from[q] /\ pc'[q] = pc[q]
  BY CountersAre
<1>3. from'[p] = v /\ pc'[p] = n
  BY CountersAre
<1>4. a \in Nat /\ m \in Nat /\ s \in Nat /\ a < m /\ m < s /\ s < Up /\ Up \in Nat
  BY OrderIs, ScriptIs
<1>5. \A q \in Processes : Past(q, a)' => q # p /\ Past(q, a)
  BY <1>2, <1>3 DEF Past
<1>6. ASSUME NEW q \in Processes, Past(q, a)', pc'[q] <= s, from'[q] < 5
      PROVE  Translates(q, a, m)'
  <2>1. q # p /\ Translates(q, a, m)
    BY <1>2, <1>5, <1>6 DEF ChoicesInvariant
  <2>2. \A r \in Processes : from'[r] < 5
    BY <1>2, <1>3, <2>1 DEF Translates
  <2> QED BY <1>1, <1>2, <1>5, <2>1, <2>2 DEF Translates
<1>7. ASSUME NEW q \in Processes, from'[q] >= 5 \/ pc'[q] \in s+1..Up
      PROVE  Settled
  <2>1. from[q] >= 5 \/ pc[q] \in s+1..Up
    BY <1>2, <1>3, <1>4, <1>7
  <2> QED BY <2>1 DEF ChoicesInvariant
<1> QED BY <1>1, <1>5, <1>6, <1>7 DEF ChoicesInvariant

\* A program that finds v5.
LEMMA ChoicesFound ==
    ASSUME SchemaInvariant, ScriptInOrder, NEW a, NEW m, NEW s, ChoicesInOrder(a, m, s),
           ChoicesInvariant(a, m, s),
           NEW p \in Processes, NEW n \in Nat, version >= 5,
           from' = [from EXCEPT ![p] = version], pc' = [pc EXCEPT ![p] = n],
           UNCHANGED <<version, schema, modes>>
    PROVE  ChoicesInvariant(a, m, s)'
<1>1. /\ version' = version /\ version \in 0..Latest /\ Settled'
      /\ (Added <=> Added')
  BY CountersAre DEF Added, HasColumn, ChoicesInvariant, Settled
<1>2. Added
  BY <1>1, FifthHasIt DEF SchemaInvariant
<1>3. \A q \in Processes : /\ from[q] \in 0..Latest
                           /\ q # p => from'[q] = from[q] /\ pc'[q] = pc[q]
  BY CountersAre
<1>4. from'[p] = version
  BY CountersAre
<1>5. \A q \in Processes : ~ (Past(q, a)' /\ pc'[q] <= s /\ from'[q] < 5)
  BY <1>1, <1>3, <1>4 DEF ChoicesInvariant, Translates, Past
<1> QED BY <1>1, <1>2, <1>5 DEF ChoicesInvariant

\* A program goes on from a statement of no row's concern.
LEMMA ChoicesPassed ==
    ASSUME SchemaInvariant, ScriptInOrder, NEW a, NEW m, NEW s, ChoicesInOrder(a, m, s),
           ChoicesInvariant(a, m, s),
           NEW p \in Booting, NEW n, n = NextFor(from[p], pc[p] + 1),
           from' = from, pc' = [pc EXCEPT ![p] = n],
           pc[p] \notin {a, m, s}, modes' = modes, Added <=> Added',
           version' \in 0..Latest, version' = version \/ version' < 5 \/ pc[p] > s
    PROVE  ChoicesInvariant(a, m, s)'
<1>0. PICK v, here : v = from[p] /\ here = pc[p]
  OBVIOUS
<1>1. (AsOld <=> AsOld') /\ (Settled <=> Settled')
  BY DEF AsOld, Settled
<1>2. /\ p \in Processes /\ v \in 0..Latest /\ here \in 1..Len(Script) /\ pc'[p] = n
      /\ version \in 0..Latest /\ version' \in 0..Latest
      /\ \A q \in Processes : q # p => pc'[q] = pc[q]
  BY <1>0, AtIs, CountersAre
<1>3. /\ n \in here+1..Up
      /\ \A j \in here+1..n-1 : ~ (v < Script[j].below)
  <2>1. here + 1 \in 1..Up
    BY <1>2, ScriptIs
  <2>2. n = NextFor(v, here + 1)
    BY <1>0
  <2>3. v \in 0..Latest
    BY <1>2
  <2> QED BY <2>1, <2>2, <2>3, NextForIs
<1>4. /\ a \in Nat /\ m \in Nat /\ s \in Nat /\ a < m /\ m < s /\ s < Up /\ Up \in Nat /\ a >= 1
      /\ here # a /\ here # m /\ here # s
      /\ version' = version \/ version' < 5 \/ here > s
  BY <1>0, OrderIs, ScriptIs
<1>5. v < 5 => (here < a => n <= a) /\ (here < m => n <= m) /\ (here < s => n <= s)
  <2>1. ASSUME NEW k \in Nat, Script[k].below = 5, v < 5, here < k
        PROVE  n <= k
    <3>1. CASE k \in here+1..n-1
      BY <1>3, <2>1, <3>1
    <3> QED BY <1>2, <1>3, <2>1, <3>1, ScriptIs
  <2> QED BY <1>4, <2>1, OrderIs
<1>6. ~ Added => v < 5
  BY <1>0, <1>2, FifthHasIt DEF SchemaInvariant
<1>7. (Past(p, a) <=> here > a) /\ (Past(p, a)' <=> n > a)
  BY <1>0, <1>2, <1>3, <1>4, ScriptIs DEF Past
<1>8. \A q \in Processes : q # p => (Past(q, a)' <=> Past(q, a))
  BY <1>2 DEF Past
<1>9. ASSUME ~ Added
      PROVE  version' < 5 /\ AsOld /\ \A q \in Processes : ~ Past(q, a)'
  <2>1. version < 5 /\ AsOld /\ (\A q \in Processes : ~ Past(q, a))
    BY <1>9 DEF ChoicesInvariant
  <2>2. here < a /\ n <= a
    BY <1>2, <1>4, <1>5, <1>6, <1>7, <1>9, <2>1
  <2> QED BY <1>2, <1>3, <1>4, <1>7, <1>8, <2>1, <2>2
<1>10. ASSUME NEW q \in Processes, Past(q, a)', pc'[q] <= s, from[q] < 5
       PROVE  Translates(q, a, m)'
  <2>1. CASE q = p
    <3>1. here > a /\ n <= s /\ v < 5
      BY <1>0, <1>2, <1>3, <1>4, <1>5, <1>7, <1>10, <2>1
    <3>2. Translates(p, a, m)
      BY <1>0, <1>2, <1>3, <1>4, <1>7, <3>1 DEF ChoicesInvariant
    <3>3. n > m => Settled
      BY <1>0, <1>2, <1>3, <1>4, <1>5, <3>1, <3>2 DEF Translates
    <3>4. version' < 5
      BY <1>2, <1>3, <1>4, <3>1, <3>2 DEF Translates
    <3> QED BY <1>1, <1>2, <1>8, <2>1, <3>2, <3>3, <3>4 DEF Translates
  <2>2. CASE q # p
    <3>1. Translates(q, a, m)
      BY <1>2, <1>8, <1>10, <2>2 DEF ChoicesInvariant
    <3>2. here < a /\ n <= a
      BY <1>0, <1>2, <1>4, <1>5, <1>7, <2>2, <3>1 DEF Translates
    <3>3. ~ Past(p, a)' /\ version' < 5
      BY <1>2, <1>3, <1>4, <1>7, <3>1, <3>2 DEF Translates
    <3> QED BY <1>1, <1>2, <1>8, <2>2, <3>1, <3>3 DEF Translates
  <2> QED BY <2>1, <2>2
<1>11. ASSUME NEW q \in Processes, from[q] >= 5 \/ pc'[q] \in s+1..Up
       PROVE  Settled
  <2>1. CASE from[q] >= 5 \/ pc[q] \in s+1..Up
    BY <2>1 DEF ChoicesInvariant
  <2>2. CASE q = p /\ n \in s+1..Up /\ v < 5
    <3>1. here \in s+1..Up
      BY <1>2, <1>3, <1>4, <1>5, <2>2
    <3> QED BY <1>0, <1>2, <3>1 DEF ChoicesInvariant
  <2> QED BY <1>0, <1>2, <1>11, <2>1, <2>2
<1>12. version' >= 5 => Settled
  <2>1. CASE here > s
    <3>1. here \in s+1..Up
      BY <1>2, <1>4, <2>1, ScriptIs
    <3> QED BY <1>0, <1>2, <3>1 DEF ChoicesInvariant
  <2>2. CASE version' = version
    BY <2>2 DEF ChoicesInvariant
  <2> QED BY <1>2, <1>4, <2>1, <2>2
<1> QED BY <1>1, <1>9, <1>10, <1>11, <1>12 DEF ChoicesInvariant

\* The three statements the rows' flags are about.
LEMMA ChoicesStated ==
    ASSUME SchemaInvariant, SchemaInvariant', ScriptInOrder,
           NEW a, NEW m, NEW s, ChoicesInOrder(a, m, s), ChoicesInvariant(a, m, s),
           NEW p \in Booting, Execute(p), pc[p] \in {a, m, s}
    PROVE  ChoicesInvariant(a, m, s)'
<1>0. PICK v, here, n : v = from[p] /\ here = pc[p] /\ n = NextFor(v, here + 1)
  OBVIOUS
<1>1. /\ from' = from /\ pc' = [pc EXCEPT ![p] = n]
      /\ p \in Processes /\ v \in 0..Latest /\ here \in 1..Len(Script)
      /\ At(p) = Script[here] /\ Earned(p) /\ v < Script[here].below
  BY <1>0, AtIs, CountersAre DEF Execute, GoOn, SchemaInvariant, Earned
<1>2. /\ pc'[p] = n /\ version \in 0..Latest /\ version' \in 0..Latest
      /\ \A q \in Processes : from[q] \in 0..Latest /\ (q # p => pc'[q] = pc[q])
      /\ \A q \in Processes : from[q] >= 5 => Added
  <2>1. \A q \in Processes : from[q] > 0 => SchemaHolds(from[q])
    BY DEF SchemaInvariant
  <2>2. \A q \in Processes : from[q] \in 0..Latest /\ pc'[p] = n /\ (q # p => pc'[q] = pc[q])
    BY <1>1, CountersAre
  <2>3. version \in 0..Latest /\ version' \in 0..Latest
    BY Zenon DEF SchemaInvariant, MigrationsTypeOK
  <2>4. \A q \in Processes : from[q] >= 5 => Added
    BY <2>1, <2>2, FifthHasIt
  <2> QED BY <1>1, <2>2, <2>3, <2>4
<1>3. /\ n \in here+1..Up
      /\ \A j \in here+1..n-1 : ~ (v < Script[j].below)
  <2>1. here + 1 \in 1..Up /\ v \in 0..Latest
    BY <1>1, ScriptIs
  <2> QED BY <1>0, <2>1, NextForIs
<1>4. /\ a \in Nat /\ m \in Nat /\ s \in Nat /\ a < m /\ m < s /\ s < Up /\ Up \in Nat /\ a >= 1
      /\ here \in {a, m, s}
  BY <1>0, OrderIs, ScriptIs
<1>5. v < 5 /\ (here < m => n <= m) /\ (here < s => n <= s)
  <2>1. v < 5
    BY <1>1, <1>4, OrderIs
  <2>2. ASSUME NEW k \in Nat, Script[k].below = 5, here < k
        PROVE  n <= k
    <3>1. CASE k \in here+1..n-1
      BY <1>3, <2>1, <2>2, <3>1
    <3> QED BY <1>1, <1>3, <2>2, <3>1, ScriptIs
  <2> QED BY <1>4, <2>1, <2>2, OrderIs
<1>6. (Past(p, a) <=> here > a) /\ Past(p, a)' /\ \A q \in Processes : q # p => (Past(q, a)' <=> Past(q, a))
  <2>1. Past(p, a) <=> here > a
    BY <1>0, <1>1, <1>4, ScriptIs DEF Past
  <2>2. Past(p, a)'
    BY <1>1, <1>2, <1>3, <1>4 DEF Past
  <2>3. \A q \in Processes : q # p => (Past(q, a)' <=> Past(q, a))
    BY <1>2 DEF Past
  <2> QED BY <2>1, <2>2, <2>3
<1>7. CASE here = a
  <2>1. /\ ~ Added /\ Added' /\ version' = version
        /\ modes' = [e \in DOMAIN modes |-> [modes[e] EXCEPT !.flags = "incremental"]]
    BY <1>0, <1>7, ColumnStays
  <2>2. version < 5 /\ AsOld /\ (\A q \in Processes : ~ Past(q, a) /\ from[q] < 5)
    BY <1>2, <2>1 DEF ChoicesInvariant
  <2>3. AsOld'
    BY <2>1, <2>2, RowsDefaulted
  <2>4. n <= m
    BY <1>4, <1>5, <1>7
  <2>5. \A q \in Processes : Past(q, a)' => q = p
    BY <1>6, <2>2
  <2>6. \A q \in Processes : pc'[q] \notin s+1..Up
    BY <1>2, <1>3, <1>4, <2>2, <2>4, <2>5 DEF Past
  <2> QED BY <1>1, <1>2, <1>3, <1>4, <2>1, <2>2, <2>3, <2>4, <2>5, <2>6
          DEF ChoicesInvariant, Translates
<1>8. CASE here # a
  <2>1. Translates(p, a, m)
    BY <1>0, <1>1, <1>4, <1>5, <1>6, <1>8 DEF ChoicesInvariant
  <2>2. Added
    BY <1>1, <1>4, <1>6, <1>8 DEF ChoicesInvariant
  <2>3. Added'
    BY <2>2, ColumnStays
  <2>4. \A q \in Processes : Past(q, a)' => q = p
    BY <1>6, <2>1 DEF Translates
  <2>5. CASE here = m
    <3>1. /\ version' = version
          /\ modes' = [e \in DOMAIN modes |-> [modes[e] EXCEPT !.flags = modes[e].mode]]
      <4>1. pc[p] = m
        BY <1>0, <2>5
      <4> QED BY <4>1, ColumnStays, Zenon
    <3>2. AsOld' /\ Settled'
      BY <2>1, <3>1, RowsTranslated DEF Translates
    <3> QED BY <1>1, <1>2, <2>1, <2>3, <2>4, <3>1, <3>2 DEF ChoicesInvariant, Translates
  <2>6. CASE here = s
    <3>1. Settled /\ modes' = modes
      <4>1. pc[p] # a /\ pc[p] # m
        BY <1>0, <1>4, <2>6
      <4>2. modes' = modes
        BY <4>1, ColumnStays, Zenon
      <4>3. Settled
        BY <1>0, <1>4, <2>1, <2>6 DEF Translates
      <4> QED BY <4>2, <4>3
    <3>2. Settled'
      BY <3>1 DEF Settled
    <3> QED BY <1>2, <1>3, <1>4, <2>3, <2>4, <2>6, <3>2 DEF ChoicesInvariant
  <2> QED BY <1>4, <1>8, <2>5, <2>6
<1> QED BY <1>7, <1>8

\* One step and the rows.
LEMMA ChoicesStep ==
    ASSUME SchemaInvariant, SchemaInvariant', ScriptInOrder,
           NEW a, NEW m, NEW s, ChoicesInOrder(a, m, s), ChoicesInvariant(a, m, s),
           [MigrationsNext]_databaseVars
    PROVE  ChoicesInvariant(a, m, s)'
<1>0. /\ a \in Nat /\ m \in Nat /\ s \in Nat /\ a < m /\ m < s /\ s < Up /\ Up \in Nat /\ a >= 1
      /\ version' \in 0..Latest /\ Latest \in Nat
  <2>1. version' \in 0..Latest
    BY Zenon DEF SchemaInvariant, MigrationsTypeOK
  <2> QED BY <2>1, OrderIs, ScriptIs
<1>1. ASSUME schema' = schema, version' = version, modes' = modes, from' = from, pc' = pc
      PROVE  ChoicesInvariant(a, m, s)'
  BY <1>1 DEF ChoicesInvariant, Translates, Past, Added, AsOld, Settled, HasColumn
<1>2. CASE UNCHANGED databaseVars
  BY <1>1, <1>2 DEF databaseVars, db
<1>3. ASSUME NEW p \in Processes, Boot(p)
      PROVE  ChoicesInvariant(a, m, s)'
  <2>1. /\ from' = [from EXCEPT ![p] = 0] /\ pc' = [pc EXCEPT ![p] = 1]
        /\ UNCHANGED <<version, schema, modes>>
    BY <1>3 DEF Boot, db
  <2>2. 0 \in 0..Latest /\ 1 \notin a+1..Up /\ 0 < 5
    BY <1>0
  <2> QED BY <2>1, <2>2, ChoicesUntouched
<1>4. ASSUME NEW p \in Processes, ReadVersion(p)
      PROVE  ChoicesInvariant(a, m, s)'
  <2>1. PICK here, n : here = pc[p] /\ n = NextFor(version, here + 1)
    OBVIOUS
  <2>2. /\ from' = [from EXCEPT ![p] = version] /\ pc' = [pc EXCEPT ![p] = n]
        /\ UNCHANGED <<version, schema, modes>> /\ p \in Booting /\ At(p).op = "read"
    BY <1>4, <2>1 DEF ReadVersion, db
  <2>3. here \in 1..Len(Script) /\ here \in DOMAIN Script /\ Script[here].op = "read" /\ version \in 0..Latest
    BY <2>1, <2>2, AtIs, CountersAre
  <2>4. here < a
    BY <2>3, Zenon DEF ChoicesInOrder
  <2>5. /\ n \in here+1..Up
        /\ \A j \in here+1..n-1 : ~ (version < Script[j].below)
    <3>1. here + 1 \in 1..Up
      BY <2>3, ScriptIs
    <3> QED BY <2>1, <2>3, <3>1, NextForIs
  <2>6. CASE version < 5
    <3>1. n <= a
      <4>1. CASE a \in here+1..n-1
        BY <2>5, <2>6, <4>1, OrderIs
      <4> QED BY <1>0, <2>3, <2>4, <2>5, <4>1
    <3>2. n \in Nat /\ n \notin a+1..Up
      BY <1>0, <2>3, <2>5, <3>1
    <3> QED BY <2>2, <2>3, <2>6, <3>2, ChoicesUntouched
  <2>7. CASE version >= 5
    <3>1. n \in Nat
      BY <2>3, <2>5
    <3> QED BY <2>2, <2>7, <3>1, ChoicesFound
  <2> QED BY <2>3, <2>6, <2>7, ScriptIs
<1>5. ASSUME NEW p \in Processes, Execute(p)
      PROVE  ChoicesInvariant(a, m, s)'
  <2>1. CASE pc[p] \in {a, m, s}
    BY <1>5, <2>1, ChoicesStated DEF Execute
  <2>2. CASE pc[p] \notin {a, m, s}
    <3>1. PICK here, n : here = pc[p] /\ n = NextFor(from[p], pc[p] + 1)
      OBVIOUS
    <3>2. p \in Booting /\ from' = from /\ pc' = [pc EXCEPT ![p] = n]
      BY <1>5, <3>1 DEF Execute, GoOn
    <3>3. /\ (Added <=> Added') /\ modes' = modes
          /\ version' # version => At(p).op = "version" /\ version' = At(p).on
      BY <1>5, <2>2, <3>2, ColumnStays
    <3>4. version' = version \/ version' < 5 \/ pc[p] > s
      <4>1. ASSUME version' # version, version' >= 5
            PROVE  here > s
        <5>1. /\ here \in DOMAIN Script /\ Script[here].op = "version" /\ Script[here].on >= 5
              /\ here \in Nat
          BY <3>1, <3>2, <3>3, <4>1, AtIs
        <5>2. here >= s
          BY <5>1, Zenon DEF ChoicesInOrder
        <5> QED BY <1>0, <2>2, <3>1, <5>1, <5>2
      <4> QED BY <1>0, <3>1, <4>1
    <3> QED BY <1>0, <2>2, <3>1, <3>2, <3>3, <3>4, ChoicesPassed
  <2> QED BY <2>1, <2>2
<1>6. ASSUME NEW p \in Processes, NEW n \in Nat, n \notin a+1..Up,
             pc' = [pc EXCEPT ![p] = n], from' = from, UNCHANGED <<version, schema, modes>>
      PROVE  ChoicesInvariant(a, m, s)'
  <2>1. PICK v : v = from[p]
    OBVIOUS
  <2>2. v \in 0..Latest /\ from' = [from EXCEPT ![p] = v]
    BY <1>6, <2>1, CountersAre
  <2> QED BY <1>6, <2>1, <2>2, ChoicesUntouched
<1>7. ASSUME NEW p \in Processes, Count(p)
      PROVE  ChoicesInvariant(a, m, s)'
  <2>1. PICK here : here = pc[p]
    OBVIOUS
  <2>2. /\ p \in Booting /\ At(p).op = "count" /\ from' = from
        /\ UNCHANGED <<version, schema, modes>>
        /\ GoOn(p) \/ pc' = [pc EXCEPT ![p] = Up]
    BY <1>7 DEF Count, db
  <2>3. here > s /\ here \in 1..Len(Script)
    <3>1. here \in DOMAIN Script /\ Script[here].op = "count" /\ here \in 1..Len(Script)
      BY <2>1, <2>2, AtIs
    <3> QED BY <3>1, Zenon DEF ChoicesInOrder
  <2>4. CASE GoOn(p)
    <3>1. PICK n : n = NextFor(from[p], pc[p] + 1)
      OBVIOUS
    <3>2. pc' = [pc EXCEPT ![p] = n] /\ pc[p] \notin {a, m, s} /\ (Added <=> Added') /\ version' = version
      BY <1>0, <2>1, <2>2, <2>3, <2>4, <3>1 DEF GoOn, Added, HasColumn
    <3> QED BY <1>0, <2>2, <3>1, <3>2, ChoicesPassed
  <2>5. CASE pc' = [pc EXCEPT ![p] = Up]
    <3>1. Settled
      <4>1. here \in s+1..Up
        BY <1>0, <2>3, ScriptIs
      <4> QED BY <2>1, <4>1 DEF ChoicesInvariant
    <3>2. Added
      BY <1>0, <2>1, <2>3, ScriptIs DEF ChoicesInvariant, Past
    <3>3. Added' /\ Settled'
      BY <2>2, <3>1, <3>2 DEF Added, HasColumn, Settled
    <3>4. \A q \in Processes : q # p => ~ (Past(q, a)' /\ pc'[q] <= s /\ from'[q] < 5)
      <4>1. Past(p, a)
        BY <1>0, <2>1, <2>3, ScriptIs DEF Past
      <4>2. \A q \in Processes : q # p => pc'[q] = pc[q] /\ from'[q] = from[q]
        BY <2>2, <2>5, CountersAre
      <4>3. \A q \in Processes : q # p => ~ (Past(q, a) /\ pc[q] <= s /\ from[q] < 5)
        BY <4>1 DEF ChoicesInvariant, Translates
      <4> QED BY <4>2, <4>3 DEF Past
    <3>5. pc'[p] = Up
      BY <2>5, CountersAre
    <3> QED BY <1>0, <3>3, <3>4, <3>5 DEF ChoicesInvariant
  <2> QED BY <2>2, <2>4, <2>5
<1>8. ASSUME NEW p \in Processes, Fail(p) \/ Kill(p) \/ Exit(p)
      PROVE  ChoicesInvariant(a, m, s)'
  <2>1. /\ pc' = [pc EXCEPT ![p] = Failed] \/ pc' = [pc EXCEPT ![p] = Stopped]
        /\ from' = from /\ UNCHANGED <<version, schema, modes>>
    BY <1>8 DEF Fail, Kill, Exit, db
  <2>2. Failed \in Nat /\ Failed \notin a+1..Up /\ Stopped \in Nat /\ Stopped \notin a+1..Up
    BY <1>0, ScriptIs DEF Stopped
  <2> QED BY <1>6, <2>1, <2>2
<1>9. ASSUME NEW p \in Processes, NameOwn(p)
      PROVE  ChoicesInvariant(a, m, s)'
  BY <1>1, <1>9 DEF NameOwn
<1>10. ASSUME NEW p \in Processes, ChooseMode(p)
       PROVE  ChoicesInvariant(a, m, s)'
  <2>1. /\ pc[p] = Up /\ schema' = schema /\ version' = version /\ from' = from /\ pc' = pc
    BY <1>10, Zenon DEF ChooseMode
  <2>2. Settled /\ Added
    BY <1>0, <2>1 DEF ChoicesInvariant, Past
  <2>3. Settled'
    <3>0. PICK e \in DOMAIN procs, f \in LegacyModes :
              modes' = [x \in DOMAIN modes \cup {e} |->
                           IF x = e
                           THEN [mode |-> IF e \in DOMAIN modes THEN modes[e].mode ELSE "incremental",
                                 flags |-> f, chosen |-> f]
                           ELSE modes[x]]
      BY <1>10, Zenon DEF ChooseMode
    <3>1. PICK g : g = IF e \in DOMAIN modes THEN modes[e].mode ELSE "incremental"
      OBVIOUS
    <3>2. PICK kept : kept = [mode |-> g, flags |-> f, chosen |-> f]
      OBVIOUS
    <3>3. kept.flags = kept.chosen
      BY <3>2
    <3>4. modes' = [x \in DOMAIN modes \cup {e} |-> IF x = e THEN kept ELSE modes[x]]
      BY <3>0, <3>1, <3>2, Zenon
    <3>5. \A x \in DOMAIN modes' : modes'[x] = kept \/ (x \in DOMAIN modes /\ modes'[x] = modes[x])
      BY <3>4
    <3> QED BY <2>2, <3>3, <3>5, Zenon DEF Settled
  <2>4. Added'
    BY <2>1, <2>2 DEF Added, HasColumn
  <2>5. \A q \in Processes : ~ (Past(q, a)' /\ pc'[q] <= s /\ from'[q] < 5)
    BY <1>0, <2>1 DEF ChoicesInvariant, Translates, Past
  <2> QED BY <2>3, <2>4, <2>5 DEF ChoicesInvariant
<1> QED BY <1>2, <1>3, <1>4, <1>5, <1>7, <1>8, <1>9, <1>10 DEF MigrationsNext

-----------------------------------------------------------------------------
(***************************************************************************)
(* Both scripts have the discipline: the server's fourteen statements, and *)
(* the desktop's, with a row for each emulator in two places.              *)
(***************************************************************************)

\* Two sequences, one after the other.
LEMMA Joined ==
    ASSUME NEW T, NEW A \in Seq(T), NEW B \in Seq(T), NEW AB, AB = A \o B
    PROVE  /\ AB \in Seq(T) /\ Len(AB) = Len(A) + Len(B)
           /\ \A i \in 1..Len(A) : AB[i] = A[i]
           /\ \A i \in 1..Len(B) : AB[Len(A) + i] = B[i]
<1>1. /\ AB \in Seq(T) /\ Len(AB) = Len(A) + Len(B)
      /\ \A i \in 1..Len(A) + Len(B) : AB[i] = IF i <= Len(A) THEN A[i] ELSE B[i - Len(A)]
  BY ConcatProperties, Zenon
<1>2. Len(A) \in Nat /\ Len(B) \in Nat
  OBVIOUS
<1>3. ASSUME NEW i \in 1..Len(A)
      PROVE  AB[i] = A[i]
  <2>1. i \in 1..Len(A) + Len(B) /\ i <= Len(A)
    BY <1>2
  <2> QED BY <1>1, <2>1, Zenon
<1>4. ASSUME NEW i \in 1..Len(B)
      PROVE  AB[Len(A) + i] = B[i]
  <2>1. PICK k : k = Len(A) + i
    OBVIOUS
  <2>2. k \in 1..Len(A) + Len(B) /\ ~ (k <= Len(A)) /\ k - Len(A) = i
    BY <1>2, <2>1
  <2> QED BY <1>1, <2>1, <2>2, Zenon
<1> QED BY <1>1, <1>2, <1>3, <1>4

\* The server's script.
LEMMA ServerStatements ==
    ASSUME Script = ServerScript
    PROVE  /\ Len(Script) = 14
           /\ Script[1] = Statement(Always, "read", "", "")
           /\ \A i \in 1..7 : Script[1+i] = V1Tables[i]
           /\ \A i \in 1..3 : Script[8+i] = V2Tables[i]
           /\ Script[12] = Create(3, "history_settings")
           /\ Script[13] = AddColumn(4, "emulator_state", "last_commit_at")
           /\ Script[14] = SetVersion(Always, 4)
<1> DEFINE Final == << Create(3, "history_settings"), AddColumn(4, "emulator_state", "last_commit_at"),
                      SetVersion(Always, 4) >>
           T == {Read[1]} \cup {V1Tables[i] : i \in 1..7} \cup {V2Tables[i] : i \in 1..3}
                    \cup {Final[1], Final[2], Final[3]}
<1>1. Len(Read) = 1 /\ Read \in Seq(T)
  BY DEF Read
<1>2. Len(V1Tables) = 7 /\ V1Tables \in Seq(T)
  BY DEF V1Tables
<1>3. Len(V2Tables) = 3 /\ V2Tables \in Seq(T)
  BY DEF V2Tables
<1>4. Len(Final) = 3 /\ Final \in Seq(T)
  OBVIOUS
<1>5. /\ Read[1] = Statement(Always, "read", "", "")
      /\ Final[1] = Create(3, "history_settings") /\ Final[2] = AddColumn(4, "emulator_state", "last_commit_at")
      /\ Final[3] = SetVersion(Always, 4)
  BY DEF Read
<1> HIDE DEF T, Final
<1>6. PICK A, B : A = Read \o V1Tables /\ B = A \o V2Tables
  OBVIOUS
<1>7. Script = B \o Final
  BY <1>6 DEF ServerScript, Final
<1>8. /\ A \in Seq(T) /\ Len(A) = 8 /\ A[1] = Read[1]
      /\ \A i \in 1..7 : A[1+i] = V1Tables[i]
  <2>1. /\ A \in Seq(T) /\ Len(A) = Len(Read) + Len(V1Tables)
        /\ \A i \in 1..Len(Read) : A[i] = Read[i]
        /\ \A i \in 1..Len(V1Tables) : A[Len(Read) + i] = V1Tables[i]
    <3>1. Read \in Seq(T) /\ V1Tables \in Seq(T) /\ A = Read \o V1Tables
      BY <1>1, <1>2, <1>6, Zenon
    <3> QED BY <3>1, Joined
  <2> QED BY <1>1, <1>2, <2>1
<1>9. /\ B \in Seq(T) /\ Len(B) = 11
      /\ \A i \in 1..8 : B[i] = A[i]
      /\ \A i \in 1..3 : B[8+i] = V2Tables[i]
  <2>1. /\ B \in Seq(T) /\ Len(B) = Len(A) + Len(V2Tables)
        /\ \A i \in 1..Len(A) : B[i] = A[i]
        /\ \A i \in 1..Len(V2Tables) : B[Len(A) + i] = V2Tables[i]
    <3>1. A \in Seq(T) /\ V2Tables \in Seq(T) /\ B = A \o V2Tables
      BY <1>3, <1>6, <1>8, Zenon
    <3> QED BY <3>1, Joined
  <2> QED BY <1>3, <1>8, <2>1
<1>10. /\ Len(Script) = 14
       /\ \A i \in 1..11 : Script[i] = B[i]
       /\ \A i \in 1..3 : Script[11+i] = Final[i]
  <2>1. /\ Script \in Seq(T) /\ Len(Script) = Len(B) + Len(Final)
        /\ \A i \in 1..Len(B) : Script[i] = B[i]
        /\ \A i \in 1..Len(Final) : Script[Len(B) + i] = Final[i]
    <3>1. B \in Seq(T) /\ Final \in Seq(T) /\ Script = B \o Final
      BY <1>4, <1>7, <1>9, Zenon
    <3> QED BY <3>1, Joined
  <2> QED BY <1>4, <1>9, <2>1
<1>11. Script[1] = Read[1] /\ \A i \in 1..7 : Script[1+i] = V1Tables[i]
  BY <1>8, <1>9, <1>10
<1>12. \A i \in 1..3 : Script[8+i] = V2Tables[i]
  BY <1>9, <1>10
<1>13. Script[12] = Final[1] /\ Script[13] = Final[2] /\ Script[14] = Final[3]
  BY <1>10
<1> QED BY <1>5, <1>10, <1>11, <1>12, <1>13

\* The server's script has the discipline: one stamp, after all it promises.
LEMMA ServerInOrder ==
    ASSUME Script = ServerScript, Latest = 4
    PROVE  ScriptInOrder
<1>1. Len(Script) = 14 /\ DOMAIN Script = 1..14
  BY ServerStatements, ScriptIs
<1>2. \A below, table : Create(below, table).op = "create"
  BY DEF Create, Statement
<1>3. \A i \in 1..7 : V1Tables[i].op = "create"
  BY <1>2 DEF V1Tables
<1>4. \A i \in 1..3 : V2Tables[i].op = "create"
  BY <1>2 DEF V2Tables
<1>5. \A i \in 2..12 : Script[i].op = "create"
  <2>1. ASSUME NEW i \in 2..8
        PROVE  Script[i].op = "create"
    <3>1. PICK k \in 1..7 : i = 1 + k
      <4>1. i - 1 \in 1..7 /\ i = 1 + (i - 1)
        OBVIOUS
      <4> QED BY <4>1
    <3> QED BY <1>3, <3>1, ServerStatements, Zenon
  <2>2. ASSUME NEW i \in 9..11
        PROVE  Script[i].op = "create"
    <3>1. PICK k \in 1..3 : i = 8 + k
      <4>1. i - 8 \in 1..3 /\ i = 8 + (i - 8)
        OBVIOUS
      <4> QED BY <4>1
    <3> QED BY <1>4, <3>1, ServerStatements, Zenon
  <2>3. Script[12].op = "create"
    <3>1. Create(3, "history_settings").op = "create"
      BY <1>2
    <3>2. Script[12] = Create(3, "history_settings")
      BY ServerStatements, Zenon
    <3> QED BY <3>1, <3>2, Zenon
  <2> QED BY <2>1, <2>2, <2>3
<1>6. Script[1].op = "read"
  <2>1. Statement(Always, "read", "", "").op = "read"
    BY DEF Statement
  <2>2. Script[1] = Statement(Always, "read", "", "")
    BY ServerStatements, Zenon
  <2> QED BY <2>1, <2>2, Zenon
<1>7. Script[13].op = "add" /\ Script[13].on = "emulator_state" /\ Script[13].below = 4
  <2>1. LET s == AddColumn(4, "emulator_state", "last_commit_at")
        IN  s.op = "add" /\ s.on = "emulator_state" /\ s.below = 4
    BY DEF AddColumn, Statement
  <2>2. Script[13] = AddColumn(4, "emulator_state", "last_commit_at")
    BY ServerStatements, Zenon
  <2> QED BY <2>1, <2>2, Zenon
<1>8. Script[14].op = "version" /\ Script[14].on = 4
  <2>1. SetVersion(Always, 4).op = "version" /\ SetVersion(Always, 4).on = 4
    BY DEF SetVersion, Statement
  <2>2. Script[14] = SetVersion(Always, 4)
    BY ServerStatements, Zenon
  <2> QED BY <2>1, <2>2, Zenon
<1>9. Script[5].op = "create" /\ Script[5].on = "emulator_state" /\ Script[5].below = 1
  <2>1. V1Tables[4] = Create(1, "emulator_state")
    BY DEF V1Tables
  <2>2. Script[5] = V1Tables[4]
    <3>1. \A i \in 1..7 : Script[1+i] = V1Tables[i]
      BY ServerStatements, Zenon
    <3> QED BY <3>1
  <2>3. LET s == Create(1, "emulator_state")
        IN  s.op = "create" /\ s.on = "emulator_state" /\ s.below = 1
    BY DEF Create, Statement
  <2> QED BY <2>1, <2>2, <2>3, Zenon
<1>10. ASSUME NEW i \in 1..14
       PROVE  /\ Script[i].op = "version" => i = 14
              /\ Script[i].op = "add" => i = 13
              /\ Script[i].op = "read" => i = 1
              /\ Script[i].op # "insert"
  <2>1. i = 1 \/ i \in 2..12 \/ i = 13 \/ i = 14
    OBVIOUS
  <2> QED BY <1>5, <1>6, <1>7, <1>8, <2>1
<1>11. \A j \in 1..14 : Makes(Script[j]) => j < 14
  <2>1. ~ Makes(Script[14])
    BY <1>8 DEF Makes
  <2> QED BY <2>1
<1>12. RunBy(Script[13].below, Script[5])
  BY <1>7, <1>9 DEF RunBy
<1>13. Always = 5
  BY DEF Always
<1>14. ASSUME NEW i \in 1..14
       PROVE  /\ Script[i].op = "version" =>
                     /\ Script[i].on \in 0..Latest
                     /\ \A j \in 1..14 : Makes(Script[j]) /\ RunBy(Script[i].on, Script[j]) => j < i
              /\ Script[i].op = "add" =>
                     /\ Script[i].below # Always
                     /\ \E j \in 1..i-1 : /\ Script[j].op = "create" /\ Script[j].on = Script[i].on
                                          /\ RunBy(Script[i].below, Script[j])
              /\ Script[i].op = "read" => \A j \in 1..i-1 : Script[j].below = Always
              /\ Script[i].op = "insert" => Script[i].on \in Emulators
  <2>1. ASSUME Script[i].op = "version"
        PROVE  /\ Script[i].on \in 0..Latest
               /\ \A j \in 1..14 : Makes(Script[j]) /\ RunBy(Script[i].on, Script[j]) => j < i
    BY <1>8, <1>10, <1>11, <2>1
  <2>2. ASSUME Script[i].op = "add"
        PROVE  /\ Script[i].below # Always
               /\ \E j \in 1..i-1 : /\ Script[j].op = "create" /\ Script[j].on = Script[i].on
                                    /\ RunBy(Script[i].below, Script[j])
    <3>1. i = 13 /\ 5 \in 1..13-1
      BY <1>10, <2>2
    <3> QED BY <1>7, <1>9, <1>12, <1>13, <3>1
  <2> QED BY <1>10, <2>1, <2>2
<1> QED BY <1>1, <1>14, Zenon DEF ScriptInOrder

\* The desktop's script: its parts, around a row for each emulator.
UpTo1 == << Create(Always, "emulators"), Statement(Always, "read", "", ""),
              AddColumn(1, "emulators", "process_name"), SetVersion(1, 1) >>
UpTo3 == << Create(2, "settings"), SetVersion(2, 2),
               AddColumn(3, "emulators", "dest_kind"), AddColumn(3, "emulators", "dest_remote"),
               SetVersion(3, 3) >>
CountRows == <<Statement(Always, "count", "", "")>>

\* A short sequence, given by its elements.
LEMMA FourIs ==
    ASSUME NEW a, NEW b, NEW c, NEW d, NEW s, s = <<a, b, c, d>>,
           NEW T, \A i \in 1..4 : s[i] \in T
    PROVE  Len(s) = 4 /\ s \in Seq(T)
<1>1. a \in T /\ b \in T /\ c \in T /\ d \in T
  <2>1. s[1] \in T /\ s[2] \in T /\ s[3] \in T /\ s[4] \in T
    <3>1. 1..4 = {1, 2, 3, 4}
      OBVIOUS
    <3> QED BY <3>1, Zenon
  <2> QED BY <2>1
<1> QED BY <1>1

\* And one of nine.
LEMMA NineIs ==
    ASSUME NEW a, NEW b, NEW c, NEW d, NEW e, NEW f, NEW g, NEW h, NEW j,
           NEW s, s = <<a, b, c, d, e, f, g, h, j>>,
           NEW T, \A i \in 1..9 : s[i] \in T
    PROVE  Len(s) = 9 /\ s \in Seq(T)
<1>1. {a, b, c, d, e, f, g, h, j} \subseteq T
  <2>1. /\ s[1] \in T /\ s[2] \in T /\ s[3] \in T /\ s[4] \in T /\ s[5] \in T
        /\ s[6] \in T /\ s[7] \in T /\ s[8] \in T /\ s[9] \in T
    <3>1. 1..9 = {1, 2, 3, 4, 5, 6, 7, 8, 9}
      OBVIOUS
    <3> QED BY <3>1, Zenon
  <2> QED BY <2>1
<1> QED BY <1>1

\* The desktop's statements by their place: n rows are named in the middle and
\* inserted at the end.
LEMMA DesktopStatements ==
    ASSUME Script = DesktopScript, NEW n, n = Len(Seeds)
    PROVE  /\ n \in Nat /\ Len(Script) = n + 19 + n
           /\ \A i \in 1..4 : Script[i] = UpTo1[i]
           /\ \A i \in 1..n : Script[4+i] = Statement(1, "name", Seeds[i], "")
           /\ \A i \in 1..5 : Script[n+4+i] = UpTo3[i]
           /\ \A i \in 1..9 : Script[n+9+i] = UpToV6[i]
           /\ Script[n+19] = Statement(Always, "count", "", "")
           /\ \A i \in 1..n : Script[n+19+i] = Statement(Always, "insert", Seeds[i], "")
<1> DEFINE Names   == ForEachSeed(1, "name")
           Inserts == ForEachSeed(Always, "insert")
           T == {UpTo1[i] : i \in 1..4} \cup {UpTo3[i] : i \in 1..5} \cup {UpToV6[i] : i \in 1..9}
                    \cup {CountRows[1]} \cup {Names[i] : i \in 1..n} \cup {Inserts[i] : i \in 1..n}
<1>0. n \in Nat /\ DOMAIN Seeds = 1..n
  BY SeedsAssumption
<1>1. Len(UpTo1) = 4 /\ UpTo1 \in Seq(T)
  <2>1. \A i \in 1..4 : UpTo1[i] \in T
    OBVIOUS
  <2> HIDE DEF T
  <2> QED BY <2>1, FourIs, Zenon DEF UpTo1
<1>2. Len(UpTo3) = 5 /\ UpTo3 \in Seq(T)
  BY DEF UpTo3
<1>3. Len(UpToV6) = 9 /\ UpToV6 \in Seq(T)
  <2>1. \A i \in 1..9 : UpToV6[i] \in T
    OBVIOUS
  <2> HIDE DEF T
  <2> QED BY <2>1, NineIs, Zenon DEF UpToV6
<1>4. Len(CountRows) = 1 /\ CountRows \in Seq(T)
  BY DEF CountRows
<1>5. Len(Names) = n /\ Names \in Seq(T)
  <2>1. Names = [i \in 1..n |-> Statement(1, "name", Seeds[i], "")]
    BY <1>0 DEF ForEachSeed
  <2>2. \A i \in 1..n : Names[i] \in T
    OBVIOUS
  <2> HIDE DEF Names, T
  <2>3. Names \in [1..n -> T]
    BY <2>1, <2>2, Zenon
  <2>4. Names \in Seq(T)
    BY <1>0, <2>3
  <2>5. Len(Names) = n
    BY <1>0, <2>3, <2>4
  <2> QED BY <2>4, <2>5
<1>6. Len(Inserts) = n /\ Inserts \in Seq(T)
  <2>1. Inserts = [i \in 1..n |-> Statement(Always, "insert", Seeds[i], "")]
    BY <1>0 DEF ForEachSeed
  <2>2. \A i \in 1..n : Inserts[i] \in T
    OBVIOUS
  <2> HIDE DEF Inserts, T
  <2>3. Inserts \in [1..n -> T]
    BY <2>1, <2>2, Zenon
  <2>4. Inserts \in Seq(T)
    BY <1>0, <2>3
  <2>5. Len(Inserts) = n
    BY <1>0, <2>3, <2>4
  <2> QED BY <2>4, <2>5
<1> HIDE DEF T
<1>7. PICK A, B, C, D :
          A = UpTo1 \o Names /\ B = A \o UpTo3 /\ C = B \o UpToV6 /\ D = C \o CountRows
  OBVIOUS
<1>8. Script = D \o Inserts
  BY <1>7, Zenon DEF DesktopScript, UpToV3, UpTo1, UpTo3, CountRows
<1> HIDE DEF Names, Inserts
<1>9. /\ A \in Seq(T) /\ Len(A) = n + 4
      /\ \A i \in 1..4 : A[i] = UpTo1[i]
      /\ \A i \in 1..n : A[4+i] = Names[i]
  <2>1. /\ A \in Seq(T) /\ Len(A) = Len(UpTo1) + Len(Names)
        /\ \A i \in 1..Len(UpTo1) : A[i] = UpTo1[i]
        /\ \A i \in 1..Len(Names) : A[Len(UpTo1) + i] = Names[i]
    <3>1. UpTo1 \in Seq(T) /\ Names \in Seq(T) /\ A = UpTo1 \o Names
      BY <1>1, <1>5, <1>7, Zenon
    <3> QED BY <3>1, Joined
  <2>2. Len(UpTo1) = 4 /\ Len(Names) = n
    BY <1>1, <1>5
  <2> QED BY <1>0, <2>1, <2>2
<1>10. /\ B \in Seq(T) /\ Len(B) = n + 9
       /\ \A i \in 1..n+4 : B[i] = A[i]
       /\ \A i \in 1..5 : B[n+4+i] = UpTo3[i]
  <2>1. /\ B \in Seq(T) /\ Len(B) = Len(A) + Len(UpTo3)
        /\ \A i \in 1..Len(A) : B[i] = A[i]
        /\ \A i \in 1..Len(UpTo3) : B[Len(A) + i] = UpTo3[i]
    <3>1. A \in Seq(T) /\ UpTo3 \in Seq(T) /\ B = A \o UpTo3
      BY <1>2, <1>7, <1>9, Zenon
    <3> QED BY <3>1, Joined
  <2>2. Len(A) = n + 4 /\ Len(UpTo3) = 5
    BY <1>2, <1>9
  <2> QED BY <1>0, <2>1, <2>2
<1>11. /\ C \in Seq(T) /\ Len(C) = n + 18
       /\ \A i \in 1..n+9 : C[i] = B[i]
       /\ \A i \in 1..9 : C[n+9+i] = UpToV6[i]
  <2>1. /\ C \in Seq(T) /\ Len(C) = Len(B) + Len(UpToV6)
        /\ \A i \in 1..Len(B) : C[i] = B[i]
        /\ \A i \in 1..Len(UpToV6) : C[Len(B) + i] = UpToV6[i]
    <3>1. B \in Seq(T) /\ UpToV6 \in Seq(T) /\ C = B \o UpToV6
      BY <1>3, <1>7, <1>10, Zenon
    <3> QED BY <3>1, Joined
  <2>2. Len(B) = n + 9 /\ Len(UpToV6) = 9
    BY <1>3, <1>10
  <2> QED BY <1>0, <2>1, <2>2
<1>12. /\ D \in Seq(T) /\ Len(D) = n + 19
       /\ \A i \in 1..n+18 : D[i] = C[i]
       /\ D[n+19] = CountRows[1]
  <2>1. /\ D \in Seq(T) /\ Len(D) = Len(C) + Len(CountRows)
        /\ \A i \in 1..Len(C) : D[i] = C[i]
        /\ \A i \in 1..Len(CountRows) : D[Len(C) + i] = CountRows[i]
    <3>1. C \in Seq(T) /\ CountRows \in Seq(T) /\ D = C \o CountRows
      BY <1>4, <1>7, <1>11, Zenon
    <3> QED BY <3>1, Joined
  <2>2. Len(C) = n + 18 /\ Len(CountRows) = 1
    BY <1>4, <1>11
  <2> QED BY <1>0, <2>1, <2>2
<1>13. /\ Script \in Seq(T) /\ Len(Script) = n + 19 + n
       /\ \A i \in 1..n+19 : Script[i] = D[i]
       /\ \A i \in 1..n : Script[n+19+i] = Inserts[i]
  <2>1. /\ Script \in Seq(T) /\ Len(Script) = Len(D) + Len(Inserts)
        /\ \A i \in 1..Len(D) : Script[i] = D[i]
        /\ \A i \in 1..Len(Inserts) : Script[Len(D) + i] = Inserts[i]
    <3>1. D \in Seq(T) /\ Inserts \in Seq(T) /\ Script = D \o Inserts
      BY <1>6, <1>8, <1>12, Zenon
    <3> QED BY <3>1, Joined
  <2>2. Len(D) = n + 19 /\ Len(Inserts) = n
    BY <1>6, <1>12
  <2> QED BY <1>0, <2>1, <2>2
<1>14. \A i \in 1..n+9 : Script[i] = B[i]
  <2>1. ASSUME NEW i \in 1..n+9
        PROVE  Script[i] = B[i]
    <3>1. i \in 1..n+18 /\ i \in 1..n+19
      BY <1>0
    <3> QED BY <1>11, <1>12, <1>13, <3>1, Zenon
  <2> QED BY <2>1
<1>15. \A i \in 1..n+4 : Script[i] = A[i]
  BY <1>0, <1>10, <1>14
<1>16. \A i \in 1..4 : Script[i] = UpTo1[i]
  BY <1>0, <1>9, <1>15
<1>17. \A i \in 1..n : Script[4+i] = Names[i]
  BY <1>0, <1>9, <1>15
<1>18. \A i \in 1..5 : Script[n+4+i] = UpTo3[i]
  BY <1>0, <1>10, <1>14
<1>19. \A i \in 1..9 : Script[n+9+i] = UpToV6[i]
  <2>1. ASSUME NEW i \in 1..9, NEW k, k = n+9+i
        PROVE  Script[k] = C[k]
    <3>1. k \in 1..n+18 /\ k \in 1..n+19
      BY <1>0, <2>1
    <3> QED BY <1>12, <1>13, <3>1, Zenon
  <2> QED BY <1>11, <2>1, Zenon
<1>20. Script[n+19] = Statement(Always, "count", "", "")
  <2>1. Script[n+19] = CountRows[1]
    BY <1>0, <1>12, <1>13
  <2>2. CountRows[1] = Statement(Always, "count", "", "")
    BY DEF CountRows
  <2> QED BY <2>1, <2>2, Zenon
<1>21. \A i \in 1..n : Script[4+i] = Statement(1, "name", Seeds[i], "")
  <2>1. \A i \in 1..n : Names[i] = Statement(1, "name", Seeds[i], "")
    BY <1>0 DEF Names, ForEachSeed
  <2> QED BY <1>17, <2>1, Zenon
<1>22. \A i \in 1..n : Script[n+19+i] = Statement(Always, "insert", Seeds[i], "")
  <2>1. \A i \in 1..n : Inserts[i] = Statement(Always, "insert", Seeds[i], "")
    BY <1>0 DEF Inserts, ForEachSeed
  <2> QED BY <1>13, <2>1, Zenon
<1> QED BY <1>0, <1>13, <1>16, <1>18, <1>19, <1>20, <1>21, <1>22, Zenon

\* What statement i is.
Is(i, below, op, on, column) ==
    Script[i].below = below /\ Script[i].op = op /\ Script[i].on = on /\ Script[i].column = column

\* The fields of a statement.
LEMMA StatedIs ==
    ASSUME NEW i, NEW below, NEW op, NEW on, NEW column, Script[i] = Statement(below, op, on, column)
    PROVE  Is(i, below, op, on, column)
<1>1. LET s == Statement(below, op, on, column)
      IN  s.below = below /\ s.op = op /\ s.on = on /\ s.column = column
  BY DEF Statement
<1> QED BY <1>1, Zenon DEF Is

\* The desktop's script, statement by statement.
LEMMA DesktopShape ==
    ASSUME Script = DesktopScript, NEW n, n = Len(Seeds)
    PROVE  /\ Is(1, Always, "create", "emulators", "")
           /\ Is(2, Always, "read", "", "")
           /\ Is(3, 1, "add", "emulators", "process_name")
           /\ Is(4, 1, "version", 1, "")
           /\ Is(n+5, 2, "create", "settings", "")
           /\ Is(n+6, 2, "version", 2, "")
           /\ Is(n+7, 3, "add", "emulators", "dest_kind")
           /\ Is(n+8, 3, "add", "emulators", "dest_remote")
           /\ Is(n+9, 3, "version", 3, "")
           /\ Is(n+10, 4, "create", "history_settings", "")
           /\ Is(n+11, 4, "version", 4, "")
           /\ Is(n+12, 5, "add", "history_settings", "incremental_enabled")
           /\ Is(n+13, 5, "add", "history_settings", "full_enabled")
           /\ Is(n+14, 5, "modes", "", "")
           /\ Is(n+15, 5, "version", 5, "")
           /\ Is(n+16, 6, "create", "sync_baseline", "")
           /\ Is(n+17, 6, "create", "sync_state", "")
           /\ Is(n+18, 6, "version", 6, "")
           /\ Is(n+19, Always, "count", "", "")
           /\ \A i \in 5..n+4 : Is(i, 1, "name", Seeds[i-4], "")
           /\ \A i \in n+20..n+19+n : Is(i, Always, "insert", Seeds[i-n-19], "")
           /\ n \in Nat /\ DOMAIN Script = 1..n+19+n
<1>1. /\ n \in Nat /\ Len(Script) = n + 19 + n
      /\ \A i \in 1..4 : Script[i] = UpTo1[i]
      /\ \A i \in 1..5 : Script[n+4+i] = UpTo3[i]
      /\ \A i \in 1..9 : Script[n+9+i] = UpToV6[i]
  BY DesktopStatements, Zenon
<1>2. /\ Is(1, Always, "create", "emulators", "")
      /\ Is(2, Always, "read", "", "")
      /\ Is(3, 1, "add", "emulators", "process_name")
      /\ Is(4, 1, "version", 1, "")
  <2>1. /\ Script[1] = UpTo1[1]
        /\ Script[2] = UpTo1[2]
        /\ Script[3] = UpTo1[3]
        /\ Script[4] = UpTo1[4]
    BY <1>1
  <2>2. /\ UpTo1[1] = Statement(Always, "create", "emulators", "")
        /\ UpTo1[2] = Statement(Always, "read", "", "")
        /\ UpTo1[3] = Statement(1, "add", "emulators", "process_name")
        /\ UpTo1[4] = Statement(1, "version", 1, "")
    BY DEF UpTo1, Create, AddColumn, SetVersion
  <2> QED BY <2>1, <2>2, StatedIs
<1>3. /\ Is(n+5, 2, "create", "settings", "")
      /\ Is(n+6, 2, "version", 2, "")
      /\ Is(n+7, 3, "add", "emulators", "dest_kind")
      /\ Is(n+8, 3, "add", "emulators", "dest_remote")
      /\ Is(n+9, 3, "version", 3, "")
  <2>1. /\ Script[n+5] = UpTo3[1]
        /\ Script[n+6] = UpTo3[2]
        /\ Script[n+7] = UpTo3[3]
        /\ Script[n+8] = UpTo3[4]
        /\ Script[n+9] = UpTo3[5]
    BY <1>1
  <2>2. /\ UpTo3[1] = Statement(2, "create", "settings", "")
        /\ UpTo3[2] = Statement(2, "version", 2, "")
        /\ UpTo3[3] = Statement(3, "add", "emulators", "dest_kind")
        /\ UpTo3[4] = Statement(3, "add", "emulators", "dest_remote")
        /\ UpTo3[5] = Statement(3, "version", 3, "")
    BY DEF UpTo3, Create, AddColumn, SetVersion
  <2> QED BY <2>1, <2>2, StatedIs
<1>4. /\ Is(n+10, 4, "create", "history_settings", "")
      /\ Is(n+11, 4, "version", 4, "")
      /\ Is(n+12, 5, "add", "history_settings", "incremental_enabled")
      /\ Is(n+13, 5, "add", "history_settings", "full_enabled")
      /\ Is(n+14, 5, "modes", "", "")
      /\ Is(n+15, 5, "version", 5, "")
      /\ Is(n+16, 6, "create", "sync_baseline", "")
      /\ Is(n+17, 6, "create", "sync_state", "")
      /\ Is(n+18, 6, "version", 6, "")
  <2>1. /\ Script[n+10] = UpToV6[1]
        /\ Script[n+11] = UpToV6[2]
        /\ Script[n+12] = UpToV6[3]
        /\ Script[n+13] = UpToV6[4]
        /\ Script[n+14] = UpToV6[5]
        /\ Script[n+15] = UpToV6[6]
        /\ Script[n+16] = UpToV6[7]
        /\ Script[n+17] = UpToV6[8]
        /\ Script[n+18] = UpToV6[9]
    BY <1>1
  <2>2. /\ UpToV6[1] = Statement(4, "create", "history_settings", "")
        /\ UpToV6[2] = Statement(4, "version", 4, "")
        /\ UpToV6[3] = Statement(5, "add", "history_settings", "incremental_enabled")
        /\ UpToV6[4] = Statement(5, "add", "history_settings", "full_enabled")
        /\ UpToV6[5] = Statement(5, "modes", "", "")
        /\ UpToV6[6] = Statement(5, "version", 5, "")
        /\ UpToV6[7] = Statement(6, "create", "sync_baseline", "")
        /\ UpToV6[8] = Statement(6, "create", "sync_state", "")
        /\ UpToV6[9] = Statement(6, "version", 6, "")
    BY DEF UpToV6, Create, AddColumn, SetVersion
  <2>3. /\ Is(n+10, 4, "create", "history_settings", "")
        /\ Is(n+11, 4, "version", 4, "")
        /\ Is(n+12, 5, "add", "history_settings", "incremental_enabled")
    BY <2>1, <2>2, StatedIs
  <2>4. /\ Is(n+13, 5, "add", "history_settings", "full_enabled")
        /\ Is(n+14, 5, "modes", "", "")
        /\ Is(n+15, 5, "version", 5, "")
    BY <2>1, <2>2, StatedIs
  <2>5. /\ Is(n+16, 6, "create", "sync_baseline", "")
        /\ Is(n+17, 6, "create", "sync_state", "")
        /\ Is(n+18, 6, "version", 6, "")
    BY <2>1, <2>2, StatedIs
  <2> QED BY <2>3, <2>4, <2>5
<1>5. Is(n+19, Always, "count", "", "")
  <2>1. Script[n+19] = Statement(Always, "count", "", "")
    BY DesktopStatements, Zenon
  <2> QED BY <2>1, StatedIs
<1>6. ASSUME NEW i \in 5..n+4
      PROVE  Is(i, 1, "name", Seeds[i-4], "")
  <2>1. i - 4 \in 1..n /\ 4 + (i - 4) = i
    <3>1. n \in Nat
      BY <1>1
    <3> QED BY <3>1
  <2>2. \A k \in 1..n : Script[4+k] = Statement(1, "name", Seeds[k], "")
    BY DesktopStatements, Zenon
  <2>3. Script[4 + (i - 4)] = Statement(1, "name", Seeds[i-4], "")
    BY <2>1, <2>2, Zenon
  <2> QED BY <2>1, <2>3, StatedIs
<1>7. ASSUME NEW i \in n+20..n+19+n
      PROVE  Is(i, Always, "insert", Seeds[i-n-19], "")
  <2>1. i-n-19 \in 1..n /\ n+19+(i-n-19) = i
    <3>1. n \in Nat
      BY <1>1
    <3> QED BY <3>1
  <2>2. \A k \in 1..n : Script[n+19+k] = Statement(Always, "insert", Seeds[k], "")
    BY DesktopStatements, Zenon
  <2>3. Script[n+19+(i-n-19)] = Statement(Always, "insert", Seeds[i-n-19], "")
    BY <2>1, <2>2, Zenon
  <2> QED BY <2>1, <2>3, StatedIs
<1> QED BY <1>1, <1>2, <1>3, <1>4, <1>5, <1>6, <1>7, ScriptIs

\* A statement of the desktop's script is one of these.
LEMMA DesktopCases ==
    ASSUME NEW n \in Nat, NEW i \in 1..n+19+n
    PROVE  \/ i \in 1..4 \/ i \in 5..n+4
           \/ i \in {n+5, n+6, n+7, n+8, n+9}
           \/ i \in {n+10, n+11, n+12, n+13, n+14, n+15, n+16, n+17, n+18, n+19}
           \/ i \in n+20..n+19+n
OBVIOUS

\* Where the statements of each kind are.
LEMMA DesktopKinds ==
    ASSUME Script = DesktopScript, NEW n, n = Len(Seeds), NEW i \in DOMAIN Script
    PROVE  /\ Script[i].op = "create" =>
                  \/ i = 1 \/ i = n+5 \/ i = n+10 \/ i = n+16 \/ i = n+17
           /\ Script[i].op = "add" => i = 3 \/ i = n+7 \/ i = n+8 \/ i = n+12 \/ i = n+13
           /\ Script[i].op = "version" =>
                  \/ i = 4 \/ i = n+6 \/ i = n+9 \/ i = n+11 \/ i = n+15 \/ i = n+18
           /\ Script[i].op = "read" => i = 2
           /\ Script[i].op = "modes" => i = n+14
           /\ Script[i].op = "count" => i = n+19
           /\ Script[i].op = "insert" => Script[i].on \in Emulators
           /\ Script[i].column = "incremental_enabled" => i = n+12
<1>1. n \in Nat /\ i \in 1..n+19+n
  BY DesktopShape
<1>2. CASE i \in 1..4
  <2>1. i = 1 \/ i = 2 \/ i = 3 \/ i = 4
    BY <1>2
  <2>2. /\ Script[1].op = "create" /\ Script[2].op = "read" /\ Script[3].op = "add" /\ Script[4].op = "version"
        /\ Script[1].column = "" /\ Script[2].column = "" /\ Script[3].column = "process_name" /\ Script[4].column = ""
    <3>1. /\ Is(1, Always, "create", "emulators", "")
          /\ Is(2, Always, "read", "", "")
          /\ Is(3, 1, "add", "emulators", "process_name")
          /\ Is(4, 1, "version", 1, "")
      BY DesktopShape
    <3> QED BY <3>1, Zenon DEF Is
  <2> QED BY <2>1, <2>2
<1>3. CASE i \in 5..n+4
  <2>1. Script[i].op = "name" /\ Script[i].column = ""
    <3>1. Is(i, 1, "name", Seeds[i-4], "")
      BY <1>3, DesktopShape
    <3> QED BY <3>1, Zenon DEF Is
  <2> QED BY <2>1
<1>4. CASE i \in {n+5, n+6, n+7, n+8, n+9}
  <2>1. /\ Script[n+5].op = "create" /\ Script[n+6].op = "version" /\ Script[n+7].op = "add"
        /\ Script[n+8].op = "add" /\ Script[n+9].op = "version"
        /\ Script[n+5].column = "" /\ Script[n+6].column = "" /\ Script[n+7].column = "dest_kind"
        /\ Script[n+8].column = "dest_remote" /\ Script[n+9].column = ""
    <3>1. /\ Is(n+5, 2, "create", "settings", "")
          /\ Is(n+6, 2, "version", 2, "")
          /\ Is(n+7, 3, "add", "emulators", "dest_kind")
          /\ Is(n+8, 3, "add", "emulators", "dest_remote")
          /\ Is(n+9, 3, "version", 3, "")
      BY DesktopShape
    <3> QED BY <3>1, Zenon DEF Is
  <2> QED BY <1>4, <2>1
<1>5. CASE i \in {n+10, n+11, n+12, n+13, n+14, n+15, n+16, n+17, n+18, n+19}
  <2>1. /\ Script[n+10].op = "create" /\ Script[n+11].op = "version" /\ Script[n+12].op = "add"
        /\ Script[n+13].op = "add" /\ Script[n+14].op = "modes" /\ Script[n+15].op = "version"
        /\ Script[n+16].op = "create" /\ Script[n+17].op = "create" /\ Script[n+18].op = "version"
        /\ Script[n+19].op = "count"
    <3>1. /\ Is(n+10, 4, "create", "history_settings", "")
          /\ Is(n+11, 4, "version", 4, "")
          /\ Is(n+12, 5, "add", "history_settings", "incremental_enabled")
          /\ Is(n+13, 5, "add", "history_settings", "full_enabled")
          /\ Is(n+14, 5, "modes", "", "")
          /\ Is(n+15, 5, "version", 5, "")
          /\ Is(n+16, 6, "create", "sync_baseline", "")
          /\ Is(n+17, 6, "create", "sync_state", "")
          /\ Is(n+18, 6, "version", 6, "")
          /\ Is(n+19, Always, "count", "", "")
      BY DesktopShape
    <3> QED BY <3>1, Zenon DEF Is
  <2>2. /\ Script[n+10].column = "" /\ Script[n+11].column = "" /\ Script[n+13].column = "full_enabled"
        /\ Script[n+14].column = "" /\ Script[n+15].column = "" /\ Script[n+16].column = ""
        /\ Script[n+17].column = "" /\ Script[n+18].column = "" /\ Script[n+19].column = ""
    <3>1. /\ Is(n+10, 4, "create", "history_settings", "")
          /\ Is(n+11, 4, "version", 4, "")
          /\ Is(n+13, 5, "add", "history_settings", "full_enabled")
          /\ Is(n+14, 5, "modes", "", "")
          /\ Is(n+15, 5, "version", 5, "")
          /\ Is(n+16, 6, "create", "sync_baseline", "")
          /\ Is(n+17, 6, "create", "sync_state", "")
          /\ Is(n+18, 6, "version", 6, "")
          /\ Is(n+19, Always, "count", "", "")
      BY DesktopShape
    <3> QED BY <3>1, Zenon DEF Is
  <2>3. CASE i = n+10
    <3>1. Script[i].op = "create" /\ Script[i].column = ""
      BY <2>1, <2>2, <2>3, Zenon
    <3> QED BY <2>3, <3>1
  <2>4. CASE i = n+11
    <3>1. Script[i].op = "version" /\ Script[i].column = ""
      BY <2>1, <2>2, <2>4, Zenon
    <3> QED BY <2>4, <3>1
  <2>5. CASE i = n+12
    <3>1. Script[i].op = "add"
      BY <2>1, <2>2, <2>5, Zenon
    <3> QED BY <2>5, <3>1
  <2>6. CASE i = n+13
    <3>1. Script[i].op = "add" /\ Script[i].column = "full_enabled"
      BY <2>1, <2>2, <2>6, Zenon
    <3> QED BY <2>6, <3>1
  <2>7. CASE i = n+14
    <3>1. Script[i].op = "modes" /\ Script[i].column = ""
      BY <2>1, <2>2, <2>7, Zenon
    <3> QED BY <2>7, <3>1
  <2>8. CASE i = n+15
    <3>1. Script[i].op = "version" /\ Script[i].column = ""
      BY <2>1, <2>2, <2>8, Zenon
    <3> QED BY <2>8, <3>1
  <2>9. CASE i = n+16
    <3>1. Script[i].op = "create" /\ Script[i].column = ""
      BY <2>1, <2>2, <2>9, Zenon
    <3> QED BY <2>9, <3>1
  <2>10. CASE i = n+17
    <3>1. Script[i].op = "create" /\ Script[i].column = ""
      BY <2>1, <2>2, <2>10, Zenon
    <3> QED BY <2>10, <3>1
  <2>11. CASE i = n+18
    <3>1. Script[i].op = "version" /\ Script[i].column = ""
      BY <2>1, <2>2, <2>11, Zenon
    <3> QED BY <2>11, <3>1
  <2>12. CASE i = n+19
    <3>1. Script[i].op = "count" /\ Script[i].column = ""
      BY <2>1, <2>2, <2>12, Zenon
    <3> QED BY <2>12, <3>1
  <2> QED BY <1>5, <2>3, <2>4, <2>5, <2>6, <2>7, <2>8, <2>9, <2>10, <2>11, <2>12
<1>6. CASE i \in n+20..n+19+n
  <2>1. Script[i].op = "insert" /\ Script[i].on = Seeds[i-n-19] /\ Script[i].column = ""
    <3>1. Is(i, Always, "insert", Seeds[i-n-19], "")
      BY <1>6, DesktopShape
    <3> QED BY <3>1, Zenon DEF Is
  <2>2. i-n-19 \in 1..n
    BY <1>1, <1>6
  <2>3. Seeds[i-n-19] \in Emulators
    BY <2>2, SeedsAssumption
  <2> QED BY <2>1, <2>3
<1> QED BY <1>1, <1>2, <1>3, <1>4, <1>5, <1>6, DesktopCases, Zenon

\* The desktop's script has the discipline.
LEMMA DesktopInOrder ==
    ASSUME Script = DesktopScript, Latest = 6
    PROVE  ScriptInOrder
<1>0. PICK n : n = Len(Seeds)
  OBVIOUS
<1>1. n \in Nat /\ DOMAIN Script = 1..n+19+n /\ Always = 7
  <2>1. n \in Nat /\ DOMAIN Script = 1..n+19+n
    BY <1>0, DesktopShape
  <2> QED BY <2>1 DEF Always
<1>2. /\ Script[1].below = Always /\ Script[3].below = 1
      /\ Script[n+5].below = 2 /\ Script[n+7].below = 3 /\ Script[n+8].below = 3
      /\ Script[n+10].below = 4 /\ Script[n+12].below = 5 /\ Script[n+13].below = 5
      /\ Script[n+16].below = 6 /\ Script[n+17].below = 6
  <2>1. /\ Is(1, Always, "create", "emulators", "")
        /\ Is(3, 1, "add", "emulators", "process_name")
        /\ Is(n+5, 2, "create", "settings", "")
        /\ Is(n+7, 3, "add", "emulators", "dest_kind")
        /\ Is(n+8, 3, "add", "emulators", "dest_remote")
        /\ Is(n+10, 4, "create", "history_settings", "")
        /\ Is(n+12, 5, "add", "history_settings", "incremental_enabled")
        /\ Is(n+13, 5, "add", "history_settings", "full_enabled")
        /\ Is(n+16, 6, "create", "sync_baseline", "")
        /\ Is(n+17, 6, "create", "sync_state", "")
    BY <1>0, DesktopShape
  <2> QED BY <2>1, Zenon DEF Is
<1>3. /\ Script[4].on = 1 /\ Script[n+6].on = 2 /\ Script[n+9].on = 3 /\ Script[n+11].on = 4
      /\ Script[n+15].on = 5 /\ Script[n+18].on = 6
  <2>1. /\ Is(4, 1, "version", 1, "")
        /\ Is(n+6, 2, "version", 2, "")
        /\ Is(n+9, 3, "version", 3, "")
        /\ Is(n+11, 4, "version", 4, "")
        /\ Is(n+15, 5, "version", 5, "")
        /\ Is(n+18, 6, "version", 6, "")
    BY <1>0, DesktopShape
  <2> QED BY <2>1, Zenon DEF Is
<1>4. \A j \in DOMAIN Script : Makes(Script[j]) =>
          \/ j = 1 \/ j = 3 \/ j = n+5 \/ j = n+7 \/ j = n+8 \/ j = n+10
          \/ j = n+12 \/ j = n+13 \/ j = n+16 \/ j = n+17
  BY <1>0, DesktopKinds, Zenon DEF Makes
<1>5. ASSUME NEW i \in DOMAIN Script, Script[i].op = "version"
      PROVE  /\ Script[i].on \in 0..Latest
             /\ \A j \in DOMAIN Script : Makes(Script[j]) /\ RunBy(Script[i].on, Script[j]) => j < i
  <2>1. i = 4 \/ i = n+6 \/ i = n+9 \/ i = n+11 \/ i = n+15 \/ i = n+18
    BY <1>0, <1>5, DesktopKinds, Zenon
  <2>2. Script[i].on \in 0..Latest
    BY <1>3, <2>1
  <2>3. ASSUME NEW j \in DOMAIN Script, Makes(Script[j]), Script[j].below <= Script[i].on \/ Script[j].below = Always
        PROVE  j < i
    <3>0. PICK b, o : b = Script[j].below /\ o = Script[i].on
      OBVIOUS
    <3>1. \/ j = 1 \/ j = 3 \/ j = n+5 \/ j = n+7 \/ j = n+8 \/ j = n+10
          \/ j = n+12 \/ j = n+13 \/ j = n+16 \/ j = n+17
      <4>1. Makes(Script[j])
        BY <2>3
      <4> QED BY <1>4, <4>1, Zenon
    <3>2. \/ (j = 1 /\ b = 7) \/ (j = 3 /\ b = 1) \/ (j = n+5 /\ b = 2) \/ (j \in {n+7, n+8} /\ b = 3)
          \/ (j = n+10 /\ b = 4) \/ (j \in {n+12, n+13} /\ b = 5) \/ (j \in {n+16, n+17} /\ b = 6)
      BY <1>1, <1>2, <3>0, <3>1
    <3>3. \/ (i = 4 /\ o = 1) \/ (i = n+6 /\ o = 2) \/ (i = n+9 /\ o = 3) \/ (i = n+11 /\ o = 4)
          \/ (i = n+15 /\ o = 5) \/ (i = n+18 /\ o = 6)
      BY <1>3, <2>1, <3>0
    <3>4. b <= o \/ b = 7
      BY <1>1, <2>3, <3>0
    <3>5. n \in Nat
      BY <1>1
    <3> QED BY <3>2, <3>3, <3>4, <3>5
  <2> QED BY <2>2, <2>3 DEF RunBy
<1>6. ASSUME NEW i \in DOMAIN Script, Script[i].op = "add"
      PROVE  /\ Script[i].below # Always
             /\ \E j \in 1..i-1 : /\ Script[j].op = "create" /\ Script[j].on = Script[i].on
                                  /\ RunBy(Script[i].below, Script[j])
  <2>1. i = 3 \/ i = n+7 \/ i = n+8 \/ i = n+12 \/ i = n+13
    BY <1>0, <1>6, DesktopKinds, Zenon
  <2>2. CASE i \in {3, n+7, n+8}
    <3>1. Script[i].on = "emulators" /\ Script[1].op = "create" /\ Script[1].on = "emulators"
      <4>1. /\ Script[3].on = "emulators" /\ Script[n+7].on = "emulators" /\ Script[n+8].on = "emulators"
            /\ Script[1].op = "create" /\ Script[1].on = "emulators"
        <5>1. /\ Is(3, 1, "add", "emulators", "process_name")
              /\ Is(n+7, 3, "add", "emulators", "dest_kind")
              /\ Is(n+8, 3, "add", "emulators", "dest_remote")
              /\ Is(1, Always, "create", "emulators", "")
          BY <1>0, DesktopShape
        <5> QED BY <5>1, Zenon DEF Is
      <4> QED BY <2>2, <4>1
    <3>2. 1 \in 1..i-1 /\ Script[i].below \in {1, 3}
      BY <1>1, <1>2, <2>2
    <3>3. RunBy(Script[i].below, Script[1])
      BY <1>2 DEF RunBy
    <3> QED BY <1>1, <3>1, <3>2, <3>3
  <2>3. CASE i \in {n+12, n+13}
    <3>1. Script[i].on = "history_settings" /\ Script[n+10].op = "create" /\ Script[n+10].on = "history_settings"
      <4>1. /\ Script[n+12].on = "history_settings" /\ Script[n+13].on = "history_settings"
            /\ Script[n+10].op = "create" /\ Script[n+10].on = "history_settings"
        <5>1. /\ Is(n+12, 5, "add", "history_settings", "incremental_enabled")
              /\ Is(n+13, 5, "add", "history_settings", "full_enabled")
              /\ Is(n+10, 4, "create", "history_settings", "")
          BY <1>0, DesktopShape
        <5> QED BY <5>1, Zenon DEF Is
      <4> QED BY <2>3, <4>1
    <3>2. n+10 \in 1..i-1 /\ Script[i].below = 5
      BY <1>1, <1>2, <2>3
    <3>3. RunBy(Script[i].below, Script[n+10])
      BY <1>2, <3>2 DEF RunBy
    <3> QED BY <1>1, <3>1, <3>2, <3>3
  <2> QED BY <2>1, <2>2, <2>3
<1>7. ASSUME NEW i \in DOMAIN Script, Script[i].op = "read"
      PROVE  \A j \in 1..i-1 : Script[j].below = Always
  <2>1. i = 2
    BY <1>0, <1>7, DesktopKinds, Zenon
  <2> QED BY <1>2, <2>1
<1>8. \A i \in DOMAIN Script : Script[i].op = "insert" => Script[i].on \in Emulators
  BY <1>0, DesktopKinds, Zenon
<1> QED BY <1>5, <1>6, <1>7, <1>8, Zenon DEF ScriptInOrder

\* The step to v5 in the desktop's script: the column, its translation, its
\* stamp.
LEMMA DesktopChoices ==
    ASSUME Script = DesktopScript, Latest = 6
    PROVE  \E a, m, s : ChoicesInOrder(a, m, s)
<1>0. PICK n : n = Len(Seeds)
  OBVIOUS
<1>1. n \in Nat /\ DOMAIN Script = 1..n+19+n
  BY <1>0, DesktopShape
<1>2. /\ Script[n+12] = UpToV6[3] /\ Script[n+14] = UpToV6[5] /\ Script[n+15] = UpToV6[6]
  <2>1. \A i \in 1..9 : Script[n+9+i] = UpToV6[i]
    BY <1>0, DesktopStatements, Zenon
  <2>2. Script[n+9+3] = UpToV6[3] /\ Script[n+9+5] = UpToV6[5] /\ Script[n+9+6] = UpToV6[6]
    <3>1. 3 \in 1..9 /\ 5 \in 1..9 /\ 6 \in 1..9
      OBVIOUS
    <3> QED BY <2>1, <3>1, Zenon
  <2>3. n+9+3 = n+12 /\ n+9+5 = n+14 /\ n+9+6 = n+15
    BY <1>1
  <2> QED BY <2>2, <2>3, Zenon
<1>3. /\ UpToV6[3] = AddColumn(5, "history_settings", "incremental_enabled")
      /\ UpToV6[5] = Statement(5, "modes", "", "")
      /\ UpToV6[6] = SetVersion(5, 5)
  BY DEF UpToV6
<1>4. /\ Script[4].on = 1 /\ Script[n+6].on = 2 /\ Script[n+9].on = 3 /\ Script[n+11].on = 4
  <2>1. /\ Is(4, 1, "version", 1, "")
        /\ Is(n+6, 2, "version", 2, "")
        /\ Is(n+9, 3, "version", 3, "")
        /\ Is(n+11, 4, "version", 4, "")
    BY <1>0, DesktopShape
  <2> QED BY <2>1, Zenon DEF Is
<1>5. ASSUME NEW i \in DOMAIN Script, Script[i].op = "version", Script[i].on >= 5
      PROVE  i >= n+15
  <2>1. i = 4 \/ i = n+6 \/ i = n+9 \/ i = n+11 \/ i = n+15 \/ i = n+18
    BY <1>0, <1>5, DesktopKinds, Zenon
  <2>2. i = n+15 \/ i = n+18
    BY <1>4, <1>5, <2>1
  <2> QED BY <1>1, <2>2
<1>6. ASSUME NEW i \in DOMAIN Script
      PROVE  /\ Script[i].column = "incremental_enabled" => i = n+12
             /\ Script[i].op = "modes" => i = n+14
             /\ Script[i].op = "read" => i < n+12
             /\ Script[i].op = "count" => i > n+15
  <2>1. /\ Script[i].column = "incremental_enabled" => i = n+12
        /\ Script[i].op = "modes" => i = n+14
        /\ Script[i].op = "read" => i = 2
        /\ Script[i].op = "count" => i = n+19
    BY <1>0, DesktopKinds, Zenon
  <2> QED BY <1>1, <2>1
<1>7. /\ {n+12, n+14, n+15} \subseteq DOMAIN Script /\ n+12 < n+14 /\ n+14 < n+15
  BY <1>1
<1>8. ChoicesInOrder(n+12, n+14, n+15)
  BY <1>2, <1>3, <1>5, <1>6, <1>7, Zenon DEF ChoicesInOrder
<1> QED BY <1>8, Zenon

\* A script whose versions end before v5, or whose step to v5 is in order.
LEMMA EarnsItsVersion ==
    ASSUME ScriptInOrder, Latest < 5 \/ \E a, m, s : ChoicesInOrder(a, m, s)
    PROVE  MigrationsSpec => [](MigrationsTypeOK /\ VersionIsEarned)
<1>1. MigrationsInit => SchemaInvariant
  BY SchemaBegins
<1>2. SchemaInvariant /\ [MigrationsNext]_databaseVars => SchemaInvariant'
  BY SchemaKept
<1>3. SchemaInvariant => MigrationsTypeOK /\ ColumnsThere
  BY PromisesKept DEF SchemaInvariant
<1>4. CASE Latest < 5
  <2>1. SchemaInvariant => ChoicesKept
    <3>1. MigrationsTypeOK => version \in 0..Latest
      BY Zenon DEF MigrationsTypeOK
    <3>2. SchemaInvariant => version \in 0..Latest
      BY <3>1, Zenon DEF SchemaInvariant
    <3> QED BY <1>4, <3>2, ScriptIs DEF ChoicesKept
  <2>2. SchemaInvariant => MigrationsTypeOK /\ VersionIsEarned
    BY <1>3, <2>1 DEF VersionIsEarned
  <2> QED BY <1>1, <1>2, <2>2, PTL DEF MigrationsSpec
<1>5. CASE \E a, m, s : ChoicesInOrder(a, m, s)
  <2>1. PICK a, m, s : ChoicesInOrder(a, m, s)
    BY <1>5
  <2>2. MigrationsInit => ChoicesInvariant(a, m, s)
    BY <1>1, <2>1, ChoicesBegin
  <2>3. SchemaInvariant /\ SchemaInvariant' /\ ChoicesInvariant(a, m, s) /\ [MigrationsNext]_databaseVars
            => ChoicesInvariant(a, m, s)'
    BY <2>1, ChoicesStep
  <2>4. ChoicesInvariant(a, m, s) => ChoicesKept
    BY DEF ChoicesInvariant, Settled, ChoicesKept
  <2>5. SchemaInvariant /\ ChoicesInvariant(a, m, s) => MigrationsTypeOK /\ VersionIsEarned
    BY <1>3, <2>4 DEF VersionIsEarned
  <2> QED BY <1>1, <1>2, <2>2, <2>3, <2>5, PTL DEF MigrationsSpec
<1> QED BY <1>4, <1>5

\* The desktop's database, for any emulators, any number of programs that open
\* the file at once and any number of boots killed: its version promises no
\* table, column or translation that is not there, and its types are right.
THEOREM DesktopVersionIsEarned ==
    ASSUME Script = DesktopScript, Latest = 6
    PROVE  MigrationsSpec => [](MigrationsTypeOK /\ VersionIsEarned)
<1>1. ScriptInOrder /\ \E a, m, s : ChoicesInOrder(a, m, s)
  BY DesktopInOrder, DesktopChoices
<1> QED BY <1>1, EarnsItsVersion

\* The same of the server's, which stamps its version once, at the end.
THEOREM ServerVersionIsEarned ==
    ASSUME Script = ServerScript, Latest = 4
    PROVE  MigrationsSpec => [](MigrationsTypeOK /\ VersionIsEarned)
<1>1. ScriptInOrder
  BY ServerInOrder
<1> QED BY <1>1, EarnsItsVersion

-----------------------------------------------------------------------------
(***************************************************************************)
(* What a cycle with a server leaves behind, for any folders, servers and  *)
(* numbers of commits.  First compute_plan is retold by what happened to a *)
(* path on either side (Planned); then each path is followed through the   *)
(* renames, the commit and the downloads (Meeting), so that folder,        *)
(* baseline and index end alike; and between two cycles the three keep     *)
(* what the next cycle needs (Sound).                                      *)
(***************************************************************************)

\* The folder is never changed for another and never missing, the device stays
\* with its server, and a save is never dated as the baseline has the file: a
\* missing folder is a folder emptied (MissingFolder.cfg), and a save so dated is
\* not seen by scan_tree.
Undisturbed == ~ MayMove /\ ~ MayUnmount /\ ~ MayRehome /\ ~ MaySameStat

\* The folder and the server of the device.
Here  == folders[source_path]
There == servers[server]

\* A file dated as in the baseline is the baseline's.
Trusted(tree, files) ==
    \A p \in DOMAIN tree \cap DOMAIN files :
        tree[p].mtime = files[p].mtime => tree[p].hash = files[p].hash

\* What the server has not changed since revision r is as in the baseline.
Agrees(files, index, r) ==
    /\ DOMAIN files \subseteq DOMAIN index
    /\ \A p \in DOMAIN index : index[p].rev <= r =>
           /\ ~ index[p].deleted <=> p \in DOMAIN files
           /\ ~ index[p].deleted => index[p].hash = files[p].hash

\* A preserved loser is on both sides, and nobody touches it.
LosersRest(tree, files, index, r) ==
    \A q \in DOMAIN tree \cup DOMAIN files \cup DOMAIN index : IsMarker(q) =>
        /\ q \in DOMAIN tree /\ q \in DOMAIN files /\ q \in DOMAIN index
        /\ index[q].rev <= r /\ ~ index[q].deleted
        /\ tree[q].hash = files[q].hash

Finite(tree, files, index) ==
    /\ IsFiniteSet(DOMAIN tree) /\ IsFiniteSet(DOMAIN files) /\ IsFiniteSet(DOMAIN index)

\* The three sides of a device, at the revision it knows.
Sound(tree, files, index, r) ==
    /\ Finite(tree, files, index)
    /\ Trusted(tree, files)
    /\ Agrees(files, index, r)
    /\ LosersRest(tree, files, index, r)

\* A function, whatever its values.
IsTree(tree) == tree = [p \in DOMAIN tree |-> tree[p]]

\* Folders hold trees, servers a head, an index and this device's revision.
FolderShape ==
    /\ folders = [f \in Folders |-> folders[f]]
    /\ \A f \in Folders : IsTree(folders[f])
    /\ servers = [s \in Servers |-> servers[s]]
    /\ \A s \in Servers : /\ servers[s] = [head |-> servers[s].head, index |-> servers[s].index,
                                            mine |-> servers[s].mine]
                          /\ servers[s].head \in Nat /\ servers[s].mine \in Nat

\* The three sides fit together at the revision the device knows, and what the
\* baseline has and the folder does not is what the user deleted.
FolderInvariant ==
    /\ FolderShape
    /\ FolderTypeOK
    /\ mounted = Folders
    /\ There.mine = baseline.last_rev
    /\ Sound(Here, baseline.files, There.index, baseline.last_rev)
    /\ DOMAIN baseline.files \ DOMAIN Here \subseteq removed
    /\ SyncedMeansEqual

\* What a device reports.
LEMMA ReportIs ==
    ASSUME NEW tree, NEW files, NEW local, local = LocalChanges(files, tree)
    PROVE  /\ DOMAIN local = Puts(local) \cup Deletes(local)
           /\ Puts(local) \subseteq DOMAIN tree /\ Deletes(local) = DOMAIN files \ DOMAIN tree
           /\ \A p \in Puts(local) : local[p].hash = tree[p].hash
           /\ \A p \in DOMAIN tree \ Puts(local) : p \in DOMAIN files /\ files[p].hash = tree[p].hash
<1> DEFINE put  == {p \in DOMAIN tree : p \notin DOMAIN files \/ files[p].hash # tree[p].hash}
           gone == DOMAIN files \ DOMAIN tree
<1>1. local = [p \in put \cup gone |->
                  IF p \in put THEN [op |-> "put", hash |-> tree[p].hash, mtime |-> tree[p].mtime]
                  ELSE [op |-> "delete"]]
  BY DEF LocalChanges
<1>2. put \cap gone = {}
  OBVIOUS
<1> HIDE DEF put, gone
<1>3. DOMAIN local = put \cup gone
  BY <1>1
<1>4. \A p \in put : local[p].op = "put" /\ local[p].hash = tree[p].hash
  BY <1>1
<1>5. \A p \in gone : local[p].op = "delete"
  BY <1>1, <1>2
<1>6. Puts(local) = put /\ Deletes(local) = gone
  BY <1>3, <1>4, <1>5 DEF Puts, Deletes
<1> QED BY <1>3, <1>4, <1>6 DEF put, gone

\* The state of folder, baseline and index before a cycle, whatever was done
\* since the last one.
Ready(tree, files, index, r) ==
    /\ DOMAIN tree \subseteq Path /\ DOMAIN files \subseteq Path /\ DOMAIN index \subseteq Path
    /\ Finite(tree, files, index)
    /\ r \in Nat /\ \A p \in DOMAIN index : index[p].rev \in Nat
    /\ Agrees(files, index, r)
    /\ LosersRest(tree, files, index, r)

\* The name of a loser is free everywhere.
LEMMA NamesAreFree ==
    ASSUME NEW tree, NEW files, NEW index, NEW r, Ready(tree, files, index, r),
           NEW local, local = LocalChanges(files, tree),
           NEW remote, remote = ChangesSince(index, r)
    PROVE  /\ IsFiniteSet(LiveOf(index)) /\ DOMAIN local \subseteq Path /\ IsFiniteSet(DOMAIN local)
           /\ FreshLosers(local, remote, LiveOf(index))
           /\ \A p \in Clashes(local, remote) :
                  LET q == NextConflictPath(p, LiveOf(index))
                  IN  /\ q \notin DOMAIN tree /\ q \notin DOMAIN files /\ q \notin DOMAIN index
                      /\ q \in Path /\ Parent(q) = p
<1>1. /\ DOMAIN tree \subseteq Path /\ DOMAIN files \subseteq Path
      /\ IsFiniteSet(DOMAIN tree) /\ IsFiniteSet(DOMAIN files) /\ IsFiniteSet(DOMAIN index)
  BY DEF Ready, Finite
<1>2. IsFiniteSet(LiveOf(index))
  <2>1. LiveOf(index) \subseteq DOMAIN index
    BY DEF LiveOf
  <2> QED BY <1>1, <2>1, FS_Subset
<1>3. DOMAIN local \subseteq DOMAIN tree \cup DOMAIN files
  <2>1. /\ DOMAIN local = Puts(local) \cup Deletes(local)
        /\ Puts(local) \subseteq DOMAIN tree /\ Deletes(local) = DOMAIN files \ DOMAIN tree
    BY ReportIs
  <2> QED BY <2>1
<1>4. DOMAIN local \subseteq Path /\ IsFiniteSet(DOMAIN local)
  <2>1. IsFiniteSet(DOMAIN tree \cup DOMAIN files)
    BY <1>1, FS_Union
  <2> QED BY <1>1, <1>3, <2>1, FS_Subset
<1>5. DOMAIN remote \subseteq DOMAIN index
  BY DEF ChangesSince
<1>6. ASSUME NEW p \in Clashes(local, remote), NEW q, q = NextConflictPath(p, LiveOf(index))
      PROVE  /\ q \notin DOMAIN tree /\ q \notin DOMAIN files /\ q \notin DOMAIN index
             /\ q \in Path /\ Parent(q) = p
  <2>1. p \in Path
    BY <1>4 DEF Clashes, Puts
  <2>2. q \notin LiveOf(index) /\ IsMarker(q) /\ q \in Path /\ Parent(q) = p
    BY <1>2, <1>6, <2>1, NextConflictPathFresh, LoserParent
  <2>3. q \notin DOMAIN tree \cup DOMAIN files \cup DOMAIN index
    <3>1. LosersRest(tree, files, index, r)
      BY DEF Ready
    <3> QED BY <2>2, <3>1 DEF LosersRest, LiveOf
  <2> QED BY <2>2, <2>3
<1>7. FreshLosers(local, remote, LiveOf(index))
  BY <1>3, <1>5, <1>6 DEF FreshLosers
<1> QED BY <1>2, <1>4, <1>6, <1>7

\* The name a conflict about p gives.
LoserOf(p, index) == NextConflictPath(p, LiveOf(index))

\* What a plan asks for, by what happened on the two sides: the paths the device
\* wrote and removed, those edited and deleted on the server, and the conflicts
\* won by the one and by the other.
Changed(tree, files, index, r, puts, gone, edited, buried) ==
    /\ puts \subseteq DOMAIN tree /\ gone = DOMAIN files \ DOMAIN tree
    /\ \A p \in DOMAIN tree \ puts : p \in DOMAIN files /\ files[p].hash = tree[p].hash
    /\ \A p \in DOMAIN index : index[p].rev > r <=> p \in edited \cup buried
    /\ edited \subseteq LiveOf(index) /\ buried \subseteq DOMAIN index \ LiveOf(index)

\* A clash has a winner unless both sides wrote the same, and gives a new name.
Conflicting(tree, files, index, puts, edited, byClient, byServer) ==
    /\ byClient \subseteq puts \cap edited /\ byServer \subseteq puts \cap edited
    /\ byClient \cap byServer = {}
    /\ \A p \in (puts \cap edited) \ (byClient \cup byServer) : tree[p].hash = index[p].hash
    /\ \A p \in byClient \cup byServer :
           /\ LoserOf(p, index) \in Path /\ Parent(LoserOf(p, index)) = p
           /\ LoserOf(p, index) \notin DOMAIN tree
           /\ LoserOf(p, index) \notin DOMAIN files
           /\ LoserOf(p, index) \notin DOMAIN index

\* The paths of the plan's lists.
Asked(index, plan, puts, gone, edited, buried, byClient, byServer) ==
    /\ UploadPaths(plan) = (puts \ edited) \cup byClient \cup {LoserOf(p, index) : p \in byServer}
    /\ DownloadPaths(plan) = (edited \ puts) \cup byServer \cup {LoserOf(p, index) : p \in byClient}
    /\ plan.delete_local = buried \ (puts \cup gone)
    /\ plan.server_delete = gone \ (edited \cup buried)

\* Their items.
ListsHold(index, plan, puts, edited, byClient, byServer) ==
    /\ \A p \in byClient : [from |-> p, to |-> LoserOf(p, index)] \in plan.server_rename
    /\ \A n \in plan.server_rename : n.from \in byClient /\ n.to = LoserOf(n.from, index)
    /\ \A p \in byServer :
           \E c \in Losers(plan) : c.path = p /\ c.loser_path = LoserOf(p, index)
    /\ \A c \in Losers(plan) : c.path \in byServer /\ c.loser_path = LoserOf(c.path, index)
    /\ \A i \in plan.download :
           \/ /\ i.path \in (edited \ puts) \cup byServer
              /\ i.hash = index[i.path].hash /\ i.mtime = index[i.path].mtime
           \/ \E p \in byClient : /\ i.path = LoserOf(p, index)
                                  /\ i.hash = index[p].hash /\ i.mtime = index[p].mtime

Planned(tree, files, index, r, plan, puts, gone, edited, buried, byClient, byServer) ==
    /\ Changed(tree, files, index, r, puts, gone, edited, buried)
    /\ Conflicting(tree, files, index, puts, edited, byClient, byServer)
    /\ Asked(index, plan, puts, gone, edited, buried, byClient, byServer)
    /\ ListsHold(index, plan, puts, edited, byClient, byServer)

\* compute_plan, so told.
LEMMA PlanTold ==
    ASSUME NEW tree, NEW files, NEW index, NEW r, Ready(tree, files, index, r),
           NEW plan,
           plan = ComputePlan(LocalChanges(files, tree), ChangesSince(index, r), LiveOf(index))
    PROVE  \E puts, gone, edited, buried, byClient, byServer :
               Planned(tree, files, index, r, plan, puts, gone, edited, buried, byClient, byServer)
<1>1. PICK local, remote, taken :
          local = LocalChanges(files, tree) /\ remote = ChangesSince(index, r) /\ taken = LiveOf(index)
  OBVIOUS
<1>2. plan = ComputePlan(local, remote, taken)
  BY <1>1
<1>3. PICK puts, gone, edited, buried, byClient, byServer :
          /\ puts = Puts(local) /\ gone = Deletes(local)
          /\ edited = Edited(remote) /\ buried = Buried(remote)
          /\ byClient = ClientWins(local, remote) /\ byServer = ServerWins(local, remote)
  OBVIOUS
<1>4. /\ DOMAIN local = puts \cup gone
      /\ puts \subseteq DOMAIN tree /\ gone = DOMAIN files \ DOMAIN tree
      /\ \A p \in puts : local[p].hash = tree[p].hash
      /\ \A p \in DOMAIN tree \ puts : p \in DOMAIN files /\ files[p].hash = tree[p].hash
  <2>1. /\ DOMAIN local = Puts(local) \cup Deletes(local)
        /\ Puts(local) \subseteq DOMAIN tree /\ Deletes(local) = DOMAIN files \ DOMAIN tree
    BY <1>1, ReportIs
  <2>2. ASSUME NEW p \in Puts(local)
        PROVE  local[p].hash = tree[p].hash
    BY <1>1, <2>2 DEF LocalChanges, Puts
  <2>3. \A p \in DOMAIN tree \ Puts(local) : p \in DOMAIN files /\ files[p].hash = tree[p].hash
    BY <1>1, ReportIs
  <2> QED BY <1>3, <2>1, <2>2, <2>3
<1>5. /\ DOMAIN remote = {p \in DOMAIN index : index[p].rev > r}
      /\ \A p \in DOMAIN remote : remote[p] = index[p]
      /\ edited = DOMAIN remote \cap taken
      /\ buried = DOMAIN remote \ taken
  BY <1>1, <1>3 DEF ChangesSince, Edited, Buried, LiveOf
<1>6. Changed(tree, files, index, r, puts, gone, edited, buried)
  <2>1. \A p \in DOMAIN index : index[p].rev > r <=> p \in edited \cup buried
    BY <1>5
  <2>2. edited \subseteq LiveOf(index) /\ buried \subseteq DOMAIN index \ LiveOf(index)
    BY <1>1, <1>5
  <2> QED BY <1>4, <2>1, <2>2 DEF Changed
<1>7. Conflicting(tree, files, index, puts, edited, byClient, byServer)
  <2>1. byClient \cup byServer = Clashes(local, remote) /\ byClient \cap byServer = {}
    BY <1>3 DEF ClientWins, ServerWins
  <2>2. Clashes(local, remote) = {p \in puts \cap edited : local[p].hash # remote[p].hash}
    BY <1>3 DEF Clashes
  <2>3. \A p \in (puts \cap edited) \ (byClient \cup byServer) : tree[p].hash = index[p].hash
    BY <1>4, <1>5, <2>1, <2>2
  <2>4. \A p \in byClient \cup byServer :
            /\ LoserOf(p, index) \in Path /\ Parent(LoserOf(p, index)) = p
            /\ LoserOf(p, index) \notin DOMAIN tree
            /\ LoserOf(p, index) \notin DOMAIN files
            /\ LoserOf(p, index) \notin DOMAIN index
    BY <1>1, <2>1, NamesAreFree DEF LoserOf
  <2> QED BY <2>1, <2>2, <2>3, <2>4 DEF Conflicting
<1>8. Asked(index, plan, puts, gone, edited, buried, byClient, byServer)
  <2>1. /\ UploadPaths(plan) =
               (Puts(local) \ Edited(remote)) \cup ClientWins(local, remote)
               \cup {NextConflictPath(p, taken) : p \in ServerWins(local, remote)}
        /\ DownloadPaths(plan) =
               (Edited(remote) \ Puts(local)) \cup ServerWins(local, remote)
               \cup {NextConflictPath(p, taken) : p \in ClientWins(local, remote)}
        /\ plan.delete_local = Buried(remote) \ DOMAIN local
        /\ plan.server_delete = Deletes(local) \ DOMAIN remote
    BY <1>2, PlanLists
  <2>2. DOMAIN remote = edited \cup buried
    BY <1>5
  <2>3. /\ UploadPaths(plan) = (puts \ edited) \cup byClient \cup {LoserOf(p, index) : p \in byServer}
        /\ DownloadPaths(plan) = (edited \ puts) \cup byServer \cup {LoserOf(p, index) : p \in byClient}
    BY <1>1, <1>3, <2>1 DEF LoserOf
  <2>4. /\ plan.delete_local = buried \ (puts \cup gone)
        /\ plan.server_delete = gone \ (edited \cup buried)
    BY <1>3, <1>4, <2>1, <2>2, Zenon
  <2> QED BY <2>3, <2>4 DEF Asked
<1>9. ListsHold(index, plan, puts, edited, byClient, byServer)
  <2>1. /\ \A p \in byClient : [from |-> p, to |-> LoserOf(p, index)] \in plan.server_rename
        /\ \A n \in plan.server_rename : n.from \in byClient /\ n.to = LoserOf(n.from, index)
    BY <1>1, <1>2, <1>3, PlanLists DEF LoserOf
  <2>2. \A p \in byServer :
            \E c \in plan.conflicts : c.path = p /\ c.winner = "server" /\ c.loser_path = LoserOf(p, index)
    BY <1>1, <1>2, <1>3, PlanLists DEF LoserOf
  <2>3. \A c \in plan.conflicts :
            /\ c.loser_path = LoserOf(c.path, index)
            /\ \/ c.winner = "server" /\ c.path \in byServer
               \/ c.winner = "client" /\ c.path \in byClient
    BY <1>1, <1>2, <1>3, PlanLists DEF LoserOf
  <2>4. \A i \in plan.download :
            \/ /\ i.path \in (edited \ puts) \cup byServer
               /\ i = DownloadItem(i.path, remote[i.path].hash, remote[i.path].mtime)
            \/ \E p \in byClient :
                   i = DownloadItem(LoserOf(p, index), remote[p].hash, remote[p].mtime)
    BY <1>1, <1>2, <1>3, PlanLists DEF LoserOf
  <2>5. /\ (edited \ puts) \cup byServer \subseteq DOMAIN remote /\ byClient \subseteq DOMAIN remote
    BY <1>5, <1>7 DEF Conflicting
  <2>6. ASSUME NEW i \in plan.download
        PROVE  \/ /\ i.path \in (edited \ puts) \cup byServer
                  /\ i.hash = index[i.path].hash /\ i.mtime = index[i.path].mtime
               \/ \E p \in byClient : /\ i.path = LoserOf(p, index)
                                      /\ i.hash = index[p].hash /\ i.mtime = index[p].mtime
    <3>1. \A p, h, m : /\ DownloadItem(p, h, m).path = p /\ DownloadItem(p, h, m).hash = h
                       /\ DownloadItem(p, h, m).mtime = m
      BY DEF DownloadItem
    <3> QED BY <1>5, <2>4, <2>5, <3>1
  <2>7. /\ \A p \in byServer :
               \E c \in Losers(plan) : c.path = p /\ c.loser_path = LoserOf(p, index)
        /\ \A c \in Losers(plan) : c.path \in byServer /\ c.loser_path = LoserOf(c.path, index)
    BY <2>2, <2>3 DEF Losers
  <2> QED BY <2>1, <2>6, <2>7 DEF ListsHold
<1> QED BY <1>6, <1>7, <1>8, <1>9 DEF Planned

\* The losers the device holds, under their new names.
RenamedTo(tree, index, byServer, staged) ==
    /\ DOMAIN staged = (DOMAIN tree \ byServer) \cup {LoserOf(p, index) : p \in byServer}
    /\ \A p \in byServer : staged[LoserOf(p, index)] = tree[p]
    /\ \A p \in DOMAIN tree \ byServer : staged[p] = tree[p]

\* rename_local does that.
LEMMA RenamedAre ==
    ASSUME NEW tree, NEW index, NEW plan, NEW puts, NEW edited, NEW byClient, NEW byServer,
           NEW files, Conflicting(tree, files, index, puts, edited, byClient, byServer),
           ListsHold(index, plan, puts, edited, byClient, byServer),
           puts \subseteq DOMAIN tree,
           NEW staged, staged = Renamed(tree, plan)
    PROVE  RenamedTo(tree, index, byServer, staged)
<1> DEFINE holder(q) == CHOOSE c \in Losers(plan) : c.loser_path = q
           kept == DOMAIN tree \ {c.path : c \in Losers(plan)}
           losers == {c.loser_path : c \in {x \in Losers(plan) : x.path \in DOMAIN tree}}
<1>1. staged = [q \in kept \cup losers |-> IF q \in losers THEN tree[holder(q).path] ELSE tree[q]]
  BY DEF Renamed
<1>2. /\ \A p \in byServer :
             \E c \in Losers(plan) : c.path = p /\ c.loser_path = LoserOf(p, index)
      /\ \A c \in Losers(plan) : c.path \in byServer /\ c.loser_path = LoserOf(c.path, index)
  BY DEF ListsHold
<1>3. /\ byServer \subseteq DOMAIN tree
      /\ \A p \in byServer : Parent(LoserOf(p, index)) = p /\ LoserOf(p, index) \notin DOMAIN tree
  BY DEF Conflicting
<1>4. kept = DOMAIN tree \ byServer
  BY <1>2
<1>5. losers = {LoserOf(p, index) : p \in byServer}
  <2>1. \A c \in Losers(plan) : c.path \in DOMAIN tree
    BY <1>2, <1>3
  <2> QED BY <1>2, <2>1
<1>6. ASSUME NEW p \in byServer, NEW q, q = LoserOf(p, index)
      PROVE  holder(q).path = p
  <2>1. \E c \in Losers(plan) : c.loser_path = q
    BY <1>2, <1>6
  <2>2. holder(q) \in Losers(plan) /\ holder(q).loser_path = q
    BY <2>1
  <2> HIDE DEF holder
  <2>3. holder(q).path \in byServer /\ q = LoserOf(holder(q).path, index)
    BY <1>2, <2>2
  <2> QED BY <1>3, <1>6, <2>3
<1> HIDE DEF holder, kept, losers
<1>7. DOMAIN staged = (DOMAIN tree \ byServer) \cup {LoserOf(p, index) : p \in byServer}
  BY <1>1, <1>4, <1>5
<1>8. ASSUME NEW p \in byServer
      PROVE  staged[LoserOf(p, index)] = tree[p]
  <2>1. PICK q : q = LoserOf(p, index)
    OBVIOUS
  <2>2. q \in losers
    BY <1>5, <2>1
  <2>3. staged[q] = tree[holder(q).path]
    BY <1>1, <2>2
  <2> QED BY <1>6, <2>1, <2>3
<1>9. ASSUME NEW p \in DOMAIN tree \ byServer
      PROVE  staged[p] = tree[p]
  <2>1. p \in kept /\ p \notin losers
    BY <1>3, <1>4, <1>5
  <2> QED BY <1>1, <2>1
<1> QED BY <1>7, <1>8, <1>9 DEF RenamedTo

\* What is downloaded.
Fetched(index, puts, edited, byClient, byServer, got) ==
    /\ \A p \in (edited \ puts) \cup byServer :
           got[p] = [hash |-> index[p].hash, mtime |-> index[p].mtime]
    /\ \A p \in byClient :
           got[LoserOf(p, index)] = [hash |-> index[p].hash, mtime |-> index[p].mtime]

\* It is the plan's items.
LEMMA ReceivedAre ==
    ASSUME NEW tree, NEW files, NEW index, NEW plan, NEW puts, NEW edited, NEW byClient, NEW byServer,
           NEW gone, NEW buried,
           Conflicting(tree, files, index, puts, edited, byClient, byServer),
           Asked(index, plan, puts, gone, edited, buried, byClient, byServer),
           ListsHold(index, plan, puts, edited, byClient, byServer),
           edited \subseteq DOMAIN index,
           NEW got, got = Received(plan)
    PROVE  DOMAIN got = DownloadPaths(plan) /\ Fetched(index, puts, edited, byClient, byServer, got)
<1>1. /\ DOMAIN got = DownloadPaths(plan)
      /\ \A p \in DownloadPaths(plan) :
             got[p] = [hash |-> Item(plan, p).hash, mtime |-> Item(plan, p).mtime]
  BY DEF Received
<1>2. ASSUME NEW p \in DownloadPaths(plan)
      PROVE  Item(plan, p) \in plan.download /\ Item(plan, p).path = p
  <2>1. \E i \in plan.download : i.path = p
    BY DEF DownloadPaths
  <2> QED BY <2>1 DEF Item
<1>3. \A i \in plan.download :
           \/ /\ i.path \in (edited \ puts) \cup byServer
              /\ i.hash = index[i.path].hash /\ i.mtime = index[i.path].mtime
           \/ \E p \in byClient : /\ i.path = LoserOf(p, index)
                                  /\ i.hash = index[p].hash /\ i.mtime = index[p].mtime
  BY DEF ListsHold
<1>4. /\ \A p \in byClient : Parent(LoserOf(p, index)) = p /\ LoserOf(p, index) \notin DOMAIN index
      /\ byServer \subseteq edited
  BY DEF Conflicting
<1>5. DownloadPaths(plan) = (edited \ puts) \cup byServer \cup {LoserOf(p, index) : p \in byClient}
  BY DEF Asked
<1>6. ASSUME NEW p \in (edited \ puts) \cup byServer
      PROVE  got[p] = [hash |-> index[p].hash, mtime |-> index[p].mtime]
  <2>1. PICK i : i = Item(plan, p)
    OBVIOUS
  <2>2. i \in plan.download /\ i.path = p /\ got[p] = [hash |-> i.hash, mtime |-> i.mtime]
    BY <1>1, <1>2, <1>5, <2>1
  <2>3. p \in DOMAIN index
    BY <1>4
  <2>4. i.hash = index[p].hash /\ i.mtime = index[p].mtime
    BY <1>3, <1>4, <2>2, <2>3
  <2> QED BY <2>2, <2>4
<1>7. ASSUME NEW p \in byClient
      PROVE  got[LoserOf(p, index)] = [hash |-> index[p].hash, mtime |-> index[p].mtime]
  <2>1. PICK q, i : q = LoserOf(p, index) /\ i = Item(plan, q)
    OBVIOUS
  <2>2. i \in plan.download /\ i.path = q /\ got[q] = [hash |-> i.hash, mtime |-> i.mtime]
    BY <1>1, <1>2, <1>5, <2>1
  <2>3. q \notin (edited \ puts) \cup byServer
    BY <1>4, <2>1
  <2>4. PICK x \in byClient : q = LoserOf(x, index) /\ i.hash = index[x].hash /\ i.mtime = index[x].mtime
    BY <1>3, <2>2, <2>3
  <2>5. x = p
    BY <1>4, <2>1, <2>4
  <2> QED BY <2>1, <2>2, <2>4, <2>5
<1> QED BY <1>1, <1>6, <1>7 DEF Fetched

\* What the server holds after the commit.
CommittedTo(index, plan, byClient, staged, rev, new) ==
    /\ DOMAIN new = DOMAIN index \cup {LoserOf(p, index) : p \in byClient} \cup UploadPaths(plan)
    /\ \A p \in DOMAIN new \cap plan.server_delete : new[p] = Tombstone(rev)
    /\ \A p \in UploadPaths(plan) \ plan.server_delete :
           new[p] = LiveEntry(rev, staged[p].hash, staged[p].mtime)
    /\ \A p \in byClient :
           LoserOf(p, index) \notin plan.server_delete \cup UploadPaths(plan) =>
               new[LoserOf(p, index)] = LiveEntry(rev, index[p].hash, index[p].mtime)
    /\ \A p \in DOMAIN index \ (plan.server_delete \cup UploadPaths(plan)) :
           (\A x \in byClient : p # LoserOf(x, index)) => new[p] = index[p]

\* The commit's rows do that.
LEMMA CommittedAre ==
    ASSUME NEW tree, NEW files, NEW index, NEW plan, NEW puts, NEW edited, NEW byClient, NEW byServer,
           Conflicting(tree, files, index, puts, edited, byClient, byServer),
           ListsHold(index, plan, puts, edited, byClient, byServer),
           NEW staged, NEW rev, NEW new, new = Committed(index, plan, staged, rev)
    PROVE  CommittedTo(index, plan, byClient, staged, rev, new)
<1> DEFINE old(p) == index[(CHOOSE n \in plan.server_rename : n.to = p).from]
<1>1. new = [p \in DOMAIN index \cup RenameTargets(plan) \cup UploadPaths(plan) |->
                IF p \in plan.server_delete THEN Tombstone(rev)
                ELSE IF p \in UploadPaths(plan) THEN LiveEntry(rev, staged[p].hash, staged[p].mtime)
                ELSE IF p \in RenameTargets(plan) THEN LiveEntry(rev, old(p).hash, old(p).mtime)
                ELSE index[p]]
  BY DEF Committed
<1>2. /\ \A p \in byClient : [from |-> p, to |-> LoserOf(p, index)] \in plan.server_rename
      /\ \A n \in plan.server_rename : n.from \in byClient /\ n.to = LoserOf(n.from, index)
  BY DEF ListsHold
<1>3. \A p \in byClient : Parent(LoserOf(p, index)) = p
  BY DEF Conflicting
<1>4. RenameTargets(plan) = {LoserOf(p, index) : p \in byClient}
  <2>1. \A p \in byClient : \E n \in plan.server_rename : n.to = LoserOf(p, index)
    <3> TAKE p \in byClient
    <3>1. /\ [from |-> p, to |-> LoserOf(p, index)] \in plan.server_rename
          /\ [from |-> p, to |-> LoserOf(p, index)].to = LoserOf(p, index)
      BY <1>2
    <3> QED BY <3>1, Zenon
  <2> QED BY <1>2, <2>1 DEF RenameTargets
<1>5. ASSUME NEW p \in byClient, NEW q, q = LoserOf(p, index)
      PROVE  old(q) = index[p]
  <2>1. PICK n : n = CHOOSE x \in plan.server_rename : x.to = q
    OBVIOUS
  <2>2. \E x \in plan.server_rename : x.to = q
    BY <1>4, <1>5 DEF RenameTargets
  <2>3. n \in plan.server_rename /\ n.to = q
    BY <2>1, <2>2
  <2>4. n.from = p
    BY <1>2, <1>3, <1>5, <2>3
  <2> QED BY <2>1, <2>4
<1> HIDE DEF old
<1>6. DOMAIN new = DOMAIN index \cup {LoserOf(p, index) : p \in byClient} \cup UploadPaths(plan)
  BY <1>1, <1>4
<1>7. \A p \in DOMAIN new \cap plan.server_delete : new[p] = Tombstone(rev)
  BY <1>1, Zenon
<1>8. ASSUME NEW p \in UploadPaths(plan) \ plan.server_delete
      PROVE  new[p] = LiveEntry(rev, staged[p].hash, staged[p].mtime)
  <2>1. p \in DOMAIN index \cup RenameTargets(plan) \cup UploadPaths(plan)
    OBVIOUS
  <2> QED BY <1>1, <2>1
<1>9. ASSUME NEW p \in byClient, LoserOf(p, index) \notin plan.server_delete \cup UploadPaths(plan)
      PROVE  new[LoserOf(p, index)] = LiveEntry(rev, index[p].hash, index[p].mtime)
  <2>1. PICK q : q = LoserOf(p, index)
    OBVIOUS
  <2>2. q \in RenameTargets(plan) /\ q \notin plan.server_delete /\ q \notin UploadPaths(plan)
    BY <1>4, <1>9, <2>1
  <2>3. new[q] = LiveEntry(rev, old(q).hash, old(q).mtime)
    BY <1>1, <2>2
  <2> QED BY <1>5, <2>1, <2>3
<1>10. ASSUME NEW p \in DOMAIN index \ (plan.server_delete \cup UploadPaths(plan)),
              \A x \in byClient : p # LoserOf(x, index)
       PROVE  new[p] = index[p]
  <2>1. p \notin RenameTargets(plan)
    BY <1>4, <1>10
  <2>2. /\ p \in DOMAIN index \cup RenameTargets(plan) \cup UploadPaths(plan)
        /\ p \notin plan.server_delete /\ p \notin UploadPaths(plan)
    OBVIOUS
  <2> QED BY <1>1, <2>1, <2>2
<1> QED BY <1>6, <1>7, <1>8, <1>9, <1>10 DEF CommittedTo

\* The same contents, whatever their times.
SameContents(got, received) == \A p \in DOMAIN got : got[p].hash = received[p].hash

\* A cycle leaves folder and server alike, whatever the times of what it writes.
LEMMA Meeting ==
    ASSUME NEW tree, NEW files, NEW index, NEW r, Ready(tree, files, index, r),
           NEW plan, NEW puts, NEW gone, NEW edited, NEW buried, NEW byClient, NEW byServer,
           Planned(tree, files, index, r, plan, puts, gone, edited, buried, byClient, byServer),
           NEW staged, staged = Renamed(tree, plan),
           NEW rev, NEW new, new = Committed(index, plan, staged, rev),
           NEW got, DOMAIN got = DownloadPaths(plan),
           SameContents(got, Received(plan)),
           NEW done, done = Applied(staged, got, plan.delete_local)
    PROVE  DOMAIN done = LiveOf(new) /\ \A p \in DOMAIN done : done[p].hash = new[p].hash
<1> DEFINE Lo(p) == LoserOf(p, index)
<1>1. PICK up, down, dropped, erased :
          /\ up = UploadPaths(plan) /\ down = DownloadPaths(plan)
          /\ dropped = plan.delete_local /\ erased = plan.server_delete
  OBVIOUS
<1>2. /\ Changed(tree, files, index, r, puts, gone, edited, buried)
      /\ Conflicting(tree, files, index, puts, edited, byClient, byServer)
      /\ Asked(index, plan, puts, gone, edited, buried, byClient, byServer)
      /\ ListsHold(index, plan, puts, edited, byClient, byServer)
  BY DEF Planned
<1>3. /\ puts \subseteq DOMAIN tree /\ gone = DOMAIN files \ DOMAIN tree
      /\ \A p \in DOMAIN tree \ puts : p \in DOMAIN files /\ files[p].hash = tree[p].hash
      /\ \A p \in DOMAIN index : index[p].rev > r <=> p \in edited \cup buried
      /\ edited \subseteq LiveOf(index) /\ buried \subseteq DOMAIN index \ LiveOf(index)
      /\ LiveOf(index) \subseteq DOMAIN index
  BY <1>2 DEF Changed, LiveOf
<1>4. /\ byClient \subseteq puts \cap edited /\ byServer \subseteq puts \cap edited
      /\ byClient \cap byServer = {}
      /\ \A p \in (puts \cap edited) \ (byClient \cup byServer) : tree[p].hash = index[p].hash
      /\ \A p \in byClient \cup byServer :
             /\ Parent(Lo(p)) = p
             /\ Lo(p) \notin DOMAIN tree /\ Lo(p) \notin DOMAIN files /\ Lo(p) \notin DOMAIN index
  BY <1>2 DEF Conflicting
<1>5. /\ up = (puts \ edited) \cup byClient \cup {Lo(p) : p \in byServer}
      /\ down = (edited \ puts) \cup byServer \cup {Lo(p) : p \in byClient}
      /\ dropped = buried \ (puts \cup gone)
      /\ erased = gone \ (edited \cup buried)
  BY <1>1, <1>2 DEF Asked
<1>6. /\ DOMAIN staged = (DOMAIN tree \ byServer) \cup {Lo(p) : p \in byServer}
      /\ \A p \in byServer : staged[Lo(p)] = tree[p]
      /\ \A p \in DOMAIN tree \ byServer : staged[p] = tree[p]
  <2>1. puts \subseteq DOMAIN tree
    BY <1>3, Zenon
  <2>2. RenamedTo(tree, index, byServer, staged)
    BY <1>2, <2>1, RenamedAre, Zenon
  <2> QED BY <2>2, Zenon DEF RenamedTo
<1>7. /\ \A p \in (edited \ puts) \cup byServer : got[p].hash = index[p].hash
      /\ \A p \in byClient : got[Lo(p)].hash = index[p].hash
  <2>1. PICK received : received = Received(plan)
    OBVIOUS
  <2>2. edited \subseteq DOMAIN index
    BY <1>3
  <2>3. Fetched(index, puts, edited, byClient, byServer, received)
    BY <1>2, <2>1, <2>2, ReceivedAre, Zenon
  <2>4. \A p \in down : got[p].hash = received[p].hash
    BY <1>1, <2>1 DEF SameContents
  <2>5. ASSUME NEW p \in (edited \ puts) \cup byServer
        PROVE  got[p].hash = index[p].hash
    <3>1. p \in down
      BY <1>5
    <3>2. received[p].hash = index[p].hash
      <4>1. received[p] = [hash |-> index[p].hash, mtime |-> index[p].mtime]
        BY <2>3, Zenon DEF Fetched
      <4>2. [hash |-> index[p].hash, mtime |-> index[p].mtime].hash = index[p].hash
        OBVIOUS
      <4> QED BY <4>1, <4>2, Zenon
    <3> QED BY <2>4, <3>1, <3>2, Zenon
  <2>6. ASSUME NEW p \in byClient
        PROVE  got[Lo(p)].hash = index[p].hash
    <3>1. Lo(p) \in down
      BY <1>5
    <3>2. received[Lo(p)].hash = index[p].hash
      <4>1. received[Lo(p)] = [hash |-> index[p].hash, mtime |-> index[p].mtime]
        BY <2>3, Zenon DEF Fetched
      <4>2. [hash |-> index[p].hash, mtime |-> index[p].mtime].hash = index[p].hash
        OBVIOUS
      <4> QED BY <4>1, <4>2, Zenon
    <3> QED BY <2>4, <3>1, <3>2, Zenon
  <2> QED BY <2>5, <2>6
<1>8. /\ DOMAIN new = DOMAIN index \cup {Lo(p) : p \in byClient} \cup up
      /\ \A p \in DOMAIN new \cap erased : new[p].deleted
      /\ \A p \in up \ erased : ~ new[p].deleted /\ new[p].hash = staged[p].hash
      /\ \A p \in byClient :
             Lo(p) \notin erased \cup up => ~ new[Lo(p)].deleted /\ new[Lo(p)].hash = index[p].hash
      /\ \A p \in DOMAIN index \ (erased \cup up) :
             (\A x \in byClient : p # Lo(x)) => new[p] = index[p]
  <2>1. /\ \A h, m : ~ LiveEntry(rev, h, m).deleted /\ LiveEntry(rev, h, m).hash = h
        /\ Tombstone(rev).deleted
    BY DEF LiveEntry, Tombstone
  <2>2. /\ DOMAIN new = DOMAIN index \cup {Lo(p) : p \in byClient} \cup up
        /\ \A p \in DOMAIN new \cap erased : new[p] = Tombstone(rev)
        /\ \A p \in up \ erased : new[p] = LiveEntry(rev, staged[p].hash, staged[p].mtime)
        /\ \A p \in byClient : Lo(p) \notin erased \cup up =>
               new[Lo(p)] = LiveEntry(rev, index[p].hash, index[p].mtime)
        /\ \A p \in DOMAIN index \ (erased \cup up) :
               (\A x \in byClient : p # Lo(x)) => new[p] = index[p]
    <3>1. CommittedTo(index, plan, byClient, staged, rev, new)
      BY <1>2, CommittedAre, Zenon
    <3> QED BY <1>1, <3>1 DEF CommittedTo
  <2> QED BY <2>1, <2>2
<1>9. /\ DOMAIN done = (DOMAIN staged \cup down) \ dropped
      /\ \A p \in DOMAIN done : done[p] = IF p \in down THEN got[p] ELSE staged[p]
  BY <1>1 DEF Applied
<1>10. \A p : p \in LiveOf(new) <=> p \in DOMAIN new /\ ~ new[p].deleted
  BY DEF LiveOf
<1>11. \A p : p \in LiveOf(index) <=> p \in DOMAIN index /\ ~ index[p].deleted
  BY DEF LiveOf
<1>12. /\ up \cap down = {} /\ up \cap dropped = {} /\ down \cap dropped = {}
       /\ up \cap erased = {} /\ down \cap erased = {}
  <2> HIDE DEF Lo
  <2> QED BY <1>3, <1>4, <1>5
<1> HIDE DEF Lo
<1> SUFFICES ASSUME NEW p
             PROVE  /\ p \in DOMAIN done <=> p \in LiveOf(new)
                    /\ p \in DOMAIN done => done[p].hash = new[p].hash
  OBVIOUS
<1>13. CASE \E x \in byServer : p = Lo(x)
  <2>1. PICK x \in byServer : p = Lo(x)
    BY <1>13
  <2>2. p \in up /\ p \notin down /\ p \notin dropped /\ p \notin erased
    BY <1>5, <1>12, <2>1
  <2>3. p \in DOMAIN staged /\ p \in DOMAIN done /\ done[p] = staged[p]
    BY <1>6, <1>9, <2>1, <2>2
  <2> QED BY <1>8, <1>10, <2>2, <2>3
<1>14. CASE \E x \in byClient : p = Lo(x)
  <2>1. PICK x \in byClient : p = Lo(x)
    BY <1>14
  <2>2. p \in down /\ p \notin up /\ p \notin dropped /\ p \notin erased
    BY <1>5, <1>12, <2>1
  <2>3. p \in DOMAIN done /\ done[p] = got[p]
    BY <1>9, <2>2
  <2>4. got[p].hash = index[x].hash
    BY <1>7, <2>1
  <2>5. ~ new[p].deleted /\ new[p].hash = index[x].hash /\ p \in DOMAIN new
    BY <1>8, <2>1, <2>2
  <2> QED BY <1>10, <2>3, <2>4, <2>5
<1>15. CASE /\ \A x \in byClient \cup byServer : p # Lo(x)
            /\ p \in (edited \ puts) \cup byServer
  <2>1. p \in down /\ p \notin up /\ p \notin dropped /\ p \notin erased /\ p \in LiveOf(index)
    BY <1>3, <1>4, <1>5, <1>12, <1>15
  <2>2. p \in DOMAIN done /\ done[p] = got[p]
    BY <1>9, <2>1
  <2>3. got[p].hash = index[p].hash
    BY <1>7, <1>15
  <2>4. p \in DOMAIN index
    BY <1>11, <2>1
  <2>5. new[p] = index[p] /\ p \in DOMAIN new
    BY <1>8, <1>15, <2>1, <2>4
  <2> QED BY <1>10, <1>11, <2>1, <2>2, <2>3, <2>5
<1>16. CASE /\ \A x \in byClient \cup byServer : p # Lo(x)
            /\ p \in (puts \ edited) \cup byClient
  <2>1. p \in up /\ p \notin down /\ p \notin dropped /\ p \notin erased
    BY <1>5, <1>12, <1>16
  <2>2. p \in DOMAIN staged /\ p \in DOMAIN done /\ done[p] = staged[p]
    BY <1>3, <1>4, <1>6, <1>9, <1>16, <2>1
  <2> QED BY <1>8, <1>10, <2>1, <2>2
<1>17. CASE /\ \A x \in byClient \cup byServer : p # Lo(x)
            /\ p \in (puts \cap edited) \ (byClient \cup byServer)
  <2>1. p \notin up /\ p \notin down /\ p \notin dropped /\ p \notin erased
    BY <1>3, <1>5, <1>17
  <2>2. p \in DOMAIN tree /\ p \in DOMAIN done /\ done[p] = tree[p]
    BY <1>3, <1>6, <1>9, <1>17, <2>1
  <2>3. p \in DOMAIN index /\ p \in LiveOf(index)
    BY <1>3, <1>11, <1>17
  <2>4. new[p] = index[p] /\ p \in DOMAIN new
    BY <1>8, <1>17, <2>1, <2>3
  <2>5. tree[p].hash = index[p].hash
    BY <1>4, <1>17
  <2> QED BY <1>10, <1>11, <2>2, <2>3, <2>4, <2>5
<1>18. CASE /\ \A x \in byClient \cup byServer : p # Lo(x)
            /\ p \in gone \ edited
  <2>1. p \notin up /\ p \notin down /\ p \notin DOMAIN tree
    BY <1>3, <1>4, <1>5, <1>18
  <2>2. p \notin DOMAIN done
    BY <1>6, <1>9, <1>18, <2>1
  <2>3. CASE p \in buried
    <3>1. p \notin erased /\ p \in DOMAIN index /\ p \notin LiveOf(index)
      BY <1>3, <1>5, <2>3
    <3>2. new[p] = index[p]
      BY <1>8, <1>18, <2>1, <3>1
    <3> QED BY <1>10, <1>11, <2>2, <3>1, <3>2
  <2>4. CASE p \notin buried
    <3>1. p \in erased
      BY <1>5, <1>18, <2>4
    <3>2. p \in DOMAIN new => new[p].deleted
      BY <1>8, <3>1
    <3> QED BY <1>10, <2>2, <3>2
  <2> QED BY <2>3, <2>4
<1>19. CASE /\ \A x \in byClient \cup byServer : p # Lo(x)
            /\ p \in buried \ (puts \cup gone)
  <2>1. p \in dropped /\ p \notin up /\ p \notin erased /\ p \in DOMAIN index /\ p \notin LiveOf(index)
    BY <1>3, <1>5, <1>12, <1>19
  <2>2. p \notin DOMAIN done
    BY <1>9, <2>1
  <2>3. new[p] = index[p]
    BY <1>8, <1>19, <2>1
  <2> QED BY <1>10, <1>11, <2>1, <2>2, <2>3
<1>20. CASE /\ \A x \in byClient \cup byServer : p # Lo(x)
            /\ p \notin puts \cup gone \cup edited \cup buried
  <2>1. p \notin up /\ p \notin down /\ p \notin dropped /\ p \notin erased
    BY <1>4, <1>5, <1>20
  <2>2. /\ p \in DOMAIN done <=> p \in DOMAIN tree
        /\ p \in DOMAIN tree => done[p] = tree[p]
    BY <1>4, <1>6, <1>9, <1>20, <2>1
  <2>3. /\ p \in DOMAIN new <=> p \in DOMAIN index
        /\ p \in DOMAIN index => new[p] = index[p]
    BY <1>8, <1>20, <2>1
  <2>4. /\ p \in DOMAIN tree <=> p \in DOMAIN files
        /\ p \in DOMAIN tree => files[p].hash = tree[p].hash
    BY <1>3, <1>20
  <2>5. /\ p \in DOMAIN files => p \in DOMAIN index
        /\ p \in DOMAIN index =>
               /\ ~ index[p].deleted <=> p \in DOMAIN files
               /\ ~ index[p].deleted => index[p].hash = files[p].hash
    <3>1. Agrees(files, index, r) /\ r \in Nat /\ \A q \in DOMAIN index : index[q].rev \in Nat
      BY DEF Ready
    <3>2. p \in DOMAIN index => index[p].rev <= r
      BY <1>3, <1>20, <3>1
    <3> QED BY <3>1, <3>2 DEF Agrees
  <2> QED BY <1>10, <2>2, <2>3, <2>4, <2>5
<1> QED BY <1>4, <1>13, <1>14, <1>15, <1>16, <1>17, <1>18, <1>19, <1>20

\* Rows of an index whose head is h.
RowsOK(index, h) ==
    \A p \in DOMAIN index :
        /\ p \in Path /\ index[p] \in Entry
        /\ index[p].rev <= h
        /\ index[p].deleted <=> index[p].hash = NoHash

\* A record that is not a tombstone has a content.
LEMMA LiveRow ==
    ASSUME NEW index, NEW h, RowsOK(index, h), NEW p \in LiveOf(index)
    PROVE  [hash |-> index[p].hash, mtime |-> index[p].mtime] \in Meta
<1>1. p \in DOMAIN index /\ ~ index[p].deleted
  BY DEF LiveOf
<1>2. index[p] \in Entry /\ (index[p].deleted <=> index[p].hash = NoHash)
  BY <1>1 DEF RowsOK
<1>3. index[p].hash \in Hashes /\ index[p].mtime \in Int
  BY <1>1, <1>2 DEF Entry
<1> QED BY <1>3 DEF Meta

\* What a device received is well-typed, in the index's times or its own.
LEMMA GotTyped ==
    ASSUME NEW tree, NEW files, NEW index, NEW r, NEW plan,
           NEW puts, NEW gone, NEW edited, NEW buried, NEW byClient, NEW byServer,
           Planned(tree, files, index, r, plan, puts, gone, edited, buried, byClient, byServer),
           NEW h, RowsOK(index, h), NEW time \in Int
    PROVE  /\ DOMAIN Received(plan) = DownloadPaths(plan)
           /\ DOMAIN WrittenAt(time, Received(plan)) = DownloadPaths(plan)
           /\ \A p \in DownloadPaths(plan) :
                  Received(plan)[p] \in Meta /\ WrittenAt(time, Received(plan))[p] \in Meta
           /\ SameContents(WrittenAt(time, Received(plan)), Received(plan))
<1>1. /\ Conflicting(tree, files, index, puts, edited, byClient, byServer)
      /\ Asked(index, plan, puts, gone, edited, buried, byClient, byServer)
      /\ ListsHold(index, plan, puts, edited, byClient, byServer)
  BY DEF Planned
<1>2. edited \subseteq LiveOf(index) /\ edited \subseteq DOMAIN index
  BY DEF Planned, Changed, LiveOf
<1>3. PICK got, written : got = Received(plan) /\ written = WrittenAt(time, got)
  OBVIOUS
<1>4. DOMAIN got = DownloadPaths(plan) /\ Fetched(index, puts, edited, byClient, byServer, got)
  BY <1>1, <1>2, <1>3, ReceivedAre, Zenon
<1>5. /\ DOMAIN written = DOMAIN got
      /\ \A p \in DOMAIN got : written[p] = [got[p] EXCEPT !.mtime = time]
  BY <1>3 DEF WrittenAt
<1>6. ASSUME NEW p \in DownloadPaths(plan)
      PROVE  got[p] \in Meta
  <2>1. byClient \subseteq edited /\ byServer \subseteq edited
    BY <1>1 DEF Conflicting
  <2>2. \/ p \in (edited \ puts) \cup byServer
        \/ \E x \in byClient : p = LoserOf(x, index)
    BY <1>1 DEF Asked
  <2>3. PICK x \in edited : got[p] = [hash |-> index[x].hash, mtime |-> index[x].mtime]
    BY <1>4, <2>1, <2>2 DEF Fetched
  <2>4. x \in LiveOf(index)
    BY <1>2
  <2> QED BY <2>3, <2>4, LiveRow
<1>7. ASSUME NEW p \in DownloadPaths(plan)
      PROVE  written[p] \in Meta /\ written[p].hash = got[p].hash
  <2>1. written[p] = [got[p] EXCEPT !.mtime = time]
    BY <1>4, <1>5
  <2>2. got[p] \in Meta
    BY <1>6
  <2>3. ASSUME NEW m \in Meta
        PROVE  [m EXCEPT !.mtime = time] \in Meta /\ [m EXCEPT !.mtime = time].hash = m.hash
    BY DEF Meta
  <2> QED BY <2>1, <2>2, <2>3
<1>8. SameContents(written, got)
  BY <1>4, <1>5, <1>7 DEF SameContents
<1> QED BY <1>3, <1>4, <1>5, <1>6, <1>7, <1>8

\* And so is what a cycle leaves behind.
LEMMA MeetingTyped ==
    ASSUME NEW tree, NEW files, NEW index, NEW r, Ready(tree, files, index, r),
           NEW plan, NEW puts, NEW gone, NEW edited, NEW buried, NEW byClient, NEW byServer,
           Planned(tree, files, index, r, plan, puts, gone, edited, buried, byClient, byServer),
           TreeTypeOK(tree), NEW h \in Nat, RowsOK(index, h),
           NEW staged, staged = Renamed(tree, plan),
           NEW new, new = Committed(index, plan, staged, h + 1)
    PROVE  /\ RowsOK(new, h + 1) /\ IsFiniteSet(DOMAIN new)
           /\ TreeTypeOK(staged)
<1> DEFINE Lo(p) == LoserOf(p, index)
<1>1. /\ Changed(tree, files, index, r, puts, gone, edited, buried)
      /\ Conflicting(tree, files, index, puts, edited, byClient, byServer)
      /\ Asked(index, plan, puts, gone, edited, buried, byClient, byServer)
      /\ ListsHold(index, plan, puts, edited, byClient, byServer)
  BY DEF Planned
<1>2. puts \subseteq DOMAIN tree /\ edited \subseteq LiveOf(index)
  BY <1>1 DEF Changed
<1>3. /\ byClient \subseteq puts \cap edited /\ byServer \subseteq puts \cap edited
      /\ byClient \cap byServer = {}
      /\ \A p \in byClient \cup byServer : Lo(p) \in Path
  BY <1>1 DEF Conflicting
<1>4. RenamedTo(tree, index, byServer, staged)
  BY <1>1, <1>2, RenamedAre, Zenon
<1>5. CommittedTo(index, plan, byClient, staged, h + 1, new)
  BY <1>1, CommittedAre, Zenon
<1>6. UploadPaths(plan) = (puts \ edited) \cup byClient \cup {Lo(p) : p \in byServer}
  BY <1>1 DEF Asked
<1>7. /\ DOMAIN staged = (DOMAIN tree \ byServer) \cup {Lo(p) : p \in byServer}
      /\ \A p \in byServer : staged[Lo(p)] = tree[p]
      /\ \A p \in DOMAIN tree \ byServer : staged[p] = tree[p]
  BY <1>4 DEF RenamedTo
<1>8. DOMAIN tree \subseteq Path /\ \A p \in DOMAIN tree : tree[p] \in Meta
  BY DEF TreeTypeOK
<1> HIDE DEF Lo
<1>9. DOMAIN staged \subseteq Path /\ \A p \in DOMAIN staged : staged[p] \in Meta
  <2>1. DOMAIN staged \subseteq Path
    BY <1>3, <1>7, <1>8
  <2>2. ASSUME NEW p \in DOMAIN staged
        PROVE  staged[p] \in Meta
    <3>1. CASE p \in DOMAIN tree \ byServer
      BY <1>7, <1>8, <3>1
    <3>2. CASE \E x \in byServer : p = Lo(x)
      <4>1. PICK x \in byServer : p = Lo(x)
        BY <3>2
      <4>2. x \in DOMAIN tree
        BY <1>2, <1>3
      <4> QED BY <1>7, <1>8, <4>1, <4>2
    <3> QED BY <1>7, <3>1, <3>2
  <2> QED BY <2>1, <2>2
<1>10. UploadPaths(plan) \subseteq DOMAIN staged
  BY <1>2, <1>3, <1>6, <1>7
<1>11. DOMAIN new = DOMAIN index \cup {Lo(p) : p \in byClient} \cup UploadPaths(plan)
  BY <1>5 DEF CommittedTo, Lo
<1>12. DOMAIN index \subseteq Path /\ IsFiniteSet(DOMAIN index) /\ IsFiniteSet(DOMAIN tree)
  BY DEF Ready, Finite
<1>13. DOMAIN new \subseteq Path
  BY <1>3, <1>9, <1>10, <1>11, <1>12
<1>14. IsFiniteSet(DOMAIN new)
  <2>1. IsFiniteSet(puts) /\ IsFiniteSet(byClient) /\ IsFiniteSet(byServer)
    BY <1>2, <1>3, <1>12, FS_Subset
  <2>2. ASSUME NEW S, IsFiniteSet(S)
        PROVE  IsFiniteSet({Lo(p) : p \in S})
    <3> DEFINE f == [p \in S |-> Lo(p)]
    <3>1. f = [p \in S |-> f[p]] /\ {f[p] : p \in S} = {Lo(p) : p \in S}
      OBVIOUS
    <3> HIDE DEF f
    <3>2. IsFiniteSet({f[p] : p \in S})
      BY <2>2, <3>1, FiniteImage
    <3> QED BY <3>1, <3>2
  <2>3. IsFiniteSet({Lo(p) : p \in byClient}) /\ IsFiniteSet({Lo(p) : p \in byServer})
    BY <2>1, <2>2
  <2>4. IsFiniteSet(puts \cup {Lo(p) : p \in byServer})
    BY <2>1, <2>3, FS_Union
  <2>5. UploadPaths(plan) \subseteq puts \cup {Lo(p) : p \in byServer}
    BY <1>3, <1>6
  <2>6. IsFiniteSet(UploadPaths(plan))
    BY <2>4, <2>5, FS_Subset
  <2>7. IsFiniteSet(DOMAIN index \cup {Lo(p) : p \in byClient})
    BY <1>12, <2>3, FS_Union
  <2> QED BY <1>11, <2>6, <2>7, FS_Union
<1>15. ASSUME NEW hash \in Hashes, NEW m \in Int, NEW record, record = LiveEntry(h + 1, hash, m)
       PROVE  record \in Entry /\ record.rev <= h + 1 /\ (record.deleted <=> record.hash = NoHash)
  BY <1>15, NoHashAssumption DEF LiveEntry, Entry
<1>16. ASSUME NEW record, record = Tombstone(h + 1)
       PROVE  record \in Entry /\ record.rev <= h + 1 /\ (record.deleted <=> record.hash = NoHash)
  BY <1>16 DEF Tombstone, Entry
<1>17. ASSUME NEW p \in DOMAIN new
       PROVE  new[p] \in Entry /\ new[p].rev <= h + 1 /\ (new[p].deleted <=> new[p].hash = NoHash)
  <2>1. CASE p \in plan.server_delete
    <3>1. new[p] = Tombstone(h + 1)
      BY <1>5, <2>1 DEF CommittedTo
    <3> QED BY <1>16, <3>1
  <2>2. CASE p \in UploadPaths(plan) \ plan.server_delete
    <3>1. new[p] = LiveEntry(h + 1, staged[p].hash, staged[p].mtime)
      BY <1>5, <2>2 DEF CommittedTo
    <3>2. staged[p] \in Meta
      BY <1>9, <1>10, <2>2
    <3>3. staged[p].hash \in Hashes /\ staged[p].mtime \in Int
      BY <3>2 DEF Meta
    <3> QED BY <1>15, <3>1, <3>3
  <2>3. CASE /\ p \notin plan.server_delete \cup UploadPaths(plan)
             /\ \E x \in byClient : p = Lo(x)
    <3>1. PICK x \in byClient : p = Lo(x)
      BY <2>3
    <3>2. new[p] = LiveEntry(h + 1, index[x].hash, index[x].mtime)
      BY <1>5, <2>3, <3>1 DEF CommittedTo, Lo
    <3>3. x \in LiveOf(index)
      BY <1>2, <1>3
    <3>4. [hash |-> index[x].hash, mtime |-> index[x].mtime] \in Meta
      BY <3>3, LiveRow
    <3>5. index[x].hash \in Hashes /\ index[x].mtime \in Int
      BY <3>4 DEF Meta
    <3> QED BY <1>15, <3>2, <3>5
  <2>4. CASE /\ p \notin plan.server_delete \cup UploadPaths(plan)
             /\ ~ \E x \in byClient : p = Lo(x)
    <3>1. p \in DOMAIN index
      BY <1>11, <2>4
    <3>2. new[p] = index[p]
      BY <1>5, <2>4, <3>1 DEF CommittedTo, Lo
    <3>3. index[p] \in Entry /\ index[p].rev <= h /\ (index[p].deleted <=> index[p].hash = NoHash)
      BY <3>1 DEF RowsOK
    <3>4. index[p].rev \in Nat
      BY <3>3 DEF Entry
    <3> QED BY <3>2, <3>3, <3>4
  <2> QED BY <2>1, <2>2, <2>3, <2>4
<1>18. RowsOK(new, h + 1)
  BY <1>13, <1>17 DEF RowsOK
<1> QED BY <1>9, <1>14, <1>18 DEF TreeTypeOK

\* What a cycle leaves in the folder, in the baseline and in the index.
Met(tree, files, index, h) ==
    /\ DOMAIN tree = LiveOf(index) /\ DOMAIN files = LiveOf(index)
    /\ \A p \in LiveOf(index) : tree[p].hash = index[p].hash /\ files[p].hash = index[p].hash
    /\ TreeTypeOK(tree) /\ TreeTypeOK(files) /\ RowsOK(index, h)
    /\ Finite(tree, files, index)
    /\ LosersRest(tree, files, index, h)

\* No loser is buried.
LEMMA LosersStay ==
    ASSUME NEW tree, NEW files, NEW index, NEW r, Ready(tree, files, index, r),
           NEW plan, NEW puts, NEW gone, NEW edited, NEW buried, NEW byClient, NEW byServer,
           Planned(tree, files, index, r, plan, puts, gone, edited, buried, byClient, byServer),
           NEW staged, NEW rev, NEW new, new = Committed(index, plan, staged, rev),
           NEW q \in DOMAIN new, IsMarker(q)
    PROVE  ~ new[q].deleted
<1>1. /\ Conflicting(tree, files, index, puts, edited, byClient, byServer)
      /\ Asked(index, plan, puts, gone, edited, buried, byClient, byServer)
      /\ ListsHold(index, plan, puts, edited, byClient, byServer)
  BY DEF Planned
<1>2. CommittedTo(index, plan, byClient, staged, rev, new)
  BY <1>1, CommittedAre, Zenon
<1>3. \A h, m : ~ LiveEntry(rev, h, m).deleted
  BY DEF LiveEntry
<1>4. LosersRest(tree, files, index, r)
  BY DEF Ready
<1>5. q \notin plan.server_delete
  <2>1. plan.server_delete \subseteq DOMAIN files \ DOMAIN tree
    BY <1>1 DEF Asked, Planned, Changed
  <2> QED BY <1>4, <2>1 DEF LosersRest
<1>6. CASE q \in UploadPaths(plan)
  BY <1>2, <1>3, <1>5, <1>6 DEF CommittedTo
<1>7. CASE q \notin UploadPaths(plan) /\ \E x \in byClient : q = LoserOf(x, index)
  BY <1>2, <1>3, <1>5, <1>7 DEF CommittedTo
<1>8. CASE q \notin UploadPaths(plan) /\ ~ \E x \in byClient : q = LoserOf(x, index)
  <2>1. q \in DOMAIN index
    BY <1>2, <1>8 DEF CommittedTo
  <2>2. new[q] = index[q]
    BY <1>2, <1>5, <1>8, <2>1 DEF CommittedTo
  <2>3. ~ index[q].deleted
    BY <1>4, <2>1 DEF LosersRest
  <2> QED BY <2>2, <2>3
<1> QED BY <1>6, <1>7, <1>8

\* What is live before a commit and not after is what the device deleted.
LEMMA OnlyGoneAreBuried ==
    ASSUME NEW tree, NEW files, NEW index, NEW r,
           NEW plan, NEW puts, NEW gone, NEW edited, NEW buried, NEW byClient, NEW byServer,
           Planned(tree, files, index, r, plan, puts, gone, edited, buried, byClient, byServer),
           NEW staged, NEW rev, NEW new, new = Committed(index, plan, staged, rev)
    PROVE  LiveOf(index) \ LiveOf(new) \subseteq DOMAIN files \ DOMAIN tree
<1>1. /\ Conflicting(tree, files, index, puts, edited, byClient, byServer)
      /\ Asked(index, plan, puts, gone, edited, buried, byClient, byServer)
      /\ ListsHold(index, plan, puts, edited, byClient, byServer)
  BY DEF Planned
<1>2. CommittedTo(index, plan, byClient, staged, rev, new)
  BY <1>1, CommittedAre, Zenon
<1>3. \A h, m : ~ LiveEntry(rev, h, m).deleted
  BY DEF LiveEntry
<1>4. plan.server_delete \subseteq DOMAIN files \ DOMAIN tree
  BY <1>1 DEF Asked, Planned, Changed
<1> SUFFICES ASSUME NEW p \in LiveOf(index), p \notin plan.server_delete
             PROVE  p \in LiveOf(new)
  BY <1>4
<1>5. p \in DOMAIN index /\ ~ index[p].deleted
  BY DEF LiveOf
<1>6. p \in DOMAIN new
  BY <1>2, <1>5 DEF CommittedTo
<1>7. ~ new[p].deleted
  <2>1. CASE p \in UploadPaths(plan)
    BY <1>2, <1>3, <2>1 DEF CommittedTo
  <2>2. CASE p \notin UploadPaths(plan)
    <3>1. \A x \in byClient : p # LoserOf(x, index)
      BY <1>1, <1>5 DEF Conflicting
    <3>2. new[p] = index[p]
      BY <1>2, <1>5, <2>2, <3>1 DEF CommittedTo
    <3> QED BY <1>5, <3>2
  <2> QED BY <2>1, <2>2
<1> QED BY <1>6, <1>7 DEF LiveOf

\* A whole cycle, on the three trees.
LEMMA CycleMeets ==
    ASSUME NEW tree, NEW files, NEW index, NEW r, Ready(tree, files, index, r),
           TreeTypeOK(tree), NEW h \in Nat, RowsOK(index, h),
           NEW plan,
           plan = ComputePlan(LocalChanges(files, tree), ChangesSince(index, r), LiveOf(index)),
           NEW staged, staged = Renamed(tree, plan),
           NEW new, new = Committed(index, plan, staged, h + 1),
           NEW time \in Int,
           NEW done, done = Applied(staged, WrittenAt(time, Received(plan)), plan.delete_local),
           NEW kept, kept = Applied(staged, Received(plan), plan.delete_local)
    PROVE  Met(done, kept, new, h + 1)
<1>1. PICK puts, gone, edited, buried, byClient, byServer :
          Planned(tree, files, index, r, plan, puts, gone, edited, buried, byClient, byServer)
  BY PlanTold, Zenon
<1>2. PICK got : got = Received(plan)
  OBVIOUS
<1>3. PICK written : written = WrittenAt(time, Received(plan))
  OBVIOUS
<1>4. /\ DOMAIN got = DownloadPaths(plan) /\ DOMAIN written = DownloadPaths(plan)
      /\ \A p \in DownloadPaths(plan) : got[p] \in Meta /\ written[p] \in Meta
      /\ SameContents(written, Received(plan))
  <2>1. /\ DOMAIN Received(plan) = DownloadPaths(plan)
        /\ DOMAIN WrittenAt(time, Received(plan)) = DownloadPaths(plan)
        /\ \A p \in DownloadPaths(plan) :
               Received(plan)[p] \in Meta /\ WrittenAt(time, Received(plan))[p] \in Meta
        /\ SameContents(WrittenAt(time, Received(plan)), Received(plan))
    BY <1>1, GotTyped, Zenon
  <2> QED BY <1>2, <1>3, <2>1, Zenon
<1>5. ASSUME NEW x, DOMAIN x = DownloadPaths(plan), SameContents(x, Received(plan)),
             NEW y, y = Applied(staged, x, plan.delete_local)
      PROVE  DOMAIN y = LiveOf(new) /\ \A p \in DOMAIN y : y[p].hash = new[p].hash
  BY <1>1, <1>5, Meeting, SMTT(60)
<1>6. /\ DOMAIN done = LiveOf(new) /\ \A p \in DOMAIN done : done[p].hash = new[p].hash
      /\ DOMAIN kept = LiveOf(new) /\ \A p \in DOMAIN kept : kept[p].hash = new[p].hash
  <2>1. done = Applied(staged, written, plan.delete_local)
    BY <1>3, Zenon
  <2>2. kept = Applied(staged, got, plan.delete_local)
    BY <1>2, Zenon
  <2>3. SameContents(got, Received(plan))
    BY <1>2 DEF SameContents
  <2> QED BY <1>4, <1>5, <2>1, <2>2, <2>3
<1>7. RowsOK(new, h + 1) /\ IsFiniteSet(DOMAIN new) /\ TreeTypeOK(staged)
  BY <1>1, MeetingTyped, Zenon
<1>8. LiveOf(new) \subseteq DOMAIN new /\ IsFiniteSet(LiveOf(new))
  <2>1. LiveOf(new) \subseteq DOMAIN new
    BY DEF LiveOf
  <2> QED BY <1>7, <2>1, FS_Subset
<1>9. ASSUME NEW x, DOMAIN x = DownloadPaths(plan), \A p \in DownloadPaths(plan) : x[p] \in Meta,
             NEW y, y = Applied(staged, x, plan.delete_local), DOMAIN y = LiveOf(new)
      PROVE  TreeTypeOK(y)
  <2>1. /\ DOMAIN y = (DOMAIN staged \cup DOMAIN x) \ plan.delete_local
        /\ \A p \in DOMAIN y : y[p] = IF p \in DOMAIN x THEN x[p] ELSE staged[p]
    BY <1>9 DEF Applied
  <2>2. \A p \in DOMAIN staged : staged[p] \in Meta
    BY <1>7 DEF TreeTypeOK
  <2>3. \A p \in DOMAIN y : y[p] \in Meta
    BY <1>9, <2>1, <2>2
  <2>4. DOMAIN y \subseteq Path
    BY <1>7, <1>8, <1>9 DEF RowsOK
  <2> QED BY <2>3, <2>4 DEF TreeTypeOK
<1>10. TreeTypeOK(done) /\ TreeTypeOK(kept)
  <2>1. done = Applied(staged, written, plan.delete_local)
    BY <1>3, Zenon
  <2>2. kept = Applied(staged, got, plan.delete_local)
    BY <1>2, Zenon
  <2> QED BY <1>4, <1>6, <1>9, <2>1, <2>2
<1>11. LosersRest(done, kept, new, h + 1)
  <2> SUFFICES ASSUME NEW q \in DOMAIN done \cup DOMAIN kept \cup DOMAIN new, IsMarker(q)
               PROVE  /\ q \in DOMAIN done /\ q \in DOMAIN kept /\ q \in DOMAIN new
                      /\ new[q].rev <= h + 1 /\ ~ new[q].deleted
                      /\ done[q].hash = kept[q].hash
    BY DEF LosersRest
  <2>1. q \in DOMAIN new
    BY <1>6, <1>8
  <2>2. ~ new[q].deleted
    BY <1>1, <2>1, LosersStay, Zenon
  <2>3. q \in LiveOf(new)
    BY <2>1, <2>2 DEF LiveOf
  <2>4. new[q].rev <= h + 1
    BY <1>7, <2>1 DEF RowsOK
  <2> QED BY <1>6, <2>1, <2>2, <2>3, <2>4
<1>12. Finite(done, kept, new)
  BY <1>6, <1>7, <1>8 DEF Finite
<1>13. \A p \in LiveOf(new) : done[p].hash = new[p].hash /\ kept[p].hash = new[p].hash
  BY <1>6
<1> QED BY <1>6, <1>7, <1>10, <1>11, <1>12, <1>13 DEF Met

\* A path a user gives is no loser's.
LEMMA UserPathsAre ==
    ASSUME NEW p \in UserPaths
    PROVE  p \in Path /\ ~ IsMarker(p)
<1>1. PICK f \in Files : p = UserPath(f)
  BY DEF UserPaths
<1> QED BY <1>1 DEF UserPath, Path, IsMarker

\* What Keep and Drop do, and that they leave finitely many paths.
HasAlso(tree, p, meta, new) ==
    /\ DOMAIN new = DOMAIN tree \cup {p}
    /\ new[p] = meta /\ \A q \in DOMAIN tree : q # p => new[q] = tree[q]
    /\ IsFiniteSet(DOMAIN tree) => IsFiniteSet(DOMAIN new)

HasNot(tree, p, new) ==
    /\ DOMAIN new = DOMAIN tree \ {p} /\ \A q \in DOMAIN new : new[q] = tree[q]
    /\ IsFiniteSet(DOMAIN tree) => IsFiniteSet(DOMAIN new)

LEMMA KeepIs ==
    ASSUME NEW tree, NEW p, NEW meta, NEW new, new = Keep(tree, p, meta)
    PROVE  HasAlso(tree, p, meta, new) /\ IsTree(new)
<1>1. new = [q \in DOMAIN tree \cup {p} |-> IF q = p THEN meta ELSE tree[q]]
  BY DEF Keep
<1>2. DOMAIN new = DOMAIN tree \cup {p}
  BY <1>1
<1>3. new[p] = meta /\ \A q \in DOMAIN tree : q # p => new[q] = tree[q]
  BY <1>1
<1>4. IsTree(new)
  BY <1>1 DEF IsTree
<1>5. IsFiniteSet(DOMAIN tree) => IsFiniteSet(DOMAIN new)
  BY <1>2, FS_AddElement
<1> QED BY <1>2, <1>3, <1>4, <1>5 DEF HasAlso

LEMMA DropIs ==
    ASSUME NEW tree, NEW p, NEW new, new = Drop(tree, {p})
    PROVE  HasNot(tree, p, new) /\ IsTree(new)
<1>1. new = [q \in DOMAIN tree \ {p} |-> tree[q]]
  BY DEF Drop
<1>2. DOMAIN new = DOMAIN tree \ {p} /\ DOMAIN new \subseteq DOMAIN tree
  BY <1>1
<1>3. IsTree(new) /\ \A q \in DOMAIN new : new[q] = tree[q]
  BY <1>1 DEF IsTree
<1> QED BY <1>2, <1>3, FS_Subset DEF HasNot

\* A save the user makes, dated otherwise than the baseline has it.
LEMMA SaveKeeps ==
    ASSUME NEW tree, NEW files, NEW index, NEW r, Sound(tree, files, index, r),
           NEW p \in UserPaths, NEW meta,
           ~ (p \in DOMAIN files /\ files[p].mtime = meta.mtime),
           NEW new, new = Keep(tree, p, meta)
    PROVE  Sound(new, files, index, r)
<1>1. HasAlso(tree, p, meta, new)
  BY KeepIs, Zenon
<1>2. ~ IsMarker(p)
  BY UserPathsAre
<1>3. Finite(new, files, index) /\ Agrees(files, index, r)
  BY <1>1 DEF Sound, HasAlso, Finite
<1>4. Trusted(new, files)
  BY <1>1 DEF Sound, HasAlso, Trusted
<1>5. LosersRest(new, files, index, r)
  BY <1>1, <1>2 DEF Sound, HasAlso, LosersRest
<1> QED BY <1>3, <1>4, <1>5 DEF Sound

\* A save the user deletes.
LEMMA DropKeeps ==
    ASSUME NEW tree, NEW files, NEW index, NEW r, Sound(tree, files, index, r),
           NEW p \in UserPaths, NEW new, new = Drop(tree, {p})
    PROVE  Sound(new, files, index, r)
<1>1. HasNot(tree, p, new)
  BY DropIs, Zenon
<1>2. ~ IsMarker(p)
  BY UserPathsAre
<1>3. Finite(new, files, index) /\ Agrees(files, index, r)
  BY <1>1 DEF Sound, HasNot, Finite
<1>4. Trusted(new, files)
  BY <1>1 DEF Sound, HasNot, Trusted
<1>5. LosersRest(new, files, index, r)
  BY <1>1, <1>2 DEF Sound, HasNot, LosersRest
<1> QED BY <1>3, <1>4, <1>5 DEF Sound

\* A record another device writes.
LEMMA PutKeeps ==
    ASSUME NEW tree, NEW files, NEW index, NEW r \in Int, Sound(tree, files, index, r),
           NEW p \in UserPaths, NEW entry, entry.rev \in Int, entry.rev > r,
           NEW new, new = Keep(index, p, entry)
    PROVE  Sound(tree, files, new, r)
<1>1. HasAlso(index, p, entry, new)
  BY KeepIs, Zenon
<1>2. ~ IsMarker(p)
  BY UserPathsAre
<1>3. Finite(tree, files, new) /\ Trusted(tree, files)
  BY <1>1 DEF Sound, HasAlso, Finite
<1>4. Agrees(files, new, r)
  BY <1>1 DEF Sound, HasAlso, Agrees
<1>5. LosersRest(tree, files, new, r)
  BY <1>1, <1>2 DEF Sound, HasAlso, LosersRest
<1> QED BY <1>3, <1>4, <1>5 DEF Sound

\* After a cycle.
LEMMA MetIsSound ==
    ASSUME NEW tree, NEW files, NEW index, NEW h, Met(tree, files, index, h)
    PROVE  Sound(tree, files, index, h)
<1>1. /\ DOMAIN tree = LiveOf(index) /\ DOMAIN files = LiveOf(index)
      /\ \A p \in LiveOf(index) : tree[p].hash = index[p].hash /\ files[p].hash = index[p].hash
      /\ Finite(tree, files, index) /\ LosersRest(tree, files, index, h)
  BY DEF Met
<1>2. Trusted(tree, files)
  BY <1>1 DEF Trusted
<1>3. Agrees(files, index, h)
  BY <1>1 DEF Agrees, LiveOf
<1> QED BY <1>1, <1>2, <1>3 DEF Sound

\* The scan that trusts the dates finds what is on the disk.
LEMMA ScanIsDisk ==
    ASSUME NEW tree, NEW files, IsTree(tree), TreeTypeOK(tree), Trusted(tree, files)
    PROVE  Scan(tree, files) = tree
<1>1. ASSUME NEW p \in DOMAIN tree
      PROVE  (IF p \in DOMAIN files /\ files[p].mtime = tree[p].mtime
              THEN [tree[p] EXCEPT !.hash = files[p].hash] ELSE tree[p]) = tree[p]
  <2>1. CASE p \in DOMAIN files /\ files[p].mtime = tree[p].mtime
    <3>1. files[p].hash = tree[p].hash
      BY <2>1 DEF Trusted
    <3>2. \A m \in Meta : [m EXCEPT !.hash = m.hash] = m
      BY DEF Meta
    <3>3. tree[p] \in Meta
      BY DEF TreeTypeOK
    <3> QED BY <2>1, <3>1, <3>2, <3>3
  <2> QED BY <2>1
<1>2. Scan(tree, files) = [p \in DOMAIN tree |-> tree[p]]
  BY <1>1 DEF Scan
<1> QED BY <1>2 DEF IsTree

\* What a cycle starts from.
LEMMA SoundIsReady ==
    ASSUME NEW tree, NEW files, NEW index, NEW r \in Nat, Sound(tree, files, index, r),
           TreeTypeOK(tree), TreeTypeOK(files), NEW h, RowsOK(index, h)
    PROVE  Ready(tree, files, index, r)
<1>1. DOMAIN tree \subseteq Path /\ DOMAIN files \subseteq Path
  BY DEF TreeTypeOK
<1>2. DOMAIN index \subseteq Path /\ \A p \in DOMAIN index : index[p].rev \in Nat
  BY DEF RowsOK, Entry
<1> QED BY <1>1, <1>2 DEF Ready, Sound

\* Nothing is anywhere yet.
LEMMA FolderBegins ==
    ASSUME FolderInit
    PROVE  FolderInvariant
<1>1. /\ folders = [f \in Folders |-> << >>] /\ mounted = Folders
      /\ source_path \in Folders /\ server \in Servers
      /\ servers = [s \in Servers |-> [head |-> 0, index |-> << >>, mine |-> 0]]
      /\ baseline = [last_rev |-> 0, files |-> << >>]
      /\ versions = 0 /\ removed = {} /\ synced = FALSE
  BY DEF FolderInit
<1>2. PICK none : none = << >>
  OBVIOUS
<1>3. DOMAIN none = {} /\ IsTree(none)
  <2>1. DOMAIN none = {}
    BY <1>2
  <2>2. none = [p \in {} |-> none[p]]
    BY <1>2
  <2> QED BY <2>1, <2>2 DEF IsTree
<1>4. /\ \A f \in Folders : folders[f] = none
      /\ \A s \in Servers : /\ servers[s] = [head |-> 0, index |-> none, mine |-> 0]
                            /\ servers[s].head = 0 /\ servers[s].index = none /\ servers[s].mine = 0
      /\ baseline.last_rev = 0 /\ baseline.files = none
  BY <1>1, <1>2
<1>5. FolderShape
  <2>1. folders = [f \in Folders |-> folders[f]]
    BY <1>1
  <2>2. servers = [s \in Servers |-> servers[s]]
    BY <1>1
  <2> QED BY <1>3, <1>4, <2>1, <2>2 DEF FolderShape
<1>6. FolderTypeOK
  <2>1. versions \in 0 .. MaxVersions
    BY <1>1, ContentsAssumption
  <2>2. TreeTypeOK(none)
    BY <1>3 DEF TreeTypeOK
  <2>3. \A s \in Servers : servers[s].mine <= servers[s].head /\ DOMAIN servers[s].index = {}
    BY <1>3, <1>4
  <2>4. TreeTypeOK(baseline.files) /\ \A f \in Folders : TreeTypeOK(folders[f])
    BY <1>4, <2>2
  <2>5. baseline.files = << >>
    BY <1>2, <1>4
  <2> QED BY <1>1, <2>1, <2>3, <2>4, <2>5 DEF FolderTypeOK
<1>7. Here = none /\ There.index = none /\ There.mine = 0
  BY <1>1, <1>4 DEF Here, There
<1>8. Sound(none, none, none, 0)
  <2>1. IsFiniteSet({})
    BY FS_EmptySet
  <2> QED BY <1>3, <2>1 DEF Sound, Finite, Trusted, Agrees, LosersRest
<1>9. SyncedMeansEqual
  BY <1>1 DEF SyncedMeansEqual
<1> QED BY <1>1, <1>3, <1>4, <1>5, <1>6, <1>7, <1>8, <1>9 DEF FolderInvariant

\* The user's own steps, in any folder.
LEMMA UserSaveKeepsFolder ==
    ASSUME Undisturbed, FolderInvariant,
           NEW f \in Folders, NEW p \in UserPaths, NEW m \in MTimes, UserSave(f, p, m)
    PROVE  FolderInvariant'
<1>1. PICK meta : meta = [hash |-> versions + 1, mtime |-> m]
  OBVIOUS
<1>2. PICK new : new = Keep(folders[f], p, meta)
  OBVIOUS
<1>3. /\ folders' = [folders EXCEPT ![f] = new]
      /\ versions < MaxVersions /\ versions' = versions + 1 /\ synced' = FALSE
      /\ ~ SameStat(p, m)
      /\ UNCHANGED <<mounted, source_path, server, servers, baseline, removed>>
  <2>1. folders' = [folders EXCEPT ![f] = Keep(@, p, [hash |-> versions + 1, mtime |-> m])]
    BY DEF UserSave
  <2>2. folders' = [folders EXCEPT ![f] = new]
    BY <1>1, <1>2, <2>1, Zenon
  <2> QED BY <2>2 DEF UserSave, Touch, Undisturbed
<1>4. FolderShape /\ FolderTypeOK /\ source_path \in Folders
  BY DEF FolderInvariant, FolderTypeOK
<1>5. /\ folders' = [g \in Folders |-> folders'[g]]
      /\ folders'[f] = new /\ \A g \in Folders : g # f => folders'[g] = folders[g]
  BY <1>3, <1>4 DEF FolderShape
<1>6. HasAlso(folders[f], p, meta, new) /\ IsTree(new)
  BY <1>2, KeepIs, Zenon
<1>7. meta \in Meta /\ versions' \in 0 .. MaxVersions
  BY <1>1, <1>3, <1>4, ContentsAssumption DEF Meta, FolderTypeOK
<1>8. FolderShape'
  BY <1>3, <1>4, <1>5, <1>6 DEF FolderShape
<1>9. FolderTypeOK'
  <2>1. TreeTypeOK(new)
    <3>1. p \in Path
      BY UserPathsAre
    <3>2. TreeTypeOK(folders[f])
      BY <1>4 DEF FolderTypeOK
    <3> QED BY <1>6, <1>7, <3>1, <3>2 DEF TreeTypeOK, HasAlso
  <2>2. \A g \in Folders : TreeTypeOK(folders'[g])
    BY <1>4, <1>5, <2>1 DEF FolderTypeOK
  <2> QED BY <1>3, <1>4, <1>7, <2>2 DEF FolderTypeOK
<1>10. Sound(Here, baseline.files, There.index, baseline.last_rev)'
       /\ (DOMAIN baseline.files \ DOMAIN Here \subseteq removed)'
  <2>1. /\ Sound(folders[source_path], baseline.files, There.index, baseline.last_rev)
        /\ DOMAIN baseline.files \ DOMAIN folders[source_path] \subseteq removed
    BY DEF FolderInvariant, Here
  <2>2. CASE f = source_path
    <3>1. ~ (p \in DOMAIN baseline.files /\ baseline.files[p].mtime = meta.mtime)
      BY <1>1, <1>3 DEF SameStat
    <3>2. Sound(new, baseline.files, There.index, baseline.last_rev)
      BY <1>2, <2>1, <2>2, <3>1, SaveKeeps
    <3>3. DOMAIN baseline.files \ DOMAIN new \subseteq removed
      BY <1>6, <2>1, <2>2 DEF HasAlso
    <3> QED BY <1>3, <1>5, <2>2, <3>2, <3>3 DEF Here, There
  <2>3. CASE f # source_path
    BY <1>3, <1>4, <1>5, <2>1, <2>3 DEF Here, There
  <2> QED BY <2>2, <2>3
<1>11. (There.mine = baseline.last_rev)' /\ (mounted = Folders)'
  BY <1>3 DEF FolderInvariant, There
<1> QED BY <1>3, <1>8, <1>9, <1>10, <1>11 DEF FolderInvariant, SyncedMeansEqual

LEMMA UserDeleteKeepsFolder ==
    ASSUME FolderInvariant, NEW p \in UserPaths, UserDelete(p)
    PROVE  FolderInvariant'
<1>1. PICK new : new = Drop(folders[source_path], {p})
  OBVIOUS
<1>2. /\ folders' = [folders EXCEPT ![source_path] = new]
      /\ removed' = removed \cup {p} /\ synced' = FALSE
      /\ UNCHANGED <<mounted, source_path, server, servers, baseline, versions>>
  <2>1. folders' = [folders EXCEPT ![source_path] = Drop(@, {p})]
    BY DEF UserDelete
  <2>2. folders' = [folders EXCEPT ![source_path] = new]
    BY <1>1, <2>1, Zenon
  <2> QED BY <2>2 DEF UserDelete, Touch
<1>3. FolderShape /\ FolderTypeOK /\ source_path \in Folders
  BY DEF FolderInvariant, FolderTypeOK
<1>4. /\ folders' = [g \in Folders |-> folders'[g]]
      /\ folders'[source_path] = new
      /\ \A g \in Folders : g # source_path => folders'[g] = folders[g]
  BY <1>2, <1>3 DEF FolderShape
<1>5. HasNot(folders[source_path], p, new) /\ IsTree(new)
  BY <1>1, DropIs, Zenon
<1>6. FolderShape'
  BY <1>2, <1>3, <1>4, <1>5 DEF FolderShape
<1>7. FolderTypeOK'
  <2>1. TreeTypeOK(new)
    <3>1. TreeTypeOK(folders[source_path])
      BY <1>3 DEF FolderTypeOK
    <3> QED BY <1>5, <3>1 DEF TreeTypeOK, HasNot
  <2>2. \A g \in Folders : TreeTypeOK(folders'[g])
    BY <1>3, <1>4, <2>1 DEF FolderTypeOK
  <2> QED BY <1>2, <1>3, <2>2 DEF FolderTypeOK
<1>8. Sound(Here, baseline.files, There.index, baseline.last_rev)'
      /\ (DOMAIN baseline.files \ DOMAIN Here \subseteq removed)'
  <2>1. /\ Sound(folders[source_path], baseline.files, There.index, baseline.last_rev)
        /\ DOMAIN baseline.files \ DOMAIN folders[source_path] \subseteq removed
    BY DEF FolderInvariant, Here
  <2>2. Sound(new, baseline.files, There.index, baseline.last_rev)
    BY <1>1, <2>1, DropKeeps
  <2>3. DOMAIN baseline.files \ DOMAIN new \subseteq removed \cup {p}
    BY <1>5, <2>1 DEF HasNot
  <2> QED BY <1>2, <1>4, <2>2, <2>3 DEF Here, There
<1>9. (There.mine = baseline.last_rev)' /\ (mounted = Folders)'
  BY <1>2 DEF FolderInvariant, There
<1> QED BY <1>2, <1>6, <1>7, <1>8, <1>9 DEF FolderInvariant, SyncedMeansEqual

\* The two fields another device writes, as one record.
LEMMA RowWritten ==
    ASSUME FolderShape, NEW s \in Servers, NEW h, NEW new
    PROVE  [servers EXCEPT ![s].head = h, ![s].index = new] =
               [servers EXCEPT ![s] = [head |-> h, index |-> new, mine |-> servers[s].mine]]
<1>1. PICK hd, ix, mn : hd = servers[s].head /\ ix = servers[s].index /\ mn = servers[s].mine
  OBVIOUS
<1>2. servers[s] = [head |-> hd, index |-> ix, mine |-> mn] /\ s \in DOMAIN servers
  BY <1>1 DEF FolderShape
<1>3. [[servers[s] EXCEPT !.head = h] EXCEPT !.index = new] = [head |-> h, index |-> new, mine |-> mn]
  <2>1. [[head |-> hd, index |-> ix, mine |-> mn] EXCEPT !.head = h] = [head |-> h, index |-> ix, mine |-> mn]
    OBVIOUS
  <2>2. [[head |-> h, index |-> ix, mine |-> mn] EXCEPT !.index = new] = [head |-> h, index |-> new, mine |-> mn]
    OBVIOUS
  <2> QED BY <1>2, <2>1, <2>2, Zenon
<1>4. [servers EXCEPT ![s].head = h, ![s].index = new] =
          [servers EXCEPT ![s] = [[servers[s] EXCEPT !.head = h] EXCEPT !.index = new]]
  BY <1>2
<1> QED BY <1>1, <1>3, <1>4

\* A step of another device: a record on top of the index of s.
LEMMA RowKeepsFolder ==
    ASSUME FolderInvariant, NEW s \in Servers, NEW p \in UserPaths,
           NEW entry \in Entry, entry.rev = servers[s].head + 1,
           entry.deleted <=> entry.hash = NoHash,
           NEW new, new = Keep(servers[s].index, p, entry),
           servers' = [servers EXCEPT ![s] = [head |-> servers[s].head + 1, index |-> new,
                                              mine |-> servers[s].mine]],
           versions' \in 0 .. MaxVersions, synced' = FALSE,
           UNCHANGED <<folders, mounted, source_path, server, baseline, removed>>
    PROVE  FolderInvariant'
<1>1. /\ FolderShape /\ FolderTypeOK /\ source_path \in Folders /\ server \in Servers
      /\ servers[s].head \in Nat /\ servers[s].mine \in Nat /\ servers[s].mine <= servers[s].head
  BY DEF FolderInvariant, FolderTypeOK, FolderShape
<1>2. /\ servers' = [t \in Servers |-> servers'[t]]
      /\ servers'[s] = [head |-> servers[s].head + 1, index |-> new, mine |-> servers[s].mine]
      /\ servers'[s].head = servers[s].head + 1 /\ servers'[s].index = new
      /\ servers'[s].mine = servers[s].mine
      /\ \A t \in Servers : t # s => servers'[t] = servers[t]
  BY <1>1 DEF FolderShape
<1>3. HasAlso(servers[s].index, p, entry, new) /\ IsTree(new)
  BY KeepIs, Zenon
<1>4. FolderShape'
  BY <1>1, <1>2 DEF FolderShape
<1>5. RowsOK(new, servers[s].head + 1)
  <2>1. \A q \in DOMAIN servers[s].index :
            /\ q \in Path /\ servers[s].index[q] \in Entry
            /\ servers[s].index[q].rev <= servers[s].head
            /\ servers[s].index[q].deleted <=> servers[s].index[q].hash = NoHash
    BY <1>1 DEF FolderTypeOK
  <2>2. p \in Path
    BY UserPathsAre
  <2>3. ASSUME NEW q \in DOMAIN new
        PROVE  /\ q \in Path /\ new[q] \in Entry /\ new[q].rev <= servers[s].head + 1
               /\ new[q].deleted <=> new[q].hash = NoHash
    <3>1. CASE q = p
      <4>1. new[q] = entry /\ q \in Path
        BY <1>3, <2>2, <3>1 DEF HasAlso
      <4> QED BY <1>1, <4>1
    <3>2. CASE q # p
      <4>1. q \in DOMAIN servers[s].index /\ new[q] = servers[s].index[q]
        BY <1>3, <3>2 DEF HasAlso
      <4>2. servers[s].index[q].rev \in Nat
        BY <2>1, <4>1 DEF Entry
      <4> QED BY <1>1, <2>1, <4>1, <4>2
    <3> QED BY <3>1, <3>2
  <2> QED BY <2>3 DEF RowsOK
<1>6. FolderTypeOK'
  <2>1. ASSUME NEW t \in Servers
        PROVE  servers'[t].mine <= servers'[t].head /\ RowsOK(servers'[t].index, servers'[t].head)
    <3>1. CASE t = s
      BY <1>1, <1>2, <1>5, <3>1
    <3>2. CASE t # s
      BY <1>1, <1>2, <3>2 DEF FolderTypeOK, RowsOK
    <3> QED BY <3>1, <3>2
  <2> QED BY <1>1, <2>1 DEF FolderTypeOK, RowsOK
<1>7. There.mine = baseline.last_rev /\ Sound(Here, baseline.files, There.index, baseline.last_rev)
  BY DEF FolderInvariant
<1>8. (There.mine = baseline.last_rev)' /\ Sound(Here, baseline.files, There.index, baseline.last_rev)'
  <2>1. CASE s = server
    <3>1. baseline.last_rev \in Int /\ entry.rev \in Int /\ entry.rev > baseline.last_rev
      BY <1>1, <1>7, <2>1 DEF There
    <3>2. Sound(Here, baseline.files, servers[s].index, baseline.last_rev)
      BY <1>7, <2>1 DEF There
    <3>3. Sound(Here, baseline.files, new, baseline.last_rev)
      BY <3>1, <3>2, PutKeeps
    <3> QED BY <1>2, <1>7, <2>1, <3>3 DEF Here, There
  <2>2. CASE s # server
    <3>1. servers'[server] = servers[server]
      BY <1>1, <1>2, <2>2
    <3> QED BY <1>7, <3>1 DEF Here, There
  <2> QED BY <2>1, <2>2
<1>9. (DOMAIN baseline.files \ DOMAIN Here \subseteq removed)' /\ (mounted = Folders)'
  BY DEF FolderInvariant, Here
<1> QED BY <1>4, <1>6, <1>8, <1>9 DEF FolderInvariant, SyncedMeansEqual

\* Both steps of another device are that.
LEMMA OtherPutKeepsFolder ==
    ASSUME FolderInvariant, NEW s \in Servers, NEW p \in UserPaths, NEW m \in MTimes, OtherPut(s, p, m)
    PROVE  FolderInvariant'
<1>1. PICK hd, entry : hd = servers[s].head /\ entry = LiveEntry(hd + 1, versions + 1, m)
  OBVIOUS
<1>2. PICK new : new = Keep(servers[s].index, p, entry)
  OBVIOUS
<1>3. /\ hd \in Nat /\ versions \in 0 .. MaxVersions
      /\ versions < MaxVersions /\ versions' = versions + 1 /\ synced' = FALSE
      /\ UNCHANGED <<folders, mounted, source_path, server, baseline, removed>>
  BY <1>1 DEF OtherPut, Touch, FolderInvariant, FolderTypeOK, FolderShape
<1>4. servers' = [servers EXCEPT ![s] = [head |-> servers[s].head + 1, index |-> new,
                                        mine |-> servers[s].mine]]
  <2>1. servers' = [servers EXCEPT ![s].head = @ + 1,
                       ![s].index = Keep(@, p, LiveEntry(servers[s].head + 1, versions + 1, m))]
    BY DEF OtherPut
  <2>2. new = Keep(servers[s].index, p, LiveEntry(servers[s].head + 1, versions + 1, m))
    BY <1>1, <1>2, Zenon
  <2>3. servers' = [servers EXCEPT ![s].head = servers[s].head + 1, ![s].index = new]
    BY <2>1, <2>2
  <2>4. FolderShape
    BY DEF FolderInvariant
  <2> QED BY <2>3, <2>4, RowWritten
<1>5. versions' \in 0 .. MaxVersions /\ versions + 1 \in Hashes /\ m \in Int
  BY <1>3, ContentsAssumption
<1>6. entry \in Entry /\ entry.rev = servers[s].head + 1 /\ (entry.deleted <=> entry.hash = NoHash)
  BY <1>1, <1>3, <1>5, NoHashAssumption DEF LiveEntry, Entry
<1> QED BY <1>2, <1>3, <1>4, <1>5, <1>6, RowKeepsFolder

LEMMA OtherDeleteKeepsFolder ==
    ASSUME FolderInvariant, NEW s \in Servers, NEW p \in UserPaths, OtherDelete(s, p)
    PROVE  FolderInvariant'
<1>1. PICK hd, entry : hd = servers[s].head /\ entry = Tombstone(hd + 1)
  OBVIOUS
<1>2. PICK new : new = Keep(servers[s].index, p, entry)
  OBVIOUS
<1>3. /\ hd \in Nat /\ versions' \in 0 .. MaxVersions /\ synced' = FALSE
      /\ UNCHANGED <<folders, mounted, source_path, server, baseline, removed>>
  BY <1>1 DEF OtherDelete, Touch, FolderInvariant, FolderTypeOK, FolderShape
<1>4. servers' = [servers EXCEPT ![s] = [head |-> servers[s].head + 1, index |-> new,
                                        mine |-> servers[s].mine]]
  <2>1. servers' = [servers EXCEPT ![s].head = @ + 1,
                       ![s].index = Keep(@, p, Tombstone(servers[s].head + 1))]
    BY DEF OtherDelete
  <2>2. new = Keep(servers[s].index, p, Tombstone(servers[s].head + 1))
    BY <1>1, <1>2, Zenon
  <2>3. servers' = [servers EXCEPT ![s].head = servers[s].head + 1, ![s].index = new]
    BY <2>1, <2>2
  <2>4. FolderShape
    BY DEF FolderInvariant
  <2> QED BY <2>3, <2>4, RowWritten
<1>5. entry \in Entry /\ entry.rev = servers[s].head + 1 /\ (entry.deleted <=> entry.hash = NoHash)
  BY <1>1, <1>3 DEF Tombstone, Entry
<1> QED BY <1>2, <1>3, <1>4, <1>5, RowKeepsFolder

\* A cycle under the invariant: what it leaves behind meets, and what it buries
\* was missing from the folder.
LEMMA CycleDoes ==
    ASSUME FolderInvariant, NEW time \in MTimes, Cycle(time)
    PROVE  \E new, done, kept :
               /\ Met(done, kept, new, servers[server].head + 1) /\ IsTree(done)
               /\ LiveOf(servers[server].index) \ LiveOf(new)
                      \subseteq DOMAIN baseline.files \ DOMAIN folders[source_path]
               /\ servers' = [servers EXCEPT ![server] =
                                 [head |-> servers[server].head + 1, index |-> new,
                                  mine |-> servers[server].head + 1]]
               /\ folders' = [folders EXCEPT ![source_path] = done]
               /\ baseline' = [last_rev |-> servers[server].head + 1, files |-> kept]
               /\ removed' = {}
               /\ UNCHANGED <<mounted, source_path, server, versions>>
<1>1. PICK tree, files, index, r, h :
          /\ tree = folders[source_path] /\ files = baseline.files /\ r = baseline.last_rev
          /\ index = servers[server].index /\ h = servers[server].head
  OBVIOUS
<1>2. source_path \in Folders /\ source_path \in mounted /\ server \in Servers
  BY DEF FolderInvariant, FolderTypeOK
<1>3. /\ TreeTypeOK(tree) /\ TreeTypeOK(files) /\ RowsOK(index, h)
      /\ IsTree(tree) /\ h \in Nat /\ r \in Nat /\ servers[server].mine = r
      /\ Sound(tree, files, index, r)
  <2>1. FolderShape /\ FolderTypeOK /\ There.mine = baseline.last_rev
        /\ Sound(Here, baseline.files, There.index, baseline.last_rev)
    BY DEF FolderInvariant
  <2>2. TreeTypeOK(tree) /\ TreeTypeOK(files) /\ RowsOK(index, h)
    BY <1>1, <1>2, <2>1 DEF FolderTypeOK, RowsOK
  <2>3. IsTree(tree) /\ h \in Nat /\ servers[server].mine \in Nat
    BY <1>1, <1>2, <2>1 DEF FolderShape
  <2> QED BY <1>1, <2>1, <2>2, <2>3 DEF Here, There
<1>4. OnDisk = tree
  BY <1>1, <1>2 DEF OnDisk
<1>5. Scanned = tree
  <2>1. Scan(tree, files) = tree
    BY <1>3, ScanIsDisk DEF Sound
  <2> QED BY <1>1, <1>4, <2>1 DEF Scanned
<1>6. PICK plan : plan = PlanOf(servers[server])
  OBVIOUS
<1>7. plan = ComputePlan(LocalChanges(files, tree), ChangesSince(index, r), LiveOf(index))
  <2>1. Least(baseline.last_rev, servers[server].mine) = r
    BY <1>1, <1>3 DEF Least
  <2> QED BY <1>1, <1>5, <1>6, <2>1 DEF PlanOf
<1>8. PICK staged : staged = Renamed(tree, plan)
  OBVIOUS
<1>9. PICK new, done, kept :
          /\ new = Committed(index, plan, staged, h + 1)
          /\ done = Applied(staged, WrittenAt(time, Received(plan)), plan.delete_local)
          /\ kept = Applied(staged, Received(plan), plan.delete_local)
  OBVIOUS
<1>10. /\ servers' = [servers EXCEPT ![server] = [head |-> h + 1, index |-> new, mine |-> h + 1]]
       /\ folders' = [folders EXCEPT ![source_path] = done]
       /\ baseline' = [last_rev |-> h + 1, files |-> kept]
       /\ removed' = {}
       /\ UNCHANGED <<mounted, source_path, server, versions>>
  <2>1. /\ Renamed(Scanned, plan) = staged /\ Renamed(OnDisk, plan) = staged
        /\ NewFiles(staged, plan) = kept
    BY <1>4, <1>5, <1>8, <1>9 DEF NewFiles
  <2>2. Cycle(time)
    OBVIOUS
  <2> QED BY <1>1, <1>2, <1>6, <1>9, <2>1, <2>2 DEF Cycle
<1>11. time \in Int
  BY ContentsAssumption
<1>12. Ready(tree, files, index, r)
  BY <1>3, SoundIsReady
<1>13. Met(done, kept, new, h + 1)
  BY <1>3, <1>7, <1>8, <1>9, <1>11, <1>12, CycleMeets
<1>14. LiveOf(index) \ LiveOf(new) \subseteq DOMAIN files \ DOMAIN tree
  <2>1. PICK puts, gone, edited, buried, byClient, byServer :
            Planned(tree, files, index, r, plan, puts, gone, edited, buried, byClient, byServer)
    BY <1>7, <1>12, PlanTold, Zenon
  <2>2. new = Committed(index, plan, staged, h + 1)
    BY <1>9
  <2> QED BY <2>1, <2>2, OnlyGoneAreBuried
<1>15. IsTree(done)
  BY <1>9 DEF Applied, IsTree
<1> QED BY <1>1, <1>10, <1>13, <1>14, <1>15

\* So a cycle restores the invariant with nothing changed or removed.
LEMMA CycleKeepsFolder ==
    ASSUME FolderInvariant, NEW time \in MTimes, Cycle(time)
    PROVE  FolderInvariant'
<1>1. PICK new, done, kept :
          /\ Met(done, kept, new, servers[server].head + 1) /\ IsTree(done)
          /\ servers' = [servers EXCEPT ![server] =
                            [head |-> servers[server].head + 1, index |-> new,
                             mine |-> servers[server].head + 1]]
          /\ folders' = [folders EXCEPT ![source_path] = done]
          /\ baseline' = [last_rev |-> servers[server].head + 1, files |-> kept]
          /\ removed' = {}
          /\ UNCHANGED <<mounted, source_path, server, versions>>
  BY CycleDoes
<1>2. PICK h : h = servers[server].head + 1
  OBVIOUS
<1>3. /\ FolderShape /\ FolderTypeOK /\ mounted = Folders
      /\ source_path \in Folders /\ server \in Servers /\ h \in Nat /\ h # 0
  BY <1>2 DEF FolderInvariant, FolderTypeOK, FolderShape
<1>4. Met(done, kept, new, h)
  BY <1>1, <1>2
<1>5. /\ folders' = [f \in Folders |-> folders'[f]]
      /\ folders'[source_path] = done
      /\ \A f \in Folders : f # source_path => folders'[f] = folders[f]
  BY <1>1, <1>3 DEF FolderShape
<1>6. /\ servers' = [s \in Servers |-> servers'[s]]
      /\ servers'[server] = [head |-> h, index |-> new, mine |-> h]
      /\ servers'[server].head = h /\ servers'[server].index = new /\ servers'[server].mine = h
      /\ \A s \in Servers : s # server => servers'[s] = servers[s]
  BY <1>1, <1>2, <1>3 DEF FolderShape
<1>7. baseline'.last_rev = h /\ baseline'.files = kept
  BY <1>1, <1>2
<1>8. FolderShape'
  BY <1>1, <1>3, <1>5, <1>6 DEF FolderShape
<1>9. synced' = TRUE
  BY DEF Cycle
<1>10. FolderTypeOK'
  <2>1. TreeTypeOK(done) /\ TreeTypeOK(kept) /\ RowsOK(new, h)
    BY <1>4 DEF Met
  <2>2. \A f \in Folders : TreeTypeOK(folders'[f])
    BY <1>3, <1>5, <2>1 DEF FolderTypeOK
  <2>3. ASSUME NEW s \in Servers
        PROVE  servers'[s].mine <= servers'[s].head /\ RowsOK(servers'[s].index, servers'[s].head)
    <3>1. CASE s = server
      BY <1>3, <1>6, <2>1, <3>1
    <3>2. CASE s # server
      BY <1>3, <1>6, <3>2 DEF FolderTypeOK, RowsOK
    <3> QED BY <3>1, <3>2
  <2>4. versions' \in 0 .. MaxVersions /\ mounted' \subseteq Folders
        /\ source_path' \in Folders /\ server' \in Servers /\ synced' \in BOOLEAN
    BY <1>1, <1>3, <1>9 DEF FolderTypeOK
  <2>5. TreeTypeOK(baseline'.files) /\ baseline'.last_rev # 0
    BY <1>3, <1>7, <2>1
  <2> QED BY <2>2, <2>3, <2>4, <2>5 DEF FolderTypeOK, RowsOK
<1>11. Here' = done /\ There'.index = new /\ There'.mine = h
  BY <1>1, <1>5, <1>6 DEF Here, There
<1>12. Sound(Here, baseline.files, There.index, baseline.last_rev)'
  <2>1. Sound(done, kept, new, h)
    BY <1>4, MetIsSound
  <2> QED BY <1>7, <1>11, <2>1
<1>13. (DOMAIN baseline.files \ DOMAIN Here \subseteq removed)'
  <2>1. DOMAIN done = DOMAIN kept
    BY <1>4 DEF Met
  <2> QED BY <1>7, <1>11, <2>1
<1>14. SyncedMeansEqual'
  <2>1. OnDisk' = done
    BY <1>1, <1>3, <1>5 DEF OnDisk
  <2>2. DOMAIN done = LiveOf(new) /\ \A p \in LiveOf(new) : done[p].hash = new[p].hash
    BY <1>4 DEF Met
  <2>3. Contents(done) = Tree(new)
    BY <2>2 DEF Contents, Tree
  <2>4. servers'[server'].index = new
    BY <1>1, <1>6
  <2> QED BY <2>1, <2>3, <2>4 DEF SyncedMeansEqual
<1> QED BY <1>1, <1>3, <1>7, <1>8, <1>10, <1>11, <1>12, <1>13, <1>14 DEF FolderInvariant

\* Every step keeps the invariant.
LEMMA FolderStutters ==
    ASSUME FolderInvariant, UNCHANGED folderVars
    PROVE  FolderInvariant'
<1>1. UNCHANGED <<folders, mounted, source_path, server, servers, baseline, versions, removed, synced>>
  BY DEF folderVars
<1> QED BY <1>1 DEF FolderInvariant, FolderShape, FolderTypeOK, Here, There, SyncedMeansEqual, OnDisk

LEMMA FolderSteps ==
    ASSUME Undisturbed, FolderInvariant, [FolderNext]_folderVars
    PROVE  FolderInvariant'
<1>1. ASSUME NEW f \in Folders, NEW p \in UserPaths, NEW m \in MTimes, UserSave(f, p, m)
      PROVE  FolderInvariant'
  BY <1>1, UserSaveKeepsFolder
<1>2. ASSUME NEW p \in UserPaths, UserDelete(p)
      PROVE  FolderInvariant'
  BY <1>2, UserDeleteKeepsFolder
<1>3. ASSUME NEW s \in Servers, NEW p \in UserPaths, NEW m \in MTimes, OtherPut(s, p, m)
      PROVE  FolderInvariant'
  BY <1>3, OtherPutKeepsFolder
<1>4. ASSUME NEW s \in Servers, NEW p \in UserPaths, OtherDelete(s, p)
      PROVE  FolderInvariant'
  BY <1>4, OtherDeleteKeepsFolder
<1>5. ASSUME NEW f \in Folders, MountOrUnmount(f) \/ SetSource(f)
      PROVE  FolderInvariant'
  BY <1>5 DEF MountOrUnmount, SetSource, Undisturbed
<1>6. ASSUME NEW s \in Servers, Rehome(s)
      PROVE  FolderInvariant'
  BY <1>6 DEF Rehome, Undisturbed
<1>7. ASSUME NEW time \in MTimes, Cycle(time)
      PROVE  FolderInvariant'
  BY <1>7, CycleKeepsFolder
<1>8. CASE UNCHANGED folderVars
  BY <1>8, FolderStutters
<1>9. CASE FolderNext
  BY <1>1, <1>2, <1>3, <1>4, <1>5, <1>6, <1>7, <1>9 DEF FolderNext
<1> QED BY <1>8, <1>9

\* Right after a cycle the folder and the server hold the same saves: the scan
\* that trusts the dates, the diff, the plan, what the commit writes and what the
\* device applies leave nothing out, whatever the user and the other devices did
\* (sync_emulator, compute_plan, scan_tree's reuse of hashes).
THEOREM FolderMeetsServer ==
    ASSUME Undisturbed
    PROVE  FolderSpec => [](FolderTypeOK /\ SyncedMeansEqual)
<1>1. FolderInit => FolderInvariant
  BY FolderBegins
<1>2. FolderInvariant /\ [FolderNext]_folderVars => FolderInvariant'
  BY FolderSteps
<1>3. FolderInvariant => FolderTypeOK /\ SyncedMeansEqual
  BY DEF FolderInvariant
<1> QED BY <1>1, <1>2, <1>3, PTL DEF FolderSpec

\* A cycle of the device buries on the server only what its user deleted since
\* the cycle before (local_changes, compute_plan's deletions).
THEOREM CycleBuriesOnlyDeleted ==
    ASSUME Undisturbed
    PROVE  FolderSpec => OnlyUsersDelete
<1>1. FolderInit => FolderInvariant
  BY FolderBegins
<1>2. FolderInvariant /\ [FolderNext]_folderVars => FolderInvariant'
  BY FolderSteps
<1>3. ASSUME FolderInvariant, NEW time \in MTimes, Cycle(time)
      PROVE  LiveOf(servers[server].index) \ LiveOf(servers'[server].index) \subseteq removed
  <2>1. PICK new, done, kept :
            /\ LiveOf(servers[server].index) \ LiveOf(new)
                   \subseteq DOMAIN baseline.files \ DOMAIN folders[source_path]
            /\ servers' = [servers EXCEPT ![server] =
                              [head |-> servers[server].head + 1, index |-> new,
                               mine |-> servers[server].head + 1]]
    BY <1>3, CycleDoes
  <2>2. servers'[server].index = new
    BY <1>3, <2>1 DEF FolderInvariant, FolderShape, FolderTypeOK
  <2>3. DOMAIN baseline.files \ DOMAIN folders[source_path] \subseteq removed
    BY <1>3 DEF FolderInvariant, Here
  <2> QED BY <2>1, <2>2, <2>3
<1>4. FolderInvariant => BuriesRemoved
  BY <1>3 DEF BuriesRemoved, IsCycle
<1> QED BY <1>1, <1>2, <1>4, PTL DEF FolderSpec, OnlyUsersDelete

-----------------------------------------------------------------------------
(***************************************************************************)
(* The parts one beside the other: a behaviour of the composition is one   *)
(* of each part, that moves or stands still.                               *)
(***************************************************************************)
LEMMA PartsAreTheirs ==
    PartsSpec => MigrationsSpec /\ BisyncSpec /\ SaveHistorySpec /\ ConflictsSpec /\ FolderSpec
<1>1. PartsInit => MigrationsInit /\ BisyncInit /\ SaveHistoryInit /\ ConflictsInit /\ FolderInit
  BY DEF PartsInit
<1>2. [PartsNext]_partsVars => [MigrationsNext]_databaseVars
  BY DEF PartsNext, partsVars
<1>3. [PartsNext]_partsVars => [BisyncNext]_bisyncVars
  BY DEF PartsNext, partsVars
<1>4. [PartsNext]_partsVars => [SaveHistoryNext]_saveHistoryVars
  BY DEF PartsNext, partsVars
<1>5. [PartsNext]_partsVars => [ConflictsNext]_conflictVars
  BY DEF PartsNext, partsVars
<1>6. [PartsNext]_partsVars => [FolderNext]_folderVars
  BY DEF PartsNext, partsVars
<1> QED BY <1>1, <1>2, <1>3, <1>4, <1>5, <1>6, PTL
        DEF PartsSpec, MigrationsSpec, BisyncSpec, SaveHistorySpec, ConflictsSpec, FolderSpec

\* Type correctness of the parts together, with the desktop's script and a device
\* whose folder and server stay.
THEOREM DesktopPartsAreTyped ==
    ASSUME Script = DesktopScript, Latest = 6, Undisturbed
    PROVE  PartsSpec => []PartsTypeOK
<1>1. MigrationsSpec => []MigrationsTypeOK
  <2>1. MigrationsSpec => [](MigrationsTypeOK /\ VersionIsEarned)
    BY DesktopVersionIsEarned
  <2> QED BY <2>1, PTL
<1>2. BisyncSpec => []BisyncTypeOK
  <2>1. FlagInvariant => BisyncTypeOK
    BY DEF FlagInvariant
  <2> QED BY FlagInit, FlagStep, <2>1, PTL DEF BisyncSpec
<1>3. ConflictsSpec => []ConflictsTypeOK
  <2>1. LosersInvariant => ConflictsTypeOK
    BY DEF LosersInvariant
  <2> QED BY LosersInit, LosersStep, <2>1, PTL DEF ConflictsSpec
<1>4. FolderSpec => []FolderTypeOK
  <2>1. FolderSpec => [](FolderTypeOK /\ SyncedMeansEqual)
    BY FolderMeetsServer
  <2> QED BY <2>1, PTL
<1>5. MigrationsTypeOK /\ BisyncTypeOK /\ SaveHistoryTypeOK /\ ConflictsTypeOK /\ FolderTypeOK
      => PartsTypeOK
  BY DEF PartsTypeOK
<1> QED BY PartsAreTheirs, <1>1, <1>2, <1>3, <1>4, <1>5, SaveHistoryIsTyped, PTL

=============================================================================
