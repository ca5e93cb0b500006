----------------------------- MODULE Migration -----------------------------
(***************************************************************************)
(* perform_migration() and rollback_migration() of migrate.py: the move of *)
(* the files of a legacy installation into MMRELAY_HOME, one artifact      *)
(* after the other, with a backup of what is overwritten, a staging        *)
(* directory, a lock file, failing file operations, a process that dies    *)
(* at any of them, repeated runs and the automatic rollback.               *)
(*                                                                         *)
(* A place of an artifact holds a set of items.  An item remembers the     *)
(* place it was in at first and what it is: "main" and "side" are files,   *)
(* of the database the main one and its sidecars; "rest" is an entry of a  *)
(* directory that no pattern of the migration matches.  Dir says that a    *)
(* directory exists, empty or not.                                         *)
(***************************************************************************)
EXTENDS Naturals, Sequences, FiniteSets

CONSTANTS Layouts,   \* initial contents: a set of [Units -> [Places -> set of items]]
          RootLists, \* the lists of legacy roots that get_legacy_dirs() may find
          Modes,     \* how migrate is called: subset of {"plain", "force", "dry"}
          MaxRuns,   \* bound: migrations started
          MaxFaults  \* bound: operations that fail or are cut short

VARIABLES fs,      \* [Units -> [Places -> set of items]]
          backups, \* .migration_backups: [Units -> set of snapshots of its destination]
          roots,   \* paths_info["legacy_sources"]
          lock,    \* the lock file exists
          pc,      \* where perform_migration() is
          step,    \* index of the running _run_step() in Order
          mode,    \* dry_run and force of the run
          scan,    \* legacy_roots of the run
          picked,  \* place the running step takes its data from
          results, \* action of each completed step of the run, "none" before
          rolled,  \* rollback_report["success"]
          outcome, \* what the last run reported
          runs, faults,
          home0,   \* history: the destinations at the start of the run
          orig     \* history: the initial contents of all places

migrationVars == <<fs, backups, roots, lock, pc, step, mode, scan, picked, results,
          rolled, outcome, runs, faults, home0, orig>>
control == <<roots, lock, mode, scan, runs, home0, orig>>

\* The order of the _run_step() calls.  The systemd unit has no data and comes last.
Order == <<"credentials", "config", "database", "logs", "store", "plugins", "gpx">>
Units == {Order[i] : i \in 1..Len(Order)}

\* r1, r2: legacy roots; home: the old location inside MMRELAY_HOME; user: the
\* user's home directory, where only credentials.json is looked for.
Sources == {"r1", "r2", "home", "user"}
Places == Sources \cup {"stage", "dest"}
Item(p, n) == [from |-> p, name |-> n]
Items == [from : Sources \cup {"dest"}, name : {"main", "side", "rest"}]
Dir == [from |-> "dir", name |-> "dir"]
Nowhere == "nowhere"

\* The results that rollback_migration() passes over.
NoOps == {"already_at_target", "already_migrated", "not_found", "skip_force_required"}

Operations == {"backup", "clear", "stage", "verify", "remove", "place", "drop"}
Phases == {"idle", "select", "service", "failed", "rollback", "release", "dead"} \cup Operations

Content(S) == S \ {Dir}

\* Items are named for the place they are in at first; nothing is staged then.
\* get_legacy_dirs() lists neither MMRELAY_HOME nor the user's home directory.
ASSUME MigrationAssumption ==
    /\ Layouts \subseteq [Units -> [Places -> SUBSET (Items \cup {Dir})]]
    /\ \A f \in Layouts, u \in Units :
         /\ f[u].stage = {}
         /\ \A p \in Places : \A x \in Content(f[u][p]) : x.from = p
    /\ RootLists \subseteq Seq({"r1", "r2"})
    /\ Modes \subseteq {"plain", "force", "dry"}
    /\ MaxRuns \in Nat /\ MaxFaults \in Nat

NamesOf(S) == {x.name : x \in Content(S)}

\* Of the logs only *.log is moved, of a plugin tier only directories, of the tracks only
\* *.gpx: a rotated mmrelay.log.1 or a loose file stays behind.
Takes(u, x) == u \in {"logs", "plugins", "gpx"} => x.name # "rest"
Taken(u, S) == {x \in Content(S) : Takes(u, x)}

Cur == Order[step]

\* gpxtracker keeps its data inside the plugins directory: what happens to that
\* directory happens to the data too.
Nest(u) == IF u = "plugins" THEN {"plugins", "gpx"} ELSE {u}

-----------------------------------------------------------------------------
(* What a step looks for and where *)

\* The first of the allowed places of a list in which something exists.
FirstOf(u, places, allowed) ==
    LET found == {i \in 1..Len(places) : places[i] \in allowed /\ fs[u][places[i]] # {}}
    IN IF found = {} THEN Nowhere
       ELSE places[CHOOSE i \in found : \A j \in found : i <= j]

WithHome == IF \E i \in 1..Len(scan) : scan[i] = "home" THEN scan ELSE Append(scan, "home")
LegacyOnly == Sources \ {"home"}

\* migrate_credentials(): the legacy roots, then MMRELAY_HOME, then the user's home.
FindCredentials == {FirstOf("credentials", Append(WithHome, "user"), Sources)}

\* migrate_config(): MMRELAY_HOME itself is the target and no source.
FindConfig == {FirstOf("config", scan, LegacyOnly)}

\* migrate_database(): of all groups with a main file the most recent one; the
\* clock decides, so any of them may be it.
FindDatabase ==
    LET groups == {scan[i] : i \in {j \in 1..Len(scan) : "main" \in NamesOf(fs["database"][scan[j]])}}
    IN IF groups = {} THEN {Nowhere} ELSE groups

FindLogs == {FirstOf("logs", scan, LegacyOnly)}
FindStore == {FirstOf("store", WithHome, Sources)}
FindPlugins == {FirstOf("plugins", scan, LegacyOnly)}

\* migrate_gpxtracker(): the directory that some config.yaml names.
FindGpx == {FirstOf("gpx", <<"r1">>, Sources)}

Find(u) ==
    CASE u = "credentials" -> FindCredentials
      [] u = "config"      -> FindConfig
      [] u = "database"    -> FindDatabase
      [] u = "logs"        -> FindLogs
      [] u = "store"       -> FindStore
      [] u = "plugins"     -> FindPlugins
      [] u = "gpx"         -> FindGpx

\* The target counts as present: any file or directory for credentials, config and
\* database, a directory with entries for the others.
Present(u) == Content(fs[u].dest) # {} \/ \E v \in Nest(u) \ {u} : fs[v].dest # {}
TargetPresent(u) == IF u = "database" THEN "main" \in NamesOf(fs[u].dest) ELSE Present(u)

\* MMRELAY_HOME is the only root and the data is already where it should be.
AtTarget(u) ==
    /\ scan = <<"home">>
    /\ u \in {"config", "database", "logs", "plugins"}
    /\ TargetPresent(u)

\* The early returns of every migrate_*() function.
Action(u, p) ==
    IF AtTarget(u) THEN "already_at_target"
    ELSE IF p = Nowhere THEN IF TargetPresent(u) THEN "already_migrated" ELSE "not_found"
    ELSE IF TargetPresent(u) /\ mode # "force" THEN "skip_force_required"
    ELSE IF mode = "dry" THEN "dry_run"
    ELSE "move"

\* What each migrate_*() function does once it has found something to move.
CredentialsSteps == <<"backup", "clear", "stage", "place", "drop">>
ConfigSteps      == <<"backup", "clear", "stage", "place", "drop">>
DatabaseSteps    == <<"backup", "stage", "verify", "place", "drop">>
LogsSteps        == <<"backup", "stage", "place", "drop">>
StoreSteps       == <<"backup", "clear", "stage", "remove", "place", "drop">>
PluginsSteps     == <<"backup", "stage", "remove", "place", "drop">>
GpxSteps         == <<"backup", "stage", "place", "drop">>

StepsOf(u) ==
    CASE u = "credentials" -> CredentialsSteps
      [] u = "config"      -> ConfigSteps
      [] u = "database"    -> DatabaseSteps
      [] u = "logs"        -> LogsSteps
      [] u = "store"       -> StoreSteps
      [] u = "plugins"     -> PluginsSteps
      [] u = "gpx"         -> GpxSteps

\* The operation after this one.
Following ==
    LET s == StepsOf(Cur)
    IN s[1 + CHOOSE i \in 1..Len(s) : s[i] = pc]

-----------------------------------------------------------------------------
(* verify_migration() *)

\* What counts as data of u: for the database its main file, beside which the sidecars
\* are looked for.
HasData(u, S) == IF u = "database" THEN "main" \in NamesOf(S) ELSE Content(S) # {}

\* _find_legacy_data() on every legacy source, and the old locations in MMRELAY_HOME.
LegacyFound ==
    LET listed == {roots[i] : i \in 1..Len(roots)}
    IN {u \in Units \ {"gpx"} : \E p \in listed : HasData(u, fs[u][p])}
       \cup {u \in {"credentials", "store"} : fs[u]["home"] # {}}

\* The artifacts whose legacy copy is reported as still to be migrated; config has no
\* key in type_to_key and is reported whenever it is found.
MigrationNeeded == {u \in LegacyFound : u = "config" \/ ~TargetPresent(u)}

is_migration_needed == LegacyFound # {}

-----------------------------------------------------------------------------
(* The file operations: the file system after each, and the states in which an *)
(* interrupted one can stop *)

Put(f, u, p, S) == [f EXCEPT ![u][p] = S]

\* shutil.move() copies and then removes when it cannot rename.
TornMove(u, a, b, all) ==
    {Put(fs, u, b, fs[u][b] \cup come) : come \in SUBSET all}
    \cup {Put(Put(fs, u, a, fs[u][a] \ gone), u, b, fs[u][b] \cup all) : gone \in SUBSET all}

\* What the running step takes from its source; the store goes with its directory.
Moved == IF Cur = "store" THEN fs[Cur][picked] ELSE Taken(Cur, fs[Cur][picked])

\* Removing a destination removes what is nested in it.
RemovedDest(u, keep) == [v \in Units |-> IF v \in Nest(u) THEN [fs[v] EXCEPT !.dest = @ \cap keep] ELSE fs[v]]

\* The file-by-file replacement of the database: moved names, and names unlinked only.
DbSwapped(moved, unlinked) ==
    LET d == fs["database"]
    IN [fs EXCEPT !["database"].dest = {x \in @ : x.name \notin moved \cup unlinked}
                                        \cup {x \in d.stage : x.name \in moved},
                  !["database"].stage = {x \in @ : x.name \notin moved}]

\* Mutant: the WAL and SHM files are left behind.
DbMainOnly == {"main"}
DbNames == NamesOf(fs["database"][picked])

\* Copying the group into the staging directory replaces files of the same name.
DbStaged(names) ==
    Put(fs, "database", "stage",
        {x \in fs["database"].stage : x.name \notin names}
        \cup {x \in fs["database"][picked] : x.name \in names})

\* After the move: sources that could be deleted are gone, and sidecars that only the
\* destination had are removed.
DbDropped(left) ==
    [fs EXCEPT !["database"][picked] = left,
               !["database"].dest = {x \in @ : x.name \in DbNames}]

\* _migrate_plugin_tier(): plugins that are already staged, by name.
Staged == {x \in Taken("plugins", fs["plugins"][picked]) : x.name \in NamesOf(fs["plugins"].stage)}

TierMoved ==
    LET p == fs["plugins"]
        new == Taken("plugins", p[picked])
    IN [fs EXCEPT !["plugins"].stage = {x \in @ : x.name \notin NamesOf(Staged)} \cup new \cup {Dir},
                  !["plugins"][picked] = @ \ new]

Torn ==
    CASE pc = "clear" -> {Put(fs, Cur, "stage", S) : S \in SUBSET fs[Cur].stage}
      [] pc = "stage" /\ Cur = "database" -> {DbStaged(N) : N \in SUBSET DbNames}
      [] pc = "stage" /\ Cur # "database" -> TornMove(Cur, picked, "stage", Moved)
      [] pc = "remove" -> {RemovedDest(Cur, keep) : keep \in SUBSET UNION {fs[v].dest : v \in Nest(Cur)}}
      [] pc = "place" /\ Cur = "database" ->
            {DbSwapped(N, M) : N \in SUBSET DbNames, M \in SUBSET DbNames}
      [] pc = "place" /\ Cur \in {"logs", "store", "plugins", "gpx"} /\ picked # Nowhere -> TornMove(Cur, "stage", "dest", fs[Cur].stage)
      [] pc = "drop" /\ Cur = "database" -> {DbDropped(left) : left \in SUBSET fs["database"][picked]}
      [] OTHER -> {fs}

\* An interrupted copy leaves a partial backup.
TornBackups ==
    IF pc # "backup" THEN {backups}
    ELSE {[backups EXCEPT ![Cur] = @ \cup {[v \in Nest(Cur) |-> fs[v].dest \cap part]}] :
             part \in SUBSET UNION {fs[v].dest : v \in Nest(Cur)}}

\* With the plugins directory go the backups that gpxtracker made inside it.
WithoutNested(u) == IF u = "plugins" THEN [backups EXCEPT !["gpx"] = {}] ELSE backups
-----------------------------------------------------------------------------
MigrationInit ==
    /\ fs \in Layouts
    /\ roots \in RootLists
    /\ \A u \in Units \ {"gpx"} : \A p \in {"r1", "r2"} :
          fs[u][p] # {} => \E i \in 1..Len(roots) : roots[i] = p
    /\ backups = [u \in Units |-> {}]
    /\ lock = FALSE
    /\ pc = "idle" /\ step = 1 /\ mode = "plain" /\ scan = <<>> /\ picked = Nowhere
    /\ results = [u \in Units |-> "none"]
    /\ rolled = TRUE /\ outcome = "none" /\ runs = 0 /\ faults = 0
    /\ home0 = [u \in Units |-> fs[u].dest]
    /\ orig = [u \in Units |-> UNION {Content(fs[u][p]) : p \in Places}]

\* perform_migration() up to the lock.
Begin(m) ==
    /\ pc \in {"idle", "dead"}
    /\ runs < MaxRuns
    /\ roots # <<>> \/ is_migration_needed
    /\ m # "dry" => ~lock
    /\ scan' = IF roots = <<>> THEN <<"home">> ELSE roots
    /\ lock' = (lock \/ m # "dry")
    /\ pc' = "select" /\ step' = 1 /\ mode' = m
    /\ results' = [u \in Units |-> "none"]
    /\ home0' = [u \in Units |-> fs[u].dest]
    /\ runs' = runs + 1 /\ outcome' = "none" /\ rolled' = TRUE
    /\ UNCHANGED <<fs, backups, roots, picked, faults, orig>>

\* No legacy installation; or the relay runs, the disk is full, or the lock exists.
Declines ==
    /\ pc \in {"idle", "dead"}
    /\ runs < MaxRuns
    /\ runs' = runs + 1
    /\ outcome' = IF roots = <<>> /\ ~is_migration_needed THEN "success" ELSE "refused"
    /\ mode' = "plain"
    /\ UNCHANGED <<fs, backups, roots, lock, pc, step, scan, picked, results, rolled,
                   faults, home0, orig>>

\* The step has returned.
Advance(u, action) ==
    /\ results' = [results EXCEPT ![u] = action]
    /\ step' = step + 1
    /\ pc' = IF step = Len(Order) THEN "service" ELSE "select"
    /\ picked' = Nowhere

\* The search and the early returns of a migrate_*() function.
Select ==
    /\ pc = "select"
    /\ \E p \in Find(Cur) :
          IF Action(Cur, p) = "move"
          THEN /\ pc' = "backup" /\ picked' = p
               /\ UNCHANGED <<step, results>>
          ELSE Advance(Cur, Action(Cur, p))
    /\ UNCHANGED <<fs, backups, rolled, outcome, faults, control>>

\* Mutant: directories are not backed up.
BackupFilesOnly ==
    /\ pc = "backup"
    /\ backups' = IF fs[Cur].dest = {} \/ Dir \in fs[Cur].dest THEN backups
                  ELSE [backups EXCEPT ![Cur] = @ \cup {[v \in Nest(Cur) |-> fs[v].dest]}]
    /\ pc' = Following
    /\ UNCHANGED <<fs, step, picked, results, rolled, outcome, faults, control>>

\* Copies what is at the destination into .migration_backups.
Backup ==
    /\ pc = "backup"
    /\ backups' = IF \A v \in Nest(Cur) : fs[v].dest = {} THEN backups
                  ELSE [backups EXCEPT ![Cur] = @ \cup {[v \in Nest(Cur) |-> fs[v].dest]}]
    /\ pc' = Following
    /\ UNCHANGED <<fs, step, picked, results, rolled, outcome, faults, control>>

\* Removes what an earlier run left in the staging path.
Clear ==
    /\ pc = "clear"
    /\ fs' = Put(fs, Cur, "stage", {})
    /\ pc' = Following
    /\ UNCHANGED <<backups, step, picked, results, rolled, outcome, faults, control>>

\* Credentials, config and store are moved as a whole, logs and tracks one by one.
MoveToStage ==
    /\ pc = "stage" /\ Cur \in {"credentials", "config", "store", "logs", "gpx"}
    /\ fs' = Put(Put(fs, Cur, "stage", fs[Cur].stage \cup Moved), Cur, picked, fs[Cur][picked] \ Moved)
    /\ pc' = Following
    \* without a single track the staged ones of an earlier run are not looked at
    /\ picked' = IF Cur = "gpx" /\ Moved = {} THEN Nowhere ELSE picked
    /\ UNCHANGED <<backups, step, results, rolled, outcome, faults, control>>

CopyDatabase ==
    /\ pc = "stage" /\ Cur = "database"
    /\ fs' = DbStaged(DbNames)
    /\ pc' = Following
    /\ UNCHANGED <<backups, step, picked, results, rolled, outcome, faults, control>>

\* PRAGMA integrity_check on the staged copy; Fails is the other outcome.
VerifyDatabase ==
    /\ pc = "verify"
    /\ pc' = Following
    /\ UNCHANGED <<fs, backups, step, picked, results, rolled, outcome, faults, control>>

\* Both plugin tiers; a plugin that is already staged is an error without force.
StagePlugins ==
    /\ pc = "stage" /\ Cur = "plugins"
    /\ mode = "force" \/ Staged = {}
    /\ fs' = TierMoved
    /\ pc' = Following
    /\ UNCHANGED <<backups, step, picked, results, rolled, outcome, faults, control>>

StagePluginsCollide ==
    /\ pc = "stage" /\ Cur = "plugins" /\ mode # "force" /\ Staged # {}
    /\ LET new == Taken("plugins", fs["plugins"][picked]) \ Staged
       IN fs' = [fs EXCEPT !["plugins"].stage = @ \cup new \cup {Dir}, !["plugins"][picked] = @ \ new]
    /\ pc' = "failed"
    /\ UNCHANGED <<backups, step, picked, results, rolled, outcome, faults, control>>

\* _finalize_move() of a directory removes the destination first.
RemoveOld ==
    /\ pc = "remove"
    /\ fs' = RemovedDest(Cur, {})
    /\ backups' = WithoutNested(Cur)
    /\ pc' = Following
    /\ UNCHANGED <<step, picked, results, rolled, outcome, faults, control>>

\* The staged data goes to its destination: a file replaces the old one, the database
\* is replaced file by file, directories and loose files are moved.
Place ==
    /\ pc = "place"
    /\ fs' = CASE Cur \in {"credentials", "config"} ->
                     [fs EXCEPT ![Cur].dest = fs[Cur].stage, ![Cur].stage = {}]
                [] Cur = "database" -> DbSwapped(DbNames, {})
                [] picked = Nowhere -> fs
                [] OTHER -> [fs EXCEPT ![Cur].dest = @ \cup fs[Cur].stage \cup {Dir}, ![Cur].stage = {}]
    /\ pc' = Following
    /\ UNCHANGED <<backups, step, picked, results, rolled, outcome, faults, control>>

\* What a step does after its data is in place; failing to delete a source is ignored.
\* The staging path of the step is removed.
Drop ==
    /\ pc = "drop"
    /\ \E left \in IF Cur = "database" THEN SUBSET fs[Cur][picked] ELSE {{}} :
          LET done == CASE Cur = "database" -> DbDropped(left)
                        [] Cur = "logs" /\ Content(fs[Cur][picked]) = {} -> Put(fs, Cur, picked, {})
                        [] Cur = "plugins" -> Put(fs, Cur, picked, {})
                        [] OTHER -> fs
          IN fs' = Put(done, Cur, "stage", {})
    /\ Advance(Cur, "move")
    /\ UNCHANGED <<backups, rolled, outcome, faults, control>>

\* migrate_service(): the unit file is rewritten, needs no change or does not exist.
Service ==
    /\ pc = "service"
    /\ pc' = "release" /\ outcome' = "success"
    /\ UNCHANGED <<fs, backups, step, picked, results, rolled, faults, control>>

\* A file operation, the integrity check or create_service_file() fails: the exception
\* leaves the step.
Fails ==
    /\ pc \in Operations \cup {"service"} /\ faults < MaxFaults
    /\ faults' = faults + 1
    /\ fs' \in Torn /\ backups' \in TornBackups
    /\ pc' = "failed"
    /\ UNCHANGED <<step, picked, results, rolled, outcome, control>>

\* The process is killed; its signal handler removes the lock when it gets to run.
Crash ==
    /\ pc \notin {"idle", "dead"} /\ mode # "dry" /\ faults < MaxFaults
    /\ faults' = faults + 1
    /\ fs' \in Torn /\ backups' \in TornBackups
    /\ pc' = "dead" /\ lock' \in BOOLEAN
    /\ UNCHANGED <<roots, step, mode, scan, picked, results, rolled, outcome,
                   runs, home0, orig>>

\* The user removes the lock file of a killed run, as the message says.
RemoveLock ==
    /\ pc = "dead" /\ lock
    /\ lock' = FALSE
    /\ UNCHANGED <<fs, backups, roots, pc, step, mode, scan, picked, results, rolled,
                   outcome, runs, faults, home0, orig>>

-----------------------------------------------------------------------------
(* rollback_migration() *)

Completed == {u \in Units : results[u] # "none"}

\* Mutant: the rollback leaves out the last completed step.
HandleSkipsLast ==
    /\ pc = "failed"
    /\ outcome' = "failed"
    /\ pc' = IF Completed # {} /\ mode # "dry" THEN "rollback" ELSE "release"
    /\ step' = IF Completed # {} THEN step - 2 ELSE step - 1
    /\ UNCHANGED <<fs, backups, picked, results, rolled, faults, control>>

\* perform_migration() rolls back when some step was completed.
Handle ==
    /\ pc = "failed"
    /\ outcome' = "failed"
    /\ pc' = IF Completed # {} /\ mode # "dry" THEN "rollback" ELSE "release"
    /\ step' = step - 1
    /\ UNCHANGED <<fs, backups, picked, results, rolled, faults, control>>

\* The database: the files that this run backed up are restored and the other migrated
\* files are removed, unless only sidecars were backed up.
DbRestored ==
    LET saved == home0["database"]
    IN IF saved = {} THEN fs
       ELSE IF "main" \in NamesOf(saved) THEN Put(fs, "database", "dest", saved)
       ELSE Put(fs, "database", "dest",
                {x \in fs["database"].dest : x.name \notin NamesOf(saved)} \cup saved)

\* find_backup_for_step() takes the backup with the latest time stamp, but copies keep
\* the time stamps of their originals: it may be any of them.
Restored(u, snapshot) ==
    [v \in Units |-> IF v \in Nest(u) THEN [fs[v] EXCEPT !.dest = snapshot[v]] ELSE fs[v]]

Undo(u) ==
    IF results[u] # "move" THEN {fs}
    ELSE IF u = "database" THEN {DbRestored}
    ELSE IF backups[u] = {} THEN {fs}
    ELSE {Restored(u, s) : s \in backups[u]}

RollbackStep ==
    /\ pc = "rollback" /\ step >= 1
    /\ fs' \in Undo(Cur)
    /\ backups' = IF results[Cur] = "move" /\ backups[Cur] # {} THEN WithoutNested(Cur) ELSE backups
    /\ step' = step - 1
    /\ UNCHANGED <<pc, picked, results, rolled, outcome, faults, control>>

\* restore_from_backup() removes the destination and cannot copy; the other steps go on.
RollbackStepFails ==
    /\ pc = "rollback" /\ step >= 1 /\ faults < MaxFaults
    /\ results[Cur] = "move"
    /\ IF Cur = "database" THEN home0[Cur] # {} ELSE backups[Cur] # {}
    /\ fs' = RemovedDest(Cur, {})
    /\ backups' = WithoutNested(Cur)
    /\ faults' = faults + 1
    /\ rolled' = FALSE
    /\ step' = step - 1
    /\ UNCHANGED <<pc, picked, results, outcome, control>>

\* After a successful rollback the whole staging directory is removed.
RollbackEnds ==
    /\ pc = "rollback" /\ step = 0
    /\ fs' = IF rolled THEN [u \in Units |-> [fs[u] EXCEPT !.stage = {}]] ELSE fs
    /\ pc' = "release"
    /\ step' = 1
    /\ UNCHANGED <<backups, picked, results, rolled, outcome, faults, control>>

\* The lock file is removed on every way out.
Release ==
    /\ pc = "release"
    /\ lock' = (lock /\ mode = "dry")
    /\ pc' = IF lock' THEN "dead" ELSE "idle"
    /\ step' = 1 /\ picked' = Nowhere
    /\ UNCHANGED <<fs, backups, roots, mode, scan, results, rolled, outcome, runs, faults,
                   home0, orig>>

\* Nobody has to run the migration again.
Finished ==
    /\ pc \in {"idle", "dead"} /\ runs = MaxRuns
    /\ UNCHANGED migrationVars

MigrationNext ==
    \/ \E m \in Modes : Begin(m)
    \/ Declines \/ Select \/ Backup \/ Clear
    \/ MoveToStage \/ CopyDatabase \/ VerifyDatabase \/ StagePlugins \/ StagePluginsCollide
    \/ RemoveOld \/ Place \/ Drop \/ Service
    \/ Fails \/ Crash \/ RemoveLock
    \/ Handle \/ RollbackStep \/ RollbackStepFails \/ RollbackEnds \/ Release
    \/ Finished

MigrationSpec == MigrationInit /\ [][MigrationNext]_migrationVars

-----------------------------------------------------------------------------
\* Types; a lock file without a running migration is left by a killed one only.
MigrationTypeOK ==
    /\ \A u \in Units : fs[u] \in [Places -> SUBSET (Items \cup {Dir})]
    /\ \A u \in Units : \A s \in backups[u] : \A v \in DOMAIN s : s[v] \subseteq Items \cup {Dir}
    /\ pc \in Phases /\ step \in 0..Len(Order) + 1
    /\ picked \in Sources \cup {Nowhere}
    /\ results \in [Units -> NoOps \cup {"none", "dry_run", "move"}]
    /\ outcome \in {"none", "success", "failed", "refused"}
    /\ lock => pc # "idle"

Saved(u, x) == \E v \in Units : \E s \in backups[v] : u \in DOMAIN s /\ x \in s[u]

\* Backup before overwrite: whatever MMRELAY_HOME held before the first migration is
\* at its destination or in a backup, at every moment, whichever operation fails or
\* is cut short, through repeated runs and rollbacks.
HomeKept ==
    \A u \in Units : \A x \in orig[u] : x.from = "dest" => x \in fs[u].dest \/ Saved(u, x)

\* The installations that the migration is made for: credentials, config and database
\* are files; a legacy directory has something that is moved in it; sidecars lie beside
\* their database; tracks are where the search looks for them, beside other legacy data.
Regular ==
    \A f \in Layouts :
        /\ \A u \in {"credentials", "config", "database"}, p \in Sources : Dir \notin f[u][p]
        /\ \A u \in Units, p \in Sources : f[u][p] # {} => Taken(u, f[u][p]) # {}
        /\ \A p \in Sources : f["database"][p] # {} => "main" \in NamesOf(f["database"][p])
        /\ f["gpx"]["r2"] = {}
        /\ f["gpx"]["r1"] # {} => \E u \in Units \ {"gpx"}, p \in {"r1", "r2"} : f[u][p] # {}

\* An undisturbed first run that reports success has left nothing in the staging
\* directory, has found every artifact of the legacy roots, and what it moved is at the
\* destination with all the files of one source that it takes.
SuccessIsComplete ==
    pc = "idle" /\ outcome = "success" /\ mode # "dry" /\ faults = 0 /\ runs = 1 =>
        \A u \in Units :
            /\ fs[u].stage = {}
            /\ (\E x \in orig[u] : x.from \in {"r1", "r2"}) => Present(u)
            /\ results[u] = "move" =>
                  \E p \in Sources : LET moved == {x \in orig[u] : x.from = p /\ Takes(u, x)}
                                     IN moved # {} /\ moved \subseteq fs[u].dest

\* perform_migration() and verify_migration() agree: after the success of undisturbed
\* runs nothing but a config.yaml is said to need a migration still.
SuccessIsVerified ==
    pc = "idle" /\ outcome = "success" /\ mode # "dry" /\ faults = 0 => MigrationNeeded \subseteq {"config"}

\* A rollback of the first run that reports success has put back what the destinations
\* of the completed steps held before the run.
RollbackRestores ==
    pc = "release" /\ outcome = "failed" /\ rolled /\ runs = 1 =>
        \A u \in Completed : Content(home0[u]) \subseteq fs[u].dest

\* A success is a success: everything was found, moved and will be verified
\* (perform_migration(), verify_migration()).
SuccessIsTrue == SuccessIsComplete /\ SuccessIsVerified
=============================================================================
