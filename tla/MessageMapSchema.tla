-------------------------- MODULE MessageMapSchema --------------------------
(***************************************************************************)
(* initialize_database() of db_utils.py: the upgrade of the message_map    *)
(* table, statement by statement, from every schema an older release or an *)
(* interrupted upgrade can have left.                                      *)
(*                                                                         *)
(* sqlite3 opens a transaction at the first INSERT, so that the CREATE,    *)
(* ALTER and DROP statements before it are committed one by one and the    *)
(* ones after it only by the commit of DatabaseManager.write().  A crash,  *)
(* or an sqlite3.Error that ends the start, leaves what was committed, and *)
(* the next start runs the whole upgrade again.                            *)
(***************************************************************************)
EXTENDS Naturals

CONSTANTS
    Events,      \* Matrix event ids, the primary key
    Absent,      \* no such table, or no such row
    MaxCrashes,  \* bound: starts that are interrupted
    MaxStarts    \* bound: starts after a successful one

(* message_map, message_map_legacy, message_map_old_temp,                  *)
(* message_map_stale_temp                                                  *)
Names == {"main", "legacy", "temp", "stale"}

(* A row is told apart by the table it was in at first and by whether it   *)
(* has a meshtastic_meshnet value.  A table has TEXT or INTEGER ids and may *)
(* lack the meshtastic_meshnet column.                                     *)
Rows == [from : Names, meshnet : BOOLEAN]
Tables == [text : BOOLEAN, column : BOOLEAN, rows : [Events -> Rows \cup {Absent}]]

ASSUME SchemaAssumption ==
    MaxCrashes \in Nat /\ MaxStarts \in Nat /\ Absent \notin Rows /\ Absent \notin Tables

VARIABLES
    disk,       \* the committed tables
    tables,     \* the tables as the connection sees them
    inTxn,      \* a transaction is open
    at,         \* the next statement
    crashes, starts,
    original    \* history: the tables before the first start

upgradeVars == <<disk, tables, inTxn, at, crashes, starts, original>>

Exists(n) == tables[n] # Absent
NoRows == [e \in Events |-> Absent]
NewTable == [text |-> TRUE, column |-> TRUE, rows |-> NoRows]

Statements == {"create", "column", "stale", "drop stale", "temp", "drop temp",
               "legacy", "drop legacy", "set aside", "rename", "scratch", "copy",
               "copy legacy", "drop copied", "merge stale", "drop merged",
               "drop last", "commit", "done"}

(* One type invariant: every variable has its type.                        *)
UpgradeTypeOK ==
    /\ disk \in [Names -> Tables \cup {Absent}]
    /\ tables \in [Names -> Tables \cup {Absent}]
    /\ original \in [Names -> Tables \cup {Absent}]
    /\ inTxn \in BOOLEAN /\ at \in Statements
    /\ crashes \in 0..MaxCrashes /\ starts \in 0..MaxStarts

(* What an older release left in table n; rows without the column have no  *)
(* meshtastic_meshnet value.                                               *)
OldTables(n) ==
    {Absent} \cup
    {[text |-> x, column |-> c,
      rows |-> [e \in Events |-> IF e \in held THEN [from |-> n, meshnet |-> c]
                                 ELSE Absent]]
        : x \in BOOLEAN, c \in BOOLEAN, held \in SUBSET Events}

UpgradeInit ==
    /\ original \in {db \in [Names -> UNION {OldTables(n) : n \in Names}] :
                        \A n \in Names : db[n] \in OldTables(n)}
    /\ disk = original /\ tables = original
    /\ inTxn = FALSE /\ at = "create"
    /\ crashes = 0 /\ starts = 0

-----------------------------------------------------------------------------
(* INSERT OR IGNORE INTO into SELECT ... FROM from: a row of `into` wins;  *)
(* a value has a place only if both tables have the column.                *)
Merged(into, from) ==
    [tables[into] EXCEPT !.rows =
        [e \in Events |->
            IF @[e] # Absent \/ tables[from].rows[e] = Absent THEN @[e]
            ELSE [tables[from].rows[e] EXCEPT
                     !.meshnet = @ /\ tables[into].column /\ tables[from].column]]]

(* A statement that is not an INSERT is committed at once unless a         *)
(* transaction is open.                                                    *)
Ddl(result) ==
    /\ tables' = result
    /\ disk' = IF inTxn THEN disk ELSE result
    /\ UNCHANGED <<inTxn, crashes, starts, original>>

Insert(into, from) ==
    /\ tables' = [tables EXCEPT ![into] = Merged(into, from)]
    /\ inTxn' = TRUE
    /\ UNCHANGED <<disk, crashes, starts, original>>

Skip == UNCHANGED <<disk, tables, inTxn, crashes, starts, original>>

Drop(n) == Ddl([tables EXCEPT ![n] = Absent])
Rename(n, to) == Ddl([tables EXCEPT ![to] = tables[n], ![n] = Absent])

At(stmt, next) == at = stmt /\ at' = next

-----------------------------------------------------------------------------
CreateTable ==
    /\ At("create", "column")
    /\ IF Exists("main") THEN Skip ELSE Ddl([tables EXCEPT !["main"] = NewTable])

AddColumn ==
    /\ At("column", "stale")
    /\ IF tables["main"].column THEN Skip
       ELSE Ddl([tables EXCEPT !["main"].column = TRUE])

(* Where the rows of the stale table go when both temporary tables exist.  *)
StaleTarget ==
    IF ~tables["temp"].column /\ tables["stale"].column THEN "main" ELSE "temp"

RecoverStale ==
    /\ at = "stale"
    /\ \/ ~Exists("stale") /\ at' = "temp" /\ Skip
       \/ Exists("stale") /\ ~Exists("temp") /\ at' = "temp" /\ Rename("stale", "temp")
       \/ Exists("stale") /\ Exists("temp") /\ at' = "drop stale"
          /\ Insert(StaleTarget, "stale")

DropStale == At("drop stale", "temp") /\ Drop("stale")

(* Mutant: the merged temporary table is kept.                             *)
MergeTempKeeping ==
    /\ at = "temp" /\ at' = "legacy"
    /\ IF Exists("temp") /\ tables["main"].text THEN Insert("main", "temp") ELSE Skip

MergeTemp ==
    /\ at = "temp"
    /\ IF Exists("temp") /\ tables["main"].text
       THEN at' = "drop temp" /\ Insert("main", "temp")
       ELSE at' = "legacy" /\ Skip

DropTemp == At("drop temp", "legacy") /\ Drop("temp")

MergeLegacy ==
    /\ at = "legacy"
    /\ IF Exists("legacy") /\ tables["main"].text
       THEN at' = "drop legacy" /\ Insert("main", "legacy")
       ELSE /\ at' = IF tables["main"].text THEN "commit" ELSE "set aside"
            /\ Skip

DropLegacy ==
    At("drop legacy", IF tables["main"].text THEN "commit" ELSE "set aside") /\ Drop("legacy")

(* Mutant: a leftover temporary table is dropped before the rebuild.       *)
SetTempAsideNot ==
    /\ At("set aside", "rename")
    /\ IF Exists("temp") THEN Drop("temp") ELSE Skip

(* The rebuild with TEXT ids: a leftover temporary table is set aside      *)
(* (nothing is left of the stale one, whose DROP comes first)...           *)
SetTempAside ==
    /\ At("set aside", "rename")
    /\ IF Exists("temp") THEN Rename("temp", "stale") ELSE Skip

RenameMain == At("rename", "scratch") /\ Rename("main", "temp")

CreateFromScratch ==
    At("scratch", "copy") /\ Ddl([tables EXCEPT !["main"] = NewTable])

CopyMain == At("copy", "copy legacy") /\ Insert("main", "temp")

CopyLegacy ==
    /\ At("copy legacy", "drop copied")
    /\ IF Exists("legacy") THEN Insert("main", "legacy") ELSE Skip

DropCopied ==
    At("drop copied", IF Exists("stale") THEN "merge stale" ELSE "drop last") /\ Drop("temp")

(* ... and merged at the end; an sqlite3.Error of that merge is logged.    *)
MergeSetAside ==
    \/ At("merge stale", "drop merged") /\ Insert("main", "stale")
    \/ At("merge stale", "drop last") /\ Skip

DropSetAside == At("drop merged", "drop last") /\ Drop("stale")

DropLastLegacy == At("drop last", "commit") /\ Drop("legacy")

(* CREATE INDEX and the commit of write().                                 *)
Commit ==
    /\ At("commit", "done")
    /\ disk' = tables /\ inTxn' = FALSE
    /\ UNCHANGED <<tables, crashes, starts, original>>

-----------------------------------------------------------------------------
(* The process dies, or a statement raises, the transaction is rolled back *)
(* and the relay does not start; it is started again.                      *)
Crash ==
    /\ at # "done" /\ crashes < MaxCrashes
    /\ crashes' = crashes + 1
    /\ tables' = disk /\ inTxn' = FALSE /\ at' = "create"
    /\ UNCHANGED <<disk, starts, original>>

StartAgain ==
    /\ At("done", "create") /\ starts < MaxStarts /\ starts' = starts + 1
    /\ UNCHANGED <<disk, tables, inTxn, crashes, original>>

UpgradeFinished == at = "done" /\ starts = MaxStarts /\ UNCHANGED upgradeVars

Upgrade ==
    \/ CreateTable \/ AddColumn \/ RecoverStale \/ DropStale \/ MergeTemp \/ DropTemp
    \/ MergeLegacy \/ DropLegacy \/ SetTempAside \/ RenameMain \/ CreateFromScratch
    \/ CopyMain \/ CopyLegacy \/ DropCopied \/ MergeSetAside \/ DropSetAside
    \/ DropLastLegacy \/ Commit

UpgradeNext == Upgrade \/ Crash \/ StartAgain \/ UpgradeFinished

UpgradeSpec == UpgradeInit /\ [][UpgradeNext]_upgradeVars

(* An upgrade that is not interrupted goes on.                             *)
LiveUpgrade == UpgradeSpec /\ WF_upgradeVars(Upgrade)

-----------------------------------------------------------------------------
RowsOf(db, e) == {db[n].rows[e] : n \in {m \in Names : db[m] # Absent /\ db[m].rows[e] # Absent}}

(* At no moment, whatever the next start finds, is a mapping gone that some *)
(* table had before the upgrade; and a successful upgrade has it in        *)
(* message_map, unless the merge of the set-aside table failed.            *)
NoMappingLost ==
    \A e \in Events : RowsOf(original, e) # {} =>
        /\ RowsOf(disk, e) # {}
        /\ at = "done" => \/ disk["main"].rows[e] # Absent
                          \/ disk["stale"] # Absent /\ disk["stale"].rows[e] # Absent

(* The mapping of an event that message_map had is never replaced by the   *)
(* one an older table had for it.                                          *)
NewestWins ==
    \A e \in Events :
        at = "done" /\ original["main"] # Absent /\ original["main"].rows[e] # Absent =>
            disk["main"].rows[e] = original["main"].rows[e]

(* A meshtastic_meshnet value is lost only to another row of its event.    *)
MeshnetKept ==
    \A e \in Events : \A r \in RowsOf(original, e) :
        r.meshnet /\ RowsOf(original, e) = {r} => r \in RowsOf(disk, e)

(* However often it is interrupted, the upgrade ends with TEXT ids, the    *)
(* column and no leftover table (but a set-aside one it could not merge).  *)
Upgraded ==
    /\ disk["main"].text /\ disk["main"].column
    /\ disk["temp"] = Absent /\ disk["legacy"] = Absent

UpgradeCompletes == <>(at = "done") /\ [](at = "done" => Upgraded)

(* The upgrade keeps every mapping, the newest of an event and its meshnet *)
(* value, wherever it is cut short (initialize_database()).                *)
MappingsKept == NoMappingLost /\ NewestWins /\ MeshnetKept
=============================================================================
