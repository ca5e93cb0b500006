----------------------------- MODULE NodeNames -----------------------------
(***************************************************************************)
(* The longnames and shortnames tables: refresh_node_name_tables() copies  *)
(* them from the NodeDB of the radio again and again, with                 *)
(* sync_name_tables_if_changed(); on_meshtastic_message(), on the thread of *)
(* the interface, adds a name it does not find; and the device changes its *)
(* NodeDB at any time.  Every transaction is a step of its own.            *)
(***************************************************************************)
EXTENDS Naturals, Sequences

CONSTANTS
    Ids,         \* Meshtastic node ids (user.id)
    Strings,     \* names that are non-empty strings
    None,        \* no name: absent or ""
    Bad,         \* a name or a row of the wrong type
    Conflict,    \* _CONFLICT_SENTINEL
    NodeDBs,     \* the NodeDBs of the device, sequences of rows
    MaxChanges,  \* bound: changes of the NodeDB
    MaxFails,    \* bound: failed transactions, failed tasks and restarts
    MaxPackets   \* bound: packets from nodes without a stored name

ASSUME NamesAssumption ==
    /\ None \notin Strings /\ Bad \notin Strings /\ Conflict \notin Strings
    /\ MaxChanges \in Nat /\ MaxFails \in Nat /\ MaxPackets \in Nat

Fields == {"long", "short"}
Entries == [Fields -> Strings \cup {None}]    \* NodeNameEntry without its id
States == [Ids -> Entries \cup {None}]        \* NodeNameState, by id
NodeRows == [id : Ids, names : [Fields -> Strings \cup {None, Bad}]] \cup {Bad}
ASSUME NodeDBAssumption == NodeDBs \subseteq Seq(NodeRows)

VARIABLES
    nodeDB,      \* client.nodes, in the order of the dict
    table,       \* table[f][i]: the row of node i in the table of f
    previous,    \* previous_state of refresh_node_name_tables()
    txn,         \* the next transaction of the refresh, "idle" between two
    snap,        \* its snapshot: [state, ids, complete]
    handler,     \* what on_meshtastic_message() is about to save
    changes, fails, packets

bounds == <<changes, fails, packets>>
namesVars == <<nodeDB, table, previous, txn, snap, handler, bounds>>

NoSnapshot == [state |-> [i \in Ids |-> None], ids |-> {}, complete |-> FALSE]
NoPacket == [id |-> None, names |-> [f \in Fields |-> None]]

(* One type invariant: every variable has its type.                        *)
NamesTypeOK ==
    /\ nodeDB \in NodeDBs
    /\ table \in [Fields -> [Ids -> Strings \cup {None}]]
    /\ previous \in States \cup {None}
    /\ txn \in {"idle", "prune", "match long", "match short", "sync"}
    /\ snap \in [state : States, ids : SUBSET Ids, complete : BOOLEAN]
    /\ handler \in [id : Ids \cup {None}, names : Entries]
    /\ changes \in 0..MaxChanges /\ fails \in 0..MaxFails /\ packets \in 0..MaxPackets

NamesInit ==
    /\ nodeDB \in NodeDBs
    /\ table = [f \in Fields |-> [i \in Ids |-> None]]
    /\ previous = None /\ txn = "idle" /\ snap = NoSnapshot /\ handler = NoPacket
    /\ changes = 0 /\ fails = 0 /\ packets = 0

-----------------------------------------------------------------------------
(* _collect_node_name_snapshot()                                           *)

(* _normalize_node_name_value()                                            *)
Normalized(v) == IF v = Bad THEN None ELSE v

(* _merge_node_name_values()                                               *)
MergedValue(existing, incoming) ==
    IF existing = None THEN incoming
    ELSE IF incoming = None \/ incoming = existing THEN existing ELSE Conflict

Resolved(v) == IF v = Conflict THEN None ELSE v

(* One row of the NodeDB.  An id without an unambiguous name after a       *)
(* conflict is skipped from then on.                                       *)
AddRow(acc, row) ==
    IF row = Bad THEN [acc EXCEPT !.complete = FALSE]
    ELSE IF row.id \in acc.skipped THEN acc
    ELSE LET old == acc.state[row.id]
             merged == [f \in Fields |->
                          IF old = None THEN Normalized(row.names[f])
                          ELSE MergedValue(old[f], Normalized(row.names[f]))]
             conflict == \E f \in Fields : merged[f] = Conflict
             resolved == [f \in Fields |-> Resolved(merged[f])]
             ambiguous == conflict /\ \A f \in Fields : resolved[f] = None
         IN [state |-> [acc.state EXCEPT ![row.id] = IF ambiguous THEN None ELSE resolved],
             ids |-> acc.ids \cup {row.id},
             skipped |-> IF ambiguous THEN acc.skipped \cup {row.id} ELSE acc.skipped,
             complete |-> /\ acc.complete /\ ~conflict
                          /\ \A f \in Fields : row.names[f] # Bad]

NothingCollected ==
    [state |-> [i \in Ids |-> None], ids |-> {}, skipped |-> {}, complete |-> TRUE]

Collect(nodes) ==
    LET upTo[n \in 0..Len(nodes)] ==
            IF n = 0 THEN NothingCollected ELSE AddRow(upTo[n - 1], nodes[n])
        all == upTo[Len(nodes)]
    IN [state |-> all.state, ids |-> all.ids, complete |-> all.complete]

(* A constant, so that TLC evaluates it once.                              *)
Collected == [nodes \in NodeDBs |-> Collect(nodes)]

(* An incomplete snapshot is filled up from the previous state.            *)
FilledUp(state) ==
    [i \in Ids |->
        IF state[i] = None THEN previous[i]
        ELSE IF previous[i] = None THEN state[i]
        ELSE [f \in Fields |-> IF state[i][f] = None THEN previous[i][f] ELSE state[i][f]]]

Current(collected) ==
    IF collected.complete \/ previous = None THEN collected
    ELSE [collected EXCEPT !.state = FilledUp(collected.state)]

-----------------------------------------------------------------------------
(* sync_name_tables_if_changed(), transaction by transaction.              *)

RefreshReturns(state) == txn' = "idle" /\ snap' = NoSnapshot /\ previous' = state

(* The snapshot is taken under meshtastic_lock and compared with the       *)
(* previous state.                                                         *)
Refresh ==
    /\ txn = "idle" /\ nodeDB # <<>>
    /\ LET now == Current(Collected[nodeDB])
       IN /\ now.complete \/ \E i \in Ids : now.state[i] # None
          /\ snap' = now
          /\ txn' = IF previous # None /\ now.state = previous
                    THEN IF now.complete THEN "prune" ELSE "match long"
                    ELSE "sync"
    /\ UNCHANGED <<nodeDB, table, previous, handler, bounds>>

(* The refresh returns the previous state for an empty NodeDB and for one  *)
(* that says nothing.                                                      *)
RefreshSkips ==
    /\ txn = "idle"
    /\ nodeDB # <<>> => LET now == Current(Collected[nodeDB])
                       IN ~now.complete /\ \A i \in Ids : now.state[i] = None
    /\ UNCHANGED namesVars

(* _delete_stale_names_core() on one table.                                *)
Pruned(rows) == [i \in Ids |-> IF i \in snap.ids THEN rows[i] ELSE None]

(* _prune_stale_name_rows_atomic()                                         *)
Prune ==
    /\ txn = "prune" /\ txn' = "match long"
    /\ table' = [f \in Fields |-> Pruned(table[f])]
    /\ UNCHANGED <<nodeDB, previous, snap, handler, bounds>>

(* Mutant: no drift is ever seen.                                          *)
TableMatchesBlindly(f) == TRUE

(* _name_table_matches_state(): an absent name matches everything.         *)
TableMatches(f) ==
    \A i \in Ids : snap.state[i] # None /\ snap.state[i][f] # None =>
        table[f][i] = snap.state[i][f]

(* _name_tables_match_state() reads one table after the other.             *)
Match ==
    /\ \/ txn = "match long" /\ TableMatches("long") /\ txn' = "match short"
          /\ UNCHANGED <<previous, snap>>
       \/ txn = "match short" /\ TableMatches("short") /\ RefreshReturns(snap.state)
       \/ txn = "match long" /\ ~TableMatches("long") /\ txn' = "sync"
          /\ UNCHANGED <<previous, snap>>
       \/ txn = "match short" /\ ~TableMatches("short") /\ txn' = "sync"
          /\ UNCHANGED <<previous, snap>>
    /\ UNCHANGED <<nodeDB, table, handler, bounds>>

(* Mutant: an absent name always clears the row.                           *)
SyncedClearing(f) ==
    LET written == [i \in Ids |->
            IF snap.state[i] = None THEN table[f][i] ELSE snap.state[i][f]]
    IN IF snap.complete THEN Pruned(written) ELSE written

(* The rows that _sync_name_tables_atomic() writes: only a complete        *)
(* snapshot deletes.                                                       *)
Synced(f) ==
    LET written == [i \in Ids |->
            IF snap.state[i] = None THEN table[f][i]
            ELSE IF snap.state[i][f] = None /\ ~snap.complete THEN table[f][i]
            ELSE snap.state[i][f]]
    IN IF snap.complete THEN Pruned(written) ELSE written

Sync ==
    /\ txn = "sync"
    /\ table' = [f \in Fields |-> Synced(f)]
    /\ RefreshReturns(snap.state)
    /\ UNCHANGED <<nodeDB, handler, bounds>>

(* sqlite3.Error: a failed write ends the refresh with the previous state, *)
(* a failed read counts as a mismatch.                                     *)
TransactionFails ==
    /\ txn # "idle" /\ fails < MaxFails /\ fails' = fails + 1
    /\ IF txn \in {"prune", "sync"} THEN RefreshReturns(previous)
       ELSE txn' = "sync" /\ UNCHANGED <<previous, snap>>
    /\ UNCHANGED <<nodeDB, table, handler, changes, packets>>

(* Another exception ends the task, and _node_name_refresh_supervisor()    *)
(* starts it again; or the relay is restarted.                             *)
TaskFails ==
    /\ fails < MaxFails /\ fails' = fails + 1
    /\ RefreshReturns(None)
    /\ UNCHANGED <<nodeDB, table, handler, changes, packets>>

-----------------------------------------------------------------------------
(* on_meshtastic_message() finds names missing and takes them from the     *)
(* interface; it saves them later, in a transaction each.                  *)
FindMissing ==
    /\ handler = NoPacket /\ packets < MaxPackets /\ packets' = packets + 1
    /\ \E n \in DOMAIN nodeDB :
         /\ nodeDB[n] # Bad
         /\ handler' =
              [id |-> nodeDB[n].id,
               names |-> [f \in Fields |->
                             IF table[f][nodeDB[n].id] = None
                             THEN Normalized(nodeDB[n].names[f]) ELSE None]]
         /\ \E f \in Fields : handler'.names[f] # None
    /\ UNCHANGED <<nodeDB, table, previous, txn, snap, changes, fails>>

SaveName(f) ==
    /\ handler.names[f] # None
    /\ f = "short" => handler.names["long"] = None
    /\ table' = [table EXCEPT ![f][handler.id] = handler.names[f]]
    /\ LET rest == [handler EXCEPT !.names[f] = None]
       IN handler' = IF \A g \in Fields : rest.names[g] = None THEN NoPacket ELSE rest
    /\ UNCHANGED <<nodeDB, previous, txn, snap, bounds>>

(* The device learns or forgets nodes.                                     *)
DeviceChanges ==
    /\ changes < MaxChanges /\ changes' = changes + 1
    /\ nodeDB' \in NodeDBs \ {nodeDB}
    /\ UNCHANGED <<table, previous, txn, snap, handler, fails, packets>>

Saves == \E f \in Fields : SaveName(f)

NamesNext ==
    \/ Refresh \/ RefreshSkips \/ Prune \/ Match \/ Sync \/ TransactionFails \/ TaskFails
    \/ FindMissing \/ Saves \/ DeviceChanges

NamesSpec == NamesInit /\ [][NamesNext]_namesVars

(* The task runs once per interval until shutdown, and the handler ends.   *)
LiveNames ==
    NamesSpec /\ WF_namesVars(Refresh \/ Prune \/ Match \/ Sync) /\ WF_namesVars(Saves)

-----------------------------------------------------------------------------
(* A stored name is deleted only by a refresh whose snapshot is complete   *)
(* and has no such name for the node: no partial view, failure, restart or *)
(* packet makes the relay forget one.                                      *)
OnlyTheDeviceForgets ==
    [][\A f \in Fields, i \in Ids :
          table[f][i] # None /\ table'[f][i] = None =>
              /\ snap.complete
              /\ i \notin snap.ids \/ snap.state[i][f] = None]_namesVars

Aligned ==
    LET seen == Collected[nodeDB]
    IN /\ \A f \in Fields, i \in Ids :
            seen.state[i] # None /\ seen.state[i][f] # None =>
                table[f][i] = seen.state[i][f]
       /\ seen.complete /\ nodeDB # <<>> =>
            \A f \in Fields, i \in Ids : i \notin seen.ids => table[f][i] = None

(* Whatever happened before, once the device stops changing the tables     *)
(* come to hold its names, and rows of no other node if its NodeDB is      *)
(* complete, and stay so: failed writes are repeated and names that a      *)
(* packet handler wrote too late are repaired.                             *)
TablesConverge == <>[]Aligned


=============================================================================
