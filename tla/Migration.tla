----------------------------- MODULE Migration -----------------------------
(***************************************************************************)
(* initDB (src/db.ts): the schema file, the rebuild of the tables that     *)
(* still have a UUID in id, the columns that later versions added and the  *)
(* index over them, on SQLite or on MySQL, while a boot may end between    *)
(* any two statements and be begun again, and several daemons may upgrade  *)
(* one MySQL database.                                                     *)
(*                                                                         *)
(* The two drivers differ in one thing here: SQLite runs the statements of *)
(* a rebuild in one transaction, and to MySQL every statement that changes *)
(* a table's definition is a commit of its own.  A statement that throws   *)
(* ends the boot (index.ts exits), so it is the same as a crash before it, *)
(* and one whose reply is lost the same as a crash after it.               *)
(***************************************************************************)
EXTENDS Naturals, Sequences

CONSTANTS
  Daemons,     \* the daemons that use the database
  Rows,        \* sessions, each with a row in every table
  MaxCrashes,  \* bound: boots and daemons that end during a behavior
  Env          \* what may go wrong; a subset of EnvEvents

EnvEvents == { "together",  \* two daemons rebuild the same tables at a time
               "tornddl",   \* a boot on MySQL ends between the statements of a rebuild
               \* and, for module Restart:
               "torn",      \* a daemon ends between a spawn and the pid's UPDATE
               "early",     \* a webhook is handled before recover() has killed and scanned
               "dbfail" }   \* the UPDATE of a daemon's status throws

\* UID_REBUILDS: in this order, since each refers to the one before
TableAt == <<"issues", "op_sessions", "messages">>
Tables  == {TableAt[i] : i \in DOMAIN TableAt}

\* the ensureColumn calls, in their order; of the columns that one table lacks
\* one stands for all
Added == << <<"issues", "owner_daemon_id">>, <<"op_sessions", "generation">>,
            <<"messages", "model">> >>
Columns      == {Added[i] : i \in DOMAIN Added}
AddedTo(t)   == {a \in Columns : a[1] = t}
\* what CREATE TABLE IF NOT EXISTS of the schema file has of them
SchemaCols(t) == {<<"messages", "model">>} \cap AddedTo(t)

VARIABLES
  dialect,  \* WORK_DB_DRIVER
  table,    \* the tables by their names: key and rows, or no table
  aside,    \* the same for their names with __old_id
  tx,       \* what the open SQLite transaction of a daemon has made of one table
  boot,     \* where initDB of each daemon stands
  at,       \* the table or the column it has come to
  crashes

NoTable == [form |-> "none", rows |-> {}, cols |-> {}]
NoTx    == [open |-> FALSE, new |-> NoTable, old |-> NoTable]
MigrationVars == <<dialect, table, aside, tx, boot, at, crashes>>

\* statements of a rebuild after which MySQL has committed half of it
Halfway == {"create", "copy", "drop"}
Booting == {"schema", "check", "rename", "commit", "columns", "add", "index"} \cup Halfway
Opened(d) == boot[d] = "ready"

TableType == [form : {"none", "old", "new"}, rows : SUBSET Rows, cols : SUBSET Columns]

MigrationTypeOK ==
  /\ dialect \in {"sqlite", "mysql"}
  /\ table \in [Tables -> TableType] /\ aside \in [Tables -> TableType]
  /\ tx \in [Daemons -> [open : BOOLEAN, new : TableType, old : TableType]]
  /\ boot \in [Daemons -> {"off", "ready"} \cup Booting]
  /\ at \in [Daemons -> DOMAIN TableAt \cup DOMAIN Added]

\* Databases that deployments have: none yet, one of before the new key, one of
\* it that lacks the newest columns.
MigrationInit ==
  /\ dialect \in {"sqlite", "mysql"}
  /\ table \in {[t \in Tables |-> NoTable],
                [t \in Tables |-> [form |-> "old", rows |-> Rows, cols |-> {}]],
                [t \in Tables |-> [form |-> "new", rows |-> Rows,
                                   cols |-> {<<"issues", "owner_daemon_id">>} \cap AddedTo(t)]]}
  /\ aside = [t \in Tables |-> NoTable]
  /\ tx = [d \in Daemons |-> NoTx]
  /\ boot = [d \in Daemons |-> "off"]
  /\ at = [d \in Daemons |-> 1]
  /\ crashes = 0

-----------------------------------------------------------------------------
Step(d, pc, i) ==
  /\ boot' = [boot EXCEPT ![d] = pc]
  /\ at' = [at EXCEPT ![d] = i]

\* every table has the new key, and no copy of it is left
Converted == \A t \in Tables : table[t].form = "new" /\ aside[t] = NoTable

\* A daemon is started: the only one of a SQLite file, one of several of a MySQL
\* database, which is upgraded by one before the others are started, unless
\* Env says "together".
Boot(d) ==
  /\ boot[d] = "off"
  /\ \/ \A e \in Daemons : boot[e] = "off"
     \/ dialect = "mysql" /\ ("together" \in Env \/ Converted)
  /\ Step(d, "schema", 1)
  /\ UNCHANGED <<dialect, table, aside, tx, crashes>>

\* CREATE TABLE IF NOT EXISTS, one after the other
Schema(d) ==
  LET t == TableAt[at[d]]
  IN  /\ boot[d] = "schema"
      /\ table' = [table EXCEPT ![t] =
                     IF @ = NoTable THEN [form |-> "new", rows |-> {}, cols |-> SchemaCols(t)]
                                    ELSE @]
      /\ IF at[d] < Len(TableAt) THEN Step(d, "schema", at[d] + 1) ELSE Step(d, "check", 1)
      /\ UNCHANGED <<dialect, aside, tx, crashes>>

\* hasColumn(table, "uid"): a table that has it is left alone.
Check(d) ==
  LET t == TableAt[at[d]]
  IN  /\ boot[d] = "check"
      /\ \/ table[t].form = "old" /\ Step(d, "rename", at[d])
         \/ /\ table[t].form = "new"
            /\ IF at[d] < Len(TableAt) THEN Step(d, "check", at[d] + 1) ELSE Step(d, "columns", 1)
      /\ UNCHANGED <<dialect, table, aside, tx, crashes>>

\* Mutant: the statements of a rebuild are no transaction.
changeAtOnce(d, t, new, old) ==
  /\ table' = [table EXCEPT ![t] = new]
  /\ aside' = [aside EXCEPT ![t] = old]
  /\ UNCHANGED tx

\* A statement of the rebuild leaves new under the table's name and old under
\* the other: in the transaction, or for everyone to see.
change(d, t, new, old) ==
  IF dialect = "sqlite"
  THEN /\ tx' = [tx EXCEPT ![d] = [open |-> TRUE, new |-> new, old |-> old]]
       /\ UNCHANGED <<table, aside>>
  ELSE /\ table' = [table EXCEPT ![t] = new]
       /\ aside' = [aside EXCEPT ![t] = old]
       /\ UNCHANGED tx

\* what a statement of d sees under the two names
Here(d, t)  == IF tx[d].open THEN tx[d].new ELSE table[t]
There(d, t) == IF tx[d].open THEN tx[d].old ELSE aside[t]

Rename(d) ==
  LET t == TableAt[at[d]]
  IN  /\ boot[d] = "rename"
      /\ change(d, t, NoTable, Here(d, t))
      /\ Step(d, "create", at[d])
      /\ UNCHANGED <<dialect, crashes>>

Create(d) ==
  LET t == TableAt[at[d]]
  IN  /\ boot[d] = "create"
      /\ change(d, t, [form |-> "new", rows |-> {}, cols |-> {}], There(d, t))
      /\ Step(d, "copy", at[d])
      /\ UNCHANGED <<dialect, crashes>>

\* INSERT ... SELECT of the base columns
Copy(d) ==
  LET t == TableAt[at[d]]
  IN  /\ boot[d] = "copy"
      /\ change(d, t, [Here(d, t) EXCEPT !.rows = @ \cup There(d, t).rows], There(d, t))
      /\ Step(d, "drop", at[d])
      /\ UNCHANGED <<dialect, crashes>>

Drop(d) ==
  LET t == TableAt[at[d]]
  IN  /\ boot[d] = "drop"
      /\ change(d, t, Here(d, t), NoTable)
      /\ Step(d, "commit", at[d])
      /\ UNCHANGED <<dialect, crashes>>

\* COMMIT, which on MySQL has nothing left to do
Commit(d) ==
  LET t == TableAt[at[d]]
  IN  /\ boot[d] = "commit"
      /\ table' = [table EXCEPT ![t] = Here(d, t)]
      /\ aside' = [aside EXCEPT ![t] = There(d, t)]
      /\ tx' = [tx EXCEPT ![d] = NoTx]
      /\ Step(d, "check", at[d])
      /\ UNCHANGED <<dialect, crashes>>

\* ensureColumn: hasColumn, then ALTER TABLE unless it is there
Look(d) ==
  LET a == Added[at[d]]
  IN  /\ boot[d] = "columns"
      /\ \/ a \notin table[a[1]].cols /\ Step(d, "add", at[d])
         \/ /\ a \in table[a[1]].cols
            /\ IF at[d] < Len(Added) THEN Step(d, "columns", at[d] + 1) ELSE Step(d, "index", 1)
      /\ UNCHANGED <<dialect, table, aside, tx, crashes>>

\* Another daemon may have added it meanwhile: ER_DUP_FIELDNAME is tolerated.
AddColumn(d) ==
  LET a == Added[at[d]]
  IN  /\ boot[d] = "add"
      /\ table' = [table EXCEPT ![a[1]].cols = @ \cup {a}]
      /\ IF at[d] < Len(Added) THEN Step(d, "columns", at[d] + 1) ELSE Step(d, "index", 1)
      /\ UNCHANGED <<dialect, aside, tx, crashes>>

\* idx_issues_owner is created or found, and initDB returns the driver.
CreateIndex(d) ==
  /\ boot[d] = "index"
  /\ Step(d, "ready", 1)
  /\ UNCHANGED <<dialect, table, aside, tx, crashes>>

\* The process is gone, and with it the transaction that it had open.
Ends(d) ==
  /\ "tornddl" \notin Env => ~(dialect = "mysql" /\ boot[d] \in Halfway)
  /\ Step(d, "off", 1)
  /\ tx' = [tx EXCEPT ![d] = NoTx]
  /\ UNCHANGED <<dialect, table, aside>>

Crash(d) ==
  /\ boot[d] # "off" /\ crashes < MaxCrashes
  /\ crashes' = crashes + 1
  /\ Ends(d)

-----------------------------------------------------------------------------
InitDB(d) == \/ Schema(d) \/ Check(d) \/ Rename(d) \/ Create(d) \/ Copy(d) \/ Drop(d)
             \/ Commit(d) \/ Look(d) \/ AddColumn(d) \/ CreateIndex(d)

\* A session is stored: its issue, its row and its message.
StoreRow(r) ==
  /\ table' = [t \in Tables |-> [table[t] EXCEPT !.rows = @ \cup {r}]]
  /\ UNCHANGED <<dialect, aside, tx, boot, at, crashes>>

-----------------------------------------------------------------------------
(* Properties                                                              *)

\* A table is old while a renamed copy holds its rows or it has the old key.
ShapeOf(t) ==
  IF aside[t] # NoTable THEN "old"
  ELSE CASE table[t].form = "none" -> "none"
         [] table[t].form = "old" -> "old"
         [] table[t].form = "new" -> IF AddedTo(t) \subseteq table[t].cols THEN "whole" ELSE "bare"

RowsOf(t) == IF aside[t] # NoTable THEN aside[t].rows ELSE table[t].rows
InUse == \E d \in Daemons : Opened(d)

Contract == INSTANCE Upgrade WITH
              shape <- [t \in Tables |-> ShapeOf(t)],
              held  <- [t \in Tables |-> RowsOf(t)],
              open  <- InUse

\* initDB upgrades the database as Upgrade says: boots that end in the middle
\* lose no row, show nobody a half-converted table, and no daemon goes on with
\* a table that lacks a column.
ImplementsUpgrade == Contract!UpgradeSpec
=============================================================================
