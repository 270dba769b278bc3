---------------------------- MODULE RestartProofs ----------------------------
(***************************************************************************)
(* Two proofs, the second of which uses the first.  initDB implements      *)
(* Upgrade, for any number of daemons and any rows, as long as no boot     *)
(* ends between the statements of a rebuild on MySQL and no two daemons    *)
(* rebuild at a time.  What holds of a daemon that comes and goes, for any *)
(* number of sessions, daemons, ends and commands, as long as nothing of   *)
(* Disturbances happens.                                                   *)
(***************************************************************************)
EXTENDS Restart, TLAPS

(***************************************************************************)
(* initDB                                                                  *)
(***************************************************************************)

Undisturbed == {"tornddl", "together"} \cap Env = {}

-----------------------------------------------------------------------------
(* The tables and their columns                                            *)

\* TableAt numbers the tables.
LEMMA TableFacts ==
  /\ DOMAIN TableAt = 1 .. 3 /\ Len(TableAt) = 3
  /\ Tables = {"issues", "op_sessions", "messages"}
  /\ \A i \in 1 .. 3 : TableAt[i] \in Tables
  /\ \A t \in Tables : \E i \in 1 .. 3 : t = TableAt[i]
  /\ \A i, j \in 1 .. 3 : TableAt[i] = TableAt[j] => i = j
<1>1. DOMAIN TableAt = 1 .. 3 /\ Len(TableAt) = 3
  BY DEF TableAt
<1>2. TableAt[1] = "issues" /\ TableAt[2] = "op_sessions" /\ TableAt[3] = "messages"
  BY DEF TableAt
<1>3. 1 .. 3 = {1, 2, 3}
  OBVIOUS
<1>4. Tables = {"issues", "op_sessions", "messages"}
  BY <1>1, <1>2, <1>3 DEF Tables
<1> QED  BY <1>1, <1>2, <1>3, <1>4

\* Each table has the one column that stands for those it lacks.
LEMMA ColumnFacts ==
  /\ DOMAIN Added = 1 .. 3 /\ Len(Added) = 3
  /\ \A i \in 1 .. 3 : Added[i][1] = TableAt[i] /\ Added[i] \in Columns
  /\ \A i \in 1 .. 3 : AddedTo(TableAt[i]) = {Added[i]}
  /\ \A t \in Tables : SchemaCols(t) \subseteq Columns
<1>1. DOMAIN Added = 1 .. 3 /\ Len(Added) = 3
  BY DEF Added
<1>2. /\ Added[1] = <<"issues", "owner_daemon_id">>
      /\ Added[2] = <<"op_sessions", "generation">>
      /\ Added[3] = <<"messages", "model">>
  BY DEF Added
<1>3. TableAt[1] = "issues" /\ TableAt[2] = "op_sessions" /\ TableAt[3] = "messages"
  BY DEF TableAt
<1>4. 1 .. 3 = {1, 2, 3}
  OBVIOUS
<1>5. Columns = {Added[1], Added[2], Added[3]}
  BY <1>1, <1>4 DEF Columns
<1>6. \A i \in 1 .. 3 : Added[i][1] = TableAt[i] /\ Added[i] \in Columns
  BY <1>2, <1>3, <1>4, <1>5
<1>7. \A i \in 1 .. 3 : AddedTo(TableAt[i]) = {Added[i]}
  BY <1>2, <1>3, <1>4, <1>5, <1>6 DEF AddedTo
<1>8. \A t \in Tables : SchemaCols(t) \subseteq Columns
  BY DEF SchemaCols, AddedTo
<1> QED  BY <1>1, <1>6, <1>7, <1>8

-----------------------------------------------------------------------------
(* The invariant                                                           *)

\* A name without a table has no rows either, and only old tables are renamed.
NoneIsNoTable ==
  \A t \in Tables : /\ table[t].form = "none" => table[t] = NoTable
                    /\ aside[t].form = "none" => aside[t] = NoTable
                    /\ aside[t].form # "new"

\* Daemons that are up at a time have found the database converted.
Together ==
  \A d, e \in Daemons :
    d # e /\ boot[d] # "off" /\ boot[e] # "off" => dialect = "mysql" /\ Converted

\* What a rebuild has made of its table so far.
Rebuilds(d) ==
  LET t == TableAt[at[d]]
  IN  /\ tx[d].open <=> dialect = "sqlite" /\ boot[d] \in Halfway \cup {"commit"}
      /\ boot[d] = "rename" \/ tx[d].open => table[t].form = "old" /\ aside[t] = NoTable
      /\ boot[d] = "create" => Here(d, t) = NoTable
      /\ boot[d] = "copy" => Here(d, t) = [form |-> "new", rows |-> {}, cols |-> {}]
      /\ boot[d] = "drop" => /\ Here(d, t).form = "new" /\ Here(d, t).cols = {}
                             /\ Here(d, t).rows = There(d, t).rows
      /\ boot[d] \in Halfway => /\ There(d, t).form = "old"
                                /\ tx[d].open => There(d, t) = table[t]
      /\ boot[d] = "commit" => /\ Here(d, t).form = "new" /\ There(d, t) = NoTable
                               /\ tx[d].open => /\ Here(d, t).rows = table[t].rows
                                                /\ Here(d, t).cols = {}

\* What lies behind a boot.
Passed(d) ==
  /\ boot[d] = "schema" => \A i \in 1 .. 3 : i < at[d] => table[TableAt[i]].form # "none"
  /\ boot[d] \in {"check", "rename", "commit"} \cup Halfway =>
       \A i \in 1 .. 3 :
         /\ i < at[d] => table[TableAt[i]].form = "new" /\ aside[TableAt[i]] = NoTable
         /\ i # at[d] \/ boot[d] = "check" => table[TableAt[i]].form # "none"
  /\ boot[d] \in {"columns", "add", "index", "ready"} => Converted
  /\ boot[d] \in {"columns", "add"} =>
       \A i \in 1 .. 3 : i < at[d] => Added[i] \in table[TableAt[i]].cols
  /\ boot[d] \in {"index", "ready"} =>
       \A i \in 1 .. 3 : Added[i] \in table[TableAt[i]].cols

\* A renamed table belongs to a rebuild under way.
AsideIsRebuilt ==
  \A t \in Tables : aside[t] # NoTable =>
    \E d \in Daemons : dialect = "mysql" /\ boot[d] \in Halfway /\ t = TableAt[at[d]]

MigrationInv ==
  /\ MigrationTypeOK /\ NoneIsNoTable /\ Together /\ AsideIsRebuilt
  /\ \A d \in Daemons : Rebuilds(d) /\ Passed(d)

\* The rows of the databases that deployments have.
LEMMA InitInv ==
  MigrationInit => MigrationInv
<1> SUFFICES ASSUME MigrationInit PROVE MigrationInv
  OBVIOUS
<1> USE TableFacts, ColumnFacts
<1>1. \A t \in Tables : /\ table[t] \in TableType
                        /\ table[t].form = "none" => table[t] = NoTable
  <2>1. CASE table = [t \in Tables |-> NoTable]
    BY <2>1 DEF TableType, NoTable
  <2>2. CASE table = [t \in Tables |-> [form |-> "old", rows |-> Rows, cols |-> {}]]
    BY <2>2 DEF TableType, NoTable
  <2>3. CASE table = [t \in Tables |-> [form |-> "new", rows |-> Rows,
                        cols |-> {<<"issues", "owner_daemon_id">>} \cap AddedTo(t)]]
    <3>1. \A t \in Tables : {<<"issues", "owner_daemon_id">>} \cap AddedTo(t) \in SUBSET Columns
      BY DEF AddedTo
    <3> QED  BY <2>3, <3>1 DEF TableType, NoTable
  <2> QED  BY <2>1, <2>2, <2>3 DEF MigrationInit
<1>2. table \in [Tables -> TableType]
  <2>1. table = [t \in Tables |-> table[t]]
    BY DEF MigrationInit
  <2> QED  BY <2>1, <1>1
<1>3. NoTable \in TableType
  BY DEF TableType, NoTable
<1>4. MigrationTypeOK
  BY <1>2, <1>3 DEF MigrationTypeOK, MigrationInit, NoTx
<1>5. NoneIsNoTable
  BY <1>1 DEF NoneIsNoTable, MigrationInit, NoTable
<1>6. Together /\ AsideIsRebuilt
  BY DEF Together, AsideIsRebuilt, MigrationInit
<1>7. ASSUME NEW d \in Daemons PROVE Rebuilds(d) /\ Passed(d)
  BY DEF Rebuilds, Passed, Halfway, MigrationInit, NoTx
<1> QED  BY <1>4, <1>5, <1>6, <1>7 DEF MigrationInv

-----------------------------------------------------------------------------
(* What the steps have in common                                           *)

ContractVars == <<[t \in Tables |-> ShapeOf(t)], [t \in Tables |-> RowsOf(t)], InUse>>
Implements   == Contract!UpgradeNext \/ UNCHANGED ContractVars

\* A daemon that rebuilds a table is the only one that is up.
LEMMA RebuildsAlone ==
  ASSUME MigrationInv, NEW d \in Daemons, NEW e \in Daemons, e # d, boot[d] # "off",
         dialect = "sqlite" \/ boot[d] \in {"rename"} \cup Halfway
  PROVE  boot[e] = "off"
<1>1. at[d] \in 1 .. 3 /\ TableAt[at[d]] \in Tables
  BY TableFacts, ColumnFacts DEF MigrationInv, MigrationTypeOK
<1>2. boot[d] \in {"rename"} \cup Halfway => ~Converted
  BY <1>1 DEF MigrationInv, Rebuilds, Converted, There, Here, Halfway, NoTable
<1> QED  BY <1>2 DEF MigrationInv, Together

\* A daemon that is not up, or whose tables nobody touches, stands where it stood.
LEMMA Bystander ==
  ASSUME MigrationInv, NEW e \in Daemons, UNCHANGED dialect,
         boot'[e] = boot[e], at'[e] = at[e], tx'[e] = tx[e],
         boot[e] = "off" \/ UNCHANGED <<table, aside>>
  PROVE  Rebuilds(e)' /\ Passed(e)'
<1>1. Rebuilds(e) /\ Passed(e)
  BY DEF MigrationInv
<1>2. CASE boot[e] = "off"
  BY <1>1, <1>2 DEF Rebuilds, Passed, Halfway
<1>3. CASE UNCHANGED <<table, aside>>
  <2>1. Rebuilds(e)'
    BY <1>1, <1>3 DEF Rebuilds, Here, There
  <2>2. Passed(e)'
    BY <1>1, <1>3 DEF Passed, Converted
  <2> QED  BY <2>1, <2>2
<1> QED  BY <1>2, <1>3

\* In a converted database tables may grow under the others.
LEMMA Growing ==
  ASSUME MigrationInv, Converted, NEW e \in Daemons, UNCHANGED <<dialect, aside>>,
         boot'[e] = boot[e], at'[e] = at[e], tx'[e] = tx[e],
         \A t \in Tables : table'[t].form = "new" /\ table[t].cols \subseteq table'[t].cols
  PROVE  Rebuilds(e)' /\ Passed(e)'
<1>1. at[e] \in 1 .. 3 /\ \A i \in 1 .. 3 : TableAt[i] \in Tables
  BY TableFacts, ColumnFacts DEF MigrationInv, MigrationTypeOK
<1>2. Rebuilds(e) /\ Passed(e)
  BY DEF MigrationInv
<1>3. boot[e] \notin {"rename"} \cup Halfway /\ ~tx[e].open
  BY <1>1, <1>2 DEF Rebuilds, Converted, There, Here, Halfway, NoTable
<1>4. Rebuilds(e)'
  BY <1>1, <1>2, <1>3 DEF Rebuilds, Here, There, Converted, Halfway
<1>5. Passed(e)'
  BY <1>1, <1>2 DEF Passed, Converted
<1> QED  BY <1>4, <1>5

\* A step that leaves the tables alone does nothing to the contract but open or
\* shut the store.
LEMMA SameData ==
  ASSUME UNCHANGED <<table, aside>>
  PROVE  /\ \A t \in Tables : ShapeOf(t)' = ShapeOf(t) /\ RowsOf(t)' = RowsOf(t)
         /\ UNCHANGED <<[t \in Tables |-> ShapeOf(t)], [t \in Tables |-> RowsOf(t)]>>
         /\ InUse' = InUse => Implements
         /\ ~InUse' => Implements
<1>1. \A t \in Tables : ShapeOf(t)' = ShapeOf(t) /\ RowsOf(t)' = RowsOf(t)
  BY DEF ShapeOf, RowsOf
<1>2. UNCHANGED <<[t \in Tables |-> ShapeOf(t)], [t \in Tables |-> RowsOf(t)]>>
  BY <1>1
<1>3. InUse' = InUse => Implements
  BY <1>2 DEF Implements, ContractVars
<1>4. ~InUse' => Implements
  BY <1>2 DEF Implements, Contract!UpgradeNext, Contract!Shut, InUse
<1> QED  BY <1>1, <1>2, <1>3, <1>4

\* Where a daemon that takes a step stands then.
LEMMA Steps ==
  ASSUME MigrationTypeOK, NEW d \in Daemons, NEW pc, NEW i, Step(d, pc, i),
         pc \in {"off", "ready"} \cup Booting, i \in 1 .. 3
  PROVE  /\ boot' \in [Daemons -> {"off", "ready"} \cup Booting]
         /\ at' \in [Daemons -> DOMAIN TableAt \cup DOMAIN Added]
         /\ boot'[d] = pc /\ at'[d] = i
         /\ \A e \in Daemons : e # d => boot'[e] = boot[e] /\ at'[e] = at[e]
  BY TableFacts, ColumnFacts DEF MigrationTypeOK, Step

-----------------------------------------------------------------------------
(* The steps of a boot that leave the tables alone                         *)

\* A daemon is started beside daemons that have found the database converted.
LEMMA BootKeeps ==
  ASSUME MigrationInv, Undisturbed, NEW d \in Daemons, Boot(d)
  PROVE  MigrationInv' /\ Implements
<1> USE DEF Boot
<1>1. MigrationTypeOK /\ NoneIsNoTable /\ Together /\ AsideIsRebuilt
  BY DEF MigrationInv
<1>2. /\ boot' \in [Daemons -> {"off", "ready"} \cup Booting]
      /\ at' \in [Daemons -> DOMAIN TableAt \cup DOMAIN Added]
      /\ boot'[d] = "schema" /\ at'[d] = 1
      /\ \A e \in Daemons : e # d => boot'[e] = boot[e] /\ at'[e] = at[e]
  BY <1>1, Steps DEF Booting
<1>3. MigrationTypeOK'
  BY <1>1, <1>2 DEF MigrationTypeOK
<1>4. NoneIsNoTable'
  BY <1>1 DEF NoneIsNoTable
<1>5. Together'
  BY <1>1, <1>2 DEF Together, Converted, Undisturbed
<1>6. AsideIsRebuilt'
  BY <1>1, <1>2 DEF AsideIsRebuilt, Halfway
<1>7. Rebuilds(d)' /\ Passed(d)'
  <2>1. Rebuilds(d)
    BY DEF MigrationInv
  <2> QED  BY <1>2, <2>1 DEF Rebuilds, Passed, Halfway
<1>8. ASSUME NEW e \in Daemons, e # d PROVE Rebuilds(e)' /\ Passed(e)'
  BY <1>2, <1>8, Bystander
<1>9. InUse' = InUse
  BY <1>2 DEF InUse, Opened
<1> QED  BY <1>3, <1>4, <1>5, <1>6, <1>7, <1>8, <1>9, SameData DEF MigrationInv

\* A table that has the new key is left, one that has the old one rebuilt.
LEMMA CheckKeeps ==
  ASSUME MigrationInv, NEW d \in Daemons, Check(d)
  PROVE  MigrationInv' /\ Implements
<1> USE TableFacts, ColumnFacts
<1>1. MigrationTypeOK /\ NoneIsNoTable /\ Together /\ AsideIsRebuilt
  BY DEF MigrationInv
<1>2. at[d] \in 1 .. 3 /\ boot[d] = "check" /\ UNCHANGED <<dialect, table, aside, tx>>
  BY <1>1 DEF Check, MigrationTypeOK
<1>3. \E pc \in {"rename", "check", "columns"}, i \in 1 .. 3 : Step(d, pc, i)
  BY <1>2 DEF Check
<1>4. /\ boot' \in [Daemons -> {"off", "ready"} \cup Booting]
      /\ at' \in [Daemons -> DOMAIN TableAt \cup DOMAIN Added]
      /\ boot'[d] \in {"rename", "check", "columns"}
      /\ \A e \in Daemons : e # d => boot'[e] = boot[e] /\ at'[e] = at[e]
  BY <1>1, <1>3, Steps DEF Booting
<1>5. MigrationTypeOK' /\ NoneIsNoTable'
  BY <1>1, <1>2, <1>4 DEF MigrationTypeOK, NoneIsNoTable
<1>6. Together'
  BY <1>1, <1>2, <1>4 DEF Together, Converted
<1>7. AsideIsRebuilt'
  BY <1>1, <1>2, <1>4 DEF AsideIsRebuilt, Halfway
<1>8. \A i \in 1 .. 3 : aside[TableAt[i]] = NoTable
  <2>1. ASSUME NEW i \in 1 .. 3, aside[TableAt[i]] # NoTable PROVE FALSE
    <3>1. PICK e \in Daemons : boot[e] \in Halfway
      BY <1>1, <2>1 DEF AsideIsRebuilt
    <3> QED  BY <1>2, <3>1, RebuildsAlone DEF Halfway
  <2> QED  BY <2>1
<1>9. Rebuilds(d)' /\ Passed(d)'
  <2>1. Rebuilds(d) /\ Passed(d)
    BY DEF MigrationInv
  <2>2. CASE table[TableAt[at[d]]].form = "old" /\ Step(d, "rename", at[d])
    <3>1. boot'[d] = "rename" /\ at'[d] = at[d]
      BY <1>1, <1>2, <2>2, Steps DEF Booting
    <3> QED  BY <1>2, <1>8, <2>1, <2>2, <3>1 DEF Rebuilds, Passed, Halfway
  <2>3. CASE table[TableAt[at[d]]].form = "new" /\ at[d] < 3 /\ Step(d, "check", at[d] + 1)
    <3>1. boot'[d] = "check" /\ at'[d] = at[d] + 1
      BY <1>1, <1>2, <2>3, Steps DEF Booting
    <3> QED  BY <1>2, <1>8, <2>1, <2>3, <3>1 DEF Rebuilds, Passed, Halfway
  <2>4. CASE table[TableAt[at[d]]].form = "new" /\ ~(at[d] < 3) /\ Step(d, "columns", 1)
    <3>1. boot'[d] = "columns" /\ at'[d] = 1
      BY <1>1, <1>2, <2>4, Steps DEF Booting
    <3>2. \A i \in 1 .. 3 : table[TableAt[i]].form = "new"
      BY <1>2, <2>1, <2>4 DEF Passed
    <3>3. Converted
      BY <1>8, <3>2 DEF Converted
    <3> QED  BY <1>2, <2>1, <3>1, <3>3 DEF Rebuilds, Passed, Converted, Halfway
  <2> QED  BY <1>2, <2>2, <2>3, <2>4 DEF Check
<1>10. ASSUME NEW e \in Daemons, e # d PROVE Rebuilds(e)' /\ Passed(e)'
  BY <1>2, <1>4, <1>10, Bystander
<1>11. InUse' = InUse
  BY <1>2, <1>4 DEF InUse, Opened
<1> QED  BY <1>2, <1>5, <1>6, <1>7, <1>9, <1>10, <1>11, SameData DEF MigrationInv

\* A column that a table has is passed over.
LEMMA LookKeeps ==
  ASSUME MigrationInv, NEW d \in Daemons, Look(d)
  PROVE  MigrationInv' /\ Implements
<1> USE TableFacts, ColumnFacts
<1>1. MigrationTypeOK /\ NoneIsNoTable /\ Together /\ AsideIsRebuilt /\ Rebuilds(d) /\ Passed(d)
  BY DEF MigrationInv
<1>2. at[d] \in 1 .. 3 /\ boot[d] = "columns" /\ UNCHANGED <<dialect, table, aside, tx>>
  BY <1>1 DEF Look, MigrationTypeOK
<1>3. \E pc \in {"add", "columns", "index"}, i \in 1 .. 3 : Step(d, pc, i)
  BY <1>2 DEF Look
<1>4. /\ boot' \in [Daemons -> {"off", "ready"} \cup Booting]
      /\ at' \in [Daemons -> DOMAIN TableAt \cup DOMAIN Added]
      /\ boot'[d] \in {"add", "columns", "index"}
      /\ \A e \in Daemons : e # d => boot'[e] = boot[e] /\ at'[e] = at[e]
  BY <1>1, <1>3, Steps DEF Booting
<1>5. MigrationTypeOK' /\ NoneIsNoTable'
  BY <1>1, <1>2, <1>4 DEF MigrationTypeOK, NoneIsNoTable
<1>6. Together' /\ AsideIsRebuilt'
  BY <1>1, <1>2, <1>4 DEF Together, Converted, AsideIsRebuilt, Halfway
<1>7. Rebuilds(d)'
  BY <1>1, <1>2, <1>4 DEF Rebuilds, Halfway
<1>8. Passed(d)'
  <2>1. Converted'
    BY <1>1, <1>2 DEF Passed, Converted
  <2>2. CASE Step(d, "add", at[d])
    <3>1. boot'[d] = "add" /\ at'[d] = at[d]
      BY <1>1, <1>2, <2>2, Steps DEF Booting
    <3> QED  BY <1>1, <1>2, <2>1, <3>1 DEF Passed, Halfway
  <2>3. CASE Added[at[d]] \in table[TableAt[at[d]]].cols /\ at[d] < 3 /\ Step(d, "columns", at[d] + 1)
    <3>1. boot'[d] = "columns" /\ at'[d] = at[d] + 1
      BY <1>1, <1>2, <2>3, Steps DEF Booting
    <3> QED  BY <1>1, <1>2, <2>1, <2>3, <3>1 DEF Passed, Halfway
  <2>4. CASE Added[at[d]] \in table[TableAt[at[d]]].cols /\ ~(at[d] < 3) /\ Step(d, "index", 1)
    <3>1. boot'[d] = "index" /\ at'[d] = 1
      BY <1>1, <1>2, <2>4, Steps DEF Booting
    <3> QED  BY <1>1, <1>2, <2>1, <2>4, <3>1 DEF Passed, Halfway
  <2> QED  BY <1>2, <2>2, <2>3, <2>4 DEF Look
<1>9. ASSUME NEW e \in Daemons, e # d PROVE Rebuilds(e)' /\ Passed(e)'
  BY <1>2, <1>4, <1>9, Bystander
<1>10. InUse' = InUse
  BY <1>2, <1>4 DEF InUse, Opened
<1> QED  BY <1>2, <1>5, <1>6, <1>7, <1>8, <1>9, <1>10, SameData DEF MigrationInv

\* A daemon has the store opened when it has seen every column of every table.
LEMMA CreateIndexKeeps ==
  ASSUME MigrationInv, NEW d \in Daemons, CreateIndex(d)
  PROVE  MigrationInv' /\ Implements
<1> USE TableFacts, ColumnFacts
<1>1. MigrationTypeOK /\ NoneIsNoTable /\ Together /\ AsideIsRebuilt /\ Rebuilds(d) /\ Passed(d)
  BY DEF MigrationInv
<1>2. boot[d] = "index" /\ UNCHANGED <<dialect, table, aside, tx>>
  BY DEF CreateIndex
<1>3. /\ boot' \in [Daemons -> {"off", "ready"} \cup Booting]
      /\ at' \in [Daemons -> DOMAIN TableAt \cup DOMAIN Added]
      /\ boot'[d] = "ready"
      /\ \A e \in Daemons : e # d => boot'[e] = boot[e] /\ at'[e] = at[e]
  BY <1>1, Steps DEF Booting, CreateIndex
<1>4. MigrationTypeOK' /\ NoneIsNoTable'
  BY <1>1, <1>2, <1>3 DEF MigrationTypeOK, NoneIsNoTable
<1>5. Together' /\ AsideIsRebuilt'
  BY <1>1, <1>2, <1>3 DEF Together, Converted, AsideIsRebuilt, Halfway
<1>6. Rebuilds(d)' /\ Passed(d)'
  BY <1>1, <1>2, <1>3 DEF Rebuilds, Passed, Converted, Halfway
<1>7. ASSUME NEW e \in Daemons, e # d PROVE Rebuilds(e)' /\ Passed(e)'
  BY <1>2, <1>3, <1>7, Bystander
<1>8. \A t \in Tables : ShapeOf(t) = "whole"
  <2>1. ASSUME NEW i \in 1 .. 3 PROVE ShapeOf(TableAt[i]) = "whole"
    BY <1>1, <1>2 DEF Passed, Converted, ShapeOf
  <2> QED  BY <2>1
<1>9. InUse'
  BY <1>3 DEF InUse, Opened
<1>10. Contract!Open
  BY <1>2, <1>8, <1>9, SameData DEF Contract!Open
<1> QED  BY <1>4, <1>5, <1>6, <1>7, <1>10 DEF MigrationInv, Implements, Contract!UpgradeNext

-----------------------------------------------------------------------------
(* The end of a boot                                                       *)

\* Outside a rebuild on MySQL only a transaction is lost.
LEMMA EndsKeeps ==
  ASSUME MigrationInv, Undisturbed, NEW d \in Daemons, Ends(d)
  PROVE  MigrationInv' /\ Implements
<1> USE TableFacts, ColumnFacts
<1>1. MigrationTypeOK /\ NoneIsNoTable /\ Together /\ AsideIsRebuilt /\ Rebuilds(d) /\ Passed(d)
  BY DEF MigrationInv
<1>2. UNCHANGED <<dialect, table, aside>> /\ ~(dialect = "mysql" /\ boot[d] \in Halfway)
  BY DEF Ends, Undisturbed
<1>3. /\ boot' \in [Daemons -> {"off", "ready"} \cup Booting]
      /\ at' \in [Daemons -> DOMAIN TableAt \cup DOMAIN Added]
      /\ boot'[d] = "off"
      /\ \A e \in Daemons : e # d => boot'[e] = boot[e] /\ at'[e] = at[e]
  BY <1>1, Steps DEF Booting, Ends
<1>4. NoTx \in [open : BOOLEAN, new : TableType, old : TableType]
  BY DEF NoTx, TableType, NoTable
<1>5. tx' = [tx EXCEPT ![d] = NoTx]
  BY DEF Ends
<1>6. MigrationTypeOK' /\ NoneIsNoTable'
  BY <1>1, <1>2, <1>3, <1>4, <1>5 DEF MigrationTypeOK, NoneIsNoTable
<1>7. Together' /\ AsideIsRebuilt'
  BY <1>1, <1>2, <1>3 DEF Together, Converted, AsideIsRebuilt
<1>8. Rebuilds(d)' /\ Passed(d)'
  <2>1. tx'[d].open = FALSE
    BY <1>1, <1>5 DEF MigrationTypeOK, NoTx
  <2> QED  BY <1>3, <2>1 DEF Rebuilds, Passed, Halfway
<1>9. ASSUME NEW e \in Daemons, e # d PROVE Rebuilds(e)' /\ Passed(e)'
  <2>1. tx'[e] = tx[e]
    BY <1>1, <1>5, <1>9 DEF MigrationTypeOK
  <2> QED  BY <1>2, <1>3, <1>9, <2>1, Bystander
<1>10. InUse' = InUse \/ ~InUse'
  <2>1. InUse' => InUse
    BY <1>3 DEF InUse, Opened
  <2> QED  BY <2>1 DEF InUse
<1> QED  BY <1>2, <1>6, <1>7, <1>8, <1>9, <1>10, SameData DEF MigrationInv

-----------------------------------------------------------------------------
(* The steps that leave every table in one piece                           *)

\* Only during a rebuild is a table under its other name.
LEMMA NothingAside ==
  ASSUME MigrationInv, NEW d \in Daemons,
         boot[d] \notin Halfway \cup {"off"} \/ dialect = "sqlite"
  PROVE  \A t \in Tables : aside[t] = NoTable
<1>1. ASSUME NEW t \in Tables, aside[t] # NoTable PROVE FALSE
  <2>1. PICK e \in Daemons : dialect = "mysql" /\ boot[e] \in Halfway
    BY <1>1 DEF MigrationInv, AsideIsRebuilt
  <2> QED  BY <2>1, RebuildsAlone DEF Halfway, MigrationInv, MigrationTypeOK
<1> QED  BY <1>1

\* A step that changes one table changes what the contract says of that one only.
LEMMA OneTable ==
  ASSUME NEW t \in Tables, \A u \in Tables : u # t => table'[u] = table[u] /\ aside'[u] = aside[u],
         RowsOf(t)' = RowsOf(t), InUse' = InUse,
         \/ ShapeOf(t)' = ShapeOf(t)
         \/ ShapeOf(t) = "none" /\ ShapeOf(t)' \in {"bare", "whole"}
         \/ ShapeOf(t) = "old"  /\ ShapeOf(t)' = "bare"
         \/ ShapeOf(t) = "bare" /\ ShapeOf(t)' = "whole"
  PROVE  Implements
<1> DEFINE shapes == [u \in Tables |-> ShapeOf(u)]
           rows   == [u \in Tables |-> RowsOf(u)]
<1>1. ASSUME NEW u \in Tables, u # t PROVE ShapeOf(u)' = ShapeOf(u) /\ RowsOf(u)' = RowsOf(u)
  <2>1. table'[u] = table[u] /\ aside'[u] = aside[u]
    BY <1>1
  <2> QED  BY ONLY <2>1 DEF ShapeOf, RowsOf
<1>2. rows' = rows
  BY <1>1
<1>3. shapes' = [shapes EXCEPT ![t] = ShapeOf(t)']
  BY <1>1
<1>4. CASE ShapeOf(t)' = ShapeOf(t)
  BY <1>1, <1>2, <1>4 DEF Implements, ContractVars
<1>5. CASE ShapeOf(t)' # ShapeOf(t)
  <2>1. shapes[t] = ShapeOf(t)
    OBVIOUS
  <2>2. Contract!Advance(t)
    BY <1>2, <1>3, <1>5, <2>1 DEF Contract!Advance
  <2> QED  BY <2>2 DEF Implements, Contract!UpgradeNext
<1> QED  BY <1>4, <1>5

\* A table that is missing is created, of a database that nobody else uses.
LEMMA SchemaKeeps ==
  ASSUME MigrationInv, NEW d \in Daemons, Schema(d)
  PROVE  MigrationInv' /\ Implements
<1> USE TableFacts, ColumnFacts
<1> PICK t : t = TableAt[at[d]]
  OBVIOUS
<1> DEFINE new == [form |-> "new", rows |-> {}, cols |-> SchemaCols(t)]
<1>1. MigrationTypeOK /\ NoneIsNoTable /\ Together /\ AsideIsRebuilt /\ Rebuilds(d) /\ Passed(d)
  BY DEF MigrationInv
<1>2. /\ at[d] \in 1 .. 3 /\ t \in Tables /\ boot[d] = "schema"
      /\ UNCHANGED <<dialect, aside, tx>>
  BY <1>1 DEF Schema, MigrationTypeOK
<1>3. \A u \in Tables : aside[u] = NoTable
  BY <1>2, NothingAside DEF Halfway
<1>4. \/ at[d] < 3 /\ Step(d, "schema", at[d] + 1)
      \/ ~(at[d] < 3) /\ Step(d, "check", 1)
  BY DEF Schema
<1>5. /\ boot' \in [Daemons -> {"off", "ready"} \cup Booting]
      /\ at' \in [Daemons -> DOMAIN TableAt \cup DOMAIN Added]
      /\ \A e \in Daemons : e # d => boot'[e] = boot[e] /\ at'[e] = at[e]
      /\ \/ at[d] < 3 /\ boot'[d] = "schema" /\ at'[d] = at[d] + 1
         \/ ~(at[d] < 3) /\ boot'[d] = "check" /\ at'[d] = 1
  BY <1>1, <1>2, <1>4, Steps DEF Booting
<1>6. new \in TableType
  BY <1>2 DEF TableType
<1>7. /\ table' \in [Tables -> TableType]
      /\ \A u \in Tables : u # t => table'[u] = table[u]
      /\ table'[t] = IF table[t] = NoTable THEN new ELSE table[t]
  BY <1>1, <1>2, <1>6 DEF Schema, MigrationTypeOK
<1>8. table'[t].form # "none" /\ \A u \in Tables : table[u].form # "none" => table'[u] = table[u]
  BY <1>1, <1>2, <1>7 DEF NoneIsNoTable, NoTable
<1>9. table' = table \/ \A e \in Daemons : e # d => boot[e] = "off"
  <2>1. CASE table[t] = NoTable
    <3>1. ~Converted
      BY <1>2, <2>1 DEF Converted, NoTable
    <3> QED  BY <1>1, <1>2, <3>1 DEF Together
  <2>2. CASE table[t] # NoTable
    BY <1>1, <1>7, <2>2 DEF MigrationTypeOK
  <2> QED  BY <2>1, <2>2
<1>10. MigrationTypeOK' /\ NoneIsNoTable'
  BY <1>1, <1>2, <1>5, <1>7 DEF MigrationTypeOK, NoneIsNoTable
<1>11. Together'
  BY <1>1, <1>2, <1>5, <1>9 DEF Together, Converted
<1>12. AsideIsRebuilt'
  BY <1>2, <1>3 DEF AsideIsRebuilt
<1>13. Rebuilds(d)' /\ Passed(d)'
  <2>1. Rebuilds(d)'
    BY <1>1, <1>2, <1>5 DEF Rebuilds, Halfway
  <2>2. \A i \in 1 .. 3 : i < at[d] => table'[TableAt[i]].form # "none"
    BY <1>1, <1>2, <1>8 DEF Passed
  <2>3. \A i \in 1 .. 3 : i < at[d] + 1 => table'[TableAt[i]].form # "none"
    BY <1>2, <1>8, <2>2
  <2> QED  BY <1>2, <1>5, <2>1, <2>3 DEF Passed, Halfway
<1>14. ASSUME NEW e \in Daemons, e # d PROVE Rebuilds(e)' /\ Passed(e)'
  BY <1>2, <1>5, <1>9, <1>14, Bystander
<1>15. Implements
  <2>1. InUse' = InUse
    BY <1>2, <1>5 DEF InUse, Opened
  <2>2. CASE table' = table
    BY <1>2, <2>1, <2>2, SameData
  <2>3. CASE table' # table
    <3>1. table[t] = NoTable /\ table'[t] = new
      BY <1>1, <1>7, <2>3 DEF MigrationTypeOK
    <3>2. RowsOf(t)' = RowsOf(t)
      BY <1>2, <1>3, <3>1 DEF RowsOf, NoTable
    <3>3. ShapeOf(t) = "none" /\ ShapeOf(t)' \in {"bare", "whole"}
      BY <1>2, <1>3, <3>1 DEF ShapeOf, NoTable
    <3> QED  BY <1>2, <1>7, <2>1, <3>2, <3>3, OneTable
  <2> QED  BY <2>2, <2>3
<1> QED  BY <1>10, <1>11, <1>12, <1>13, <1>14, <1>15 DEF MigrationInv

\* In a converted database a table gets the column that it lacked.
LEMMA AddColumnKeeps ==
  ASSUME MigrationInv, NEW d \in Daemons, AddColumn(d)
  PROVE  MigrationInv' /\ Implements
<1> USE TableFacts, ColumnFacts
<1> PICK t : t = TableAt[at[d]]
  OBVIOUS
<1> PICK a : a = Added[at[d]]
  OBVIOUS
<1>1. MigrationTypeOK /\ NoneIsNoTable /\ Together /\ AsideIsRebuilt /\ Rebuilds(d) /\ Passed(d)
  BY DEF MigrationInv
<1>2. /\ at[d] \in 1 .. 3 /\ t \in Tables /\ a \in Columns /\ a[1] = t /\ AddedTo(t) = {a}
      /\ boot[d] = "add" /\ Converted /\ UNCHANGED <<dialect, aside, tx>>
  BY <1>1 DEF AddColumn, MigrationTypeOK, Passed
<1>3. \/ at[d] < 3 /\ Step(d, "columns", at[d] + 1)
      \/ ~(at[d] < 3) /\ Step(d, "index", 1)
  BY DEF AddColumn
<1>4. /\ boot' \in [Daemons -> {"off", "ready"} \cup Booting]
      /\ at' \in [Daemons -> DOMAIN TableAt \cup DOMAIN Added]
      /\ \A e \in Daemons : e # d => boot'[e] = boot[e] /\ at'[e] = at[e]
      /\ \/ at[d] < 3 /\ boot'[d] = "columns" /\ at'[d] = at[d] + 1
         \/ ~(at[d] < 3) /\ boot'[d] = "index" /\ at'[d] = 1
  BY <1>1, <1>2, <1>3, Steps DEF Booting
<1>5. table' = [table EXCEPT ![t] = [table[t] EXCEPT !.cols = @ \cup {a}]]
  BY <1>1, <1>2 DEF AddColumn, MigrationTypeOK
<1>6. /\ table[t] \in TableType
      /\ [table[t] EXCEPT !.cols = @ \cup {a}] \in TableType
  <2>1. table[t] \in TableType
    BY <1>1, <1>2 DEF MigrationTypeOK
  <2>2. table[t].cols \cup {a} \in SUBSET Columns
    BY <1>2, <2>1 DEF TableType
  <2> QED  BY <2>1, <2>2 DEF TableType
<1>7. /\ table' \in [Tables -> TableType]
      /\ \A u \in Tables : u # t => table'[u] = table[u]
      /\ table'[t].form = "new" /\ table'[t].rows = table[t].rows
      /\ table'[t].cols = table[t].cols \cup {a}
  BY <1>1, <1>2, <1>5, <1>6 DEF MigrationTypeOK, TableType, Converted
<1>8. \A u \in Tables : table'[u].form = "new" /\ table[u].cols \subseteq table'[u].cols
  BY <1>2, <1>7 DEF Converted
<1>9. Converted'
  BY <1>2, <1>8 DEF Converted
<1>10. MigrationTypeOK' /\ NoneIsNoTable'
  BY <1>1, <1>2, <1>4, <1>7, <1>8 DEF MigrationTypeOK, NoneIsNoTable
<1>11. Together' /\ AsideIsRebuilt'
  BY <1>1, <1>2, <1>4, <1>9 DEF Together, AsideIsRebuilt, Converted
<1>12. Rebuilds(d)' /\ Passed(d)'
  <2>1. Rebuilds(d)'
    BY <1>1, <1>2, <1>4 DEF Rebuilds, Halfway
  <2>2. \A i \in 1 .. 3 : i < at[d] + 1 => Added[i] \in table'[TableAt[i]].cols
    BY <1>1, <1>2, <1>7, <1>8 DEF Passed
  <2> QED  BY <1>2, <1>4, <1>9, <2>1, <2>2 DEF Passed, Halfway
<1>13. ASSUME NEW e \in Daemons, e # d PROVE Rebuilds(e)' /\ Passed(e)'
  BY <1>2, <1>4, <1>8, <1>13, Growing
<1>14. Implements
  <2>1. InUse' = InUse
    BY <1>2, <1>4 DEF InUse, Opened
  <2>2. RowsOf(t)' = RowsOf(t)
    BY <1>2, <1>7 DEF RowsOf
  <2>3. ShapeOf(t) \in {"bare", "whole"} /\ ShapeOf(t)' = "whole"
    BY <1>2, <1>7 DEF ShapeOf, Converted
  <2> QED  BY <1>2, <1>7, <2>1, <2>2, <2>3, OneTable
<1> QED  BY <1>10, <1>11, <1>12, <1>13, <1>14 DEF MigrationInv

\* Rows are stored by daemons that have the store opened.
LEMMA StoreRowKeeps ==
  ASSUME MigrationInv, NEW d \in Daemons, Opened(d), NEW r \in Rows, StoreRow(r)
  PROVE  MigrationInv' /\ Implements
<1> USE TableFacts, ColumnFacts
<1>1. MigrationTypeOK /\ NoneIsNoTable /\ Together /\ AsideIsRebuilt /\ Passed(d)
  BY DEF MigrationInv
<1>2. Converted /\ UNCHANGED <<dialect, aside, tx, boot, at>>
  BY <1>1 DEF StoreRow, Passed, Opened
<1>3. \A u \in Tables : /\ table'[u] \in TableType /\ table'[u].form = "new"
                        /\ table'[u].rows = table[u].rows \cup {r}
                        /\ table'[u].cols = table[u].cols
  BY <1>1, <1>2 DEF StoreRow, MigrationTypeOK, TableType, Converted
<1>4. table' \in [Tables -> TableType]
  BY <1>3 DEF StoreRow
<1>5. MigrationTypeOK' /\ NoneIsNoTable'
  BY <1>1, <1>2, <1>3, <1>4 DEF MigrationTypeOK, NoneIsNoTable
<1>6. Together' /\ AsideIsRebuilt'
  BY <1>1, <1>2, <1>3 DEF Together, AsideIsRebuilt, Converted
<1>7. ASSUME NEW e \in Daemons PROVE Rebuilds(e)' /\ Passed(e)'
  BY <1>2, <1>3, <1>7, Growing
<1>8. Implements
  <2>1. \A u \in Tables : ShapeOf(u)' = ShapeOf(u)
    <3>1. ASSUME NEW u \in Tables PROVE ShapeOf(u)' = ShapeOf(u)
      <4>1. table[u].form = "new" /\ aside[u] = NoTable
        BY <1>2 DEF Converted
      <4> QED  BY <1>2, <1>3, <4>1 DEF ShapeOf
    <3> QED  BY <3>1
  <2>2. \A u \in Tables : RowsOf(u)' = RowsOf(u) \cup {r}
    BY <1>2, <1>3 DEF RowsOf, Converted
  <2>3. InUse /\ InUse' = InUse
    BY <1>2 DEF InUse, Opened
  <2>4. Contract!Store(r)
    BY <2>1, <2>2, <2>3 DEF Contract!Store
  <2> QED  BY <2>4 DEF Implements, Contract!UpgradeNext
<1> QED  BY <1>5, <1>6, <1>7, <1>8 DEF MigrationInv

-----------------------------------------------------------------------------
(* The rebuild of a table                                                  *)

\* What a statement leaves under the two names of a table, in a transaction or not.
Left(d, t, new, old) ==
  \/ /\ dialect = "sqlite" /\ tx'[d] = [open |-> TRUE, new |-> new, old |-> old]
     /\ UNCHANGED <<table, aside>>
  \/ /\ dialect = "mysql" /\ tx'[d] = tx[d] /\ ~tx[d].open
     /\ table'[t] = new /\ aside'[t] = old

\* The invariant but for the rebuild of d
RestInv(d) ==
  /\ MigrationTypeOK /\ NoneIsNoTable /\ Together /\ AsideIsRebuilt /\ Passed(d)
  /\ \A e \in Daemons : e # d => Rebuilds(e) /\ Passed(e)

\* What every statement of a rebuild does.
LEMMA Statement ==
  ASSUME MigrationInv, NEW d \in Daemons, NEW t, t = TableAt[at[d]],
         boot[d] \in {"rename"} \cup Halfway,
         NEW new \in TableType, NEW old \in TableType, NEW pc \in Halfway \cup {"commit"},
         change(d, t, new, old), Step(d, pc, at[d]), UNCHANGED dialect,
         new.form = "none" => new = NoTable,
         old = NoTable \/ (old.form = "old" /\ pc # "commit")
  PROVE  /\ boot'[d] = pc /\ at'[d] = at[d]
         /\ Left(d, t, new, old)
         /\ \A u \in Tables : u # t => table'[u] = table[u] /\ aside'[u] = aside[u]
         /\ RestInv(d)'
         /\ InUse' = InUse
<1> USE TableFacts, ColumnFacts
<1>1. MigrationTypeOK /\ NoneIsNoTable /\ Together /\ AsideIsRebuilt /\ Rebuilds(d) /\ Passed(d)
  BY DEF MigrationInv
<1>2. at[d] \in 1 .. 3 /\ t \in Tables
  BY <1>1 DEF MigrationTypeOK
<1>3. /\ boot' \in [Daemons -> {"off", "ready"} \cup Booting]
      /\ at' \in [Daemons -> DOMAIN TableAt \cup DOMAIN Added]
      /\ boot'[d] = pc /\ at'[d] = at[d]
      /\ \A e \in Daemons : e # d => boot'[e] = boot[e] /\ at'[e] = at[e]
  BY <1>1, <1>2, Steps DEF Booting, Halfway
<1>4. \A e \in Daemons : e # d => boot[e] = "off"
  BY RebuildsAlone DEF Halfway
<1>5. \/ /\ dialect = "sqlite" /\ tx' = [tx EXCEPT ![d] = [open |-> TRUE, new |-> new, old |-> old]]
         /\ UNCHANGED <<table, aside>>
      \/ /\ dialect = "mysql" /\ tx' = tx
         /\ table' = [table EXCEPT ![t] = new] /\ aside' = [aside EXCEPT ![t] = old]
  BY <1>1 DEF change, MigrationTypeOK
<1>6. Left(d, t, new, old)
  BY <1>1, <1>2, <1>5 DEF Left, MigrationTypeOK, Rebuilds
<1>7. \A u \in Tables : u # t => table'[u] = table[u] /\ aside'[u] = aside[u]
  BY <1>1, <1>2, <1>5 DEF MigrationTypeOK
<1>8. MigrationTypeOK'
  <2>1. PICK Txs : Txs = [open : BOOLEAN, new : TableType, old : TableType]
    OBVIOUS
  <2>2. PICK made : made = [open |-> TRUE, new |-> new, old |-> old]
    OBVIOUS
  <2>3. made \in Txs /\ tx \in [Daemons -> Txs]
    BY <1>1, <2>1, <2>2 DEF MigrationTypeOK
  <2>4. tx' = tx \/ tx' = [tx EXCEPT ![d] = made]
    BY <1>5, <2>2
  <2>5. tx' \in [Daemons -> Txs]
    BY ONLY <2>3, <2>4
  <2>6. tx' \in [Daemons -> [open : BOOLEAN, new : TableType, old : TableType]]
    BY <2>1, <2>5
  <2>7. table' \in [Tables -> TableType] /\ aside' \in [Tables -> TableType]
    BY <1>1, <1>2, <1>5 DEF MigrationTypeOK
  <2> QED  BY <1>1, <1>3, <2>6, <2>7 DEF MigrationTypeOK
<1>9. NoneIsNoTable'
  <2>1. old.form # "new" /\ (old.form = "none" => old = NoTable)
    BY DEF NoTable
  <2>2. ASSUME NEW u \in Tables
        PROVE  /\ table'[u].form = "none" => table'[u] = NoTable
               /\ aside'[u].form = "none" => aside'[u] = NoTable
               /\ aside'[u].form # "new"
    <3>1. \/ table'[u] = table[u] /\ aside'[u] = aside[u]
          \/ table'[u] = new /\ aside'[u] = old
      BY <1>2, <1>6, <1>7, <2>2 DEF Left
    <3> QED  BY <1>1, <2>1, <2>2, <3>1 DEF NoneIsNoTable
  <2> QED  BY <2>2 DEF NoneIsNoTable
<1>10. Together'
  BY <1>3, <1>4 DEF Together
<1>11. AsideIsRebuilt'
  <2>1. ASSUME NEW u \in Tables, aside'[u] # NoTable
        PROVE  dialect = "mysql" /\ pc \in Halfway /\ u = t
    <3>1. CASE u = t
      BY <1>1, <1>2, <1>4, <1>6, <2>1, <3>1 DEF Left, AsideIsRebuilt, Rebuilds, Halfway
    <3>2. CASE u # t
      BY <1>1, <1>2, <1>4, <1>7, <2>1, <3>2 DEF AsideIsRebuilt, Halfway
    <3> QED  BY <3>1, <3>2
  <2> QED  BY <1>3, <2>1 DEF AsideIsRebuilt
<1>12. Passed(d)'
  <2>1. \A i \in 1 .. 3 : i # at[d] => TableAt[i] # t /\ TableAt[i] \in Tables
    BY <1>2
  <2> QED  BY <1>1, <1>2, <1>3, <1>7, <2>1 DEF Passed, Halfway
<1>13. ASSUME NEW e \in Daemons, e # d PROVE Rebuilds(e)' /\ Passed(e)'
  <2>1. tx'[e] = tx[e]
    BY <1>1, <1>5, <1>13 DEF MigrationTypeOK
  <2> QED  BY <1>3, <1>4, <1>13, <2>1, Bystander
<1>14. InUse' = InUse
  BY <1>3, <1>4 DEF InUse, Opened, Halfway
<1> QED  BY <1>3, <1>6, <1>7, <1>8, <1>9, <1>10, <1>11, <1>12, <1>13, <1>14 DEF RestInv

\* ALTER TABLE ... RENAME TO ...__old_id
LEMMA RenameKeeps ==
  ASSUME MigrationInv, NEW d \in Daemons, Rename(d)
  PROVE  MigrationInv' /\ Implements
<1> USE TableFacts, ColumnFacts
<1> PICK t : t = TableAt[at[d]]
  OBVIOUS
<1>1. MigrationTypeOK /\ AsideIsRebuilt /\ Rebuilds(d)
  BY DEF MigrationInv
<1>2. t \in Tables /\ boot[d] = "rename"
  BY <1>1 DEF Rename, MigrationTypeOK
<1>3. Here(d, t) \in TableType /\ There(d, t) \in TableType
  BY <1>1, <1>2 DEF MigrationTypeOK, Here, There
<1>4. ~tx[d].open /\ table[t].form = "old" /\ aside[t] = NoTable
  BY <1>1, <1>2, <1>3 DEF Rebuilds, Halfway
<1>5. PICK new \in TableType : new = NoTable
  BY <1>3, <1>4 DEF TableType, NoTable
<1>6. PICK old \in TableType : old = Here(d, t)
  BY <1>3, <1>4 DEF TableType, NoTable
<1>7. change(d, t, new, old) /\ Step(d, "create", at[d]) /\ UNCHANGED dialect
  BY <1>4, <1>5, <1>6 DEF Rename
<1>8. /\ boot'[d] = "create" /\ at'[d] = at[d] /\ Left(d, t, new, old)
      /\ \A u \in Tables : u # t => table'[u] = table[u] /\ aside'[u] = aside[u]
      /\ RestInv(d)' /\ InUse' = InUse
  BY <1>2, <1>4, <1>5, <1>6, <1>7, Statement DEF Halfway, NoTable, Here
<1>9. Rebuilds(d)'
  <2>1. dialect' = dialect /\ t = TableAt[at'[d]]
    BY <1>7, <1>8
  <2>2. CASE dialect = "sqlite"
    <3>1. /\ tx'[d].open /\ tx'[d].new = new /\ tx'[d].old = old
          /\ table'[t] = table[t] /\ aside'[t] = aside[t]
      BY <1>8, <2>2 DEF Left
    <3> QED  BY <1>2, <1>4, <1>5, <1>6, <1>8, <2>1, <2>2, <3>1 DEF Rebuilds, Here, There, Halfway, NoTable
  <2>3. CASE dialect = "mysql"
    <3>1. ~tx'[d].open /\ table'[t] = new /\ aside'[t] = old
      BY <1>8, <2>3 DEF Left
    <3> QED  BY <1>2, <1>4, <1>5, <1>6, <1>8, <2>1, <2>3, <3>1 DEF Rebuilds, Here, There, Halfway, NoTable
  <2> QED  BY <1>1, <2>2, <2>3 DEF MigrationTypeOK
<1>10. ShapeOf(t)' = ShapeOf(t) /\ RowsOf(t)' = RowsOf(t)
  BY <1>4, <1>5, <1>6, <1>8 DEF Left, Here, ShapeOf, RowsOf, NoTable
<1>11. Implements
  BY <1>2, <1>8, <1>10, OneTable
<1> QED  BY <1>8, <1>9, <1>11 DEF MigrationInv, RestInv

\* CREATE TABLE under the old name
LEMMA CreateKeeps ==
  ASSUME MigrationInv, NEW d \in Daemons, Create(d)
  PROVE  MigrationInv' /\ Implements
<1> USE TableFacts, ColumnFacts
<1> PICK t : t = TableAt[at[d]]
  OBVIOUS
<1>1. MigrationTypeOK /\ AsideIsRebuilt /\ Rebuilds(d)
  BY DEF MigrationInv
<1>2. t \in Tables /\ boot[d] = "create"
  BY <1>1 DEF Create, MigrationTypeOK
<1>3. Here(d, t) \in TableType /\ There(d, t) \in TableType
  BY <1>1, <1>2 DEF MigrationTypeOK, Here, There
<1>4. /\ There(d, t).form = "old" /\ Here(d, t) = NoTable
      /\ IF tx[d].open THEN There(d, t) = table[t] /\ aside[t] = NoTable
                       ELSE There(d, t) = aside[t]
  BY <1>1, <1>2, <1>3 DEF Rebuilds, There, Halfway
<1>5. PICK new \in TableType : new = [form |-> "new", rows |-> {}, cols |-> {}]
  BY <1>3, <1>4 DEF TableType, NoTable
<1>6. PICK old \in TableType : old = There(d, t)
  BY <1>3, <1>4 DEF TableType, NoTable
<1>7. change(d, t, new, old) /\ Step(d, "copy", at[d]) /\ UNCHANGED dialect
  BY <1>4, <1>5, <1>6 DEF Create
<1>8. /\ boot'[d] = "copy" /\ at'[d] = at[d] /\ Left(d, t, new, old)
      /\ \A u \in Tables : u # t => table'[u] = table[u] /\ aside'[u] = aside[u]
      /\ RestInv(d)' /\ InUse' = InUse
  BY <1>2, <1>4, <1>5, <1>6, <1>7, Statement DEF Halfway, NoTable, Here
<1>9. Rebuilds(d)'
  <2>1. dialect' = dialect /\ t = TableAt[at'[d]]
    BY <1>7, <1>8
  <2>2. CASE dialect = "sqlite"
    <3>1. /\ tx'[d].open /\ tx'[d].new = new /\ tx'[d].old = old
          /\ table'[t] = table[t] /\ aside'[t] = aside[t]
      BY <1>8, <2>2 DEF Left
    <3> QED  BY <1>1, <1>2, <1>4, <1>5, <1>6, <1>8, <2>1, <2>2, <3>1 DEF Rebuilds, Here, There, Halfway, NoTable
  <2>3. CASE dialect = "mysql"
    <3>1. ~tx'[d].open /\ table'[t] = new /\ aside'[t] = old
      BY <1>8, <2>3 DEF Left
    <3> QED  BY <1>1, <1>2, <1>4, <1>5, <1>6, <1>8, <2>1, <2>3, <3>1 DEF Rebuilds, Here, There, Halfway, NoTable
  <2> QED  BY <1>1, <2>2, <2>3 DEF MigrationTypeOK
<1>10. ShapeOf(t)' = ShapeOf(t) /\ RowsOf(t)' = RowsOf(t)
  <2>1. CASE UNCHANGED <<table, aside>>
    BY <2>1 DEF ShapeOf, RowsOf
  <2>2. CASE ~tx[d].open /\ aside'[t] = old
    <3>1. aside[t] = old /\ old # NoTable
      BY <1>4, <1>6, <2>2 DEF NoTable
    <3> QED  BY <2>2, <3>1 DEF ShapeOf, RowsOf
  <2> QED  BY <1>8, <2>1, <2>2 DEF Left
<1>11. Implements
  BY <1>2, <1>8, <1>10, OneTable
<1> QED  BY <1>8, <1>9, <1>11 DEF MigrationInv, RestInv

\* INSERT ... SELECT
LEMMA CopyKeeps ==
  ASSUME MigrationInv, NEW d \in Daemons, Copy(d)
  PROVE  MigrationInv' /\ Implements
<1> USE TableFacts, ColumnFacts
<1> PICK t : t = TableAt[at[d]]
  OBVIOUS
<1>1. MigrationTypeOK /\ AsideIsRebuilt /\ Rebuilds(d)
  BY DEF MigrationInv
<1>2. t \in Tables /\ boot[d] = "copy"
  BY <1>1 DEF Copy, MigrationTypeOK
<1>3. Here(d, t) \in TableType /\ There(d, t) \in TableType
  BY <1>1, <1>2 DEF MigrationTypeOK, Here, There
<1>4. /\ There(d, t).form = "old" /\ Here(d, t) = [form |-> "new", rows |-> {}, cols |-> {}]
      /\ IF tx[d].open THEN There(d, t) = table[t] /\ aside[t] = NoTable
                       ELSE There(d, t) = aside[t]
  BY <1>1, <1>2, <1>3 DEF Rebuilds, There, Halfway
<1>5. PICK new \in TableType : new = [Here(d, t) EXCEPT !.rows = @ \cup There(d, t).rows]
  BY <1>3, <1>4 DEF TableType, NoTable
<1>6. PICK old \in TableType : old = There(d, t)
  BY <1>3, <1>4 DEF TableType, NoTable
<1>7. change(d, t, new, old) /\ Step(d, "drop", at[d]) /\ UNCHANGED dialect
  BY <1>4, <1>5, <1>6 DEF Copy
<1>8. /\ boot'[d] = "drop" /\ at'[d] = at[d] /\ Left(d, t, new, old)
      /\ \A u \in Tables : u # t => table'[u] = table[u] /\ aside'[u] = aside[u]
      /\ RestInv(d)' /\ InUse' = InUse
  <2>1. /\ boot[d] \in {"rename"} \cup Halfway /\ "drop" \in Halfway \cup {"commit"}
        /\ new.form = "new" /\ old.form = "old"
    BY <1>2, <1>4, <1>5, <1>6 DEF Halfway
  <2> QED  BY <1>2, <1>7, <2>1, Statement
<1>9. Rebuilds(d)'
  <2>1. dialect' = dialect /\ t = TableAt[at'[d]]
    BY <1>7, <1>8
  <2>4. /\ new.form = "new" /\ new.cols = {} /\ new.rows = old.rows /\ old.form = "old"
        /\ dialect = "sqlite" => old = table[t] /\ aside[t] = NoTable
    BY <1>1, <1>2, <1>4, <1>5, <1>6 DEF Rebuilds, Halfway, TableType
  <2>2. CASE dialect = "sqlite"
    <3>1. /\ tx'[d].open /\ tx'[d].new = new /\ tx'[d].old = old
          /\ table'[t] = table[t] /\ aside'[t] = aside[t]
      BY <1>8, <2>2 DEF Left
    <3> QED  BY <1>8, <2>1, <2>2, <2>4, <3>1 DEF Rebuilds, Here, There, Halfway, NoTable
  <2>3. CASE dialect = "mysql"
    <3>1. ~tx'[d].open /\ table'[t] = new /\ aside'[t] = old
      BY <1>8, <2>3 DEF Left
    <3> QED  BY <1>8, <2>1, <2>3, <2>4, <3>1 DEF Rebuilds, Here, There, Halfway, NoTable
  <2> QED  BY <1>1, <2>2, <2>3 DEF MigrationTypeOK
<1>10. ShapeOf(t)' = ShapeOf(t) /\ RowsOf(t)' = RowsOf(t)
  <2>1. CASE UNCHANGED <<table, aside>>
    BY <2>1 DEF ShapeOf, RowsOf
  <2>2. CASE ~tx[d].open /\ aside'[t] = old
    <3>1. aside[t] = old /\ old # NoTable
      BY <1>4, <1>6, <2>2 DEF NoTable
    <3> QED  BY <2>2, <3>1 DEF ShapeOf, RowsOf
  <2> QED  BY <1>8, <2>1, <2>2 DEF Left
<1>11. Implements
  BY <1>2, <1>8, <1>10, OneTable
<1> QED  BY <1>8, <1>9, <1>11 DEF MigrationInv, RestInv

\* DROP TABLE of the copy: on MySQL the table has the new key from here on.
LEMMA DropKeeps ==
  ASSUME MigrationInv, NEW d \in Daemons, Drop(d)
  PROVE  MigrationInv' /\ Implements
<1> USE TableFacts, ColumnFacts
<1> PICK t : t = TableAt[at[d]]
  OBVIOUS
<1>1. MigrationTypeOK /\ AsideIsRebuilt /\ Rebuilds(d)
  BY DEF MigrationInv
<1>2. t \in Tables /\ boot[d] = "drop" /\ AddedTo(t) # {}
  <2>1. at[d] \in 1 .. 3
    BY <1>1 DEF MigrationTypeOK
  <2>2. AddedTo(t) = {Added[at[d]]}
    BY <2>1
  <2> QED  BY <2>1, <2>2 DEF Drop
<1>3. Here(d, t) \in TableType /\ There(d, t) \in TableType
  BY <1>1, <1>2 DEF MigrationTypeOK, Here, There
<1>4. /\ There(d, t).form = "old" /\ Here(d, t).form = "new"
      /\ Here(d, t).cols = {} /\ Here(d, t).rows = There(d, t).rows
      /\ IF tx[d].open THEN There(d, t) = table[t] /\ aside[t] = NoTable
                       ELSE There(d, t) = aside[t]
  BY <1>1, <1>2, <1>3 DEF Rebuilds, There, Halfway
<1>5. PICK new \in TableType : new = Here(d, t)
  BY <1>3, <1>4 DEF TableType, NoTable
<1>6. PICK old \in TableType : old = NoTable
  BY <1>3, <1>4 DEF TableType, NoTable
<1>7. change(d, t, new, old) /\ Step(d, "commit", at[d]) /\ UNCHANGED dialect
  BY <1>4, <1>5, <1>6 DEF Drop
<1>8. /\ boot'[d] = "commit" /\ at'[d] = at[d] /\ Left(d, t, new, old)
      /\ \A u \in Tables : u # t => table'[u] = table[u] /\ aside'[u] = aside[u]
      /\ RestInv(d)' /\ InUse' = InUse
  <2>1. /\ boot[d] \in {"rename"} \cup Halfway /\ "commit" \in Halfway \cup {"commit"}
        /\ new.form = "new" /\ old = NoTable
    BY <1>2, <1>4, <1>5, <1>6 DEF Halfway
  <2> QED  BY <1>2, <1>7, <2>1, Statement
<1>9. Rebuilds(d)'
  <2>1. dialect' = dialect /\ t = TableAt[at'[d]]
    BY <1>7, <1>8
  <2>4. /\ new.form = "new" /\ new.cols = {} /\ old = NoTable
        /\ dialect = "sqlite" => /\ new.rows = table[t].rows
                                 /\ table[t].form = "old" /\ aside[t] = NoTable
    BY <1>1, <1>2, <1>4, <1>5, <1>6 DEF Rebuilds, Halfway
  <2>2. CASE dialect = "sqlite"
    <3>1. /\ tx'[d].open /\ tx'[d].new = new /\ tx'[d].old = old
          /\ table'[t] = table[t] /\ aside'[t] = aside[t]
      BY <1>8, <2>2 DEF Left
    <3> QED  BY <1>8, <2>1, <2>2, <2>4, <3>1 DEF Rebuilds, Here, There, Halfway, NoTable
  <2>3. CASE dialect = "mysql"
    <3>1. ~tx'[d].open /\ table'[t] = new /\ aside'[t] = old
      BY <1>8, <2>3 DEF Left
    <3> QED  BY <1>8, <2>1, <2>3, <2>4, <3>1 DEF Rebuilds, Here, There, Halfway, NoTable
  <2> QED  BY <1>1, <2>2, <2>3 DEF MigrationTypeOK
<1>10. /\ ShapeOf(t) = "old" /\ ShapeOf(t)' \in {"old", "bare"}
       /\ RowsOf(t)' = RowsOf(t)
  <2>1. CASE dialect = "sqlite"
    <3>1. UNCHANGED <<table, aside>> /\ tx[d].open
      BY <1>1, <1>2, <1>8, <2>1 DEF Left, Rebuilds, Halfway
    <3>2. aside[t] = NoTable /\ table[t].form = "old"
      BY <1>4, <3>1
    <3> QED  BY <3>1, <3>2 DEF ShapeOf, RowsOf
  <2>2. CASE dialect = "mysql"
    <3>1. ~tx[d].open /\ table'[t] = new /\ aside'[t] = NoTable
      BY <1>6, <1>8, <2>2 DEF Left
    <3>2. aside[t] # NoTable /\ aside[t].rows = new.rows /\ new.form = "new" /\ new.cols = {}
      BY <1>4, <1>5, <3>1 DEF NoTable
    <3> QED  BY <1>2, <3>1, <3>2 DEF ShapeOf, RowsOf
  <2> QED  BY <1>1, <2>1, <2>2 DEF MigrationTypeOK
<1>11. Implements
  BY <1>2, <1>8, <1>10, OneTable
<1> QED  BY <1>8, <1>9, <1>11 DEF MigrationInv, RestInv

\* COMMIT: on SQLite the table has the new key from here on.
LEMMA CommitKeeps ==
  ASSUME MigrationInv, NEW d \in Daemons, Commit(d)
  PROVE  MigrationInv' /\ Implements
<1> USE TableFacts, ColumnFacts
<1> PICK t : t = TableAt[at[d]]
  OBVIOUS
<1>1. MigrationTypeOK /\ NoneIsNoTable /\ Together /\ AsideIsRebuilt /\ Rebuilds(d) /\ Passed(d)
  BY DEF MigrationInv
<1>2. /\ at[d] \in 1 .. 3 /\ t \in Tables /\ boot[d] = "commit" /\ UNCHANGED dialect
      /\ tx' = [tx EXCEPT ![d] = NoTx]
  BY <1>1 DEF Commit, MigrationTypeOK
<1>3. AddedTo(t) # {}
  <2>1. AddedTo(t) = {Added[at[d]]}
    BY <1>2
  <2> QED  BY <2>1
<1>4. \A u \in Tables : aside[u] = NoTable
  BY <1>2, NothingAside DEF Halfway
<1>5. PICK new \in TableType : new = Here(d, t)
  BY <1>1, <1>2 DEF MigrationTypeOK, Here
<1>6. /\ new.form = "new" /\ There(d, t) = NoTable /\ (tx[d].open <=> dialect = "sqlite")
      /\ IF tx[d].open THEN table[t].form = "old" /\ new.rows = table[t].rows /\ new.cols = {}
                       ELSE new = table[t]
  BY <1>1, <1>2, <1>5 DEF Rebuilds, Here
<1>7. table' = [table EXCEPT ![t] = new] /\ aside' = aside
  <2>1. table' = [table EXCEPT ![t] = new] /\ aside' = [aside EXCEPT ![t] = NoTable]
    BY <1>5, <1>6 DEF Commit
  <2> QED  BY <1>1, <1>2, <1>4, <2>1 DEF MigrationTypeOK
<1>8. /\ table' \in [Tables -> TableType] /\ table'[t] = new
      /\ \A u \in Tables : u # t => table'[u] = table[u]
  BY <1>1, <1>2, <1>7 DEF MigrationTypeOK
<1>9. /\ boot' \in [Daemons -> {"off", "ready"} \cup Booting]
      /\ at' \in [Daemons -> DOMAIN TableAt \cup DOMAIN Added]
      /\ boot'[d] = "check" /\ at'[d] = at[d]
      /\ \A e \in Daemons : e # d => boot'[e] = boot[e] /\ at'[e] = at[e]
  BY <1>1, <1>2, Steps DEF Booting, Commit
<1>10. /\ tx'[d].open = FALSE /\ \A e \in Daemons : e # d => tx'[e] = tx[e]
       /\ tx' \in [Daemons -> [open : BOOLEAN, new : TableType, old : TableType]]
  <2>1. NoTx \in [open : BOOLEAN, new : TableType, old : TableType] /\ NoTx.open = FALSE
    BY DEF NoTx, TableType, NoTable
  <2> QED  BY <1>1, <1>2, <2>1 DEF MigrationTypeOK
<1>11. table' = table \/ \A e \in Daemons : e # d => boot[e] = "off"
  <2>1. CASE tx[d].open
    BY <1>2, <1>6, <2>1, RebuildsAlone
  <2>2. CASE ~tx[d].open
    BY <1>1, <1>2, <1>6, <1>7, <2>2 DEF MigrationTypeOK
  <2> QED  BY <2>1, <2>2
<1>12. MigrationTypeOK' /\ NoneIsNoTable'
  BY <1>1, <1>2, <1>6, <1>7, <1>8, <1>9, <1>10 DEF MigrationTypeOK, NoneIsNoTable
<1>13. Together'
  BY <1>1, <1>2, <1>7, <1>9, <1>11 DEF Together, Converted
<1>14. AsideIsRebuilt'
  BY <1>4, <1>7 DEF AsideIsRebuilt
<1>15. Rebuilds(d)' /\ Passed(d)'
  <2>1. Rebuilds(d)'
    BY <1>9, <1>10 DEF Rebuilds, Halfway
  <2>2. \A i \in 1 .. 3 : TableAt[i] = t \/ table'[TableAt[i]] = table[TableAt[i]]
    BY <1>8
  <2>3. \A i \in 1 .. 3 : table'[TableAt[i]].form # "none"
    BY <1>1, <1>2, <1>6, <1>8, <2>2 DEF Passed
  <2>4. \A i \in 1 .. 3 : i < at[d] => table'[TableAt[i]].form = "new" /\ aside'[TableAt[i]] = NoTable
    BY <1>1, <1>2, <1>6, <1>7, <1>8, <2>2 DEF Passed
  <2> QED  BY <1>9, <2>1, <2>3, <2>4 DEF Passed, Halfway
<1>16. ASSUME NEW e \in Daemons, e # d PROVE Rebuilds(e)' /\ Passed(e)'
  BY <1>2, <1>7, <1>9, <1>10, <1>11, <1>16, Bystander
<1>17. Implements
  <2>1. InUse' = InUse
    BY <1>2, <1>9 DEF InUse, Opened
  <2>2. CASE tx[d].open
    <3>1. ShapeOf(t) = "old" /\ ShapeOf(t)' = "bare" /\ RowsOf(t)' = RowsOf(t)
      BY <1>2, <1>3, <1>4, <1>6, <1>7, <1>8, <2>2 DEF ShapeOf, RowsOf
    <3> QED  BY <1>2, <1>7, <1>8, <2>1, <3>1, OneTable
  <2>3. CASE ~tx[d].open
    <3>1. UNCHANGED <<table, aside>>
      BY <1>1, <1>2, <1>6, <1>7, <2>3 DEF MigrationTypeOK
    <3> QED  BY <2>1, <3>1, SameData
  <2> QED  BY <2>2, <2>3
<1> QED  BY <1>12, <1>13, <1>14, <1>15, <1>16, <1>17 DEF MigrationInv

-----------------------------------------------------------------------------
\* initDB does nothing but what Upgrade allows.
LEMMA InitDBKeeps ==
  ASSUME MigrationInv, NEW d \in Daemons, InitDB(d)
  PROVE  MigrationInv' /\ Implements
BY SchemaKeeps, CheckKeeps, RenameKeeps, CreateKeeps, CopyKeeps, DropKeeps, CommitKeeps,
   LookKeeps, AddColumnKeeps, CreateIndexKeeps DEF InitDB

\* A database that nobody uses yet is one that Upgrade begins with.
LEMMA InitImplements ==
  MigrationInit => Contract!UpgradeInit
<1> SUFFICES ASSUME MigrationInit PROVE Contract!UpgradeInit
  OBVIOUS
<1>1. MigrationTypeOK /\ NoneIsNoTable
  BY InitInv DEF MigrationInv
<1>2. ASSUME NEW t \in Tables
      PROVE  /\ ShapeOf(t) \in Contract!Shapes
             /\ RowsOf(t) \in SUBSET Rows
             /\ ShapeOf(t) = "none" => RowsOf(t) = {}
  <2>1. table[t] \in TableType /\ aside[t] = NoTable
    BY <1>1 DEF MigrationTypeOK, MigrationInit
  <2> QED  BY <1>1, <2>1 DEF ShapeOf, RowsOf, Contract!Shapes, TableType, NoneIsNoTable, NoTable
<1>3. InUse = FALSE
  BY DEF MigrationInit, InUse, Opened
<1> QED  BY <1>2, <1>3 DEF Contract!UpgradeInit

(***************************************************************************)
(* The daemon                                                              *)
(***************************************************************************)

Disturbances == {"tornddl", "together", "torn", "early"}
Calm == Disturbances \cap Env = {}

RunType == [pc : {"none", "exec", "prepare", "record", "wait"},
            stale : BOOLEAN, agent : Pids \cup {NoPid}, own : BOOLEAN]

\* the session is in the database, whatever the upgrade has come to
Known(s) == \A t \in Tables : s \in RowsOf(t)

\* What recover() relies on in each stage: an agent that lives has its pid on
\* record, or the run that is about to record it.
SessionInv(s) ==
  /\ live[s] # {} \/ run[s] # NoRun \/ s \in stuck => Known(s)
  /\ \A p, q \in live[s] : p = q
  /\ \A p \in live[s] : pid[s] = p \/ (run[s].pc = "record" /\ run[s].agent = p)
  /\ stage = "kill" => \A p \in live[s] : recorded[s] = p
  /\ stage \in {"down", "release", "orphans", "owned", "kill"} => run[s] = NoRun
  /\ stage \in {"rerun", "done"} \/ run[s] # NoRun =>
       \A p \in live[s] : run[s].pc \in {"record", "wait"} /\ run[s].agent = p
  /\ run[s].pc = "none" => run[s] = NoRun
  /\ run[s].pc \in {"record", "wait"} =>
       /\ run[s].agent \in Pids
       /\ handle[s] = run[s].agent /\ run[s].agent \notin live[s] => run[s].own

\* The flag file says what the operator was told, unless a command is under way.
PauseInv ==
  /\ stage = "down" => cmd = "none"
  /\ cmd = "pause" => paused
  /\ cmd = "resume" => ~paused
  /\ cmd = "none" => /\ said = "paused" => flag /\ (Serving => paused)
                     /\ said = "active" => ~flag /\ (Serving => ~paused)

RestartInv ==
  /\ MigrationInv /\ TypeOK /\ PauseInv
  /\ stage # "down" => Opened(Me)
  /\ \A s \in Rows : SessionInv(s)

\* no killed agent's message is settled
CutKept == \A s \in Rows : work[s] = "running" /\ work'[s] = "none" => run[s].own

-----------------------------------------------------------------------------
(* The database                                                            *)

\* A step that leaves the database alone
LEMMA Frozen ==
  ASSUME MigrationInv, UNCHANGED MigrationVars
  PROVE  /\ MigrationInv' /\ Implements /\ Stored' = Stored
         /\ \A s \in Rows : (Known(s) <=> Known(s)')
         /\ \A d \in Daemons : Opened(d)' = Opened(d)
<1> USE DEF MigrationVars
<1>1. ASSUME NEW e \in Daemons PROVE Rebuilds(e)' /\ Passed(e)'
  BY Bystander
<1>2. MigrationTypeOK' /\ NoneIsNoTable' /\ Together' /\ AsideIsRebuilt'
  BY DEF MigrationInv, MigrationTypeOK, NoneIsNoTable, Together, AsideIsRebuilt, Converted
<1>3. InUse' = InUse
  BY DEF InUse, Opened
<1>4. Implements
  BY <1>3, SameData
<1>5. \A s \in Rows : (Known(s) <=> Known(s)')
  BY SameData DEF Known
<1>6. Stored' = Stored
  BY DEF Stored
<1> QED  BY <1>1, <1>2, <1>4, <1>5, <1>6 DEF MigrationInv, Opened

\* The contract loses no row.
LEMMA NoneLost ==
  ASSUME Implements, NEW s \in Rows, Known(s)
  PROVE  Known(s)'
<1> DEFINE rows == [t \in Tables |-> RowsOf(t)]
<1>1. \/ rows' = rows
      \/ \E r \in Rows : rows' = [t \in Tables |-> rows[t] \cup {r}]
  BY DEF Implements, ContractVars, Contract!UpgradeNext, Contract!Advance, Contract!Open,
         Contract!Shut, Contract!Store
<1>2. \A t \in Tables : RowsOf(t) \subseteq RowsOf(t)'
  <2>1. ASSUME NEW t \in Tables PROVE RowsOf(t) \subseteq RowsOf(t)'
    <3>1. rows[t] = RowsOf(t) /\ rows'[t] = RowsOf(t)'
      OBVIOUS
    <3>2. rows[t] \subseteq rows'[t]
      BY <1>1
    <3> QED  BY <3>1, <3>2
  <2> QED  BY <2>1
<1> QED  BY <1>2 DEF Known

\* In an opened store the joins of recover() find what the database knows.
LEMMA StoredIsKnown ==
  ASSUME MigrationInv, Opened(Me), NEW s \in Rows
  PROVE  s \in Stored <=> Known(s)
<1>1. Converted
  BY MeAssumption DEF MigrationInv, Passed, Opened
<1> QED  BY <1>1 DEF Converted, Stored, Known, RowsOf

\* A session that a step leaves alone
LEMMA Untouched ==
  ASSUME NEW s \in Rows, SessionInv(s), Known(s) => Known(s)', UNCHANGED stage,
         run'[s] = run[s], live'[s] = live[s], pid'[s] = pid[s], recorded'[s] = recorded[s],
         handle'[s] = handle[s], s \in stuck' => s \in stuck
  PROVE  SessionInv(s)'
BY DEF SessionInv, NoRun

-----------------------------------------------------------------------------
(* The steps                                                               *)

\* Daemons boot and end around the sessions, and no row gets lost.
LEMMA UpgradingKeeps ==
  ASSUME RestartInv, Calm, Upgrading
  PROVE  RestartInv' /\ Implements /\ CutKept
<1>1. MigrationInv /\ Undisturbed /\ UNCHANGED <<RecoverVars, run, handle, AgentVars, PauseVars>>
  BY DEF RestartInv, Calm, Disturbances, Undisturbed, Upgrading
<1>2. PICK d \in Daemons : Boot(d) \/ InitDB(d) \/ (d # Me /\ Crash(d))
  BY DEF Upgrading
<1>3. MigrationInv' /\ Implements
  BY <1>1, <1>2, BootKeeps, InitDBKeeps, EndsKeeps DEF Crash
<1>4. stage' # "down" => Opened(Me)'
  <2>1. ASSUME Opened(Me) PROVE Opened(Me)'
    <3>1. d # Me
      BY <1>2, <2>1 DEF Boot, InitDB, Schema, Check, Rename, Create, Copy, Drop, Commit, Look,
                        AddColumn, CreateIndex, Opened, Halfway
    <3>2. boot'[Me] = boot[Me]
      BY <1>1, <1>2, <3>1, MeAssumption
         DEF Boot, InitDB, Schema, Check, Rename, Create, Copy, Drop, Commit, Look, AddColumn,
             CreateIndex, Crash, Ends, Step, MigrationInv, MigrationTypeOK
    <3> QED  BY <2>1, <3>2 DEF Opened
  <2> QED  BY <1>1, <2>1 DEF RestartInv, RecoverVars
<1>5. ASSUME NEW s \in Rows PROVE SessionInv(s)'
  BY <1>1, <1>3, NoneLost, Untouched DEF RestartInv, RecoverVars, AgentVars
<1>6. TypeOK' /\ PauseInv' /\ CutKept
  BY <1>1 DEF RestartInv, TypeOK, PauseInv, Serving, CutKept, RecoverVars, AgentVars, PauseVars
<1> QED  BY <1>3, <1>4, <1>5, <1>6 DEF RestartInv

\* recover(): what it may kill is on record, and nothing runs before it has.
LEMMA RecoverKeeps ==
  ASSUME RestartInv, Calm, RecoverStep
  PROVE  RestartInv' /\ Implements /\ CutKept
<1> USE DEF RecoverVars, AgentVars, PauseVars
<1>1. UNCHANGED MigrationVars
  BY DEF RecoverStep, Construct, ReleaseDeadOwners, CleanupGlobalOrphans, ListOwnedSessions,
         KillRecorded, Rerun, Scan, Recovered
<1>2. /\ MigrationInv' /\ Implements /\ Stored' = Stored /\ Opened(Me)' = Opened(Me)
      /\ \A s \in Rows : (Known(s) <=> Known(s)')
  BY <1>1, Frozen, MeAssumption DEF RestartInv
<1>3. TypeOK /\ PauseInv /\ (stage # "down" => Opened(Me)) /\ \A s \in Rows : SessionInv(s)
  BY DEF RestartInv
<1>4. stage # "down" => \A s \in Rows : s \in Stored <=> Known(s)
  BY StoredIsKnown DEF RestartInv
<1>5. CASE Construct
  <2>1. TypeOK' /\ PauseInv' /\ CutKept /\ Opened(Me)'
    BY <1>2, <1>3, <1>5 DEF Construct, TypeOK, PauseInv, Serving, CutKept
  <2>2. ASSUME NEW s \in Rows PROVE SessionInv(s)'
    <3>1. /\ SessionInv(s) /\ (Known(s) => Known(s)') /\ stage = "down" /\ stage' = "release"
          /\ run'[s] = run[s] /\ live'[s] = live[s] /\ pid'[s] = pid[s]
          /\ handle'[s] = handle[s] /\ recorded'[s] = recorded[s] /\ stuck' = stuck
      BY <1>2, <1>3, <1>5 DEF Construct
    <3> QED  BY ONLY <3>1 DEF SessionInv, NoRun
  <2> QED  BY <1>2, <2>1, <2>2 DEF RestartInv
<1>6. CASE ReleaseDeadOwners
  <2>1. TypeOK' /\ PauseInv' /\ CutKept /\ Opened(Me)'
    BY <1>2, <1>3, <1>6 DEF ReleaseDeadOwners, TypeOK, PauseInv, Serving, CutKept
  <2>2. ASSUME NEW s \in Rows PROVE SessionInv(s)'
    <3>1. /\ SessionInv(s) /\ (Known(s) => Known(s)') /\ stage = "release" /\ stage' = "orphans"
          /\ run'[s] = run[s] /\ live'[s] = live[s] /\ pid'[s] = pid[s]
          /\ handle'[s] = handle[s] /\ recorded'[s] = recorded[s] /\ stuck' = stuck
      BY <1>2, <1>3, <1>6 DEF ReleaseDeadOwners
    <3> QED  BY ONLY <3>1 DEF SessionInv, NoRun
  <2> QED  BY <1>2, <2>1, <2>2 DEF RestartInv
<1>7. CASE CleanupGlobalOrphans
  <2>1. TypeOK' /\ PauseInv' /\ CutKept /\ Opened(Me)'
    BY <1>2, <1>3, <1>7 DEF CleanupGlobalOrphans, TypeOK, PauseInv, Serving, CutKept
  <2>2. \A s \in Rows : live'[s] \subseteq live[s]
    BY <1>7 DEF CleanupGlobalOrphans
  <2>3. ASSUME NEW s \in Rows PROVE SessionInv(s)'
    <3>1. /\ SessionInv(s) /\ (Known(s) => Known(s)') /\ stage = "orphans" /\ stage' = "owned"
          /\ run'[s] = run[s] /\ live'[s] \subseteq live[s] /\ pid'[s] = pid[s]
          /\ handle'[s] = handle[s] /\ recorded'[s] = recorded[s] /\ stuck' = stuck
      BY <1>2, <1>3, <1>7, <2>2 DEF CleanupGlobalOrphans
    <3> QED  BY ONLY <3>1 DEF SessionInv, NoRun
  <2> QED  BY <1>2, <2>1, <2>3 DEF RestartInv
<1>8. CASE ListOwnedSessions
  <2>1. TypeOK' /\ PauseInv' /\ CutKept /\ Opened(Me)'
    BY <1>2, <1>3, <1>8 DEF ListOwnedSessions, TypeOK, PauseInv, Serving, CutKept
  <2>2. \A s \in Rows : live[s] # {} => recorded'[s] = pid[s]
    BY <1>3, <1>4, <1>8 DEF ListOwnedSessions, SessionInv
  <2>3. ASSUME NEW s \in Rows PROVE SessionInv(s)'
    <3>1. /\ SessionInv(s) /\ (Known(s) => Known(s)') /\ stage = "owned" /\ stage' = "kill"
          /\ run'[s] = run[s] /\ live'[s] = live[s] /\ pid'[s] = pid[s]
          /\ handle'[s] = handle[s] /\ (live[s] # {} => recorded'[s] = pid[s]) /\ stuck' = stuck
      BY <1>2, <1>3, <1>8, <2>2 DEF ListOwnedSessions
    <3> QED  BY ONLY <3>1 DEF SessionInv, NoRun
  <2> QED  BY <1>2, <2>1, <2>3 DEF RestartInv
<1>9. ASSUME NEW s \in Rows, KillRecorded(s) PROVE RestartInv' /\ Implements /\ CutKept
  <2>1. /\ live' = [live EXCEPT ![s] = @ \ {recorded[s]}]
        /\ recorded' = [recorded EXCEPT ![s] = NoPid] /\ stage = "kill"
        /\ UNCHANGED <<stage, stuck, run, handle, pid, work, PauseVars>>
    BY <1>9 DEF KillRecorded, killRecorded
  <2>2. TypeOK' /\ PauseInv' /\ CutKept /\ Opened(Me)'
    BY <1>2, <1>3, <2>1 DEF TypeOK, PauseInv, Serving, CutKept
  <2>3. live'[s] = {} /\ \A u \in Rows : u # s => live'[u] = live[u] /\ recorded'[u] = recorded[u]
    BY <1>3, <2>1 DEF TypeOK, SessionInv
  <2>4. SessionInv(s)'
    <3>1. /\ SessionInv(s) /\ (Known(s) => Known(s)') /\ stage = "kill" /\ stage' = stage
          /\ run'[s] = run[s] /\ live'[s] = {} /\ stuck' = stuck
      BY <1>2, <1>3, <2>1, <2>3
    <3> QED  BY ONLY <3>1 DEF SessionInv, NoRun
  <2>5. ASSUME NEW u \in Rows, u # s PROVE SessionInv(u)'
    BY <1>2, <1>3, <2>1, <2>3, <2>5, Untouched
  <2> QED  BY <1>2, <2>2, <2>4, <2>5 DEF RestartInv
<1>10. CASE Scan
  <2>1. TypeOK' /\ PauseInv' /\ Opened(Me)'
    BY <1>2, <1>3, <1>10 DEF Scan, unfinished, Stored, TypeOK, PauseInv, Serving
  <2>2. \A s \in Rows : live[s] = {} /\ (s \in stuck' => Known(s))
    BY <1>3, <1>4, <1>10 DEF Scan, SessionInv, Nobody, NoPid, TypeOK, Pids, unfinished
  <2>3. ASSUME NEW s \in Rows PROVE SessionInv(s)'
    <3>1. /\ SessionInv(s) /\ (Known(s) => Known(s)') /\ stage = "kill" /\ stage' = "rerun"
          /\ run'[s] = run[s] /\ live[s] = {} /\ live'[s] = {} /\ (s \in stuck' => Known(s))
      BY <1>2, <1>3, <1>10, <2>2 DEF Scan
    <3> QED  BY ONLY <3>1 DEF SessionInv, NoRun
  <2>4. CutKept
    BY <1>3, <1>10 DEF Scan, CutKept, unfinished, TypeOK
  <2> QED  BY <1>2, <2>1, <2>3, <2>4 DEF RestartInv
<1>11. ASSUME NEW s \in Rows, Rerun(s) PROVE RestartInv' /\ Implements /\ CutKept
  <2>1. /\ stage = "rerun" /\ s \in stuck /\ stuck' = stuck \ {s}
        /\ UNCHANGED <<stage, recorded, handle, live, pid, PauseVars>>
        /\ \/ run[s] = NoRun /\ run' = [run EXCEPT ![s].pc = "exec"]
              /\ work' = [work EXCEPT ![s] = "running"]
           \/ run' = run /\ work' = work
    BY <1>11 DEF Rerun
  <2>2. PauseInv' /\ Opened(Me)' /\ CutKept
    BY <1>2, <1>3, <2>1 DEF PauseInv, Serving, CutKept, TypeOK
  <2>3. TypeOK'
    <3>1. run' \in [Rows -> RunType] /\ work' \in [Rows -> {"none", "running", "todo", "halted"}]
      <4>1. CASE run' = [run EXCEPT ![s].pc = "exec"] /\ work' = [work EXCEPT ![s] = "running"]
        <5>1. [run[s] EXCEPT !.pc = "exec"] \in RunType
          BY <1>3 DEF TypeOK, RunType
        <5> QED  BY <1>3, <4>1, <5>1 DEF TypeOK, RunType
      <4>2. CASE run' = run /\ work' = work
        BY <1>3, <4>2 DEF TypeOK, RunType
      <4> QED  BY <2>1, <4>1, <4>2
    <3> QED  BY <1>3, <2>1, <3>1 DEF TypeOK, RunType
  <2>4. SessionInv(s)'
    <3>1. /\ SessionInv(s) /\ (Known(s) => Known(s)') /\ stage = "rerun" /\ stage' = stage
          /\ live'[s] = live[s] /\ pid'[s] = pid[s] /\ handle'[s] = handle[s]
          /\ recorded'[s] = recorded[s] /\ s \in stuck
      BY <1>2, <1>3, <2>1
    <3>2. run'[s] = run[s] \/ (run[s] = NoRun /\ run'[s] = [NoRun EXCEPT !.pc = "exec"])
      BY <1>3, <2>1 DEF TypeOK
    <3> QED  BY ONLY <3>1, <3>2 DEF SessionInv, NoRun
  <2>5. ASSUME NEW u \in Rows, u # s PROVE SessionInv(u)'
    <3>1. run'[u] = run[u]
      BY <1>3, <2>1, <2>5 DEF TypeOK
    <3> QED  BY <1>2, <1>3, <2>1, <2>5, <3>1, Untouched
  <2> QED  BY <1>2, <2>2, <2>3, <2>4, <2>5 DEF RestartInv
<1>12. CASE Recovered
  <2>1. TypeOK' /\ PauseInv' /\ CutKept /\ Opened(Me)'
    BY <1>2, <1>3, <1>12 DEF Recovered, TypeOK, PauseInv, Serving, CutKept
  <2>2. ASSUME NEW s \in Rows PROVE SessionInv(s)'
    <3>1. /\ SessionInv(s) /\ (Known(s) => Known(s)') /\ stage = "rerun" /\ stage' = "done"
          /\ run'[s] = run[s] /\ live'[s] = live[s] /\ pid'[s] = pid[s]
          /\ handle'[s] = handle[s] /\ recorded'[s] = recorded[s] /\ stuck' = stuck
      BY <1>2, <1>3, <1>12 DEF Recovered
    <3> QED  BY ONLY <3>1 DEF SessionInv, NoRun
  <2> QED  BY <1>2, <2>1, <2>2 DEF RestartInv
<1> QED  BY <1>5, <1>6, <1>7, <1>8, <1>9, <1>10, <1>11, <1>12 DEF RecoverStep

\* What the steps that only touch the run of one session have in common: it
\* suffices to look at that session.
LEMMA OneSession ==
  ASSUME RestartInv, UNCHANGED MigrationVars, UNCHANGED stage, TypeOK', PauseInv',
         NEW s \in Rows, SessionInv(s)', work[s] = "running" /\ work'[s] = "none" => run[s].own,
         \A u \in Rows : u # s =>
           /\ run'[u] = run[u] /\ live'[u] = live[u] /\ pid'[u] = pid[u] /\ work'[u] = work[u]
           /\ recorded'[u] = recorded[u] /\ handle'[u] = handle[u] /\ (u \in stuck' => u \in stuck)
  PROVE  RestartInv' /\ Implements /\ CutKept
<1>1. /\ MigrationInv' /\ Implements /\ Opened(Me)' = Opened(Me)
      /\ \A u \in Rows : Known(u) <=> Known(u)'
  BY Frozen, MeAssumption DEF RestartInv
<1>2. ASSUME NEW u \in Rows, u # s PROVE SessionInv(u)'
  BY <1>1, <1>2, Untouched DEF RestartInv
<1>3. CutKept
  BY DEF CutKept
<1> QED  BY <1>1, <1>2, <1>3 DEF RestartInv

\* A run and its agent, whoever else is around.
LEMMA RunKeeps ==
  ASSUME RestartInv, Calm, NEW s \in Rows, RunStep(s) \/ AgentEnds(s)
  PROVE  RestartInv' /\ Implements /\ CutKept
<1> USE DEF RecoverVars, PauseVars
<1>1. /\ UNCHANGED MigrationVars /\ UNCHANGED <<RecoverVars, PauseVars>>
  BY DEF RunStep, GateAllows, Spawn, Record, AgentEnds, ObserveExit
<1>2. TypeOK /\ PauseInv /\ SessionInv(s) /\ (Known(s) => Known(s)')
  BY <1>1, Frozen DEF RestartInv
<1>3. PauseInv'
  BY <1>1, <1>2 DEF PauseInv, Serving
<1>4. CASE GateAllows(s)
  <2>1. run' = [run EXCEPT ![s].pc = "prepare"] /\ run[s].pc = "exec" /\ UNCHANGED <<handle, live, pid, work>>
    BY <1>4 DEF GateAllows, AgentVars
  <2>2. TypeOK'
    BY <1>1, <1>2, <2>1 DEF TypeOK
  <2>3. run'[s].pc = "prepare" /\ \A u \in Rows : u # s => run'[u] = run[u]
    BY <1>2, <2>1 DEF TypeOK
  <2>4. SessionInv(s)'
    BY <1>1, <1>2, <2>1, <2>3 DEF SessionInv, NoRun
  <2> QED  BY <1>1, <1>3, <2>1, <2>2, <2>3, <2>4, OneSession
<1>5. CASE Spawn(s) /\ run[s].stale
  <2>1. run' = [run EXCEPT ![s] = NoRun] /\ run[s].pc = "prepare" /\ UNCHANGED <<handle, live, pid, work>>
    BY <1>5 DEF Spawn
  <2>2. TypeOK'
    BY <1>1, <1>2, <2>1 DEF TypeOK, NoRun
  <2>3. run'[s] = NoRun /\ \A u \in Rows : u # s => run'[u] = run[u]
    BY <1>2, <2>1 DEF TypeOK
  <2>4. live[s] = {}
    BY <1>2, <2>1 DEF SessionInv, NoRun
  <2>5. SessionInv(s)'
    BY <1>1, <1>2, <2>1, <2>3, <2>4 DEF SessionInv, NoRun
  <2> QED  BY <1>1, <1>3, <2>1, <2>2, <2>3, <2>5, OneSession
<1>6. CASE Spawn(s) /\ ~run[s].stale
  <2>1. /\ run[s].pc = "prepare" /\ UNCHANGED work
        /\ \E p \in Pids :
             /\ live' = [live EXCEPT ![s] = @ \cup {p}]
             /\ handle' = [handle EXCEPT ![s] = p]
             /\ \/ pid' = [pid EXCEPT ![s] = p] /\ run' = [run EXCEPT ![s].pc = "wait", ![s].agent = p]
                \/ pid' = pid /\ run' = [run EXCEPT ![s].pc = "record", ![s].agent = p]
    BY <1>6 DEF Spawn
  <2>2. PICK p \in Pids :
             /\ live' = [live EXCEPT ![s] = @ \cup {p}]
             /\ handle' = [handle EXCEPT ![s] = p]
             /\ \/ pid' = [pid EXCEPT ![s] = p] /\ run' = [run EXCEPT ![s].pc = "wait", ![s].agent = p]
                \/ pid' = pid /\ run' = [run EXCEPT ![s].pc = "record", ![s].agent = p]
    BY <2>1
  <2>3. live[s] = {} /\ Known(s) /\ stage \in {"rerun", "done", "stopping"}
    BY <1>2, <2>1 DEF SessionInv, NoRun, TypeOK
  <2>4. /\ run' \in [Rows -> [pc : {"none", "exec", "prepare", "record", "wait"},
                            stale : BOOLEAN, agent : Pids \cup {NoPid}, own : BOOLEAN]]
        /\ {handle', pid'} \subseteq [Rows -> Pids \cup {NoPid}]
        /\ live' \in [Rows -> SUBSET Pids]
    <3>1. run[s] \in RunType
      BY <1>2 DEF TypeOK, RunType
    <3>2. /\ [run[s] EXCEPT !.pc = "wait", !.agent = p] \in RunType
          /\ [run[s] EXCEPT !.pc = "record", !.agent = p] \in RunType
      BY <3>1 DEF RunType
    <3>3. run' \in [Rows -> RunType]
      BY <1>2, <2>2, <3>2 DEF TypeOK, RunType
    <3>4. handle' \in [Rows -> Pids \cup {NoPid}] /\ pid' \in [Rows -> Pids \cup {NoPid}]
      BY <1>2, <2>2 DEF TypeOK
    <3>5. live' \in [Rows -> SUBSET Pids]
      BY <1>2, <2>2 DEF TypeOK
    <3> QED  BY <3>3, <3>4, <3>5 DEF RunType
  <2>5. TypeOK'
    BY <1>1, <1>2, <2>1, <2>4 DEF TypeOK
  <2>6. /\ live'[s] = {p} /\ handle'[s] = p /\ run'[s].agent = p
        /\ run'[s].pc = "record" \/ (run'[s].pc = "wait" /\ pid'[s] = p)
        /\ \A u \in Rows : u # s => /\ run'[u] = run[u] /\ live'[u] = live[u]
                                   /\ pid'[u] = pid[u] /\ handle'[u] = handle[u]
    BY <1>2, <2>2, <2>3 DEF TypeOK
  <2>7. SessionInv(s)'
    <3>1. UNCHANGED stage
      BY <1>1
    <3> QED  BY <1>2, <2>3, <2>6, <3>1 DEF SessionInv, NoRun
  <2> QED  BY <1>1, <1>3, <2>1, <2>5, <2>6, <2>7, OneSession
<1>7. CASE Record(s)
  <2>1. /\ run[s].pc = "record" /\ UNCHANGED <<handle, live, work>>
        /\ pid' = [pid EXCEPT ![s] = run[s].agent] /\ run' = [run EXCEPT ![s].pc = "wait"]
    BY <1>7 DEF Record
  <2>2. TypeOK'
    BY <1>1, <1>2, <2>1 DEF TypeOK
  <2>3. /\ pid'[s] = run[s].agent /\ run'[s] = [run[s] EXCEPT !.pc = "wait"]
        /\ \A u \in Rows : u # s => run'[u] = run[u] /\ pid'[u] = pid[u]
    BY <1>2, <2>1 DEF TypeOK
  <2>4. run'[s].pc = "wait" /\ run'[s].agent = run[s].agent /\ run'[s].own = run[s].own
    BY <1>2, <2>3 DEF TypeOK
  <2>5. SessionInv(s)'
    <3>1. UNCHANGED <<stage, stuck, recorded>> /\ stage # "kill" /\ run[s] # NoRun
      BY <1>1, <1>2, <2>1 DEF SessionInv, NoRun
    <3> QED  BY <1>2, <2>1, <2>3, <2>4, <3>1 DEF SessionInv, NoRun
  <2> QED  BY <1>1, <1>3, <2>1, <2>2, <2>3, <2>5, OneSession
<1>8. CASE AgentEnds(s)
  <2>1. PICK p \in live[s] : /\ live' = [live EXCEPT ![s] = @ \ {p}]
                            /\ run' = [run EXCEPT ![s].own = @ \/ run[s].agent = p]
                            /\ UNCHANGED <<handle, pid, work>>
    BY <1>8 DEF AgentEnds
  <2>7. PICK own \in BOOLEAN : own <=> run[s].own \/ run[s].agent = p
    OBVIOUS
  <2>8. run' = [run EXCEPT ![s] = [run[s] EXCEPT !.own = own]]
    <3>1. run[s].own \in BOOLEAN /\ run[s] \in RunType
      BY <1>2 DEF TypeOK, RunType
    <3>2. own = (run[s].own \/ run[s].agent = p)
      BY <2>7, <3>1
    <3>3. run' = [run EXCEPT ![s] = [run[s] EXCEPT !.own = (run[s].own \/ run[s].agent = p)]]
      BY <2>1
    <3> QED  BY <3>2, <3>3
  <2>2. TypeOK'
    <3>1. [run[s] EXCEPT !.own = own] \in RunType
      BY <1>2 DEF TypeOK, RunType
    <3>2. run' \in [Rows -> RunType]
      BY <1>2, <2>8, <3>1 DEF TypeOK, RunType
    <3> QED  BY <1>1, <1>2, <2>1, <3>2 DEF TypeOK, RunType
  <2>3. /\ live'[s] = live[s] \ {p} /\ run'[s] = [run[s] EXCEPT !.own = own]
        /\ \A u \in Rows : u # s => run'[u] = run[u] /\ live'[u] = live[u]
    BY <1>2, <2>1, <2>8 DEF TypeOK
  <2>4. live'[s] = {} /\ p \in Pids /\ Known(s)
    BY <1>2, <2>1, <2>3 DEF SessionInv, TypeOK
  <2>5. /\ run'[s].pc = run[s].pc /\ run'[s].agent = run[s].agent
        /\ run'[s].own <=> run[s].own \/ run[s].agent = p
        /\ run[s] = NoRun => run'[s] = NoRun
    <3>1. run[s] \in RunType
      BY <1>2 DEF TypeOK, RunType
    <3>2. run[s] = NoRun => run[s].agent = NoPid /\ run[s].own = FALSE
      BY DEF NoRun
    <3>3. run[s] = NoRun => own = FALSE
      BY <2>4, <2>7, <3>2 DEF NoPid, Pids
    <3> QED  BY <2>3, <2>7, <3>1, <3>3 DEF RunType, NoRun
  <2>6. SessionInv(s)'
    <3>1. UNCHANGED <<stage, stuck, recorded>>
      BY <1>1
    <3>2. run[s].pc \in {"record", "wait"} => run[s].agent = p
      BY <1>2, <2>1 DEF SessionInv, NoRun
    <3> QED  BY <1>2, <2>4, <2>5, <3>1, <3>2 DEF SessionInv
  <2> QED  BY <1>1, <1>3, <2>1, <2>2, <2>3, <2>6, OneSession
<1>9. CASE ObserveExit(s)
  <2>1. /\ run[s].pc = "wait" /\ run[s].agent \notin live[s]
        /\ run' = [run EXCEPT ![s] = NoRun] /\ UNCHANGED <<live, pid>>
        /\ \/ /\ handle[s] = run[s].agent
              /\ handle' = [handle EXCEPT ![s] = NoPid] /\ work' = [work EXCEPT ![s] = "none"]
           \/ UNCHANGED <<handle, work>>
    BY <1>9 DEF ObserveExit
  <2>2. TypeOK'
    <3>1. NoRun \in RunType
      BY DEF NoRun, RunType
    <3>2. run' \in [Rows -> RunType]
      BY <1>2, <2>1, <3>1 DEF TypeOK, RunType
    <3>3. handle' \in [Rows -> Pids \cup {NoPid}] /\ work' \in [Rows -> {"none", "running", "todo", "halted"}]
      BY <1>2, <2>1 DEF TypeOK
    <3> QED  BY <1>1, <1>2, <2>1, <3>2, <3>3 DEF TypeOK, RunType
  <2>3. /\ run'[s] = NoRun
        /\ \A u \in Rows : u # s => run'[u] = run[u] /\ handle'[u] = handle[u] /\ work'[u] = work[u]
    BY <1>2, <2>1 DEF TypeOK
  <2>4. live[s] = {}
    BY <1>2, <2>1 DEF SessionInv, NoRun
  <2>5. SessionInv(s)'
    BY <1>1, <1>2, <2>1, <2>3, <2>4 DEF SessionInv, NoRun
  <2>6. work[s] = "running" /\ work'[s] = "none" => run[s].own
    BY <1>2, <2>1 DEF SessionInv
  <2> QED  BY <1>1, <1>3, <2>1, <2>2, <2>3, <2>5, <2>6, OneSession
<1> QED  BY <1>4, <1>5, <1>6, <1>7, <1>8, <1>9 DEF RunStep

\* A webhook starts a session only when recover() has killed what was left.
LEMMA DeliverKeeps ==
  ASSUME RestartInv, Calm, NEW s \in Rows, Deliver(s)
  PROVE  RestartInv' /\ Implements /\ CutKept
<1> USE DEF RecoverVars, PauseVars
<1>1. /\ TypeOK /\ PauseInv /\ MigrationInv /\ stage \in {"rerun", "done"} /\ Opened(Me)
      /\ StoreRow(s) /\ UNCHANGED <<RecoverVars, handle, live, pid, PauseVars>>
  BY DEF RestartInv, Deliver, Calm, Disturbances
<1>2. MigrationInv' /\ Implements
  BY <1>1, StoreRowKeeps, MeAssumption
<1>3. Opened(Me)'
  BY <1>1 DEF StoreRow, Opened
<1>4. /\ run[s] = NoRun /\ work[s] = "none" /\ work' = [work EXCEPT ![s] = "running"]
      /\ run' = [run EXCEPT ![s].pc = "exec"]
  BY DEF Deliver
<1>5. TypeOK' /\ PauseInv' /\ CutKept
  <2>1. TypeOK'
    <3>1. [run[s] EXCEPT !.pc = "exec"] \in RunType
      BY <1>1 DEF TypeOK, RunType
    <3>2. run' \in [Rows -> RunType] /\ work' \in [Rows -> {"none", "running", "todo", "halted"}]
      BY <1>1, <1>4, <3>1 DEF TypeOK, RunType
    <3> QED  BY <1>1, <3>2 DEF TypeOK, RunType
  <2>2. PauseInv' /\ CutKept
    BY <1>1, <1>4 DEF PauseInv, Serving, CutKept, TypeOK
  <2> QED  BY <2>1, <2>2
<1>6. Known(s)'
  <2>1. ASSUME NEW t \in Tables PROVE s \in RowsOf(t)'
    <3>1. aside'[t] = NoTable
      BY <1>1, MeAssumption DEF StoreRow, MigrationInv, Passed, Converted, Opened
    <3>2. s \in table'[t].rows
      BY <1>1 DEF StoreRow, MigrationInv, MigrationTypeOK, TableType
    <3> QED  BY <3>1, <3>2 DEF RowsOf
  <2> QED  BY <2>1 DEF Known
<1>7. SessionInv(s)'
  <2>1. /\ SessionInv(s) /\ run[s] = NoRun /\ run'[s] = [NoRun EXCEPT !.pc = "exec"] /\ live'[s] = live[s]
        /\ pid'[s] = pid[s] /\ stage' = stage /\ stage \in {"rerun", "done"}
    BY <1>1, <1>4 DEF RestartInv, TypeOK
  <2> QED  BY ONLY <1>6, <2>1 DEF SessionInv, NoRun
<1>8. ASSUME NEW u \in Rows, u # s PROVE SessionInv(u)'
  <2>1. run'[u] = run[u]
    BY <1>1, <1>4, <1>8 DEF TypeOK
  <2> QED  BY <1>1, <1>2, <1>8, <2>1, NoneLost, Untouched DEF RestartInv
<1> QED  BY <1>2, <1>3, <1>5, <1>7, <1>8 DEF RestartInv

\* The operator: what is halted is not settled, what is answered is on file.
LEMMA OperatorKeeps ==
  ASSUME RestartInv, Calm,
         (\E c \in {"pause", "resume", "halt"} : Command(c)) \/ CommandStep \/ MarkFails
  PROVE  RestartInv' /\ Implements /\ CutKept
<1> USE DEF RecoverVars, AgentVars
<1>1. UNCHANGED MigrationVars /\ UNCHANGED RecoverVars
  BY DEF Command, CommandStep, HaltSession, HaltPauses, Persist, MarkFails
<1>2. TypeOK /\ PauseInv /\ (stage # "down" => Opened(Me)) /\ \A s \in Rows : SessionInv(s)
  BY DEF RestartInv
<1>3. /\ MigrationInv' /\ Implements /\ (stage' # "down" => Opened(Me)')
      /\ \A s \in Rows : Known(s) => Known(s)'
  BY <1>1, <1>2, Frozen, MeAssumption DEF RestartInv
<1>4. ASSUME NEW s \in Rows, HaltSession(s) PROVE RestartInv' /\ Implements /\ CutKept
  <2>1. /\ cmd = "halt" /\ halting' = halting \ {s} /\ live' = [live EXCEPT ![s] = @ \ {handle[s]}]
        /\ handle' = [handle EXCEPT ![s] = NoPid]
        /\ UNCHANGED <<pid, paused, flag, cmd, said, commands>>
        /\ work' = [work EXCEPT ![s] = IF @ = "running" THEN "halted" ELSE @]
    BY <1>4 DEF HaltSession
  <2>2. PICK stale \in BOOLEAN : stale <=> run[s].pc = "prepare"
    OBVIOUS
  <2>3. run' = [run EXCEPT ![s].stale = stale]
    <3>1. stale = (run[s].pc = "prepare")
      BY <2>2
    <3>2. run' = [run EXCEPT ![s].stale = (run[s].pc = "prepare")]
      BY <1>4 DEF HaltSession
    <3> QED  BY <3>1, <3>2
  <2>4. TypeOK'
    <3>1. run' \in [Rows -> RunType]
      <4>1. run \in [Rows -> RunType]
        BY <1>2 DEF TypeOK, RunType
      <4>2. [run[s] EXCEPT !.stale = stale] \in RunType
        BY <4>1 DEF RunType
      <4> QED  BY <2>3, <4>1, <4>2
    <3>2. handle' \in [Rows -> Pids \cup {NoPid}] /\ live' \in [Rows -> SUBSET Pids]
      BY <1>2, <2>1 DEF TypeOK
    <3>3. work' \in [Rows -> {"none", "running", "todo", "halted"}]
      BY <1>2, <2>1 DEF TypeOK
    <3> QED  BY <1>1, <1>2, <2>1, <3>1, <3>2, <3>3 DEF TypeOK, RunType
  <2>5. PauseInv'
    BY <1>1, <1>2, <2>1 DEF PauseInv, Serving
  <2>6. /\ run'[s] = [run[s] EXCEPT !.stale = stale] /\ live'[s] \subseteq live[s] /\ handle'[s] = NoPid
        /\ \A u \in Rows : u # s => /\ run'[u] = run[u] /\ live'[u] = live[u]
                                   /\ handle'[u] = handle[u] /\ work'[u] = work[u]
    BY <1>2, <2>1, <2>3 DEF TypeOK
  <2>7. /\ run'[s].pc = run[s].pc /\ run'[s].agent = run[s].agent
        /\ run[s] = NoRun => run'[s] = NoRun
    <3>1. run[s] = NoRun => stale = FALSE
      BY <2>2 DEF NoRun
    <3>2. run[s] \in RunType
      BY <1>2 DEF TypeOK, RunType
    <3> QED  BY <2>6, <3>1, <3>2 DEF RunType, NoRun
  <2>8. SessionInv(s)'
    <3>1. /\ SessionInv(s) /\ (Known(s) => Known(s)') /\ UNCHANGED <<stage, recorded, stuck, pid>>
      BY <1>1, <1>2, <1>3, <2>1
    <3> QED  BY ONLY <2>6, <2>7, <3>1 DEF SessionInv, NoRun, NoPid, Pids
  <2>9. work[s] = "running" => work'[s] # "none"
    BY <1>2, <2>1 DEF TypeOK
  <2> QED  BY <1>1, <2>1, <2>4, <2>5, <2>6, <2>8, <2>9, OneSession
<1>5. CASE (\E c \in {"pause", "resume", "halt"} : Command(c)) \/ HaltPauses \/ Persist \/ MarkFails
  <2>1. UNCHANGED <<run, handle, AgentVars>>
    BY <1>5 DEF Command, HaltPauses, Persist, MarkFails
  <2>2. \A s \in Rows : SessionInv(s)'
    BY <1>1, <1>2, <1>3, <2>1, Untouched
  <2>3. CutKept
    BY <2>1 DEF CutKept
  <2>4. TypeOK' /\ PauseInv'
    <3>1. ASSUME NEW c \in {"pause", "resume", "halt"}, Command(c) PROVE TypeOK' /\ PauseInv'
      <4>1. TypeOK'
        BY <1>1, <1>2, <2>1, <3>1 DEF Command, TypeOK, Stored
      <4>2. PauseInv'
        BY <1>1, <1>2, <3>1 DEF Command, PauseInv, Serving
      <4> QED  BY <4>1, <4>2
    <3>2. CASE HaltPauses
      BY <1>1, <1>2, <2>1, <3>2 DEF HaltPauses, TypeOK, PauseInv, Serving
    <3>3. CASE Persist
      BY <1>1, <1>2, <2>1, <3>3 DEF Persist, persistPaused, TypeOK, PauseInv, Serving
    <3>4. CASE MarkFails
      BY <1>1, <1>2, <2>1, <3>4 DEF MarkFails, TypeOK, PauseInv, Serving
    <3> QED  BY <1>5, <3>1, <3>2, <3>3, <3>4
  <2> QED  BY <1>3, <2>2, <2>3, <2>4 DEF RestartInv
<1> QED  BY <1>4, <1>5 DEF CommandStep

\* SIGTERM kills what is registered; what is not is awaited by nobody.
LEMMA StopKeeps ==
  ASSUME RestartInv, Calm, Stop
  PROVE  RestartInv' /\ Implements /\ CutKept
<1> USE DEF PauseVars
<1>1. TypeOK /\ PauseInv /\ MigrationInv /\ Opened(Me) /\ \A s \in Rows : SessionInv(s)
  BY DEF RestartInv, Stop, Serving
<1>2. /\ UNCHANGED <<dialect, table, aside, tx, boot, at>> /\ stage \notin {"down", "stopping"}
      /\ stage' = "stopping"
      /\ UNCHANGED <<recorded, stuck, pid, work, PauseVars>>
      /\ live' = [s \in Rows |-> live[s] \ {handle[s]}] /\ handle' = Nobody
      /\ run' = [s \in Rows |-> [run[s] EXCEPT !.stale = run[s].pc = "prepare"]]
  BY DEF Stop, destroy, Serving
<1>3. MigrationInv' /\ Implements /\ Opened(Me)' /\ \A s \in Rows : Known(s) => Known(s)'
  <2>1. \A e \in Daemons : Rebuilds(e)' /\ Passed(e)'
    BY <1>1, <1>2, Bystander
  <2>2. MigrationTypeOK' /\ NoneIsNoTable' /\ Together' /\ AsideIsRebuilt'
    BY <1>1, <1>2 DEF MigrationInv, MigrationTypeOK, NoneIsNoTable, Together, AsideIsRebuilt, Converted
  <2>3. InUse' = InUse /\ Opened(Me)'
    BY <1>1, <1>2 DEF InUse, Opened
  <2>4. Implements
    BY <1>2, <2>3, SameData
  <2> QED  BY <2>1, <2>2, <2>3, <2>4, NoneLost DEF MigrationInv
<1>4. \A s \in Rows : /\ run'[s] \in RunType /\ run'[s].pc = run[s].pc
                      /\ run'[s].agent = run[s].agent /\ (run[s] = NoRun => run'[s] = NoRun)
  <2>1. ASSUME NEW s \in Rows
        PROVE  /\ run'[s] \in RunType /\ run'[s].pc = run[s].pc
               /\ run'[s].agent = run[s].agent /\ (run[s] = NoRun => run'[s] = NoRun)
    <3>1. PICK stale \in BOOLEAN : stale <=> run[s].pc = "prepare"
      OBVIOUS
    <3>2. run'[s] = [run[s] EXCEPT !.stale = stale]
      <4>1. stale = (run[s].pc = "prepare")
        BY <3>1
      <4> QED  BY <1>2, <4>1
    <3>3. run[s] = NoRun => stale = FALSE
      BY <3>1 DEF NoRun
    <3>4. run[s] \in RunType
      BY <1>1 DEF TypeOK, RunType
    <3> QED  BY <3>2, <3>3, <3>4 DEF RunType, NoRun
  <2> QED  BY <2>1
<1>5. TypeOK'
  <2>1. run' \in [Rows -> RunType]
    BY <1>2, <1>4
  <2>2. handle' \in [Rows -> Pids \cup {NoPid}] /\ live' \in [Rows -> SUBSET Pids]
    BY <1>1, <1>2 DEF TypeOK, Nobody
  <2> QED  BY <1>1, <1>2, <2>1, <2>2 DEF TypeOK, RunType
<1>6. PauseInv' /\ CutKept
  BY <1>1, <1>2 DEF PauseInv, Serving, CutKept
<1>7. ASSUME NEW s \in Rows PROVE SessionInv(s)'
  <2>1. /\ SessionInv(s) /\ (Known(s) => Known(s)') /\ stage' = "stopping"
        /\ live'[s] \subseteq live[s] /\ handle'[s] = NoPid /\ pid'[s] = pid[s] /\ stuck' = stuck
        /\ run'[s].pc = run[s].pc /\ run'[s].agent = run[s].agent
        /\ run[s] = NoRun => run'[s] = NoRun
    BY <1>1, <1>2, <1>3, <1>4 DEF Nobody
  <2> QED  BY ONLY <2>1 DEF SessionInv, NoRun, NoPid, Pids
<1> QED  BY <1>3, <1>5, <1>6, <1>7 DEF RestartInv

\* The end of the process forgets the runs, and every agent's pid is on record.
LEMMA EndKeeps ==
  ASSUME RestartInv, Calm, CrashMe \/ Exit
  PROVE  RestartInv' /\ Implements /\ CutKept
<1>1. TypeOK /\ PauseInv /\ MigrationInv /\ \A s \in Rows : SessionInv(s)
  BY DEF RestartInv
<1>2. Ends(Me) /\ forget /\ recordedAll /\ UNCHANGED AgentVars /\ Undisturbed
  BY DEF CrashMe, Exit, Crash, Calm, Disturbances, Undisturbed
<1>3. MigrationInv' /\ Implements
  BY <1>1, <1>2, EndsKeeps, MeAssumption
<1>4. /\ stage' = "down" /\ recorded' = Nobody /\ stuck' = {} /\ run' = [s \in Rows |-> NoRun]
      /\ handle' = Nobody /\ paused' = FALSE /\ cmd' = "none" /\ halting' = {}
      /\ said' = (IF cmd = "none" THEN said ELSE "any")
      /\ UNCHANGED <<flag, commands, live, pid, work>>
  BY <1>2 DEF forget, AgentVars
<1>5. TypeOK'
  <2>1. NoRun \in RunType
    BY DEF NoRun, RunType
  <2>2. run' \in [Rows -> RunType] /\ Nobody \in [Rows -> Pids \cup {NoPid}]
    BY <1>4, <2>1 DEF Nobody
  <2> QED  BY <1>1, <1>4, <2>2 DEF TypeOK, RunType
<1>6. PauseInv' /\ CutKept
  BY <1>1, <1>4 DEF PauseInv, Serving, CutKept
<1>7. ASSUME NEW s \in Rows PROVE SessionInv(s)'
  <2>1. /\ SessionInv(s) /\ (Known(s) => Known(s)') /\ stage' = "down" /\ run'[s] = NoRun
        /\ live'[s] = live[s] /\ pid'[s] = pid[s] /\ s \notin stuck'
        /\ run[s].pc = "record" => run[s].agent \notin live[s]
    BY <1>1, <1>2, <1>3, <1>4, NoneLost DEF recordedAll
  <2> QED  BY ONLY <2>1 DEF SessionInv, NoRun
<1> QED  BY <1>3, <1>4, <1>5, <1>6, <1>7 DEF RestartInv

-----------------------------------------------------------------------------
(* The invariant holds                                                     *)

\* What a daemon of an earlier version left behind
LEMMA RestartInitInv ==
  RestartInit => RestartInv /\ Contract!UpgradeInit
<1> SUFFICES ASSUME RestartInit PROVE RestartInv /\ Contract!UpgradeInit
  OBVIOUS
<1>1. MigrationInv /\ Contract!UpgradeInit
  BY InitInv, InitImplements DEF RestartInit
<1>2. TypeOK
  <2>1. NoRun \in RunType /\ Nobody \in [Rows -> Pids \cup {NoPid}]
    BY DEF NoRun, RunType, Nobody
  <2>2. /\ live \in [Rows -> SUBSET Pids] /\ pid \in [Rows -> Pids \cup {NoPid}]
        /\ work \in [Rows -> {"none", "running", "todo", "halted"}]
    <3>1. 1 \in Pids
      BY DEF Pids
    <3> QED  BY <2>1, <3>1 DEF RestartInit
  <2> QED  BY <2>1, <2>2 DEF RestartInit, TypeOK, RunType
<1>3. PauseInv
  BY DEF RestartInit, PauseInv, Serving
<1>4. ASSUME NEW s \in Rows PROVE SessionInv(s)
  <2>1. live[s] = {} \/ (live[s] = {1} /\ pid[s] = 1 /\ table["op_sessions"].rows = Rows)
    BY DEF RestartInit
  <2>2. live[s] # {} => Known(s)
    <3>1. ASSUME table["op_sessions"].rows = Rows, NEW t \in Tables PROVE s \in RowsOf(t)
      <4>1. "op_sessions" \in Tables
        BY TableFacts
      <4>2. aside[t] = NoTable /\ s \in table[t].rows
        BY <3>1, <4>1 DEF RestartInit, MigrationInit, NoTable
      <4> QED  BY <4>2 DEF RowsOf
    <3> QED  BY <2>1, <3>1 DEF Known
  <2>3. run[s] = NoRun /\ s \notin stuck /\ stage = "down"
    BY DEF RestartInit
  <2> QED  BY ONLY <2>1, <2>2, <2>3 DEF SessionInv, NoRun
<1> QED  BY <1>1, <1>2, <1>3, <1>4 DEF RestartInv, RestartInit

\* Every step of the daemon, of the others, of the agents and of the operator
LEMMA RestartNextInv ==
  ASSUME Calm
  PROVE  RestartInv /\ [RestartNext]_vars => RestartInv' /\ Implements /\ CutKept
<1> SUFFICES ASSUME RestartInv, [RestartNext]_vars PROVE RestartInv' /\ Implements /\ CutKept
  OBVIOUS
<1>1. CASE UNCHANGED vars
  <2>1. UNCHANGED MigrationVars /\ UNCHANGED <<RecoverVars, run, handle, AgentVars, PauseVars>>
    BY <1>1 DEF vars
  <2>2. /\ MigrationInv' /\ Implements /\ Opened(Me)' = Opened(Me)
        /\ \A u \in Rows : Known(u) <=> Known(u)'
    BY <2>1, Frozen, MeAssumption DEF RestartInv
  <2>3. \A s \in Rows : SessionInv(s)'
    BY <2>1, <2>2, Untouched DEF RestartInv, RecoverVars, AgentVars
  <2>4. TypeOK' /\ PauseInv' /\ CutKept
    BY <2>1 DEF RestartInv, TypeOK, PauseInv, Serving, CutKept, RecoverVars, AgentVars, PauseVars
  <2> QED  BY <2>1, <2>2, <2>3, <2>4 DEF RestartInv, RecoverVars
<1>2. CASE RestartNext
  BY <1>2, UpgradingKeeps, RecoverKeeps, EndKeeps, RunKeeps, DeliverKeeps, OperatorKeeps, StopKeeps
     DEF RestartNext
<1> QED  BY <1>1, <1>2

\* However often daemons come and go: nothing of MySQL's or of early webhooks'
\* provided, the invariant holds.
THEOREM RestartInvariant == Calm /\ RestartSpec => []RestartInv
<1> SUFFICES ASSUME Calm PROVE RestartSpec => []RestartInv
  OBVIOUS
<1>1. RestartInit => RestartInv
  BY RestartInitInv
<1>2. RestartInv /\ [RestartNext]_vars => RestartInv'
  BY RestartNextInv
<1> QED  BY <1>1, <1>2, PTL DEF RestartSpec

\* No session has two agents, and once recover() has come to the rows no agent
\* of an earlier daemon is left.
THEOREM OneAgentHolds == Calm /\ RestartSpec => []OneAgent
<1> SUFFICES ASSUME Calm PROVE RestartSpec => []OneAgent
  OBVIOUS
<1>1. RestartInv => OneAgent
  BY DEF RestartInv, SessionInv, OneAgent
<1> QED  BY <1>1, RestartInvariant, PTL

\* A paused daemon is paused again after every end and restart, and a resumed
\* one is not.
THEOREM PauseSurvivesHolds == Calm /\ RestartSpec => []PauseSurvives
<1> SUFFICES ASSUME Calm PROVE RestartSpec => []PauseSurvives
  OBVIOUS
<1>1. RestartInv => PauseSurvives
  BY DEF RestartInv, PauseInv, PauseSurvives
<1> QED  BY <1>1, RestartInvariant, PTL

\* A message is settled by an agent that has ended by itself, never by one that
\* recover(), destroy() or the operator has killed.
THEOREM CutIsNotAnsweredHolds == Calm /\ RestartSpec => CutIsNotAnswered
<1> SUFFICES ASSUME Calm PROVE RestartSpec => CutIsNotAnswered
  OBVIOUS
<1>1. RestartInv /\ [RestartNext]_vars =>
        [\A s \in Rows : work[s] = "running" /\ work'[s] = "none" => run[s].own]_vars
  BY RestartNextInv DEF CutKept
<1> QED  BY <1>1, RestartInvariant, PTL DEF RestartSpec, CutIsNotAnswered

\* The upgrade of the database, ended and begun again at any statement but those
\* of a rebuild on MySQL, loses no row and opens no store that is not whole.
THEOREM RestartImplementsUpgrade == Calm /\ RestartSpec => ImplementsUpgrade
<1> SUFFICES ASSUME Calm PROVE RestartSpec => ImplementsUpgrade
  OBVIOUS
<1>1. RestartInit => Contract!UpgradeInit
  BY RestartInitInv
<1>2. RestartInv /\ [RestartNext]_vars => [Contract!UpgradeNext]_ContractVars
  BY RestartNextInv DEF Implements
<1> QED  BY <1>1, <1>2, RestartInvariant, PTL
         DEF RestartSpec, ImplementsUpgrade, Contract!UpgradeSpec, ContractVars
=============================================================================
