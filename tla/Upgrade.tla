------------------------------ MODULE Upgrade ------------------------------
(***************************************************************************)
(* What an upgrade of the database promises, whatever statements, drivers  *)
(* and interrupted boots lie behind it: every table goes from the old key  *)
(* to the new one at once and with all its rows, then gets its missing     *)
(* columns, and the store is opened only when every table is whole.        *)
(***************************************************************************)
CONSTANTS
  Tables,  \* the tables whose key changes
  Rows     \* what a table may hold

VARIABLES
  shape,   \* where the upgrade of each table stands
  held,    \* the rows of each table
  open     \* some daemon uses the store

\* "old": keyed by a UUID in id; "bare": keyed anew, columns missing
Shapes == {"none", "old", "bare", "whole"}

UpgradeInit ==
  /\ shape \in [Tables -> Shapes]
  /\ held \in [Tables -> SUBSET Rows]
  /\ \A t \in Tables : shape[t] = "none" => held[t] = {}
  /\ open = FALSE

\* A table is created, converted with all its rows, or completed.
Advance(t) ==
  /\ \/ shape[t] = "none" /\ shape' = [shape EXCEPT ![t] = "bare"]
     \/ shape[t] = "none" /\ shape' = [shape EXCEPT ![t] = "whole"]
     \/ shape[t] = "old"  /\ shape' = [shape EXCEPT ![t] = "bare"]
     \/ shape[t] = "bare" /\ shape' = [shape EXCEPT ![t] = "whole"]
  /\ UNCHANGED <<held, open>>

Open ==
  /\ \A t \in Tables : shape[t] = "whole"
  /\ open' = TRUE
  /\ UNCHANGED <<shape, held>>

Shut == open' = FALSE /\ UNCHANGED <<shape, held>>

\* A session, its issue and its message are stored.
Store(r) ==
  /\ open
  /\ held' = [t \in Tables |-> held[t] \cup {r}]
  /\ UNCHANGED <<shape, open>>

UpgradeNext ==
  \/ \E t \in Tables : Advance(t)
  \/ Open \/ Shut
  \/ \E r \in Rows : Store(r)

UpgradeSpec == UpgradeInit /\ [][UpgradeNext]_<<shape, held, open>>
=============================================================================
