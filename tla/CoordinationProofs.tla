-------------------------- MODULE CoordinationProofs --------------------------
(***************************************************************************)
(* Identity and ownership of daemons on one database, for any number of    *)
(* machines, rows, issues and messages and any schedule of machine losses. *)
(* Daemons that boot together, or live ones that miss their lease, may     *)
(* share a row (Coordination, Env): these theorems assume Orderly.         *)
(***************************************************************************)
EXTENDS Coordination, TLAPS

Orderly == "race" \notin Env /\ "stall" \notin Env

States    == {"none", "pending", "running", "done", "interrupted", "failed"}
RowType   == [host : Hosts \cup {NoHost, Gone}, fresh : BOOLEAN]
WebHook   == [at : {"own", "create", "run"}, msg : Msgs, owner : Ids \cup {NoId}]
BatchType == [msg : Msgs, was : {"pending", "running", "interrupted"}]

OneBoots == \A g, h \in Hosts : boot[g] \in BootSteps /\ boot[h] \in BootSteps => g = h

\* a registered daemon holds its row, and its lease is fresh
HoldsRow ==
  \A h \in Hosts :
    /\ Registered(h) => id[h] \in Ids /\ row[id[h]] = [host |-> h, fresh |-> TRUE]
    /\ boot[h] = "renew" => id[h] \in RowsOf(h)
    /\ boot[h] = "adopt" => id[h] \in Rows

\* what is about to be deleted owns nothing
Absorbed ==
  \A h \in Hosts :
    boot[h] = "delete" => \A i \in Issues : owner[i] \in RowsOf(h) => owner[i] = id[h]

\* A handler that has read its own daemon as the owner still has it; so has one
\* past ensureOwned.
Owns(h)  == owner[IssueOf[hook[h].msg]] = id[h]
Trusts(h) ==
  /\ hook[h] # NoHook => Serving(h)
  /\ hook[h].at = "own" /\ hook[h].owner = id[h] => Owns(h)
  /\ hook[h].at \in {"create", "run"} => Owns(h)

\* A handler that meets a comment another one has made a message of will find
\* the issue taken.
TooLate(h) ==
  LET m == hook[h].msg IN
  /\ hook[h].at = "own" /\ made[m] > 0 =>
       hook[h].owner # id[h] /\ owner[IssueOf[m]] \in Rows \ Stale
  /\ hook[h].at = "create" => made[m] = 0

Identity == OneBoots /\ HoldsRow /\ Absorbed /\ OwnerIsRegistered
Handling ==
  /\ \A h \in Hosts : Trusts(h) /\ TooLate(h)
  /\ \A m \in Msgs : made[m] > 0 => status[m] # "none"
  /\ CommentOnce
CoordinationInv == TypeOK /\ Identity /\ Handling
-----------------------------------------------------------------------------
(* Types                                                                   *)

LEMMA Sorts ==
  /\ NoId \notin Ids /\ NoMsg \notin Msgs /\ Legacy \subseteq Ids
  /\ \A m \in Msgs : IssueOf[m] \in Issues
  /\ NoHook.at = "idle" /\ \A w \in WebHook : w # NoHook /\ w.at # "idle" /\ w.msg \in Msgs
  /\ NoHost \notin Hosts /\ Gone \notin Hosts
<1>1. NoId \notin Ids /\ NoMsg \notin Msgs /\ Legacy \subseteq Ids
  BY CoordinationAssumption DEF NoId, NoMsg
<1>2. \A m \in Msgs : IssueOf[m] \in Issues
  BY CoordinationAssumption
<1>3. NoHook.at = "idle" /\ \A w \in WebHook : w # NoHook /\ w.at # "idle" /\ w.msg \in Msgs
  BY DEF NoHook, WebHook
<1>4. NoHost \notin Hosts /\ Gone \notin Hosts
  BY CoordinationAssumption
<1> QED  BY <1>1, <1>2, <1>3, <1>4

\* TypeOK with the sets named
LEMMA Types ==
  TypeOK <=>
    /\ row \in [Ids -> RowType] /\ owner \in [Issues -> Ids \cup {NoId}]
    /\ status \in [Msgs -> States] /\ state \in [Issues -> {"idle", "running"}]
    /\ boot \in [Hosts -> BootSteps \cup {"down", "recover", "up"}]
    /\ id \in [Hosts -> Ids \cup {NoId}]
    /\ \A h \in Hosts : Registered(h) \/ boot[h] \in {"renew", "adopt"} => id[h] \in Ids
    /\ hook \in [Hosts -> {NoHook} \cup WebHook] /\ drain \in [Hosts -> Msgs \cup {NoMsg}]
    /\ next \in [Hosts -> SUBSET Msgs] /\ observed \in [Hosts -> SUBSET Issues]
    /\ runs \in [Hosts -> SUBSET Msgs]
    /\ batch \in [Hosts -> SUBSET BatchType]
    /\ made \in [Msgs -> Nat] /\ replaced \subseteq Msgs /\ crashes \in 0 .. MaxCrashes
BY DEF TypeOK, RowType, States, WebHook, BatchType

LEMMA TypesNext ==
  TypeOK' <=>
    /\ row' \in [Ids -> RowType] /\ owner' \in [Issues -> Ids \cup {NoId}]
    /\ status' \in [Msgs -> States] /\ state' \in [Issues -> {"idle", "running"}]
    /\ boot' \in [Hosts -> BootSteps \cup {"down", "recover", "up"}]
    /\ id' \in [Hosts -> Ids \cup {NoId}]
    /\ \A h \in Hosts : Registered(h)' \/ boot'[h] \in {"renew", "adopt"} => id'[h] \in Ids
    /\ hook' \in [Hosts -> {NoHook} \cup WebHook] /\ drain' \in [Hosts -> Msgs \cup {NoMsg}]
    /\ next' \in [Hosts -> SUBSET Msgs] /\ observed' \in [Hosts -> SUBSET Issues]
    /\ runs' \in [Hosts -> SUBSET Msgs]
    /\ batch' \in [Hosts -> SUBSET BatchType]
    /\ made' \in [Msgs -> Nat] /\ replaced' \subseteq Msgs /\ crashes' \in 0 .. MaxCrashes
BY DEF TypeOK, RowType, States, WebHook, BatchType
\* The writes to table daemons: a lease renewed or expired, a row taken.
LEMMA RowsOK ==
  ASSUME TypeOK, NEW r \in Ids
  PROVE  /\ \A h \in Hosts : [row EXCEPT ![r] = [host |-> h, fresh |-> TRUE]] \in [Ids -> RowType]
         /\ \A b \in BOOLEAN : [row EXCEPT ![r].fresh = b] \in [Ids -> RowType]
<1>1. ASSUME NEW h \in Hosts
      PROVE  [host |-> h, fresh |-> TRUE] \in RowType
  BY DEF RowType
<1>2. ASSUME NEW b \in BOOLEAN
      PROVE  [row[r] EXCEPT !.fresh = b] \in RowType
  BY Types DEF RowType
<1> QED  BY <1>1, <1>2, Types

LEMMA ReleasedOK == TypeOK => Released \in [Issues -> Ids \cup {NoId}]
BY Types DEF Released

LEMMA InitTypes == Init => TypeOK
<1> SUFFICES ASSUME Init PROVE TypeOK
  OBVIOUS
<1>1. row \in [Ids -> RowType] /\ owner \in [Issues -> Ids \cup {NoId}]
  BY Sorts DEF Init, RowType
<1>2. hook \in [Hosts -> {NoHook} \cup WebHook]
  BY Sorts DEF Init
<1>3. \A h \in Hosts : ~Registered(h)
  BY DEF Init, Registered
<1> QED  BY <1>1, <1>2, <1>3, Types, CoordinationAssumption DEF Init, States, NoMsg

LEMMA BootTypes ==
  ASSUME TypeOK, NEW h \in Hosts,
         Boot(h) \/ FindSelf(h) \/ Renew(h) \/ FindOrphan(h) \/ Adopt(h) \/ Insert(h)
           \/ Absorb(h) \/ DeleteRows(h) \/ ClaimAll(h)
  PROVE  TypeOK'
<1> USE Types
<1>w. UNCHANGED work
  BY DEF Boot, FindSelf, Renew, FindOrphan, Adopt, Insert, Absorb, DeleteRows, ClaimAll
<1>t. /\ status' \in [Msgs -> States] /\ state' \in [Issues -> {"idle", "running"}]
      /\ hook' \in [Hosts -> {NoHook} \cup WebHook] /\ drain' \in [Hosts -> Msgs \cup {NoMsg}]
      /\ next' \in [Hosts -> SUBSET Msgs] /\ observed' \in [Hosts -> SUBSET Issues]
      /\ runs' \in [Hosts -> SUBSET Msgs] /\ batch' \in [Hosts -> SUBSET BatchType]
      /\ made' \in [Msgs -> Nat] /\ replaced' \subseteq Msgs /\ crashes' \in 0 .. MaxCrashes
  BY <1>w DEF work
<1>r. ASSUME row' \in [Ids -> RowType], owner' \in [Issues -> Ids \cup {NoId}],
             NEW step \in BootSteps \cup {"down", "recover", "up"}, Goto(h, step),
             NEW d \in Ids \cup {NoId}, id' = [id EXCEPT ![h] = d],
             step \notin {"down", "find", "orphan", "insert"} => d \in Ids
      PROVE  TypeOK'
  <2>1. boot' \in [Hosts -> BootSteps \cup {"down", "recover", "up"}] /\ boot' = [boot EXCEPT ![h] = step]
    BY <1>r DEF Goto
  <2>2. id' \in [Hosts -> Ids \cup {NoId}]
    BY <1>r
  <2>3. ASSUME NEW g \in Hosts, Registered(g)' \/ boot'[g] \in {"renew", "adopt"}
        PROVE  id'[g] \in Ids
    BY <2>1, <2>3, <1>r DEF Registered
  <2> QED  BY <1>r, <1>t, <2>1, <2>2, <2>3, TypesNext
<1>s. BootSteps = {"find", "renew", "orphan", "adopt", "insert", "absorb", "delete", "claim"}
  BY DEF BootSteps
<1>i. id' = id => id' = [id EXCEPT ![h] = id[h]] /\ id[h] \in Ids \cup {NoId}
  OBVIOUS
<1>d. DOMAIN row = Ids /\ \A r \in Ids : row[r] \in RowType
  OBVIOUS
<1>1. CASE Boot(h)
  BY <1>1, <1>r, <1>s, <1>i, ReleasedOK DEF Boot
<1>2. CASE FindSelf(h)
  BY <1>2, <1>r, <1>s, <1>i DEF FindSelf, db, RowsOf, Rows
<1>3. CASE Renew(h)
  <2>1. row' \in [Ids -> RowType]
    BY <1>3, RowsOK DEF Renew
  <2>2. id[h] \in Ids
    BY <1>3 DEF Renew
  <2> QED  BY <1>3, <2>1, <1>r, <1>s, <1>i DEF Renew
<1>4. CASE FindOrphan(h)
  BY <1>4, <1>r, <1>s, <1>i DEF FindOrphan, db, Stale, Rows
<1>5. CASE Adopt(h)
  <2>1. row' \in [Ids -> RowType]
    BY <1>5, RowsOK DEF Adopt
  <2> QED  BY <1>5, <2>1, <1>r, <1>s, <1>i DEF Adopt, Stale, Rows
<1>6. CASE Insert(h)
  <2>1. row' \in [Ids -> RowType]
    BY <1>6, RowsOK DEF Insert
  <2> QED  BY <1>6, <2>1, <1>r, <1>s, <1>i DEF Insert
<1>7. CASE Absorb(h)
  <2>1. id[h] \in Ids
    BY <1>7 DEF Absorb, Registered
  <2>2. owner' \in [Issues -> Ids \cup {NoId}]
    BY <1>7, <2>1 DEF Absorb
  <2> QED  BY <1>7, <2>1, <2>2, <1>r, <1>s, <1>i DEF Absorb
<1>8. CASE DeleteRows(h)
  <2>1. id[h] \in Ids
    BY <1>8 DEF DeleteRows, Registered
  <2>2. row' \in [Ids -> RowType]
    BY <1>8, <1>d DEF DeleteRows, RowType
  <2> QED  BY <1>8, <2>1, <2>2, <1>r, <1>s, <1>i DEF DeleteRows
<1>9. CASE ClaimAll(h)
  <2>1. id[h] \in Ids
    BY <1>9 DEF ClaimAll, Registered
  <2>2. owner' \in [Issues -> Ids \cup {NoId}]
    BY <1>9, <2>1 DEF ClaimAll, Claimed
  <2> QED  BY <1>9, <2>1, <2>2, <1>r, <1>s, <1>i DEF ClaimAll
<1> QED  BY <1>1, <1>2, <1>3, <1>4, <1>5, <1>6, <1>7, <1>8, <1>9

LEMMA HookTypes ==
  ASSUME TypeOK, NEW h \in Hosts, hook[h].at # "idle"
  PROVE  /\ hook[h] \in WebHook /\ hook[h].msg \in Msgs /\ IssueOf[hook[h].msg] \in Issues
         /\ [hook EXCEPT ![h].at = "create"] \in [Hosts -> {NoHook} \cup WebHook]
         /\ [hook EXCEPT ![h].at = "run"] \in [Hosts -> {NoHook} \cup WebHook]
         /\ [hook EXCEPT ![h] = NoHook] \in [Hosts -> {NoHook} \cup WebHook]
<1>1. hook[h] \in WebHook
  BY Types, Sorts
<1>2. ASSUME NEW s \in {"own", "create", "run"}
      PROVE  [hook[h] EXCEPT !.at = s] \in WebHook
  BY <1>1 DEF WebHook
<1> QED  BY <1>1, <1>2, Types, Sorts

\* the writes of claimMessage and of the run that follows
LEMMA ClaimTypes ==
  ASSUME TypeOK, NEW h \in Hosts, NEW m \in Msgs, NEW dropped, ClaimAndRun(h, m, dropped)
  PROVE  /\ status' \in [Msgs -> States] /\ state' \in [Issues -> {"idle", "running"}]
         /\ runs' \in [Hosts -> SUBSET Msgs]
<1> DEFINE before == [x \in Msgs |-> IF x \in dropped THEN "interrupted" ELSE status[x]]
<1> USE Types, Sorts
<1>1. before \in [Msgs -> States]
  BY DEF States
<1>2. [before EXCEPT ![m] = "running"] \in [Msgs -> States]
  BY <1>1 DEF States
<1>3. status' \in [Msgs -> States]
  BY <1>1, <1>2 DEF ClaimAndRun
<1>4. state' \in [Issues -> {"idle", "running"}]
  BY DEF ClaimAndRun
<1>5. runs' \in [Hosts -> SUBSET Msgs]
  BY DEF ClaimAndRun
<1> QED  BY <1>3, <1>4, <1>5

LEMMA LapseTypes ==
  ASSUME TypeOK, NEW r \in Ids, Lapse(r)
  PROVE  TypeOK'
<1>1. row' \in [Ids -> RowType]
  BY RowsOK DEF Lapse
<1> QED  BY <1>1, Types, TypesNext DEF Lapse, work, Registered

LEMMA LeaseTypes ==
  ASSUME TypeOK, NEW h \in Hosts, Heartbeat(h) \/ ReleaseDead(h)
  PROVE  TypeOK'
<1> USE Types
<1>1. CASE Heartbeat(h)
  <2>1. row' \in [Ids -> RowType]
    BY <1>1, RowsOK DEF Heartbeat, heartbeat, Stale, Rows
  <2> QED  BY <1>1, <2>1, TypesNext DEF Heartbeat, work, Registered
<1>2. CASE ReleaseDead(h)
  BY <1>2, ReleasedOK, TypesNext DEF ReleaseDead, work, Registered
<1> QED  BY <1>1, <1>2

LEMMA ReceiveTypes ==
  ASSUME TypeOK, NEW h \in Hosts, NEW m \in Msgs, Receive(h, m)
  PROVE  TypeOK'
<1>1. [at |-> "own", msg |-> m, owner |-> owner[IssueOf[m]]] \in WebHook
  BY Types, Sorts DEF WebHook
<1> QED  BY <1>1, Types, TypesNext DEF Receive, db, memory, Registered

LEMMA HookStepTypes ==
  ASSUME TypeOK, NEW h \in Hosts, EnsureOwned(h) \/ CreateMessage(h) \/ EnqueueOrRun(h)
  PROVE  TypeOK'
<1> USE Types
<1>1. CASE EnsureOwned(h)
  <2>1. hook' \in [Hosts -> {NoHook} \cup WebHook]
    <3>1. \/ hook' = [hook EXCEPT ![h].at = "create"]
          \/ hook' = [hook EXCEPT ![h] = NoHook]
      BY <1>1 DEF EnsureOwned, Proceed, Return
    <3>2. hook[h].at # "idle"
      BY <1>1 DEF EnsureOwned
    <3>3. /\ [hook EXCEPT ![h].at = "create"] \in [Hosts -> {NoHook} \cup WebHook]
          /\ [hook EXCEPT ![h] = NoHook] \in [Hosts -> {NoHook} \cup WebHook]
      BY <3>2, HookTypes
    <3> QED  BY <3>1, <3>3
  <2>2. owner' \in [Issues -> Ids \cup {NoId}]
    BY <1>1, HookTypes DEF EnsureOwned, claimIssue
  <2> QED  BY <1>1, <2>1, <2>2, TypesNext DEF EnsureOwned, memory, Registered
<1>2. CASE CreateMessage(h)
  <2>1. hook' \in [Hosts -> {NoHook} \cup WebHook]
    <3>1. hook' = [hook EXCEPT ![h].at = "run"] \/ hook' = [hook EXCEPT ![h] = NoHook]
      BY <1>2 DEF CreateMessage, Return
    <3>2. hook[h].at # "idle"
      BY <1>2 DEF CreateMessage
    <3>3. /\ [hook EXCEPT ![h].at = "run"] \in [Hosts -> {NoHook} \cup WebHook]
          /\ [hook EXCEPT ![h] = NoHook] \in [Hosts -> {NoHook} \cup WebHook]
      BY <3>2, HookTypes
    <3> QED  BY <3>1, <3>3
  <2>2. made' \in [Msgs -> Nat]
    <3>1. hook[h].msg \in Msgs
      BY <1>2, HookTypes DEF CreateMessage
    <3> QED  BY <1>2, <3>1 DEF CreateMessage
  <2>3. status' \in [Msgs -> States]
    BY <1>2 DEF CreateMessage, States
  <2> QED  BY <1>2, <2>1, <2>2, <2>3, TypesNext DEF CreateMessage, db, memory, Registered
<1>3. CASE EnqueueOrRun(h)
  <2> DEFINE old == RunsOn(h, IssueOf[hook[h].msg])
  <2>1. hook' \in [Hosts -> {NoHook} \cup WebHook]
    BY <1>3, HookTypes DEF EnqueueOrRun, Return
  <2>2. /\ status' \in [Msgs -> States] /\ state' \in [Issues -> {"idle", "running"}]
        /\ runs' \in [Hosts -> SUBSET Msgs] /\ replaced' \subseteq Msgs
    <3>1. hook[h].msg \in Msgs /\ old \subseteq Msgs
      BY <1>3, HookTypes DEF EnqueueOrRun, RunsOn
    <3>2. CASE UNCHANGED <<status, state, runs, replaced>>
      BY <3>2
    <3>3. CASE ClaimAndRun(h, hook[h].msg, old) /\ replaced' = replaced \cup old
      BY <3>1, <3>3, ClaimTypes
    <3> QED  BY <1>3, <3>2, <3>3 DEF EnqueueOrRun
  <2> QED  BY <1>3, <2>1, <2>2, TypesNext DEF EnqueueOrRun, db, memory, Registered
<1> QED  BY <1>1, <1>2, <1>3

LEMMA RunTypes ==
  ASSUME TypeOK, NEW h \in Hosts, NEW m \in Msgs,
         Finish(h, m) \/ Dequeue(h, m) \/ DrainPick(h, m)
  PROVE  TypeOK'
<1> USE Types, Sorts
<1>1. CASE Finish(h, m)
  <2>1. status' \in [Msgs -> States]
    BY <1>1 DEF Finish, States
  <2>2. state' \in [Issues -> {"idle", "running"}]
    BY <1>1 DEF Finish
  <2>3. next' \in [Hosts -> SUBSET Msgs]
    BY <1>1 DEF Finish, PendingOn, MsgsOn
  <2>4. runs' \in [Hosts -> SUBSET Msgs]
    BY <1>1 DEF Finish
  <2> QED  BY <1>1, <2>1, <2>2, <2>3, <2>4, TypesNext DEF Finish, db, memory, Registered
<1>2. CASE Dequeue(h, m)
  <2>1. status' \in [Msgs -> States]
    BY <1>2 DEF Dequeue, States
  <2>2. state' \in [Issues -> {"idle", "running"}]
    BY <1>2 DEF Dequeue
  <2>3. next' \in [Hosts -> SUBSET Msgs] /\ runs' \in [Hosts -> SUBSET Msgs]
    BY <1>2 DEF Dequeue
  <2> QED  BY <1>2, <2>1, <2>2, <2>3, TypesNext DEF Dequeue, db, memory, Registered
<1>3. CASE DrainPick(h, m)
  BY <1>3, TypesNext DEF DrainPick, db, memory, Registered
<1> QED  BY <1>1, <1>2, <1>3

LEMMA DrainTypes ==
  ASSUME TypeOK, NEW h \in Hosts, DrainClaim(h) \/ Crash(h)
  PROVE  TypeOK'
<1> USE Types, Sorts
<1>1. CASE DrainClaim(h)
  <2>1. drain[h] \in Msgs /\ drain' \in [Hosts -> Msgs \cup {NoMsg}]
    BY <1>1 DEF DrainClaim
  <2>2. /\ status' \in [Msgs -> States] /\ state' \in [Issues -> {"idle", "running"}]
        /\ runs' \in [Hosts -> SUBSET Msgs]
    BY <1>1, <2>1, ClaimTypes DEF DrainClaim
  <2> QED  BY <1>1, <2>1, <2>2, TypesNext DEF DrainClaim, db, memory, Registered
<1>2. CASE Crash(h)
  <2>1. /\ boot' \in [Hosts -> BootSteps \cup {"down", "recover", "up"}]
        /\ id' \in [Hosts -> Ids \cup {NoId}]
        /\ \A g \in Hosts : Registered(g)' \/ boot'[g] \in {"renew", "adopt"} => id'[g] \in Ids
    BY <1>2 DEF Crash, Goto, Registered
  <2>2. /\ hook' \in [Hosts -> {NoHook} \cup WebHook] /\ drain' \in [Hosts -> Msgs \cup {NoMsg}]
        /\ next' \in [Hosts -> SUBSET Msgs] /\ observed' \in [Hosts -> SUBSET Issues]
        /\ runs' \in [Hosts -> SUBSET Msgs] /\ batch' \in [Hosts -> SUBSET BatchType]
    BY <1>2 DEF Crash
  <2>3. crashes' \in 0 .. MaxCrashes
    BY <1>2, CoordinationAssumption DEF Crash
  <2> QED  BY <1>2, <2>1, <2>2, <2>3, TypesNext DEF Crash, db
<1> QED  BY <1>1, <1>2

LEMMA ScanTypes ==
  ASSUME TypeOK, NEW h \in Hosts, RecoverScan(h)
  PROVE  TypeOK'
<1> USE Types, Sorts
<1> DEFINE stuck == getOwnedPendingOrRunningMessages(h, Released)
<1>1. /\ boot' \in [Hosts -> BootSteps \cup {"down", "recover", "up"}]
      /\ \A g \in Hosts : Registered(g)' \/ boot'[g] \in {"renew", "adopt"} => id'[g] \in Ids
  BY DEF RecoverScan, Goto, Registered
<1>2. status' \in [Msgs -> States] /\ observed' \in [Hosts -> SUBSET Issues]
  BY DEF RecoverScan, States, Owned
<1>3. {[msg |-> m, was |-> status[m]] : m \in stuck} \subseteq BatchType
  BY DEF BatchType, getOwnedPendingOrRunningMessages
<1>4. batch' \in [Hosts -> SUBSET BatchType]
  BY <1>3 DEF RecoverScan
<1> QED  BY <1>1, <1>2, <1>4, ReleasedOK, TypesNext DEF RecoverScan

\* what recover() writes for a session: the message `first` runs or waits, or
\* is done and another one may run
LEMMA RecoverWrites ==
  ASSUME NEW h \in Hosts, NEW i \in Issues, RecoverRun(h, i)
  PROVE  \E first \in {b.msg : b \in BatchOn(h, i)} :
              \/ /\ status' = [Requeued(h, i) EXCEPT ![first] = "running"]
                 /\ state' = [state EXCEPT ![i] = "running"]
                 /\ runs' = [runs EXCEPT ![h] = @ \cup {first}]
              \/ status' = Requeued(h, i) /\ UNCHANGED <<state, runs>>
              \/ \E x \in Msgs :
                   /\ status' = [[Requeued(h, i) EXCEPT ![first] = "done"] EXCEPT ![x] = "running"]
                   /\ state' = [state EXCEPT ![i] = "running"]
                   /\ runs' = [runs EXCEPT ![h] = @ \cup {x}]
              \/ status' = [Requeued(h, i) EXCEPT ![first] = "done"] /\ UNCHANGED <<state, runs>>
BY DEF RecoverRun, MsgsOn

LEMMA SessionTypes ==
  ASSUME TypeOK, NEW h \in Hosts, NEW i \in Issues, RecoverSession(h, i) \/ FixSession(h, i)
  PROVE  TypeOK'
<1> USE Types, Sorts
<1>1. CASE RecoverSession(h, i)
  <2>0. batch' \in [Hosts -> SUBSET BatchType] /\ BatchOn(h, i) \subseteq BatchType
    BY <1>1 DEF RecoverSession, BatchOn
  <2>1. /\ status' \in [Msgs -> States] /\ state' \in [Issues -> {"idle", "running"}]
        /\ runs' \in [Hosts -> SUBSET Msgs]
    <3>1. CASE RecoverSkip(h, i)
      BY <3>1 DEF RecoverSkip
    <3>2. CASE RecoverDenied(h, i)
      BY <3>2 DEF RecoverDenied, States
    <3>3. CASE RecoverRun(h, i)
      <4>1. Requeued(h, i) \in [Msgs -> States]
        BY DEF Requeued, States
      <4>2. ASSUME NEW s \in [Msgs -> States], NEW x \in Msgs
            PROVE  /\ [s EXCEPT ![x] = "running"] \in [Msgs -> States]
                   /\ [s EXCEPT ![x] = "done"] \in [Msgs -> States]
        BY DEF States
      <4>3. ASSUME NEW before \in [Msgs -> States], NEW x \in Msgs,
                   status' = [before EXCEPT ![x] = "running"],
                   state' = [state EXCEPT ![i] = "running"],
                   runs' = [runs EXCEPT ![h] = @ \cup {x}]
            PROVE  /\ status' \in [Msgs -> States] /\ state' \in [Issues -> {"idle", "running"}]
                   /\ runs' \in [Hosts -> SUBSET Msgs]
        BY <4>2, <4>3
      <4>4. PICK first \in {b.msg : b \in BatchOn(h, i)} :
              \/ /\ status' = [Requeued(h, i) EXCEPT ![first] = "running"]
                 /\ state' = [state EXCEPT ![i] = "running"]
                 /\ runs' = [runs EXCEPT ![h] = @ \cup {first}]
              \/ status' = Requeued(h, i) /\ UNCHANGED <<state, runs>>
              \/ \E x \in Msgs :
                   /\ status' = [[Requeued(h, i) EXCEPT ![first] = "done"] EXCEPT ![x] = "running"]
                   /\ state' = [state EXCEPT ![i] = "running"]
                   /\ runs' = [runs EXCEPT ![h] = @ \cup {x}]
              \/ status' = [Requeued(h, i) EXCEPT ![first] = "done"] /\ UNCHANGED <<state, runs>>
        BY <3>3, RecoverWrites
      <4>5. first \in Msgs
        BY <2>0 DEF BatchType
      <4> QED  BY <4>1, <4>2, <4>3, <4>4, <4>5
    <3> QED  BY <1>1, <3>1, <3>2, <3>3 DEF RecoverSession
  <2> QED  BY <1>1, <2>0, <2>1, TypesNext DEF RecoverSession, db, memory, Registered
<1>2. CASE FixSession(h, i)
  BY <1>2, TypesNext DEF FixSession, db, memory, Registered
<1> QED  BY <1>1, <1>2

LEMMA StepTypes == TypeOK /\ [Next]_vars => TypeOK'
<1> SUFFICES ASSUME TypeOK, [Next]_vars PROVE TypeOK'
  OBVIOUS
<1>1. CASE UNCHANGED vars
  BY <1>1, Types, TypesNext DEF vars, Registered
<1>2. ASSUME NEW r \in Ids, Lapse(r) PROVE TypeOK'
  BY <1>2, LapseTypes
<1>3. ASSUME NEW h \in Hosts, Boot(h) \/ Heartbeat(h) \/ ReleaseDead(h)
      PROVE  TypeOK'
  BY <1>3, BootTypes, LeaseTypes
<1>4. ASSUME NEW h \in Hosts, BootStep(h) PROVE TypeOK'
  BY <1>4, BootTypes, ScanTypes, SessionTypes DEF BootStep
<1>5. ASSUME NEW h \in Hosts, HookStep(h) PROVE TypeOK'
  BY <1>5, HookStepTypes DEF HookStep
<1>6. ASSUME NEW h \in Hosts, NEW m \in Msgs,
             Receive(h, m) \/ DrainPick(h, m) \/ Finish(h, m) \/ Dequeue(h, m)
      PROVE  TypeOK'
  BY <1>6, ReceiveTypes, RunTypes
<1>7. ASSUME NEW h \in Hosts, DrainClaim(h) \/ Crash(h) PROVE TypeOK'
  BY <1>7, DrainTypes
<1>8. ASSUME NEW h \in Hosts, NEW i \in Issues, FixSession(h, i) PROVE TypeOK'
  BY <1>8, SessionTypes
<1> QED  BY <1>1, <1>2, <1>3, <1>4, <1>5, <1>6, <1>7, <1>8 DEF Next, RunStep

-----------------------------------------------------------------------------
(* Identity                                                                *)

LEMMA InitIdentity == Init => Identity
<1> SUFFICES ASSUME Init PROVE Identity
  OBVIOUS
<1>1. OneBoots /\ HoldsRow /\ Absorbed
  BY DEF Init, OneBoots, HoldsRow, Absorbed, BootSteps, Registered
<1>2. OwnerIsRegistered
  BY Sorts DEF Init, OwnerIsRegistered, Rows
<1> QED  BY <1>1, <1>2 DEF Identity

\* Identity with the sets of rows expanded
LEMMA IdentityNow ==
  Identity <=>
    /\ \A g, h \in Hosts : boot[g] \in BootSteps /\ boot[h] \in BootSteps => g = h
    /\ \A h \in Hosts :
         /\ boot[h] \in {"absorb", "delete", "claim", "recover", "up"} =>
              id[h] \in Ids /\ row[id[h]] = [host |-> h, fresh |-> TRUE]
         /\ boot[h] = "renew" => id[h] \in Ids /\ row[id[h]].host \in Hosts /\ row[id[h]].host = h
         /\ boot[h] = "adopt" => id[h] \in Ids /\ row[id[h]].host \in Hosts
    /\ \A h \in Hosts :
         boot[h] = "delete" =>
           \A i \in Issues :
             owner[i] \in Ids /\ row[owner[i]].host \in Hosts /\ row[owner[i]].host = h
               => owner[i] = id[h]
    /\ \A i \in Issues : owner[i] # NoId => owner[i] \in Ids /\ row[owner[i]].host \in Hosts
BY DEF Identity, OneBoots, HoldsRow, Absorbed, OwnerIsRegistered, Registered, Rows, RowsOf

LEMMA IdentityNext ==
  Identity' <=>
    /\ \A g, h \in Hosts : boot'[g] \in BootSteps /\ boot'[h] \in BootSteps => g = h
    /\ \A h \in Hosts :
         /\ boot'[h] \in {"absorb", "delete", "claim", "recover", "up"} =>
              id'[h] \in Ids /\ row'[id'[h]] = [host |-> h, fresh |-> TRUE]
         /\ boot'[h] = "renew" => id'[h] \in Ids /\ row'[id'[h]].host \in Hosts /\ row'[id'[h]].host = h
         /\ boot'[h] = "adopt" => id'[h] \in Ids /\ row'[id'[h]].host \in Hosts
    /\ \A h \in Hosts :
         boot'[h] = "delete" =>
           \A i \in Issues :
             owner'[i] \in Ids /\ row'[owner'[i]].host \in Hosts /\ row'[owner'[i]].host = h
               => owner'[i] = id'[h]
    /\ \A i \in Issues : owner'[i] # NoId => owner'[i] \in Ids /\ row'[owner'[i]].host \in Hosts
BY DEF Identity, OneBoots, HoldsRow, Absorbed, OwnerIsRegistered, Registered, Rows, RowsOf

\* registerDaemon takes a row that no other registered daemon holds
LEMMA TakesRow ==
  ASSUME TypeOK, Identity, NEW h \in Hosts, NEW d \in Ids, boot[h] \in BootSteps,
         row[d].host # h => ~row[d].fresh \/ row[d].host \notin Hosts,
         row' = [row EXCEPT ![d] = [host |-> h, fresh |-> TRUE]],
         Goto(h, "absorb"), id' = [id EXCEPT ![h] = d], UNCHANGED owner
  PROVE  Identity'
<1> USE Types, Sorts, IdentityNow
<1>1. /\ boot'[h] = "absorb" /\ id'[h] = d /\ row'[d] = [host |-> h, fresh |-> TRUE]
      /\ row'[d].host = h
  BY DEF Goto
<1>2. \A g \in Hosts : g # h => boot'[g] = boot[g] /\ id'[g] = id[g] /\ boot[g] \notin BootSteps
  BY DEF Goto
<1>3. \A r \in Ids : r # d => row'[r] = row[r]
  OBVIOUS
<1>4. \A g, k \in Hosts : boot'[g] \in BootSteps /\ boot'[k] \in BootSteps => g = k
  BY <1>2
<1>5. ASSUME NEW g \in Hosts, boot'[g] \in {"absorb", "delete", "claim", "recover", "up"}
      PROVE  id'[g] \in Ids /\ row'[id'[g]] = [host |-> g, fresh |-> TRUE]
  <2>1. CASE g = h
    BY <1>1, <2>1
  <2>2. CASE g # h
    <3>1. id[g] \in Ids /\ row[id[g]] = [host |-> g, fresh |-> TRUE]
      BY <1>2, <1>5, <2>2
    <3>2. id[g] # d
      BY <3>1, <2>2
    <3> QED  BY <3>1, <3>2, <1>2, <1>3, <2>2
  <2> QED  BY <2>1, <2>2
<1>6. \A g \in Hosts : boot'[g] \notin {"renew", "adopt", "delete"}
  BY <1>1, <1>2 DEF BootSteps
<1>7. ASSUME NEW i \in Issues, owner'[i] # NoId
      PROVE  owner'[i] \in Ids /\ row'[owner'[i]].host \in Hosts
  BY <1>1, <1>3, <1>7
<1> QED  BY <1>4, <1>5, <1>6, <1>7, IdentityNext

\* a registered daemon is given issues and goes on
LEMMA TakesIssues ==
  ASSUME TypeOK, Identity, NEW h \in Hosts, boot[h] \in {"absorb", "claim"},
         NEW step \in {"delete", "recover"}, Goto(h, step), UNCHANGED <<row, id>>,
         \A i \in Issues : owner'[i] = owner[i] \/ owner'[i] = id[h],
         step = "delete" => \A i \in Issues : owner'[i] \in RowsOf(h) => owner'[i] = id[h]
  PROVE  Identity'
<1> USE Types, Sorts, IdentityNow
<1>1. id[h] \in Ids /\ row[id[h]] = [host |-> h, fresh |-> TRUE] /\ boot[h] \in BootSteps
  BY DEF BootSteps
<1>2. boot'[h] = step /\ \A g \in Hosts : g # h => boot'[g] = boot[g] /\ boot[g] \notin BootSteps
  BY <1>1 DEF Goto
<1>3. \A g, k \in Hosts : boot'[g] \in BootSteps /\ boot'[k] \in BootSteps => g = k
  BY <1>2
<1>4. \A g \in Hosts : /\ boot'[g] \in {"absorb", "delete", "claim", "recover", "up"} =>
                            id'[g] \in Ids /\ row'[id'[g]] = [host |-> g, fresh |-> TRUE]
                       /\ boot'[g] \notin {"renew", "adopt"}
  <2>1. /\ boot'[h] \in {"delete", "recover"}
        /\ id'[h] \in Ids /\ row'[id'[h]] = [host |-> h, fresh |-> TRUE]
    BY <1>1, <1>2
  <2>2. ASSUME NEW g \in Hosts, g # h
        PROVE  /\ boot'[g] \in {"absorb", "delete", "claim", "recover", "up"} =>
                    id'[g] \in Ids /\ row'[id'[g]] = [host |-> g, fresh |-> TRUE]
               /\ boot'[g] \notin {"renew", "adopt"}
    BY <1>2, <2>2 DEF BootSteps
  <2> QED  BY <2>1, <2>2
<1>5. ASSUME NEW g \in Hosts, boot'[g] = "delete", NEW i \in Issues,
             owner'[i] \in Ids, row'[owner'[i]].host \in Hosts, row'[owner'[i]].host = g
      PROVE  owner'[i] = id'[g]
  <2>1. g = h /\ step = "delete"
    BY <1>2, <1>5 DEF BootSteps
  <2> QED  BY <2>1, <1>5 DEF RowsOf, Rows
<1>6. \A i \in Issues : owner'[i] # NoId => owner'[i] \in Ids /\ row'[owner'[i]].host \in Hosts
  BY <1>1
<1> QED  BY <1>3, <1>4, <1>5, <1>6, IdentityNext

LEMMA BootKeepsIdentity ==
  ASSUME Orderly, TypeOK, Identity, NEW h \in Hosts, Boot(h) \/ BootStep(h) \/ Crash(h)
  PROVE  Identity'
<1> USE Types, Sorts, IdentityNow
<1>1. CASE Boot(h)
  BY <1>1, IdentityNext DEF Boot, Goto, Released, Stale, Rows, Orderly, BootSteps
<1>2. CASE FindSelf(h)
  BY <1>2, IdentityNext DEF FindSelf, Goto, RowsOf, Rows, db, BootSteps
<1>3. CASE Renew(h)
  <2>1. id[h] \in Ids /\ row[id[h]].host = h /\ boot[h] \in BootSteps
    BY <1>3 DEF Renew, BootSteps
  <2>2. row' \in [Ids -> RowType] /\ row'[id[h]].host = h /\ row'[id[h]].fresh = TRUE
    <3>1. row' \in [Ids -> RowType]
      BY <1>3, <2>1, RowsOK DEF Renew
    <3>2. row[id[h]] \in RowType /\ row'[id[h]] = [row[id[h]] EXCEPT !.fresh = TRUE]
      BY <1>3, <2>1 DEF Renew
    <3>3. row'[id[h]].host = h /\ row'[id[h]].fresh = TRUE
      BY <2>1, <3>2 DEF RowType
    <3> QED  BY <3>1, <3>3
  <2>3. row' = [row EXCEPT ![id[h]] = [host |-> h, fresh |-> TRUE]]
    <3>1. row'[id[h]] = [host |-> h, fresh |-> TRUE]
      BY <2>1, <2>2 DEF RowType
    <3>2. \A r \in Ids : r # id[h] => row'[r] = row[r]
      BY <1>3 DEF Renew
    <3> QED  BY <2>2, <3>1, <3>2
  <2>4. id' = [id EXCEPT ![h] = id[h]]
    BY <1>3 DEF Renew
  <2> QED  BY <1>3, <2>1, <2>3, <2>4, TakesRow DEF Renew
<1>4. CASE FindOrphan(h)
  <2>1. UNCHANGED <<row, owner>> /\ boot[h] \in BootSteps
    BY <1>4 DEF FindOrphan, db, BootSteps
  <2>2. \/ \E r \in Ids : /\ row[r].host \in Hosts /\ id' = [id EXCEPT ![h] = r]
                          /\ boot' = [boot EXCEPT ![h] = "adopt"]
        \/ id' = id /\ boot' = [boot EXCEPT ![h] = "insert"]
    BY <1>4 DEF FindOrphan, Goto, Stale, Rows
  <2> QED  BY <2>1, <2>2, IdentityNext DEF BootSteps
<1>5. CASE Adopt(h)
  <2>1. CASE id[h] \in Stale
    <3>1. id[h] \in Ids /\ ~row[id[h]].fresh /\ boot[h] \in BootSteps
      BY <1>5, <2>1 DEF Adopt, Stale, Rows, BootSteps
    <3>2. id' = [id EXCEPT ![h] = id[h]]
      BY <1>5, <2>1 DEF Adopt
    <3> QED  BY <1>5, <2>1, <3>1, <3>2, TakesRow DEF Adopt
  <2>2. CASE id[h] \notin Stale
    BY <1>5, <2>2, IdentityNext DEF Adopt, Goto, BootSteps
  <2> QED  BY <2>1, <2>2
<1>6. CASE Insert(h)
  <2>1. PICK d \in Ids : /\ row[d].host = NoHost
                         /\ row' = [row EXCEPT ![d] = [host |-> h, fresh |-> TRUE]]
                         /\ id' = [id EXCEPT ![h] = d]
    BY <1>6 DEF Insert
  <2>2. boot[h] \in BootSteps /\ Goto(h, "absorb") /\ UNCHANGED owner
    BY <1>6 DEF Insert, BootSteps
  <2> QED  BY <2>1, <2>2, TakesRow
<1>7. CASE Absorb(h)
  <2>1. \A i \in Issues : owner'[i] = owner[i] \/ owner'[i] = id[h]
    BY <1>7 DEF Absorb
  <2>2. \A i \in Issues : owner'[i] \in RowsOf(h) => owner'[i] = id[h]
    BY <1>7 DEF Absorb
  <2> QED  BY <1>7, <2>1, <2>2, TakesIssues DEF Absorb
<1>8. CASE DeleteRows(h)
  BY <1>8, IdentityNext DEF DeleteRows, Goto, RowsOf, Rows, BootSteps
<1>9. CASE ClaimAll(h)
  <2>1. \A i \in Issues : owner'[i] = owner[i] \/ owner'[i] = id[h]
    BY <1>9 DEF ClaimAll, Claimed
  <2> QED  BY <1>9, <2>1, TakesIssues DEF ClaimAll
<1>10. CASE RecoverScan(h)
  <2>1. /\ UNCHANGED <<row, id>> /\ boot' = [boot EXCEPT ![h] = "up"] /\ boot[h] = "recover"
        /\ \A i \in Issues : owner'[i] \in {owner[i], NoId}
    BY <1>10 DEF RecoverScan, Goto, Released
  <2> QED  BY <2>1, IdentityNext DEF BootSteps
<1>11. CASE Crash(h)
  BY <1>11, IdentityNext DEF Crash, Goto, db, BootSteps
<1>12. ASSUME NEW i \in Issues, RecoverSession(h, i) PROVE Identity'
  BY <1>12, IdentityNext DEF RecoverSession, db, memory
<1> QED  BY <1>1, <1>2, <1>3, <1>4, <1>5, <1>6, <1>7, <1>8, <1>9, <1>10, <1>11, <1>12 DEF BootStep

LEMMA LeaseKeepsIdentity ==
  ASSUME Orderly, TypeOK, Identity,
         (\E r \in Ids : Lapse(r)) \/ (\E h \in Hosts : Heartbeat(h) \/ ReleaseDead(h))
  PROVE  Identity'
<1> USE Types, Sorts, IdentityNow
<1>1. ASSUME NEW r \in Ids, Lapse(r) PROVE Identity'
  <2>1. \A h \in Hosts : boot[h] \in {"absorb", "delete", "claim", "recover", "up"} => id[h] # r
    BY <1>1 DEF Lapse, Orderly, Registered
  <2>2. \A d \in Ids : row'[d].host = row[d].host /\ (d # r => row'[d] = row[d])
    BY <1>1 DEF Lapse, RowType
  <2> QED  BY <1>1, <2>1, <2>2, IdentityNext DEF Lapse
<1>2. ASSUME NEW h \in Hosts, Heartbeat(h) PROVE Identity'
  \* a registered daemon's lease has not expired
  <2>1. boot[h] \in {"recover", "up"} /\ ~row[id[h]].fresh
    BY <1>2 DEF Heartbeat, Serving, Stale
  <2>2. row[id[h]] = [host |-> h, fresh |-> TRUE]
    BY <2>1
  <2> QED  BY <2>1, <2>2
<1>3. ASSUME NEW h \in Hosts, ReleaseDead(h) PROVE Identity'
  BY <1>3, IdentityNext DEF ReleaseDead, Released, Stale, Rows
<1> QED  BY <1>1, <1>2, <1>3

LEMMA WorkKeepsIdentity ==
  ASSUME TypeOK, Identity, UNCHANGED <<db, boot, id>>
  PROVE  Identity'
BY IdentityNow, IdentityNext DEF db

LEMMA ClaimKeepsIdentity ==
  ASSUME TypeOK, Identity, Handling, NEW h \in Hosts, EnsureOwned(h)
  PROVE  Identity'
<1> USE Types, Sorts, IdentityNow
<1>1. boot[h] \in {"recover", "up"} /\ id[h] \in Ids /\ row[id[h]] = [host |-> h, fresh |-> TRUE]
  BY DEF EnsureOwned, Handling, Trusts, Serving
<1>2. \A i \in Issues : owner'[i] = owner[i] \/ owner'[i] = id[h]
  BY DEF EnsureOwned, claimIssue
<1>3. UNCHANGED <<row, boot, id>>
  BY DEF EnsureOwned, memory
<1>4. ASSUME NEW g \in Hosts, boot[g] = "delete", NEW i \in Issues,
             owner'[i] \in Ids, row[owner'[i]].host \in Hosts, row[owner'[i]].host = g
      PROVE  owner'[i] = id[g]
  BY <1>1, <1>2, <1>4
<1> QED  BY <1>1, <1>2, <1>3, <1>4, IdentityNext
-----------------------------------------------------------------------------
(* Ownership                                                               *)

\* the steps that write to neither daemons nor issues, nor go on booting
Quiet == UNCHANGED <<row, owner, boot, id>>

LEMMA QuietSteps ==
  ASSUME NEW h \in Hosts,
         \/ \E m \in Msgs : Receive(h, m) \/ DrainPick(h, m) \/ Finish(h, m) \/ Dequeue(h, m)
         \/ CreateMessage(h) \/ EnqueueOrRun(h) \/ DrainClaim(h)
         \/ \E i \in Issues : RecoverSession(h, i) \/ FixSession(h, i)
  PROVE  Quiet
BY DEF Receive, DrainPick, Finish, Dequeue, CreateMessage, EnqueueOrRun, DrainClaim,
       RecoverSession, FixSession, db, memory, Quiet

LEMMA LoudSteps ==
  [Next]_vars =>
    \/ Quiet
    \/ \E r \in Ids : Lapse(r)
    \/ \E h \in Hosts : \/ Boot(h) \/ FindSelf(h) \/ Renew(h) \/ FindOrphan(h) \/ Adopt(h)
                        \/ Insert(h) \/ Absorb(h) \/ DeleteRows(h) \/ ClaimAll(h)
                        \/ RecoverScan(h) \/ Heartbeat(h) \/ ReleaseDead(h) \/ EnsureOwned(h)
                        \/ Crash(h)
<1>1. UNCHANGED vars => Quiet
  BY DEF vars, Quiet
<1> QED  BY <1>1, QuietSteps DEF Next, BootStep, HookStep, RunStep

\* A daemon that serves keeps its row, and the issues it owns.
Keeps ==
  \A h \in Hosts :
    Serving(h) /\ Serving(h)' =>
      id'[h] = id[h] /\ \A i \in Issues : owner[i] = id[h] => owner'[i] = id[h]

LEMMA StepKeeps == Orderly /\ TypeOK /\ Identity /\ [Next]_vars => Keeps
<1> SUFFICES ASSUME Orderly, TypeOK, Identity, [Next]_vars PROVE Keeps
  OBVIOUS
<1> SUFFICES ASSUME NEW h \in Hosts, Serving(h), Serving(h)'
             PROVE  id'[h] = id[h] /\ \A i \in Issues : owner[i] = id[h] => owner'[i] = id[h]
  BY DEF Keeps
<1> USE Types, Sorts, IdentityNow DEF Serving
<1>1. /\ boot[h] \in {"recover", "up"} /\ boot'[h] \in {"recover", "up"}
      /\ id[h] \in Ids /\ row[id[h]].host = h /\ row[id[h]].fresh /\ id[h] \notin Stale
  <2>1. id[h] \in Ids /\ row[id[h]] = [host |-> h, fresh |-> TRUE]
    OBVIOUS
  <2> QED  BY <2>1 DEF Stale
<1>2. CASE Quiet
  BY <1>2 DEF Quiet
<1>3. ASSUME NEW r \in Ids, Lapse(r)
      PROVE  id'[h] = id[h] /\ \A i \in Issues : owner[i] = id[h] => owner'[i] = id[h]
  BY <1>3 DEF Lapse
<1>4. ASSUME NEW g \in Hosts,
             \/ Boot(g) \/ FindSelf(g) \/ Renew(g) \/ FindOrphan(g) \/ Adopt(g) \/ Insert(g)
             \/ Absorb(g) \/ DeleteRows(g) \/ ClaimAll(g) \/ Crash(g)
      PROVE  g # h
  BY <1>1, <1>4 DEF Boot, FindSelf, Renew, FindOrphan, Adopt, Insert, Absorb, DeleteRows,
       ClaimAll, Crash, Goto
<1>5. ASSUME NEW g \in Hosts,
             \/ Boot(g) \/ FindSelf(g) \/ Renew(g) \/ FindOrphan(g) \/ Adopt(g) \/ Insert(g)
             \/ DeleteRows(g) \/ Crash(g) \/ RecoverScan(g) \/ Heartbeat(g) \/ ReleaseDead(g)
      PROVE  id'[h] = id[h] /\ \A i \in Issues : owner[i] = id[h] => owner'[i] = id[h]
  <2>1. id'[h] = id[h]
    BY <1>4, <1>5 DEF Boot, FindSelf, Renew, FindOrphan, Adopt, Insert, DeleteRows, Crash,
         RecoverScan, Heartbeat, ReleaseDead
  <2>2. owner' = owner \/ owner' = Released
    BY <1>5 DEF Boot, FindSelf, Renew, FindOrphan, Adopt, Insert, DeleteRows, Crash,
         RecoverScan, Heartbeat, ReleaseDead, db
  <2> QED  BY <1>1, <2>1, <2>2 DEF Released
<1>6. ASSUME NEW g \in Hosts, Absorb(g)
      PROVE  id'[h] = id[h] /\ \A i \in Issues : owner[i] = id[h] => owner'[i] = id[h]
  BY <1>1, <1>4, <1>6 DEF Absorb, RowsOf
<1>7. ASSUME NEW g \in Hosts, ClaimAll(g)
      PROVE  id'[h] = id[h] /\ \A i \in Issues : owner[i] = id[h] => owner'[i] = id[h]
  BY <1>1, <1>7 DEF ClaimAll, Claimed
<1>8. ASSUME NEW g \in Hosts, EnsureOwned(g)
      PROVE  id'[h] = id[h] /\ \A i \in Issues : owner[i] = id[h] => owner'[i] = id[h]
  BY <1>1, <1>8 DEF EnsureOwned, claimIssue, memory
<1> QED  BY <1>2, <1>3, <1>5, <1>6, <1>7, <1>8, LoudSteps

\* While a handler is at ensureOwned, an issue whose owner's lease is fresh is
\* not released.
LEMMA StaysTaken ==
  ASSUME Orderly, TypeOK, Identity, Handling, [Next]_vars,
         NEW k \in Hosts, hook[k].at = "own", NEW i \in Issues, owner[i] \in Rows \ Stale
  PROVE  owner'[i] \in (Rows \ Stale)'
<1> USE Types, Sorts, IdentityNow
<1> DEFINE Good == /\ owner'[i] \in Ids /\ row'[owner'[i]].host \in Hosts
                   /\ row'[owner'[i]].fresh
<1>s. SUFFICES Good
  BY DEF Rows, Stale
<1>n. owner[i] \in Ids /\ row[owner[i]].host \in Hosts /\ row[owner[i]].fresh
  BY DEF Rows, Stale
<1>1. CASE Quiet
  BY <1>1, <1>n DEF Quiet
<1>2. ASSUME NEW r \in Ids, Lapse(r) PROVE Good
  BY <1>2 DEF Lapse, Orderly
<1>3. ASSUME NEW g \in Hosts, Boot(g) \/ RecoverScan(g) \/ ReleaseDead(g) PROVE Good
  BY <1>3, <1>n DEF Boot, RecoverScan, ReleaseDead, Released
<1>4. ASSUME NEW g \in Hosts, FindSelf(g) \/ FindOrphan(g) \/ Crash(g) PROVE Good
  BY <1>4, <1>n DEF FindSelf, FindOrphan, Crash, db
<1>5. ASSUME NEW g \in Hosts, Renew(g) \/ Heartbeat(g) PROVE Good
  <2>1. row' = [row EXCEPT ![id[g]].fresh = TRUE] /\ owner' = owner
    BY <1>5 DEF Renew, Heartbeat, heartbeat
  <2>2. CASE owner[i] = id[g]
    <3>1. row[owner[i]] \in RowType /\ row'[owner[i]] = [row[owner[i]] EXCEPT !.fresh = TRUE]
      BY <2>1, <2>2, <1>n
    <3>2. row'[owner[i]].host = row[owner[i]].host /\ row'[owner[i]].fresh
      BY <3>1 DEF RowType
    <3> QED  BY <2>1, <3>2, <1>n
  <2>3. CASE owner[i] # id[g]
    BY <2>1, <2>3, <1>n
  <2> QED  BY <2>2, <2>3
<1>6. ASSUME NEW g \in Hosts, Adopt(g) \/ Insert(g) PROVE Good
  BY <1>6, <1>n DEF Adopt, Insert
<1>7. ASSUME NEW g \in Hosts, Absorb(g) \/ ClaimAll(g) PROVE Good
  <2>1. id[g] \in Ids /\ row[id[g]] = [host |-> g, fresh |-> TRUE] /\ row' = row
    BY <1>7 DEF Absorb, ClaimAll
  <2>2. owner'[i] \in {owner[i], id[g]}
    BY <1>7 DEF Absorb, ClaimAll, Claimed
  <2> QED  BY <2>1, <2>2, <1>n
<1>8. ASSUME NEW g \in Hosts, DeleteRows(g) PROVE Good
  BY <1>8, <1>n DEF DeleteRows, RowsOf, Rows
<1>9. ASSUME NEW g \in Hosts, EnsureOwned(g) PROVE Good
  BY <1>9, <1>n DEF EnsureOwned, claimIssue
<1> QED  BY <1>1, <1>2, <1>3, <1>4, <1>5, <1>6, <1>7, <1>8, <1>9, LoudSteps
-----------------------------------------------------------------------------
(* Webhooks                                                                *)

LEMMA StepIdentity == Orderly /\ TypeOK /\ Identity /\ Handling /\ [Next]_vars => Identity'
<1> SUFFICES ASSUME Orderly, TypeOK, Identity, Handling, [Next]_vars PROVE Identity'
  OBVIOUS
<1>1. CASE Quiet
  BY <1>1, WorkKeepsIdentity DEF Quiet, db
<1> QED  BY <1>1, LoudSteps, LeaseKeepsIdentity, ClaimKeepsIdentity, BootKeepsIdentity DEF BootStep

LEMMA OneIdentityHolds == Identity => OneIdentity
<1> SUFFICES ASSUME Identity, NEW g \in Hosts, NEW h \in Hosts, Registered(g), Registered(h),
                    id[g] = id[h]
             PROVE  g = h
  BY DEF OneIdentity
<1>1. row[id[g]] = [host |-> g, fresh |-> TRUE] /\ row[id[h]] = [host |-> h, fresh |-> TRUE]
  BY DEF Identity, HoldsRow
<1>2. row[id[g]].host = g /\ row[id[h]].host = h
  BY <1>1
<1> QED  BY <1>2

LEMMA OneHandlerHolds == TypeOK /\ Identity /\ Handling => OneHandler
<1> SUFFICES ASSUME TypeOK, Identity, Handling, NEW g \in Hosts, NEW h \in Hosts, g # h,
                    hook[g].at \in {"create", "run"}, hook[h].at \in {"create", "run"}
             PROVE  IssueOf[hook[g].msg] # IssueOf[hook[h].msg]
  BY DEF OneHandler
<1>1. Serving(g) /\ Serving(h) /\ Owns(g) /\ Owns(h)
  BY Sorts DEF Handling, Trusts
<1>2. id[g] # id[h]
  BY <1>1, OneIdentityHolds DEF OneIdentity, Serving, Registered
<1> QED  BY <1>1, <1>2 DEF Owns

LEMMA InitHandling == Init => Handling
BY CoordinationAssumption DEF Init, Handling, Trusts, TooLate, NoHook, CommentOnce

\* a message row is never taken back
Stored == \A m \in Msgs : status[m] # "none" => status'[m] # "none"

LEMMA ClaimStored ==
  ASSUME TypeOK, NEW h \in Hosts, NEW m \in Msgs, NEW dropped, ClaimAndRun(h, m, dropped)
  PROVE  Stored
BY Types DEF ClaimAndRun, Stored

LEMMA SessionStored ==
  ASSUME TypeOK, NEW h \in Hosts, NEW i \in Issues, RecoverSession(h, i)
  PROVE  Stored
<1> USE Types DEF Stored
<1>1. CASE RecoverSkip(h, i)
  BY <1>1 DEF RecoverSkip
<1>2. CASE RecoverDenied(h, i)
  BY <1>2 DEF RecoverDenied
<1>3. CASE RecoverRun(h, i)
  <2>1. \A m \in Msgs : status[m] # "none" => Requeued(h, i)[m] # "none"
    BY DEF Requeued
  <2>2. \A m \in Msgs : Requeued(h, i)[m] # "none" => status'[m] # "none"
    BY <1>3 DEF RecoverRun, Requeued
  <2> QED  BY <2>1, <2>2
<1> QED  BY <1>1, <1>2, <1>3 DEF RecoverSession

LEMMA StepStored == TypeOK /\ [Next]_vars => Stored
<1> SUFFICES ASSUME TypeOK, [Next]_vars PROVE Stored
  OBVIOUS
<1> USE Types
<1>1. CASE UNCHANGED status
  BY <1>1 DEF Stored
<1>2. ASSUME NEW h \in Hosts, CreateMessage(h) PROVE Stored
  BY <1>2 DEF CreateMessage, Stored
<1>3. ASSUME NEW h \in Hosts, EnqueueOrRun(h) PROVE Stored
  <2>1. hook[h].msg \in Msgs
    BY <1>3, HookTypes DEF EnqueueOrRun
  <2> QED  BY <1>1, <1>3, <2>1, ClaimStored DEF EnqueueOrRun
<1>4. ASSUME NEW h \in Hosts, NEW m \in Msgs, Finish(h, m) \/ Dequeue(h, m) PROVE Stored
  BY <1>4 DEF Finish, Dequeue, Stored
<1>5. ASSUME NEW h \in Hosts, DrainClaim(h) PROVE Stored
  BY <1>5, ClaimStored DEF DrainClaim
<1>6. ASSUME NEW h \in Hosts, RecoverScan(h) PROVE Stored
  BY <1>6 DEF RecoverScan, Stored
<1>7. ASSUME NEW h \in Hosts, NEW i \in Issues, RecoverSession(h, i) PROVE Stored
  BY <1>7, SessionStored
<1>8. ASSUME NEW h \in Hosts,
             \/ Boot(h) \/ FindSelf(h) \/ Renew(h) \/ FindOrphan(h) \/ Adopt(h) \/ Insert(h)
             \/ Absorb(h) \/ DeleteRows(h) \/ ClaimAll(h) \/ Heartbeat(h) \/ ReleaseDead(h)
             \/ EnsureOwned(h) \/ Crash(h)
             \/ \E m \in Msgs : Receive(h, m) \/ DrainPick(h, m)
             \/ \E i \in Issues : FixSession(h, i)
      PROVE  UNCHANGED status
  BY <1>8 DEF Boot, FindSelf, Renew, FindOrphan, Adopt, Insert, Absorb, DeleteRows, ClaimAll,
       Heartbeat, ReleaseDead, EnsureOwned, Crash, Receive, DrainPick, FixSession, work
<1>9. ASSUME NEW r \in Ids, Lapse(r) PROVE UNCHANGED status
  BY <1>9 DEF Lapse, work
<1>10. UNCHANGED vars => UNCHANGED status
  BY DEF vars
<1> QED  BY <1>1, <1>2, <1>3, <1>4, <1>5, <1>6, <1>7, <1>8, <1>9, <1>10
         DEF Next, BootStep, HookStep, RunStep
LEMMA ServingStays ==
  ASSUME [Next]_vars, TypeOK, NEW k \in Hosts, Serving(k), ~Crash(k)
  PROVE  Serving(k)'
<1> USE Types DEF Serving
<1>1. CASE Quiet
  BY <1>1 DEF Quiet
<1>2. ASSUME NEW r \in Ids, Lapse(r) PROVE Serving(k)'
  BY <1>2 DEF Lapse
<1>3. ASSUME NEW g \in Hosts,
             \/ Boot(g) \/ FindSelf(g) \/ Renew(g) \/ FindOrphan(g) \/ Adopt(g) \/ Insert(g)
             \/ Absorb(g) \/ DeleteRows(g) \/ ClaimAll(g) \/ RecoverScan(g) \/ Crash(g)
      PROVE  Serving(k)'
  BY <1>3 DEF Boot, FindSelf, Renew, FindOrphan, Adopt, Insert, Absorb, DeleteRows, ClaimAll,
       RecoverScan, Crash, Goto
<1>4. ASSUME NEW g \in Hosts, Heartbeat(g) \/ ReleaseDead(g) \/ EnsureOwned(g) PROVE Serving(k)'
  BY <1>4 DEF Heartbeat, ReleaseDead, EnsureOwned, memory
<1> QED  BY <1>1, <1>2, <1>3, <1>4, LoudSteps

\* what a handler relies on survives the steps of others
LEMMA OthersKeep ==
  ASSUME Orderly, TypeOK, Identity, Handling, [Next]_vars,
         NEW k \in Hosts, hook'[k] = hook[k], ~Crash(k),
         hook[k].at \in {"own", "create"} => made'[hook[k].msg] = made[hook[k].msg]
  PROVE  (Trusts(k) /\ TooLate(k))'
<1> USE Types, Sorts
<1>1. CASE hook[k] = NoHook
  BY <1>1 DEF Trusts, TooLate
<1>2. CASE hook[k] # NoHook
  <2>1. Serving(k) /\ Serving(k)'
    BY <1>2, ServingStays DEF Handling, Trusts
  <2>2. /\ hook[k] \in WebHook /\ hook[k].msg \in Msgs /\ IssueOf[hook[k].msg] \in Issues
        /\ hook'[k] = hook[k] /\ id'[k] = id[k]
    BY <1>2, <2>1, StepKeeps DEF Keeps
  <2>3. Owns(k) => Owns(k)'
    BY <2>1, <2>2, StepKeeps DEF Keeps, Owns
  <2>4. Trusts(k)'
    BY <2>1, <2>2, <2>3 DEF Handling, Trusts
  <2>5. TooLate(k)'
    <3> DEFINE m == hook[k].msg
    <3>1. ASSUME hook[k].at = "own", made[m] > 0
          PROVE  hook[k].owner # id[k] /\ owner'[IssueOf[m]] \in (Rows \ Stale)'
      BY <3>1, <2>2, StaysTaken DEF Handling, TooLate
    <3>2. hook[k].at = "create" => made[m] = 0
      BY DEF Handling, TooLate
    <3> QED  BY <3>1, <3>2, <2>2 DEF TooLate
  <2> QED  BY <2>4, <2>5
<1> QED  BY <1>1, <1>2
\* the parts of Handling that are about messages
LEMMA HandlingFrame ==
  ASSUME TypeOK, Handling, [Next]_vars, UNCHANGED made,
         \A k \in Hosts : (Trusts(k) /\ TooLate(k))'
  PROVE  Handling'
<1>1. \A m \in Msgs : made'[m] > 0 => status'[m] # "none"
  BY StepStored DEF Stored, Handling
<1> QED  BY <1>1 DEF Handling, CommentOnce

LEMMA ReceiveKeeps ==
  ASSUME Orderly, TypeOK, Identity, Handling, [Next]_vars, NEW h \in Hosts, NEW m \in Msgs, Receive(h, m)
  PROVE  Handling'
<1> USE Types, Sorts
<1>1. /\ hook'[h] = [at |-> "own", msg |-> m, owner |-> owner[IssueOf[m]]]
      /\ \A k \in Hosts : k # h => hook'[k] = hook[k]
      /\ UNCHANGED <<row, owner, boot, id, made>>
      /\ Serving(h) /\ status[m] = "none"
  BY DEF Receive, db, memory
<1>2. ASSUME NEW k \in Hosts, k # h PROVE (Trusts(k) /\ TooLate(k))'
  <2>1. ~Crash(k)
    BY <1>1 DEF Crash, Serving, Goto
  <2> QED  BY <1>1, <1>2, <2>1, OthersKeep
<1>3. Trusts(h)'
  BY <1>1 DEF Trusts, Owns, Serving
<1>4. TooLate(h)'
  BY <1>1 DEF TooLate, Handling
<1> QED  BY <1>1, <1>2, <1>3, <1>4, HandlingFrame

LEMMA OwnKeeps ==
  ASSUME Orderly, TypeOK, Identity, Handling, [Next]_vars, NEW h \in Hosts, EnsureOwned(h)
  PROVE  Handling'
<1> USE Types, Sorts
<1> DEFINE m == hook[h].msg
<1>1. /\ hook[h].at = "own" /\ hook[h] \in WebHook /\ m \in Msgs /\ IssueOf[m] \in Issues
      /\ Serving(h) /\ UNCHANGED <<boot, id, made>>
      /\ \A k \in Hosts : k # h => hook'[k] = hook[k]
  BY HookTypes DEF EnsureOwned, Handling, Trusts, memory, Proceed, Return
<1>2. ASSUME NEW k \in Hosts, k # h PROVE (Trusts(k) /\ TooLate(k))'
  <2>1. ~Crash(k)
    BY <1>1 DEF Crash, Goto
  <2> QED  BY <1>1, <1>2, <2>1, OthersKeep
<1>3. (Trusts(h) /\ TooLate(h))'
  <2>1. CASE hook'[h] = NoHook
    BY <2>1 DEF Trusts, TooLate
  <2>2. CASE hook'[h] # NoHook
    <3>1. /\ hook' = [hook EXCEPT ![h].at = "create"]
          /\ \/ hook[h].owner = id[h] /\ UNCHANGED owner
             \/ hook[h].owner # id[h] /\ owner[IssueOf[m]] = NoId
                /\ owner' = [owner EXCEPT ![IssueOf[m]] = id[h]]
      BY <2>2 DEF EnsureOwned, Proceed, Return, claimIssue
    <3>2. hook'[h] = [hook[h] EXCEPT !.at = "create"]
      BY <3>1
    <3>3. hook'[h].at = "create" /\ hook'[h].msg = m
      BY <1>1, <3>2 DEF WebHook
    <3>4. owner'[IssueOf[m]] = id[h]
      BY <1>1, <3>1 DEF Handling, Trusts, Owns
    <3>5. made[m] = 0
      <4>1. ~(made[m] > 0)
        BY <1>1, <3>1 DEF Handling, TooLate, Rows, Trusts, Owns
      <4> QED  BY <1>1, <4>1
    <3> QED  BY <1>1, <3>3, <3>4, <3>5 DEF Trusts, TooLate, Owns, Serving
  <2> QED  BY <2>1, <2>2
<1> QED  BY <1>1, <1>2, <1>3, HandlingFrame

LEMMA CreateKeeps ==
  ASSUME Orderly, TypeOK, Identity, Handling, [Next]_vars, NEW h \in Hosts, CreateMessage(h)
  PROVE  Handling'
<1> USE Types, Sorts
<1> DEFINE m == hook[h].msg
<1>1. /\ hook[h].at = "create" /\ hook[h] \in WebHook /\ m \in Msgs /\ IssueOf[m] \in Issues
      /\ Serving(h) /\ Owns(h) /\ made[m] = 0 /\ UNCHANGED <<row, owner, boot, id>>
  BY HookTypes DEF CreateMessage, Handling, Trusts, TooLate, memory, db
<1>2. /\ made' = [made EXCEPT ![m] = 1] /\ status' = [status EXCEPT ![m] = "pending"]
      /\ hook' = [hook EXCEPT ![h].at = "run"]
  BY <1>1 DEF CreateMessage
<1>3. hook'[h].at = "run" /\ hook'[h].msg = m
  BY <1>1, <1>2 DEF WebHook
<1>4. (Trusts(h) /\ TooLate(h))'
  BY <1>1, <1>3 DEF Trusts, TooLate, Owns, Serving
<1>5. ASSUME NEW k \in Hosts, k # h PROVE (Trusts(k) /\ TooLate(k))'
  <2>1. hook'[k] = hook[k] /\ ~Crash(k)
    BY <1>1, <1>2, <1>5 DEF Crash, Goto, Serving
  <2>2. CASE hook[k].at \in {"own", "create"} /\ hook[k].msg = m
    <3>1. Serving(k) /\ Registered(k) /\ Registered(h)
      BY <1>1, <2>2 DEF Handling, Trusts, Serving, Registered
    <3>2. id[k] # id[h]
      BY <1>5, <3>1, OneIdentityHolds DEF OneIdentity
    <3>3. hook[k].at = "own"
      BY <1>1, <1>5, <2>2, OneHandlerHolds DEF OneHandler
    <3>4. hook[k].owner # id[k]
      BY <1>1, <2>2, <3>2, <3>3 DEF Handling, Trusts, Owns
    <3>5. owner[IssueOf[m]] \in Rows \ Stale
      <4>1. id[h] \in Ids /\ row[id[h]] = [host |-> h, fresh |-> TRUE]
        BY <3>1 DEF Identity, HoldsRow
      <4> QED  BY <1>1, <4>1 DEF Owns, Rows, Stale
    <3>6. hook'[k].at = "own" /\ hook'[k].msg = m /\ hook'[k].owner # id'[k]
      BY <1>1, <2>1, <2>2, <3>3, <3>4
    <3>7. owner'[IssueOf[m]] \in (Rows \ Stale)'
      BY <1>1, <3>5 DEF Rows, Stale
    <3>8. Trusts(k)'
      BY <1>1, <3>1, <3>6 DEF Trusts, Serving
    <3> QED  BY <3>6, <3>7, <3>8 DEF TooLate
  <2>3. CASE ~(hook[k].at \in {"own", "create"} /\ hook[k].msg = m)
    <3>1. hook[k].at \in {"own", "create"} => made'[hook[k].msg] = made[hook[k].msg]
      BY <1>2, <2>3, HookTypes
    <3> QED  BY <2>1, <3>1, OthersKeep
  <2> QED  BY <2>2, <2>3
<1>6. \A x \in Msgs : made'[x] > 0 => status'[x] # "none"
  BY <1>2 DEF Handling
<1>7. CommentOnce'
  BY <1>2 DEF CommentOnce, Handling
<1> QED  BY <1>4, <1>5, <1>6, <1>7 DEF Handling

LEMMA StepHandling == Orderly /\ TypeOK /\ Identity /\ Handling /\ [Next]_vars => Handling'
<1> SUFFICES ASSUME Orderly, TypeOK, Identity, Handling, [Next]_vars PROVE Handling'
  OBVIOUS
<1> USE Types
\* the daemon h leaves its handler, or goes on in it, and nobody else moves
<1>1. ASSUME NEW h \in Hosts, hook' = [hook EXCEPT ![h] = NoHook], UNCHANGED made,
             \A k \in Hosts : k # h => ~Crash(k)
      PROVE  Handling'
  <2>1. (Trusts(h) /\ TooLate(h))'
    BY <1>1, Sorts DEF Trusts, TooLate
  <2>2. ASSUME NEW k \in Hosts, k # h PROVE (Trusts(k) /\ TooLate(k))'
    BY <1>1, <2>2, OthersKeep
  <2> QED  BY <1>1, <2>1, <2>2, HandlingFrame
<1>2. ASSUME UNCHANGED <<hook, made>>, \A k \in Hosts : ~Crash(k) PROVE Handling'
  BY <1>2, OthersKeep, HandlingFrame
<1>3. ASSUME NEW h \in Hosts, Crash(h) PROVE Handling'
  <2>1. \A k \in Hosts : k # h => ~Crash(k)
    BY <1>3 DEF Crash, Goto
  <2> QED  BY <1>1, <1>3, <2>1 DEF Crash
<1>4. ASSUME NEW h \in Hosts, EnqueueOrRun(h) PROVE Handling'
  <2>1. \A k \in Hosts : ~Crash(k)
    BY <1>4 DEF EnqueueOrRun, memory, Crash, Goto
  <2> QED  BY <1>1, <1>4, <2>1 DEF EnqueueOrRun, Return
<1>5. CASE \E k \in Hosts : Crash(k)
  BY <1>3, <1>5
<1>6. CASE \A k \in Hosts : ~Crash(k)
  <2>1. ASSUME NEW h \in Hosts,
               \/ Boot(h) \/ FindSelf(h) \/ Renew(h) \/ FindOrphan(h) \/ Adopt(h) \/ Insert(h)
               \/ Absorb(h) \/ DeleteRows(h) \/ ClaimAll(h) \/ Heartbeat(h) \/ ReleaseDead(h)
               \/ RecoverScan(h) \/ DrainClaim(h)
               \/ \E m \in Msgs : DrainPick(h, m) \/ Finish(h, m) \/ Dequeue(h, m)
               \/ \E i \in Issues : RecoverSession(h, i) \/ FixSession(h, i)
        PROVE  UNCHANGED <<hook, made>>
    BY <2>1 DEF Boot, FindSelf, Renew, FindOrphan, Adopt, Insert, Absorb, DeleteRows, ClaimAll,
         Heartbeat, ReleaseDead, RecoverScan, DrainClaim, DrainPick, Finish, Dequeue,
         RecoverSession, FixSession, work
  <2>2. ASSUME NEW r \in Ids, Lapse(r) PROVE UNCHANGED <<hook, made>>
    BY <2>2 DEF Lapse, work
  <2>3. UNCHANGED vars => UNCHANGED <<hook, made>>
    BY DEF vars
  <2> QED  BY <1>2, <1>4, <1>6, <2>1, <2>2, <2>3, ReceiveKeeps, OwnKeeps, CreateKeeps
           DEF Next, BootStep, HookStep, RunStep
<1> QED  BY <1>5, <1>6
-----------------------------------------------------------------------------
(* Runs                                                                    *)

\* no statement's reply is lost
Answered == "timeout" \notin Env

\* What a step that leaves `crashes` alone owes to ClaimedIsRun.
Attends ==
  \A m \in Msgs : status'[m] = "running" =>
    \/ \E h \in Hosts : m \in runs'[h]
    \/ status[m] = "running" /\ \A h \in Hosts : m \in runs[h] => m \in runs'[h]

LEMMA ClaimAttends ==
  ASSUME Answered, TypeOK, NEW h \in Hosts, NEW m \in Msgs, NEW dropped, ClaimAndRun(h, m, dropped)
  PROVE  Attends
<1> USE Types
<1> SUFFICES ASSUME NEW x \in Msgs, status'[x] = "running", x \notin runs'[h]
             PROVE  status[x] = "running" /\ \A g \in Hosts : x \in runs[g] => x \in runs'[g]
  BY DEF Attends
<1>1. x # m \/ status'[m] # "running" \/ status[m] # "pending"
  BY DEF ClaimAndRun, Answered, ReplyLost
<1>2. x \notin dropped /\ status[x] = "running"
  BY <1>1 DEF ClaimAndRun, Answered, ReplyLost
<1>3. \A g \in Hosts : x \in runs[g] => x \in runs'[g]
  BY <1>2 DEF ClaimAndRun
<1> QED  BY <1>2, <1>3

LEMMA SessionAttends ==
  ASSUME TypeOK, NEW h \in Hosts, NEW i \in Issues, RecoverSession(h, i)
  PROVE  Attends
<1> USE Types DEF Attends
<1>1. CASE RecoverSkip(h, i)
  BY <1>1 DEF RecoverSkip
<1>2. CASE RecoverDenied(h, i)
  BY <1>2 DEF RecoverDenied
<1>3. CASE RecoverRun(h, i)
  <2>1. \A m \in Msgs : Requeued(h, i)[m] = "running" => status[m] = "running"
    BY DEF Requeued
  <2>2. \A g \in Hosts : runs[g] \subseteq runs'[g]
    BY <1>3 DEF RecoverRun
  <2>3. \A m \in Msgs : status'[m] = "running" => m \in runs'[h] \/ Requeued(h, i)[m] = "running"
    <3>1. PICK first \in {b.msg : b \in BatchOn(h, i)} :
              \/ /\ status' = [Requeued(h, i) EXCEPT ![first] = "running"]
                 /\ state' = [state EXCEPT ![i] = "running"]
                 /\ runs' = [runs EXCEPT ![h] = @ \cup {first}]
              \/ status' = Requeued(h, i) /\ UNCHANGED <<state, runs>>
              \/ \E x \in Msgs :
                   /\ status' = [[Requeued(h, i) EXCEPT ![first] = "done"] EXCEPT ![x] = "running"]
                   /\ state' = [state EXCEPT ![i] = "running"]
                   /\ runs' = [runs EXCEPT ![h] = @ \cup {x}]
              \/ status' = [Requeued(h, i) EXCEPT ![first] = "done"] /\ UNCHANGED <<state, runs>>
      BY <1>3, RecoverWrites
    <3>2. Requeued(h, i) \in [Msgs -> States]
      BY DEF Requeued, States
    <3> QED  BY <3>1, <3>2
  <2> QED  BY <2>1, <2>2, <2>3
<1> QED  BY <1>1, <1>2, <1>3 DEF RecoverSession

LEMMA StepAttends == Answered /\ TypeOK /\ [Next]_vars => Attends \/ \E h \in Hosts : Crash(h)
<1> SUFFICES ASSUME Answered, TypeOK, [Next]_vars, \A h \in Hosts : ~Crash(h) PROVE Attends
  OBVIOUS
<1> USE Types
<1>1. CASE UNCHANGED <<status, runs>>
  BY <1>1 DEF Attends
<1>2. ASSUME NEW h \in Hosts, CreateMessage(h) PROVE Attends
  BY <1>2 DEF CreateMessage, Attends
<1>3. ASSUME NEW h \in Hosts, EnqueueOrRun(h) PROVE Attends
  <2>1. hook[h].msg \in Msgs
    BY <1>3, HookTypes DEF EnqueueOrRun
  <2> QED  BY <1>1, <1>3, <2>1, ClaimAttends DEF EnqueueOrRun
<1>4. ASSUME NEW h \in Hosts, NEW m \in Msgs, Finish(h, m) PROVE Attends
  BY <1>4 DEF Finish, Attends
<1>5. ASSUME NEW h \in Hosts, NEW m \in Msgs, Dequeue(h, m) PROVE Attends
  BY <1>5 DEF Dequeue, Attends
<1>6. ASSUME NEW h \in Hosts, DrainClaim(h) PROVE Attends
  BY <1>6, ClaimAttends DEF DrainClaim
<1>7. ASSUME NEW h \in Hosts, RecoverScan(h) PROVE Attends
  BY <1>7 DEF RecoverScan, Attends
<1>8. ASSUME NEW h \in Hosts,
             \/ Boot(h) \/ FindSelf(h) \/ Renew(h) \/ FindOrphan(h) \/ Adopt(h) \/ Insert(h)
             \/ Absorb(h) \/ DeleteRows(h) \/ ClaimAll(h) \/ Heartbeat(h) \/ ReleaseDead(h)
             \/ EnsureOwned(h) \/ \E m \in Msgs : Receive(h, m) \/ DrainPick(h, m)
             \/ \E i \in Issues : FixSession(h, i)
      PROVE  UNCHANGED <<status, runs>>
  BY <1>8 DEF Boot, FindSelf, Renew, FindOrphan, Adopt, Insert, Absorb, DeleteRows, ClaimAll,
       Heartbeat, ReleaseDead, EnsureOwned, Receive, DrainPick, FixSession, work
<1>9. ASSUME NEW r \in Ids, Lapse(r) PROVE UNCHANGED <<status, runs>>
  BY <1>9 DEF Lapse, work
<1>10. UNCHANGED vars => UNCHANGED <<status, runs>>
  BY DEF vars
<1> QED  BY <1>1, <1>2, <1>3, <1>4, <1>5, <1>6, <1>7, <1>8, <1>9, <1>10, SessionAttends
         DEF Next, BootStep, HookStep, RunStep

LEMMA CrashesStay == [Next]_vars => UNCHANGED crashes \/ \E h \in Hosts : Crash(h)
<1>1. ASSUME NEW h \in Hosts,
             \/ Boot(h) \/ FindSelf(h) \/ Renew(h) \/ FindOrphan(h) \/ Adopt(h) \/ Insert(h)
             \/ Absorb(h) \/ DeleteRows(h) \/ ClaimAll(h) \/ RecoverScan(h)
      PROVE  UNCHANGED crashes
  BY <1>1 DEF Boot, FindSelf, Renew, FindOrphan, Adopt, Insert, Absorb, DeleteRows, ClaimAll,
       RecoverScan, work
<1>2. ASSUME NEW h \in Hosts,
             \/ Heartbeat(h) \/ ReleaseDead(h) \/ EnsureOwned(h) \/ CreateMessage(h)
             \/ EnqueueOrRun(h) \/ DrainClaim(h)
             \/ \E m \in Msgs : Receive(h, m) \/ DrainPick(h, m) \/ Finish(h, m) \/ Dequeue(h, m)
             \/ \E i \in Issues : RecoverSession(h, i) \/ FixSession(h, i)
      PROVE  UNCHANGED crashes
  BY <1>2 DEF Heartbeat, ReleaseDead, EnsureOwned, CreateMessage, EnqueueOrRun, DrainClaim, Receive,
       DrainPick, Finish, Dequeue, RecoverSession, FixSession, work, memory
<1>3. ASSUME NEW r \in Ids, Lapse(r) PROVE UNCHANGED crashes
  BY <1>3 DEF Lapse, work
<1>4. UNCHANGED vars => UNCHANGED crashes
  BY DEF vars
<1> QED  BY <1>1, <1>2, <1>3, <1>4 DEF Next, BootStep, HookStep, RunStep

-----------------------------------------------------------------------------
(* Theorems                                                                *)

\* Every variable keeps its type, whatever daemons, webhooks and the database
\* do (Env).
THEOREM CoordinationTypes == Spec => []TypeOK
<1> QED  BY InitTypes, StepTypes, PTL DEF Spec

\* The inductive invariant: who holds which row, and what handlers rely on.
THEOREM CoordinationInvariant == Orderly /\ Spec => []CoordinationInv
<1>1. Init => CoordinationInv
  BY InitTypes, InitIdentity, InitHandling DEF CoordinationInv
<1>2. Orderly /\ CoordinationInv /\ [Next]_vars => CoordinationInv'
  BY StepTypes, StepIdentity, StepHandling DEF CoordinationInv
<1>3. Orderly => Orderly'
  BY DEF Orderly
<1> QED  BY <1>1, <1>2, <1>3, PTL DEF Spec

\* Every owner of an issue is a row of table daemons: absorbing and deleting
\* the rows of a host, adoption and the release of dead owners leave no issue
\* with an owner that nobody will ever release.
THEOREM OwnerIsRegisteredHolds == Orderly /\ Spec => []OwnerIsRegistered
<1>1. CoordinationInv => OwnerIsRegistered
  BY DEF CoordinationInv, Identity
<1> QED  BY <1>1, CoordinationInvariant, PTL

\* registerDaemon never hands one row to two daemons.
THEOREM OneIdentityTheorem == Orderly /\ Spec => []OneIdentity
<1>1. CoordinationInv => OneIdentity
  BY OneIdentityHolds DEF CoordinationInv
<1> QED  BY <1>1, CoordinationInvariant, PTL

\* ensureOwned lets at most one daemon handle webhooks of an issue at a time.
THEOREM OneHandlerTheorem == Orderly /\ Spec => []OneHandler
<1>1. CoordinationInv => OneHandler
  BY OneHandlerHolds DEF CoordinationInv
<1> QED  BY <1>1, CoordinationInvariant, PTL

\* A comment delivered to several daemons becomes one message row at most, also
\* when claims lose their replies and machines are lost.
THEOREM CommentOnceHolds == Orderly /\ Spec => []CommentOnce
<1>1. CoordinationInv => CommentOnce
  BY DEF CoordinationInv, Handling
<1> QED  BY <1>1, CoordinationInvariant, PTL

\* A daemon that serves loses no issue to the releases, absorptions and claims
\* of others.
THEOREM KeepsIssuesHolds == Orderly /\ Spec => KeepsIssues
<1>1. Orderly /\ CoordinationInv /\ [Next]_vars
      => [\A h \in Hosts, i \in Issues :
            Serving(h) /\ Serving(h)' /\ owner[i] = id[h] => owner'[i] = id[h]]_vars
  BY StepKeeps DEF Keeps, CoordinationInv
<1>2. Orderly => Orderly'
  BY DEF Orderly
<1> QED  BY <1>1, <1>2, CoordinationInvariant, PTL DEF Spec, KeepsIssues

\* Unless a machine or the reply to a claim is lost, a message recorded as
\* running is run by somebody, however daemons race, stall and recover.
THEOREM ClaimedIsRunHolds == Answered /\ Spec => []ClaimedIsRun
<1>1. Init => ClaimedIsRun
  BY DEF Init, ClaimedIsRun
<1>2. Answered /\ TypeOK /\ ClaimedIsRun /\ [Next]_vars => ClaimedIsRun'
  <2> SUFFICES ASSUME Answered, TypeOK, ClaimedIsRun, [Next]_vars, crashes' = 0,
                      NEW m \in Msgs, status'[m] = "running"
               PROVE  \E h \in Hosts : m \in runs'[h]
    BY DEF ClaimedIsRun
  <2>1. \A h \in Hosts : ~Crash(h)
    BY Types DEF Crash
  <2>2. crashes = 0
    BY CrashesStay, <2>1
  <2> QED  BY <2>1, <2>2, StepAttends DEF Attends, ClaimedIsRun
<1>3. Answered => Answered'
  BY DEF Answered
<1> QED  BY <1>1, <1>2, <1>3, CoordinationTypes, PTL DEF Spec
=============================================================================
