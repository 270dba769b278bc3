---------------------------- MODULE Coordination ----------------------------
(***************************************************************************)
(* Several ework-daemons on one shared database (src/op.ts, the boot of    *)
(* src/index.ts, and ensureOwned, claimMessage, drainGlobalPending and     *)
(* recover of src/opencode.ts): registration and identity, leases,         *)
(* ownership of issues, claims of messages, the loss of a machine and the  *)
(* recovery of its work.                                                   *)
(*                                                                         *)
(* What one engine does with a run is module Scheduler's; here a run is a  *)
(* member of runs[h], from the moment its message is made running to the   *)
(* moment its outcome is stored.  Every issue has one session.  A step is  *)
(* one SQL statement, or several that no other daemon can tell apart.      *)
(***************************************************************************)
EXTENDS Naturals, FiniteSets

CONSTANTS
  Hosts,       \* machines, each a (hostname, endpoint) with one daemon
  NoHost,      \* the host of a row not yet inserted
  Gone,        \* the host of a row that was deleted
  Ids,         \* ids of rows of table daemons
  Legacy,      \* rows that earlier deployments left in the table
  Issues,
  Msgs,        \* user comments, each at most one message row
  IssueOf,     \* the issue a comment is posted on
  Cap,         \* maxConcurrent of every daemon
  MaxCrashes,  \* bound: machines lost during a behavior
  Env          \* what may go wrong; a subset of EnvEvents

EnvEvents == { "race",        \* daemons boot at the same time
               "early",       \* webhooks and observer cycles meet recover() at work
               "stall",       \* a live daemon misses its lease
               "timeout",     \* a statement takes effect and its reply is lost
               "deny",        \* the web gate refuses a recovered session
               "unreachable", \* the web is down while a daemon recovers
               "replied" }    \* the bot had replied before the machine was lost

NoId  == 0
NoMsg == 0

ASSUME CoordinationAssumption ==
  /\ Ids \subseteq Nat \ {0} /\ Legacy \subseteq Ids
  /\ Msgs \subseteq Nat \ {0}
  /\ IssueOf \in [Msgs -> Issues]
  /\ Cap \in Nat \ {0}
  /\ MaxCrashes \in Nat
  /\ NoHost \notin Hosts /\ Gone \notin Hosts /\ NoHost # Gone

VARIABLES
  \* the shared database
  row,      \* daemons: who holds each row, and whether its lease is fresh
  owner,    \* issues.owner_daemon_id
  status,   \* messages.status, or "none" before the row exists
  state,    \* op_sessions.state of the issue's session
  \* each daemon
  boot,     \* where boot() stands
  id,       \* daemonId, or the row that registerDaemon has read
  hook,     \* the webhook handler in flight
  drain,    \* the message drainGlobalPending is about to claim
  next,     \* the messages a finished run is about to dequeue
  batch,    \* the messages recover() has yet to treat, with their status as read
  observed, \* the issues the observer watches
  runs,     \* the messages that processes on this machine work on
  \* history
  made,     \* how often a comment was made a message
  replaced, \* the messages that a newer one preempted
  crashes

vars == <<row, owner, status, state, boot, id, hook, drain, next, batch,
          observed, runs, made, replaced, crashes>>
db     == <<row, owner>>
work   == <<status, state, hook, drain, next, batch, observed, runs, made, replaced,
            crashes>>
memory == <<boot, id, observed, crashes>>

NoHook    == [at |-> "idle", msg |-> NoMsg, owner |-> NoId]
BootSteps == {"find", "renew", "orphan", "adopt", "insert", "absorb", "delete", "claim"}
Serving(h)    == boot[h] \in {"recover", "up"}
Registered(h) == boot[h] \in {"absorb", "delete", "claim", "recover", "up"}

Rows      == {r \in Ids : row[r].host \in Hosts}
RowsOf(h) == {r \in Rows : row[r].host = h}
\* Mutant: the cutoff is not applied.
StaleAny  == Rows
Stale     == {r \in Rows : ~row[r].fresh}
\* listOwnedIssues, by the owners o
Owned(h, o) == {i \in Issues : o[i] = id[h]}
\* issues.owner_daemon_id after claimAllOwnerless
Claimed(d) == [i \in Issues |-> IF owner[i] = NoId THEN d ELSE owner[i]]
\* Mutant: every owner is released.
ReleasedAll == [i \in Issues |-> NoId]
\* issues.owner_daemon_id after releaseDeadOwners
Released  == [i \in Issues |-> IF owner[i] \in Stale THEN NoId ELSE owner[i]]

MsgsOn(i)   == {m \in Msgs : IssueOf[m] = i}
RunsOn(h, i) == {m \in runs[h] : IssueOf[m] = i}
\* this.running, whose keys are sessions
Busy(h)     == {IssueOf[m] : m \in runs[h]}
HasSlot(h)  == Cardinality(Busy(h)) < Cap
PendingOn(i) == {m \in MsgsOn(i) : status[m] = "pending"}

Init ==
  /\ row \in {t \in [Ids -> [host : Hosts \cup {NoHost}, fresh : BOOLEAN]] :
                \A r \in Ids : /\ t[r].host = NoHost <=> r \notin Legacy
                               /\ t[r].fresh => r \in Legacy}
  /\ owner \in [Issues -> Legacy \cup {NoId}]
  /\ status = [m \in Msgs |-> "none"]
  /\ state = [i \in Issues |-> "idle"]
  /\ boot = [h \in Hosts |-> "down"]
  /\ id = [h \in Hosts |-> NoId]
  /\ hook = [h \in Hosts |-> NoHook]
  /\ drain = [h \in Hosts |-> NoMsg]
  /\ next = [h \in Hosts |-> {}]
  /\ batch = [h \in Hosts |-> {}]
  /\ observed = [h \in Hosts |-> {}]
  /\ runs = [h \in Hosts |-> {}]
  /\ made = [m \in Msgs |-> 0]
  /\ replaced = {}
  /\ crashes = 0

-----------------------------------------------------------------------------
(* boot(): releaseDeadOwners, registerDaemon, absorbSameHostDaemons,       *)
(* claimAllOwnerless                                                       *)

Goto(h, step) == boot' = [boot EXCEPT ![h] = step]

Boot(h) ==
  /\ boot[h] = "down"
  /\ "race" \notin Env => \A g \in Hosts : boot[g] \notin BootSteps
  /\ owner' = Released
  /\ Goto(h, "find")
  /\ UNCHANGED <<row, id, work>>

\* SELECT the row of the same name and endpoint
FindSelf(h) ==
  /\ boot[h] = "find"
  /\ \/ \E r \in RowsOf(h) : id' = [id EXCEPT ![h] = r] /\ Goto(h, "renew")
     \/ RowsOf(h) = {} /\ Goto(h, "orphan") /\ UNCHANGED id
  /\ UNCHANGED <<db, work>>

\* UPDATE it by id; whose it has become since is not looked at
Renew(h) ==
  /\ boot[h] = "renew"
  /\ row' = [row EXCEPT ![id[h]].fresh = TRUE]
  /\ Goto(h, "absorb")
  /\ UNCHANGED <<owner, id, work>>

\* SELECT a row whose lease has expired
FindOrphan(h) ==
  /\ boot[h] = "orphan"
  /\ \/ \E r \in Stale : id' = [id EXCEPT ![h] = r] /\ Goto(h, "adopt")
     \/ Stale = {} /\ Goto(h, "insert") /\ UNCHANGED id
  /\ UNCHANGED <<db, work>>

\* UPDATE it provided that its lease is still expired
Adopt(h) ==
  /\ boot[h] = "adopt"
  /\ IF id[h] \in Stale
       THEN /\ row' = [row EXCEPT ![id[h]] = [host |-> h, fresh |-> TRUE]]
            /\ Goto(h, "absorb")
            /\ UNCHANGED id
       ELSE /\ Goto(h, "insert")
            /\ id' = [id EXCEPT ![h] = NoId]
            /\ UNCHANGED row
  /\ UNCHANGED <<owner, work>>

Insert(h) ==
  /\ boot[h] = "insert"
  /\ \E r \in Ids :
       /\ row[r].host = NoHost
       /\ row' = [row EXCEPT ![r] = [host |-> h, fresh |-> TRUE]]
       /\ id' = [id EXCEPT ![h] = r]
  /\ Goto(h, "absorb")
  /\ UNCHANGED <<owner, work>>

\* Mutant: the issues are not transferred.
AbsorbNothing(h) == boot[h] = "absorb" /\ Goto(h, "delete") /\ UNCHANGED <<db, id, work>>

\* the issues of other rows of this host move to this one ...
Absorb(h) ==
  /\ boot[h] = "absorb"
  /\ owner' = [i \in Issues |-> IF owner[i] \in RowsOf(h) THEN id[h] ELSE owner[i]]
  /\ Goto(h, "delete")
  /\ UNCHANGED <<row, id, work>>

\* ... and those rows are deleted
DeleteRows(h) ==
  /\ boot[h] = "delete"
  /\ row' = [r \in Ids |-> IF r \in RowsOf(h) \ {id[h]}
                             THEN [host |-> Gone, fresh |-> FALSE] ELSE row[r]]
  /\ Goto(h, "claim")
  /\ UNCHANGED <<owner, id, work>>

\* claimAllOwnerless, then the Engine is constructed and serves webhooks
ClaimAll(h) ==
  /\ boot[h] = "claim"
  /\ owner' = Claimed(id[h])
  /\ Goto(h, "recover")
  /\ UNCHANGED <<row, id, work>>

-----------------------------------------------------------------------------
(* Leases                                                                  *)

\* UPDATE last_heartbeat by id
heartbeat(d) == row' = [row EXCEPT ![d].fresh = TRUE]

Heartbeat(h) ==
  /\ Serving(h) /\ id[h] \in Stale
  /\ heartbeat(id[h])
  /\ UNCHANGED <<owner, boot, id, work>>

\* leaseTtlMs pass without a heartbeat.  Unless daemons stall, this happens
\* to rows no live daemon beats for, and no handler takes that long between
\* its reads and its claim.
Lapse(r) ==
  /\ r \in Rows \ Stale
  /\ "stall" \notin Env => \A h \in Hosts : /\ ~(Registered(h) /\ id[h] = r)
                                            /\ hook[h].at # "own"
  /\ row' = [row EXCEPT ![r].fresh = FALSE]
  /\ UNCHANGED <<owner, boot, id, work>>

\* Mutant: only a daemon that has just booted releases them.
ReleaseDeadAtBoot(h) ==
  /\ boot[h] = "recover" /\ Released # owner
  /\ owner' = Released
  /\ UNCHANGED <<row, boot, id, work>>

\* the observer cycle of a daemon releases the issues of expired owners
ReleaseDead(h) ==
  /\ Serving(h) /\ Released # owner
  /\ owner' = Released
  /\ UNCHANGED <<row, boot, id, work>>

-----------------------------------------------------------------------------
(* Webhook delivery of comment m: dedupe and read the issue; ensureOwned;  *)
(* createMessage; run, preempt or queue                                    *)

\* Mutant: the comment is not looked up among the messages.
ReceiveAgain(h, m) ==
  /\ Serving(h) /\ hook[h] = NoHook
  /\ hook' = [hook EXCEPT ![h] = [at |-> "own", msg |-> m, owner |-> owner[IssueOf[m]]]]
  /\ UNCHANGED <<db, memory, status, state, drain, next, batch, runs, made, replaced>>

Receive(h, m) ==
  /\ Serving(h) /\ hook[h] = NoHook /\ status[m] = "none"
  /\ "early" \notin Env => (boot[h] = "up" /\ batch[h] = {})
  /\ hook' = [hook EXCEPT ![h] = [at |-> "own", msg |-> m, owner |-> owner[IssueOf[m]]]]
  /\ UNCHANGED <<db, memory, status, state, drain, next, batch, runs, made, replaced>>

\* withDbRetry repeats a conditional UPDATE whose reply was lost although it
\* took effect: the second try changes no row.
ReplyLost == "timeout" \in Env

\* claimIssue: owner_daemon_id is set if it IS NULL
claimIssue(i, d) == owner[i] = NoId /\ owner' = [owner EXCEPT ![i] = d]

Proceed(h) == hook' = [hook EXCEPT ![h].at = "create"]
Return(h)  == hook' = [hook EXCEPT ![h] = NoHook]

\* Mutant: the answer of claimIssue is ignored.
EnsureOwnedAnyway(h) ==
  /\ hook[h].at = "own"
  /\ Proceed(h)
  /\ owner' = [i \in Issues |-> IF i = IssueOf[hook[h].msg] /\ owner[i] = NoId
                                 THEN id[h] ELSE owner[i]]
  /\ UNCHANGED <<row, memory, status, state, drain, next, batch, runs, made, replaced>>

\* ensureOwned: the issue as it was read decides, else claimIssue does
EnsureOwned(h) ==
  LET i == IssueOf[hook[h].msg] IN
  /\ hook[h].at = "own"
  /\ \/ hook[h].owner = id[h] /\ Proceed(h) /\ UNCHANGED owner
     \/ /\ hook[h].owner # id[h] /\ claimIssue(i, id[h])
        /\ Proceed(h) \/ (ReplyLost /\ Return(h))
     \/ hook[h].owner # id[h] /\ owner[i] # NoId /\ Return(h) /\ UNCHANGED owner
  /\ UNCHANGED <<row, memory, status, state, drain, next, batch, runs, made, replaced>>

\* a second row for the same comment is counted, and not followed further
CreateMessage(h) ==
  LET m == hook[h].msg IN
  /\ hook[h].at = "create"
  /\ made' = [made EXCEPT ![m] = @ + 1]
  /\ IF made[m] = 0
       THEN /\ status' = [status EXCEPT ![m] = "pending"]
            /\ hook' = [hook EXCEPT ![h].at = "run"]
       ELSE Return(h) /\ UNCHANGED status
  /\ UNCHANGED <<db, memory, state, drain, next, batch, runs, replaced>>

\* claimMessage: pending -> running, if this daemon wins.  The winner runs
\* the message unless the reply is lost.  `dropped` are runs that end before.
ClaimAndRun(h, m, dropped) ==
  LET won == status[m] = "pending"
      before == [x \in Msgs |-> IF x \in dropped THEN "interrupted" ELSE status[x]]
  IN \/ /\ won
        /\ status' = [before EXCEPT ![m] = "running"]
        /\ state' = [state EXCEPT ![IssueOf[m]] = "running"]
        /\ runs' = [runs EXCEPT ![h] = (@ \ dropped) \cup {m}]
     \/ /\ won /\ ReplyLost
        /\ status' = [before EXCEPT ![m] = "running"]
        /\ runs' = [runs EXCEPT ![h] = @ \ dropped]
        /\ UNCHANGED state
     \/ /\ ~won
        /\ status' = before
        /\ runs' = [runs EXCEPT ![h] = @ \ dropped]
        /\ UNCHANGED state

\* enqueueOrRun after the insert: preempt this daemon's run of the session,
\* leave the message pending at the cap, or run it
EnqueueOrRun(h) ==
  LET m == hook[h].msg
      old == RunsOn(h, IssueOf[m])
  IN /\ hook[h].at = "run"
     /\ \/ /\ old = {} /\ ~HasSlot(h)
           /\ UNCHANGED <<status, state, runs, replaced>>
        \/ /\ old # {} \/ HasSlot(h)
           /\ ClaimAndRun(h, m, old)
           /\ replaced' = replaced \cup old
     /\ Return(h)
     /\ UNCHANGED <<db, memory, drain, next, batch, made>>

-----------------------------------------------------------------------------
(* The end of a run, and drains                                            *)

\* finishRun stores the outcome and deactivateIfIdle reads the next message
Finish(h, m) ==
  LET i == IssueOf[m]
      slot == Cardinality({IssueOf[x] : x \in runs[h] \ {m}}) < Cap
  IN /\ m \in runs[h]
     /\ \E outcome \in {"done", "failed"} : status' = [status EXCEPT ![m] = outcome]
     /\ runs' = [runs EXCEPT ![h] = @ \ {m}]
     /\ \/ /\ slot /\ state[i] = "running"
           /\ \E n \in PendingOn(i) : next' = [next EXCEPT ![h] = @ \cup {n}]
           /\ UNCHANGED state
        \/ /\ PendingOn(i) = {} \/ ~slot \/ state[i] = "idle"
           /\ state' = [state EXCEPT ![i] = "idle"]
           /\ UNCHANGED next
     /\ UNCHANGED <<db, memory, hook, drain, batch, made, replaced>>

\* dequeueOrIdle makes the message running without a claim
Dequeue(h, m) ==
  /\ m \in next[h]
  /\ next' = [next EXCEPT ![h] = @ \ {m}]
  /\ status' = [status EXCEPT ![m] = "running"]
  /\ state' = [state EXCEPT ![IssueOf[m]] = "running"]
  /\ runs' = [runs EXCEPT ![h] = @ \cup {m}]
  /\ UNCHANGED <<db, memory, hook, drain, batch, made, replaced>>

\* drainGlobalPending reads pending messages of every owner ...
DrainPick(h, m) ==
  /\ Serving(h) /\ drain[h] = NoMsg /\ HasSlot(h)
  /\ status[m] = "pending"
  /\ state[IssueOf[m]] # "running" /\ IssueOf[m] \notin Busy(h)
  /\ drain' = [drain EXCEPT ![h] = m]
  /\ UNCHANGED <<db, memory, status, state, hook, next, batch, runs, made, replaced>>

\* Mutant: the cap is checked after the claim.
DrainClaimThenCap(h) ==
  /\ drain[h] # NoMsg
  /\ drain' = [drain EXCEPT ![h] = NoMsg]
  /\ IF status[drain[h]] = "pending" /\ ~HasSlot(h)
       THEN status' = [status EXCEPT ![drain[h]] = "running"] /\ UNCHANGED <<state, runs>>
       ELSE ClaimAndRun(h, drain[h], {})
  /\ UNCHANGED <<db, memory, hook, next, batch, made, replaced>>

\* ... and claims what it read
DrainClaim(h) ==
  /\ drain[h] # NoMsg
  /\ ClaimAndRun(h, drain[h], {})
  /\ drain' = [drain EXCEPT ![h] = NoMsg]
  /\ UNCHANGED <<db, memory, hook, next, batch, made, replaced>>

-----------------------------------------------------------------------------
(* Loss of a machine, and recover()                                        *)

Crash(h) ==
  /\ boot[h] # "down" /\ crashes < MaxCrashes
  /\ crashes' = crashes + 1
  /\ Goto(h, "down")
  /\ id' = [id EXCEPT ![h] = NoId]
  /\ hook' = [hook EXCEPT ![h] = NoHook]
  /\ drain' = [drain EXCEPT ![h] = NoMsg]
  /\ next' = [next EXCEPT ![h] = {}]
  /\ batch' = [batch EXCEPT ![h] = {}]
  /\ observed' = [observed EXCEPT ![h] = {}]
  /\ runs' = [runs EXCEPT ![h] = {}]
  /\ UNCHANGED <<db, status, state, made, replaced>>

getOwnedPendingOrRunningMessages(h, o) ==
  {m \in Msgs : /\ IssueOf[m] \in Owned(h, o)
               /\ status[m] \in {"pending", "running", "interrupted"}}

\* every session of an owned issue is watched, and every message that is left
\* running is interrupted
RecoverScan(h) ==
  LET stuck == getOwnedPendingOrRunningMessages(h, Released)
  IN /\ boot[h] = "recover"
     /\ owner' = Released
     /\ observed' = [observed EXCEPT ![h] = Owned(h, Released)]
     /\ batch' = [batch EXCEPT ![h] = {[msg |-> m, was |-> status[m]] : m \in stuck}]
     /\ status' = [m \in Msgs |-> IF m \in stuck /\ status[m] = "running"
                                    THEN "interrupted" ELSE status[m]]
     /\ Goto(h, "up")
     /\ UNCHANGED <<row, id, state, hook, drain, next, runs, made, replaced, crashes>>

BatchOn(h, i) == {b \in batch[h] : IssueOf[b.msg] = i}
\* the messages of the session as recover() read them in state s
Was(h, i, s) == {b.msg : b \in {c \in BatchOn(h, i) : c.was = s}}

RecoverSkip(h, i) ==
  /\ "unreachable" \notin Env => i \in Busy(h)
  /\ UNCHANGED <<status, state, runs>>

RecoverDenied(h, i) ==
  /\ "deny" \in Env
  /\ status' = [m \in Msgs |-> IF m \in Was(h, i, "pending") THEN "failed" ELSE status[m]]
  /\ UNCHANGED <<state, runs>>

\* Mutant: what was running stays interrupted.
RequeuedNone(h, i) == status
\* what was running is pending again
Requeued(h, i) ==
  [m \in Msgs |-> IF m \in Was(h, i, "running") THEN "pending" ELSE status[m]]

\* running ones go back to pending; the oldest runs, or waits at the cap, or
\* is done because the bot had replied, and then the next pending one runs
RecoverRun(h, i) ==
  LET back == Requeued(h, i)
      \* dequeueOrIdle makes m running without a claim
      run(m, before) ==
        /\ status' = [before EXCEPT ![m] = "running"]
        /\ state' = [state EXCEPT ![i] = "running"]
        /\ runs' = [runs EXCEPT ![h] = @ \cup {m}]
  IN /\ i \notin Busy(h)
     /\ \E first \in {b.msg : b \in BatchOn(h, i)} :
          \/ HasSlot(h) /\ run(first, back)
          \/ ~HasSlot(h) /\ status' = back /\ UNCHANGED <<state, runs>>
          \/ LET done == [back EXCEPT ![first] = "done"]
                 pending == {m \in MsgsOn(i) : done[m] = "pending"}
             IN /\ "replied" \in Env
                /\ \/ HasSlot(h) /\ \E m \in pending : run(m, done)
                   \/ /\ pending = {} \/ ~HasSlot(h)
                      /\ status' = done
                      /\ UNCHANGED <<state, runs>>

RecoverSession(h, i) ==
  /\ BatchOn(h, i) # {}
  /\ RecoverSkip(h, i) \/ RecoverDenied(h, i) \/ RecoverRun(h, i)
  /\ batch' = [batch EXCEPT ![h] = @ \ BatchOn(h, i)]
  /\ UNCHANGED <<db, memory, hook, drain, next, made, replaced>>

\* the observer finds a session that is running in the database only
FixSession(h, i) ==
  /\ Serving(h) /\ i \in observed[h] \cap Owned(h, owner)
  /\ state[i] = "running" /\ i \notin Busy(h)
  /\ "early" \notin Env => batch[h] = {}
  /\ state' = [state EXCEPT ![i] = "idle"]
  /\ UNCHANGED <<db, memory, status, hook, drain, next, batch, runs, made, replaced>>

-----------------------------------------------------------------------------
BootStep(h) ==
  \/ FindSelf(h) \/ Renew(h) \/ FindOrphan(h) \/ Adopt(h) \/ Insert(h)
  \/ Absorb(h) \/ DeleteRows(h) \/ ClaimAll(h) \/ RecoverScan(h)
  \/ \E i \in Issues : RecoverSession(h, i)
HookStep(h) == EnsureOwned(h) \/ CreateMessage(h) \/ EnqueueOrRun(h)
RunStep(h)  == \E m \in Msgs : Finish(h, m) \/ Dequeue(h, m)

Next ==
  \/ \E r \in Ids : Lapse(r)
  \/ \E h \in Hosts :
       \/ Boot(h) \/ BootStep(h) \/ Heartbeat(h) \/ ReleaseDead(h)
       \/ HookStep(h) \/ RunStep(h) \/ DrainClaim(h) \/ Crash(h)
       \/ \E m \in Msgs : Receive(h, m) \/ DrainPick(h, m)
       \/ \E i \in Issues : FixSession(h, i)

Spec == Init /\ [][Next]_vars

(***************************************************************************)
(* Timers fire and awaited statements return: a lease that nobody renews   *)
(* expires, observer cycles and their drains run, handlers, boots and runs *)
(* go on.  A handler in its first steps holds a lease up only for the time *)
(* it takes (the guard of Lapse), hence the strong fairness.  A machine    *)
(* that is down comes back only in RestartSpec.  Nothing is assumed of     *)
(* webhooks and crashes.                                                   *)
(***************************************************************************)
DrainFair(h) == WF_vars(\E m \in Msgs : DrainPick(h, m)) /\ WF_vars(DrainClaim(h))
FairSpec ==
  /\ Spec
  /\ \A r \in Ids : SF_vars(Lapse(r))
  /\ \A h \in Hosts :
       /\ WF_vars(BootStep(h)) /\ WF_vars(ReleaseDead(h)) /\ WF_vars(HookStep(h))
       /\ WF_vars(RunStep(h)) /\ DrainFair(h)
       /\ \A i \in Issues : WF_vars(FixSession(h, i))
RestartSpec == FairSpec /\ \A h \in Hosts : WF_vars(Boot(h))

-----------------------------------------------------------------------------
(* Properties                                                              *)

TypeOK ==
  /\ row \in [Ids -> [host : Hosts \cup {NoHost, Gone}, fresh : BOOLEAN]]
  /\ owner \in [Issues -> Ids \cup {NoId}]
  /\ status \in [Msgs -> {"none", "pending", "running", "done", "interrupted", "failed"}]
  /\ state \in [Issues -> {"idle", "running"}]
  /\ boot \in [Hosts -> BootSteps \cup {"down", "recover", "up"}]
  /\ id \in [Hosts -> Ids \cup {NoId}]
  /\ \A h \in Hosts : Registered(h) \/ boot[h] \in {"renew", "adopt"} => id[h] \in Ids
  /\ hook \in [Hosts -> {NoHook} \cup
                [at : {"own", "create", "run"}, msg : Msgs, owner : Ids \cup {NoId}]]
  /\ drain \in [Hosts -> Msgs \cup {NoMsg}]
  /\ next \in [Hosts -> SUBSET Msgs] /\ observed \in [Hosts -> SUBSET Issues]
  /\ runs \in [Hosts -> SUBSET Msgs]
  /\ batch \in [Hosts -> SUBSET [msg : Msgs, was : {"pending", "running", "interrupted"}]]
  /\ made \in [Msgs -> Nat] /\ replaced \subseteq Msgs /\ crashes \in 0 .. MaxCrashes

\* An issue's owner is a row of table daemons: an owner whose row is deleted
\* would never be released by releaseDeadOwners, nor be claimed by anyone.
OwnerIsRegistered == \A i \in Issues : owner[i] # NoId => owner[i] \in Rows

\* Two daemons that have registered never go by the same row: registerDaemon
\* hands out an identity, and ensureOwned and every scoped scan rest on it.
OneIdentity ==
  \A g, h \in Hosts : g # h /\ Registered(g) /\ Registered(h) => id[g] # id[h]

\* Past ensureOwned, two daemons never handle webhooks of one issue at a time.
OneHandler ==
  \A g, h \in Hosts :
    g # h /\ hook[g].at \in {"create", "run"} /\ hook[h].at \in {"create", "run"}
      => IssueOf[hook[g].msg] # IssueOf[hook[h].msg]

\* A comment that reaches several daemons becomes one message.
CommentOnce == \A m \in Msgs : made[m] <= 1

\* A message recorded as running is being run, unless its machine was lost.
ClaimedIsRun ==
  crashes = 0 => \A m \in Msgs : status[m] = "running" => \E h \in Hosts : m \in runs[h]

\* A daemon that serves webhooks never loses an issue it owns to another.
KeepsIssues ==
  [][\A h \in Hosts, i \in Issues :
       Serving(h) /\ Serving(h)' /\ owner[i] = id[h] => owner'[i] = id[h]]_vars

\* What a daemon left running or queued when its machine was lost is run
\* again once it is back, whatever order its sessions are recovered in.
Settled(m) == status[m] \in {"done", "failed"} \/ m \in replaced
WorkSurvives == \A m \in Msgs : status[m] \in {"pending", "running"} ~> Settled(m)

\* The issues of a daemon that is gone do not stay its own while another
\* daemon is up: its lease expires and an observer cycle releases them.
OrphansAreReleased ==
  \A i \in Issues, r \in Ids :
    owner[i] = r /\ (\A h \in Hosts : id[h] # r) ~>
      \/ owner[i] # r
      \/ \E h \in Hosts : id[h] = r
      \/ \A h \in Hosts : boot[h] = "down"

=============================================================================
