---------------------------- MODULE WorktreeProofs ----------------------------
(***************************************************************************)
(* Work directories for any number of sessions: worktrees of the shared    *)
(* store (Worktree), and their installations beside the purge (WorkdirGC). *)
(***************************************************************************)
EXTENDS WorkdirGC, TLAPS

Steps == {"start", "check", "clone", "cloning", "add", "fallback", "done"}

WorktreeTypes ==
  /\ reliable \in BOOLEAN /\ lock \in BOOLEAN
  /\ store \in {"absent", "partial", "whole"}
  /\ pc \in [Sessions -> Steps]
  /\ got \in [Sessions -> {"nothing", "worktree", "clone", "empty"}]

\* While a clone of the store is under way nobody else's succeeds or starts, and
\* no session has a worktree of it: the lock directory keeps nobody out, the
\* refusal of a directory that is not empty does.
OneClone ==
  /\ \A s \in Sessions : pc[s] = "cloning" => store = "partial"
  /\ \A s, t \in Sessions : pc[s] = "cloning" /\ pc[t] = "cloning" => s = t

WorktreeInv == WorktreeTypes /\ OneClone /\ WorktreeIsWhole

\* One case for each step of an acquisition.
LEMMA AcquireKeeps ==
  ASSUME WorktreeInv, NEW s \in Sessions, Acquire(s)
  PROVE  WorktreeInv'
<1> USE DEF WorktreeInv, WorktreeTypes, OneClone, WorktreeIsWhole, Steps, Goto
<1>1. CASE Lock(s)
  BY <1>1 DEF Lock
<1>2. CASE Check(s)
  BY <1>2 DEF Check
<1>3. CASE CloneBare(s)
  BY <1>3 DEF CloneBare, Leave
<1>4. CASE BareCloned(s)
  BY <1>4 DEF BareCloned, Leave
<1>5. CASE AddWorktree(s)
  BY <1>5 DEF AddWorktree, Got
<1>6. CASE FallBack(s)
  BY <1>6 DEF FallBack, Got
<1> QED  BY <1>1, <1>2, <1>3, <1>4, <1>5, <1>6 DEF Acquire

\* A worktree never outlives its objects: whatever clones other sessions start
\* or abandon, the store it was added to stays whole (tryWorktree), in the
\* acquisition on its own and beside the purge.
THEOREM AcquisitionIsWhole == Spec => []WorktreeIsWhole
<1>1. Init => WorktreeInv
  BY DEF Init, WorktreeInv, WorktreeTypes, OneClone, WorktreeIsWhole, Steps
<1>2. WorktreeInv /\ [Next]_vars => WorktreeInv'
  <2> SUFFICES ASSUME WorktreeInv, [Next]_vars PROVE WorktreeInv'
    OBVIOUS
  <2>1. CASE UNCHANGED vars
    BY <2>1 DEF vars, WorktreeInv, WorktreeTypes, OneClone, WorktreeIsWhole
  <2> QED  BY <2>1, AcquireKeeps DEF Next
<1>3. WorktreeInv => WorktreeIsWhole
  BY DEF WorktreeInv
<1> QED  BY <1>1, <1>2, <1>3, PTL DEF Spec

LEMMA AllKeepsWorktrees == WorktreeInv /\ [AllNext]_allVars => WorktreeInv'
<1> SUFFICES ASSUME WorktreeInv, [AllNext]_allVars PROVE WorktreeInv'
  OBVIOUS
<1>1. CASE UNCHANGED vars
  BY <1>1 DEF vars, WorktreeInv, WorktreeTypes, OneClone, WorktreeIsWhole
<1> QED  BY <1>1, AcquireKeeps DEF AllNext, Next, allVars

\* The same beside the purge: what runObserverCycle removes is never part of a
\* store.
THEOREM WorktreeIsWholeHolds == AllSpec => []WorktreeIsWhole
<1>1. PurgeInit => WorktreeInv
  BY DEF PurgeInit, Init, WorktreeInv, WorktreeTypes, OneClone, WorktreeIsWhole, Steps
<1>2. WorktreeInv => WorktreeIsWhole
  BY DEF WorktreeInv
<1> QED  BY <1>1, <1>2, AllKeepsWorktrees, PTL DEF AllSpec

-----------------------------------------------------------------------------
\* The purge holds as busy every directory whose agent the listing found and
\* that has not ended.
PurgeInv ==
  /\ modules \in [Sessions -> {"none", "fresh", "stale"}]
  /\ agent \subseteq Sessions /\ since \subseteq agent
  /\ gc \in [pc : {"idle", "resolve", "visit"}, busy : SUBSET Sessions, todo : SUBSET Sessions]
  /\ since \subseteq gc.busy

LEMMA PurgeKeeps == PurgeInv /\ [AllNext]_allVars => PurgeInv'
<1> SUFFICES ASSUME PurgeInv, [AllNext]_allVars PROVE PurgeInv'
  OBVIOUS
<1> USE DEF PurgeInv
<1>1. CASE UNCHANGED purge
  BY <1>1 DEF purge
<1>2. ASSUME NEW s \in Sessions, Work(s) \/ Install(s) \/ End(s) \/ Outdate(s) PROVE PurgeInv'
  BY <1>2 DEF Work, Install, End, Outdate
<1>3. CASE ListBusy
  BY <1>3 DEF ListBusy, Idle
<1>4. CASE Collect
  BY <1>4 DEF Collect
<1>5. CASE Purge
  BY <1>5 DEF Purge
<1>6. CASE Purged
  BY <1>6 DEF Purged, Idle
<1> QED  BY <1>1, <1>2, <1>3, <1>4, <1>5, <1>6 DEF AllNext, PurgeNext, allVars

\* The purge never removes the installation of an agent that it found at work,
\* however old that is and however long the walk takes (purgeStaleNodeModules).
THEOREM SeenIsSparedHolds == AllSpec => SeenIsSpared
<1>1. PurgeInit => PurgeInv
  BY DEF PurgeInit, PurgeInv, Idle
<1>2. PurgeInv /\ [AllNext]_allVars
      => [\A s \in since : modules[s] # "none" => modules'[s] # "none"]_allVars
  <2> SUFFICES ASSUME PurgeInv, AllNext, NEW s \in since, modules[s] # "none"
               PROVE  modules'[s] # "none"
    OBVIOUS
  <2> USE DEF PurgeInv
  <2>1. CASE UNCHANGED purge
    BY <2>1 DEF purge
  <2>2. CASE PurgeNext
    BY <2>2 DEF PurgeNext, Work, Install, End, Outdate, ListBusy, Collect, Purge, Purged
  <2> QED  BY <2>1, <2>2 DEF AllNext
<1> QED  BY <1>1, <1>2, PurgeKeeps, PTL DEF AllSpec, SeenIsSpared
=============================================================================
