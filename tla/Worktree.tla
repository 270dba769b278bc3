------------------------------ MODULE Worktree ------------------------------
(***************************************************************************)
(* Acquisition of a work directory in cloneMode "worktree" (tryWorktree    *)
(* and acquireWorkdir of src/opencode.ts): the sessions of one repository  *)
(* share a bare store, whose bootstrap a lock directory is to serialize,   *)
(* and each falls back to a full clone when its worktree cannot be had.    *)
(* git is external: a clone that is under way has a HEAD and no branches   *)
(* yet, refuses a directory that is not empty, and removes what it wrote   *)
(* when it fails.                                                          *)
(***************************************************************************)

CONSTANT
  Sessions   \* sessions of one repository that are spawned for the first time

VARIABLES
  reliable,  \* the remote answers every clone
  lock,   \* the directory <store>.lock exists
  store,  \* the bare store: "absent", "partial" while it is cloned, "whole"
  pc,     \* where each acquisition stands
  got     \* what each session's directory holds in the end

vars == <<reliable, lock, store, pc, got>>

Init ==
  /\ reliable \in BOOLEAN
  /\ lock = FALSE
  /\ store = "absent"
  /\ pc = [s \in Sessions |-> "start"]
  /\ got = [s \in Sessions |-> "nothing"]

Goto(s, step) == pc' = [pc EXCEPT ![s] = step]
Got(s, what)  == got' = [got EXCEPT ![s] = what] /\ Goto(s, "done")

\* mkdirSync(lockDir, { recursive: true }) returns whether it exists or not
Lock(s) ==
  /\ pc[s] = "start"
  /\ lock' = TRUE
  /\ Goto(s, "check")
  /\ UNCHANGED <<reliable, store, got>>

\* existsSync(<store>/HEAD)
Check(s) ==
  /\ pc[s] = "check"
  /\ Goto(s, IF store = "absent" THEN "clone" ELSE "add")
  /\ UNCHANGED <<reliable, lock, store, got>>

\* finally { rmdirSync(lockDir) }
Leave(s, step) == lock' = FALSE /\ Goto(s, step)

\* runGit: an unreachable remote, a kill after the timeout and a git that cannot
\* be spawned are all one failed command.
runGitFails == ~reliable

\* Mutant: a refused clone cleans the store up.
CloneBareRemoves(s) ==
  /\ pc[s] = "clone"
  /\ \/ store = "absent" /\ store' = "partial" /\ Goto(s, "cloning") /\ UNCHANGED lock
     \/ store # "absent" /\ Leave(s, "fallback") /\ store' = "absent"
  /\ UNCHANGED <<reliable, got>>

CloneBare(s) ==
  /\ pc[s] = "clone"
  /\ \/ store = "absent" /\ store' = "partial" /\ Goto(s, "cloning") /\ UNCHANGED lock
     \/ store # "absent" /\ Leave(s, "fallback") /\ UNCHANGED store
  /\ UNCHANGED <<reliable, got>>

BareCloned(s) ==
  /\ pc[s] = "cloning"
  /\ \/ store' = "whole" /\ Goto(s, "add") /\ UNCHANGED lock
     \/ runGitFails /\ store' = "absent" /\ Leave(s, "fallback")
  /\ UNCHANGED <<reliable, got>>

\* Mutant: a failed worktree is not replaced by a clone.
AddWorktreeOnly(s) ==
  /\ pc[s] = "add"
  /\ lock' = FALSE
  /\ Got(s, IF store = "whole" THEN "worktree" ELSE "nothing")
  /\ UNCHANGED <<reliable, store>>

\* git worktree add needs the start branch, and may fail on its own
AddWorktree(s) ==
  /\ pc[s] = "add"
  /\ lock' = FALSE
  /\ \/ store = "whole" /\ Got(s, "worktree")
     \/ Goto(s, "fallback") /\ UNCHANGED got
  /\ UNCHANGED <<reliable, store>>

\* git clone into the session's directory, else git init
FallBack(s) ==
  /\ pc[s] = "fallback"
  /\ \/ Got(s, "clone")
     \/ ~reliable /\ Got(s, "empty")
  /\ UNCHANGED <<reliable, lock, store>>

Acquire(s) ==
  Lock(s) \/ Check(s) \/ CloneBare(s) \/ BareCloned(s) \/ AddWorktree(s) \/ FallBack(s)
Next == \E s \in Sessions : Acquire(s)

Spec == Init /\ [][Next]_vars
\* every git command ends: runGit kills it after its timeout
FairSpec == Spec /\ \A s \in Sessions : WF_vars(Acquire(s))

-----------------------------------------------------------------------------
\* A worktree never outlives its objects: the store it was added to stays
\* whole, whatever clones other sessions start or abandon around it.
WorktreeIsWhole == \A s \in Sessions : got[s] = "worktree" => store = "whole"

\* While the remote answers, no agent starts in an empty directory, however
\* the races for the shared store end; and every acquisition does end.
EveryoneGetsTheCode ==
  reliable => \A s \in Sessions : <>(got[s] \in {"worktree", "clone"})
=============================================================================
