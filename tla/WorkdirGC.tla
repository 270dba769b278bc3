----------------------------- MODULE WorkdirGC -----------------------------
(***************************************************************************)
(* The purge of old node_modules directories (src/workdir-gc.ts, called by *)
(* runObserverCycle of src/opencode.ts once a day) beside the agents that  *)
(* install and use them, in the directories that Worktree acquires.        *)
(* Directories follow the default layout, where the walk meets the         *)
(* node_modules of a session's directory and none that is nested deeper.   *)
(***************************************************************************)
EXTENDS Worktree

VARIABLES
  agent,    \* sessions whose opencode process is alive
  modules,  \* node_modules of each: "none", "fresh" or older than the TTL
  gc,       \* the purge: where it stands, busy directories, those left to visit
  since     \* agents that the last listing found and that have not ended

purge   == <<agent, modules, gc, since>>
allVars == <<vars, purge>>

Idle == [pc |-> "idle", busy |-> {}, todo |-> {}]

PurgeInit ==
  /\ Init
  /\ agent = {}
  /\ modules = [s \in Sessions |-> "none"]
  /\ gc = Idle
  /\ since = {}

\* An agent works in a directory that has been acquired.
Work(s) ==
  /\ pc[s] = "done" /\ s \notin agent
  /\ agent' = agent \cup {s}
  /\ UNCHANGED <<modules, gc, since>>

Install(s) ==
  /\ s \in agent
  /\ modules' = [modules EXCEPT ![s] = "fresh"]
  /\ UNCHANGED <<agent, gc, since>>

End(s) ==
  /\ s \in agent
  /\ agent' = agent \ {s}
  /\ since' = since \ {s}
  /\ UNCHANGED <<modules, gc>>

\* The TTL passes, also under an agent that runs for so long.
Outdate(s) ==
  /\ modules[s] = "fresh"
  /\ modules' = [modules EXCEPT ![s] = "stale"]
  /\ UNCHANGED <<agent, gc, since>>

\* listBusyOpencodeWorkdirs: pgrep lists the processes, none when it fails.
ListBusy ==
  /\ gc.pc = "idle"
  /\ since' \in {agent, {}}
  /\ gc' = [Idle EXCEPT !.pc = "resolve", !.busy = since']
  /\ UNCHANGED <<agent, modules>>

\* Mutant: only the directories of agents that ended are taken for busy.
CollectInverted ==
  /\ gc.pc = "resolve"
  /\ gc' = [gc EXCEPT !.pc = "visit", !.busy = @ \ since,
                      !.todo = {s \in Sessions : modules[s] # "none"}]
  /\ UNCHANGED <<agent, modules, since>>

\* The working directory of each is resolved, unless it has ended meanwhile,
\* and the walk collects the installations.
Collect ==
  /\ gc.pc = "resolve"
  /\ gc' = [gc EXCEPT !.pc = "visit", !.busy = @ \cap since,
                      !.todo = {s \in Sessions : modules[s] # "none"}]
  /\ UNCHANGED <<agent, modules, since>>

\* Mutant: busy directories are not passed over.
PurgeBusy ==
  /\ gc.pc = "visit"
  /\ \E s \in gc.todo :
       /\ gc' = [gc EXCEPT !.todo = @ \ {s}]
       /\ modules' = [modules EXCEPT ![s] = IF @ = "stale" THEN "none" ELSE @]
  /\ UNCHANGED <<agent, since>>

\* A stale installation outside the busy directories is removed.
Purge ==
  /\ gc.pc = "visit"
  /\ \E s \in gc.todo :
       /\ gc' = [gc EXCEPT !.todo = @ \ {s}]
       /\ modules' = [modules EXCEPT ![s] =
                        IF s \notin gc.busy /\ @ = "stale" THEN "none" ELSE @]
  /\ UNCHANGED <<agent, since>>

Purged ==
  /\ gc.pc = "visit" /\ gc.todo = {}
  /\ gc' = Idle
  /\ since' = {}
  /\ UNCHANGED <<agent, modules>>

-----------------------------------------------------------------------------
PurgeNext ==
  \/ \E s \in Sessions : Work(s) \/ Install(s) \/ End(s) \/ Outdate(s)
  \/ ListBusy \/ Collect \/ Purge \/ Purged

AllNext ==
  \/ Next /\ UNCHANGED purge
  \/ PurgeNext /\ UNCHANGED vars

AllSpec == /\ PurgeInit /\ [][AllNext]_allVars
           /\ \A s \in Sessions : WF_allVars(Acquire(s) /\ UNCHANGED purge)

\* An agent that the listing found at work keeps its installation until it
\* ends, however old that is and however long the walk takes.
SeenIsSpared ==
  [][\A s \in since : modules[s] # "none" => modules'[s] # "none"]_allVars
=============================================================================
