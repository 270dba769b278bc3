------------------------------ MODULE Restart ------------------------------
(***************************************************************************)
(* A daemon that comes and goes, and the agents that do not go with it:    *)
(* boot (src/index.ts), initDB (module Migration), recover() and destroy() *)
(* of the engine, and the operator's pause.                                *)
(*                                                                         *)
(* The unit is KillMode=process: a crash leaves the agents running, while  *)
(* SIGTERM reaches the daemon only, whose destroy() kills those that it    *)
(* has registered.  The next daemon knows an agent by the pid in its       *)
(* session's row alone.  On SQLite a statement ends before the next event  *)
(* is served; on MySQL everything else may run while its reply is awaited. *)
(*                                                                         *)
(* One session works on one message at a time; what the scheduler makes of *)
(* several is in module Scheduler, the other daemons only upgrade.         *)
(***************************************************************************)
EXTENDS Migration

CONSTANTS
  Me,          \* the daemon that restarts
  MaxCommands  \* bound: commands of the operator

ASSUME MeAssumption == Me \in Daemons

\* two pids per session: a new agent never has the one that is on record
Pids  == {1, 2}
NoPid == 0

VARIABLES
  stage,     \* where the constructed engine stands in recover(), or in shutdown()
  run,       \* the execProcess of each session
  handle,    \* the map processes
  live,      \* the agents of each session that are alive
  pid,       \* op_sessions.opencode_pid, which no UPDATE ever clears
  work,      \* the message of each session
  recorded,  \* the pids of the sessions that recover() has listed and not killed
  stuck,     \* the sessions that it has listed and not run again
  paused,
  flag,      \* .ework-paused.flag
  cmd,       \* the operator's command that is under way
  said,      \* what its reply has told the operator last
  halting,   \* the sessions haltAll has not come to
  commands

MemoryVars  == <<stage, run, handle, recorded, stuck, paused, cmd, halting>>
AgentVars   == <<live, pid, work>>
PauseVars   == <<paused, flag, cmd, said, halting, commands>>
RecoverVars == <<stage, recorded, stuck>>
vars == <<MigrationVars, RecoverVars, run, handle, AgentVars, PauseVars>>

\* own: the awaited agent has ended by itself
NoRun == [pc |-> "none", stale |-> FALSE, agent |-> NoPid, own |-> FALSE]
Nobody == [s \in Rows |-> NoPid]

TypeOK ==
  /\ stage \in {"down", "release", "orphans", "owned", "kill", "rerun", "done", "stopping"}
  /\ run \in [Rows -> [pc : {"none", "exec", "prepare", "record", "wait"},
                       stale : BOOLEAN, agent : Pids \cup {NoPid}, own : BOOLEAN]]
  /\ {handle, pid, recorded} \subseteq [Rows -> Pids \cup {NoPid}]
  /\ live \in [Rows -> SUBSET Pids]
  /\ work \in [Rows -> {"none", "running", "todo", "halted"}]
  /\ stuck \subseteq Rows /\ halting \subseteq Rows
  /\ paused \in BOOLEAN /\ flag \in BOOLEAN
  /\ cmd \in {"none", "halt", "pause", "resume"}
  /\ said \in {"any", "paused", "active"}

\* The daemon of the version before may have left a run in every session.
RestartInit ==
  /\ MigrationInit
  /\ stage = "down" /\ recorded = Nobody /\ stuck = {}
  /\ run = [s \in Rows |-> NoRun]
  /\ handle = Nobody
  /\ \/ live = [s \in Rows |-> {}] /\ pid = Nobody /\ work = [s \in Rows |-> "none"]
     \/ /\ table["op_sessions"].rows = Rows
        /\ live = [s \in Rows |-> {1}] /\ pid = [s \in Rows |-> 1]
        /\ work = [s \in Rows |-> "running"]
  /\ paused = FALSE /\ flag = FALSE /\ cmd = "none" /\ said = "any"
  /\ halting = {} /\ commands = 0

Serving == stage \notin {"down", "stopping"}

\* what the queries of recover() find: their joins need every table
Stored == {s \in Rows : \A t \in Tables : s \in table[t].rows}

-----------------------------------------------------------------------------
(* Boot and recover()                                                      *)

\* registerDaemon, new Engine and restorePausedState.  The constructor calls
\* recover(), whose first segment ends at releaseDeadOwners.
Construct ==
  /\ Opened(Me) /\ stage = "down"
  /\ stage' = "release"
  /\ paused' = flag
  /\ UNCHANGED <<MigrationVars, recorded, stuck, run, handle, AgentVars,
                 flag, cmd, said, halting, commands>>

ReleaseDeadOwners ==
  /\ stage = "release"
  /\ stage' = "orphans"
  /\ UNCHANGED <<MigrationVars, recorded, stuck, run, handle, AgentVars, PauseVars>>

\* cleanupGlobalOrphans kills the recorded agents that carry the binary's name
\* and were handed over to PID 1; shows: whether they are such.
CleanupGlobalOrphans ==
  \E shows \in BOOLEAN :
    /\ stage = "orphans"
    /\ stage' = "owned"
    /\ live' = [s \in Rows |-> IF shows /\ s \in Stored THEN live[s] \ {pid[s]} ELSE live[s]]
    /\ UNCHANGED <<MigrationVars, recorded, stuck, run, handle, pid, work, PauseVars>>

ListOwnedSessions ==
  /\ stage = "owned"
  /\ stage' = "kill"
  /\ recorded' = [s \in Rows |-> IF s \in Stored THEN pid[s] ELSE NoPid]
  /\ UNCHANGED <<MigrationVars, stuck, run, handle, AgentVars, PauseVars>>

\* Mutant: the kill is left to cleanupGlobalOrphans.
killRecordedLater(s) == live

\* SIGTERM, and SIGKILL after three seconds, to whatever pid was recorded
killRecorded(s) == [live EXCEPT ![s] = @ \ {recorded[s]}]

KillRecorded(s) ==
  /\ stage = "kill" /\ recorded[s] # NoPid
  /\ live' = killRecorded(s)
  /\ recorded' = [recorded EXCEPT ![s] = NoPid]
  /\ UNCHANGED <<MigrationVars, stage, stuck, run, handle, pid, work, PauseVars>>

\* Mutant: rows that were running are taken for those of a live run.
unfinishedQueued == {s \in Stored : work[s] \in {"todo", "halted"}}

\* getOwnedPendingOrRunningMessages
unfinished == {s \in Stored : work[s] # "none"}

\* The rows of lost runs; running ones become interrupted.
Scan ==
  /\ stage = "kill" /\ recorded = Nobody
  /\ stage' = "rerun"
  /\ stuck' = unfinished
  /\ work' = [s \in Rows |-> IF s \in unfinished THEN "todo" ELSE work[s]]
  /\ UNCHANGED <<MigrationVars, recorded, run, handle, live, pid, PauseVars>>

\* dequeueOrIdle of its row, unless a webhook has started the session again
Rerun(s) ==
  /\ stage = "rerun" /\ s \in stuck
  /\ stuck' = stuck \ {s}
  /\ IF run[s] = NoRun
     THEN /\ run' = [run EXCEPT ![s].pc = "exec"]
          /\ work' = [work EXCEPT ![s] = "running"]
     ELSE UNCHANGED <<run, work>>
  /\ UNCHANGED <<MigrationVars, stage, recorded, handle, live, pid, PauseVars>>

Recovered ==
  /\ stage = "rerun" /\ stuck = {}
  /\ stage' = "done"
  /\ UNCHANGED <<MigrationVars, recorded, stuck, run, handle, AgentVars, PauseVars>>

RecoverStep == \/ Construct \/ ReleaseDeadOwners \/ CleanupGlobalOrphans \/ ListOwnedSessions
               \/ \E s \in Rows : KillRecorded(s) \/ Rerun(s)
               \/ Scan \/ Recovered

-----------------------------------------------------------------------------
(* A run                                                                   *)

\* A webhook stores a message of an idle session and starts it.  On SQLite
\* recover() awaits nothing but statements before its first gate request.
Deliver(s) ==
  /\ Serving /\ ~paused
  /\ stage \in {"rerun", "done"} \/ (dialect = "mysql" /\ "early" \in Env)
  /\ work[s] = "none" /\ run[s] = NoRun
  /\ StoreRow(s)
  /\ work' = [work EXCEPT ![s] = "running"]
  /\ run' = [run EXCEPT ![s].pc = "exec"]
  /\ UNCHANGED <<RecoverVars, handle, live, pid, PauseVars>>

\* The web allows the run, which takes its generation.
GateAllows(s) ==
  /\ run[s].pc = "exec"
  /\ run' = [run EXCEPT ![s].pc = "prepare"]
  /\ UNCHANGED <<MigrationVars, RecoverVars, handle, AgentVars, PauseVars>>

\* The agent is started and registered, its pid's UPDATE sent.  A run whose
\* generation is gone kills it.
Spawn(s) ==
  /\ run[s].pc = "prepare"
  /\ IF run[s].stale
     THEN /\ run' = [run EXCEPT ![s] = NoRun]
          /\ UNCHANGED <<handle, live, pid>>
     ELSE \E p \in Pids \ (live[s] \cup {pid[s]}) :
            /\ \A q \in Pids \ (live[s] \cup {pid[s]}) : p <= q
            /\ live' = [live EXCEPT ![s] = @ \cup {p}]
            /\ handle' = [handle EXCEPT ![s] = p]
            /\ IF dialect = "sqlite"
               THEN /\ pid' = [pid EXCEPT ![s] = p]
                    /\ run' = [run EXCEPT ![s].pc = "wait", ![s].agent = p]
               ELSE /\ run' = [run EXCEPT ![s].pc = "record", ![s].agent = p]
                    /\ UNCHANGED pid
  /\ UNCHANGED <<MigrationVars, RecoverVars, work, PauseVars>>

Record(s) ==
  /\ run[s].pc = "record"
  /\ pid' = [pid EXCEPT ![s] = run[s].agent]
  /\ run' = [run EXCEPT ![s].pc = "wait"]
  /\ UNCHANGED <<MigrationVars, RecoverVars, handle, live, work, PauseVars>>

\* An agent ends by itself, whoever started it.
AgentEnds(s) ==
  \E p \in live[s] :
    /\ live' = [live EXCEPT ![s] = @ \ {p}]
    /\ run' = [run EXCEPT ![s].own = @ \/ run[s].agent = p]
    /\ UNCHANGED <<MigrationVars, RecoverVars, handle, pid, work, PauseVars>>

\* The exit resumes execProcess, which ends silently if the agent is not the
\* registered one any more, and settles the message if it is.
ObserveExit(s) ==
  /\ run[s].pc = "wait" /\ run[s].agent \notin live[s]
  /\ IF handle[s] = run[s].agent
     THEN /\ handle' = [handle EXCEPT ![s] = NoPid]
          /\ work' = [work EXCEPT ![s] = "none"]
     ELSE UNCHANGED <<handle, work>>
  /\ run' = [run EXCEPT ![s] = NoRun]
  /\ UNCHANGED <<MigrationVars, RecoverVars, live, pid, PauseVars>>

RunStep(s) == GateAllows(s) \/ Spawn(s) \/ Record(s) \/ ObserveExit(s)

-----------------------------------------------------------------------------
(* The operator                                                            *)

\* pause, resume and halt-all, one at a time
Command(c) ==
  /\ Serving /\ cmd = "none" /\ commands < MaxCommands
  /\ cmd' = c
  /\ commands' = commands + 1
  /\ paused' = CASE c = "pause" -> TRUE [] c = "resume" -> FALSE [] c = "halt" -> paused
  /\ halting' = IF c = "halt" THEN Stored ELSE {}
  /\ UNCHANGED <<MigrationVars, RecoverVars, run, handle, AgentVars, flag, said>>

\* haltAll kills the registered agent and the generation of a session, and
\* interrupts its row.
HaltSession(s) ==
  /\ cmd = "halt" /\ s \in halting
  /\ halting' = halting \ {s}
  /\ live' = [live EXCEPT ![s] = @ \ {handle[s]}]
  /\ handle' = [handle EXCEPT ![s] = NoPid]
  /\ run' = [run EXCEPT ![s].stale = run[s].pc = "prepare"]
  /\ work' = [work EXCEPT ![s] = IF @ = "running" THEN "halted" ELSE @]
  /\ UNCHANGED <<MigrationVars, RecoverVars, pid, paused, flag, cmd, said, commands>>

HaltPauses ==
  /\ cmd = "halt" /\ halting = {}
  /\ cmd' = "pause"
  /\ paused' = TRUE
  /\ UNCHANGED <<MigrationVars, RecoverVars, run, handle, AgentVars, flag, said, halting, commands>>

\* Mutant: the flag is written once and never removed.
persistPausedOnly(p) == flag \/ p

\* persistPaused: the flag file is there, or it is not.
persistPaused(p) == p

\* The daemon's row is marked, the flag written, the command answered.
Persist ==
  /\ cmd \in {"pause", "resume"} /\ Serving
  /\ flag' = persistPaused(cmd = "pause")
  /\ said' = IF cmd = "pause" THEN "paused" ELSE "active"
  /\ cmd' = "none"
  /\ UNCHANGED <<MigrationVars, RecoverVars, run, handle, AgentVars, paused, halting, commands>>

\* markDaemonStatus throws, and the operator is told of an error.
MarkFails ==
  /\ cmd \in {"pause", "resume"} /\ Serving /\ "dbfail" \in Env
  /\ cmd' = "none"
  /\ said' = "any"
  /\ UNCHANGED <<MigrationVars, RecoverVars, run, handle, AgentVars, paused, flag, halting, commands>>

CommandStep == (\E s \in Rows : HaltSession(s)) \/ HaltPauses \/ Persist

-----------------------------------------------------------------------------
(* The end of a daemon                                                     *)

\* Its memory is gone.  A command under way is never answered.
forget ==
  /\ stage' = "down" /\ recorded' = Nobody /\ stuck' = {}
  /\ run' = [s \in Rows |-> NoRun]
  /\ handle' = Nobody
  /\ paused' = FALSE /\ cmd' = "none" /\ halting' = {}
  /\ said' = IF cmd = "none" THEN said ELSE "any"
  /\ UNCHANGED <<flag, commands>>

\* no agent is alive whose pid is still on its way to the row
recordedAll == \A s \in Rows : run[s].pc = "record" => run[s].agent \notin live[s]

\* kill -9, a loss of power to the process, or SIGTERM before its handler is on
CrashMe ==
  /\ stage # "stopping"
  /\ "torn" \notin Env => recordedAll
  /\ Crash(Me)
  /\ forget
  /\ UNCHANGED AgentVars

\* Mutant: destroy() leaves the map processes as it is.
destroyKeeps ==
  /\ live' = [s \in Rows |-> live[s] \ {handle[s]}]
  /\ run' = [s \in Rows |-> [run[s] EXCEPT !.stale = run[s].pc = "prepare"]]
  /\ UNCHANGED handle

\* destroy() kills the registered agents and clears every map, generations
\* included; the functions that wait for something go on.
destroy ==
  /\ live' = [s \in Rows |-> live[s] \ {handle[s]}]
  /\ run' = [s \in Rows |-> [run[s] EXCEPT !.stale = run[s].pc = "prepare"]]
  /\ handle' = Nobody

\* SIGTERM.  shutdown() awaits only the daemon's row after destroy().
Stop ==
  /\ Serving /\ crashes < MaxCrashes
  /\ destroy
  /\ stage' = "stopping"
  /\ crashes' = crashes + 1
  /\ UNCHANGED <<dialect, table, aside, tx, boot, at, recorded, stuck, pid, work, PauseVars>>

\* process.exit(0)
Exit ==
  /\ stage = "stopping"
  /\ "torn" \notin Env => recordedAll
  /\ Ends(Me)
  /\ forget
  /\ UNCHANGED <<crashes, AgentVars>>

-----------------------------------------------------------------------------
\* On SQLite nothing runs between destroy() and the exit, or within recover()
\* before its first gate request; agents end whenever they do.
Uninterrupted ==
  dialect = "sqlite" /\ stage \in {"release", "orphans", "owned", "kill", "stopping"}

\* The others have no part in a SQLite file.
Upgrading ==
  /\ \E d \in Daemons :
       /\ d = Me \/ dialect = "mysql"
       /\ Boot(d) \/ InitDB(d) \/ (d # Me /\ Crash(d))
  /\ UNCHANGED <<RecoverVars, run, handle, AgentVars, PauseVars>>

RestartNext ==
  \/ Upgrading
  \/ RecoverStep
  \/ CrashMe \/ Exit
  \/ \E s \in Rows : AgentEnds(s)
  \/ /\ ~Uninterrupted
     /\ \/ \E s \in Rows : Deliver(s) \/ RunStep(s)
        \/ \E c \in {"pause", "resume", "halt"} : Command(c)
        \/ CommandStep \/ MarkFails \/ Stop

\* The service manager starts what is down, statements are answered, the web
\* answers, agents end.
RestartFairness ==
  /\ WF_vars(Upgrading) /\ WF_vars(RecoverStep) /\ WF_vars(Exit)
  /\ \A s \in Rows : WF_vars(~Uninterrupted /\ RunStep(s)) /\ WF_vars(AgentEnds(s))
  /\ WF_vars(~Uninterrupted /\ CommandStep)

RestartSpec == RestartInit /\ [][RestartNext]_vars /\ RestartFairness

-----------------------------------------------------------------------------
(* Properties                                                              *)

\* Whatever was cut off when, a session has one agent at a time, and once
\* recover() has come to the rows each agent is one that the engine awaits:
\* none of an earlier daemon writes beside it.
OneAgent ==
  \A s \in Rows :
    /\ \A p, q \in live[s] : p = q
    /\ stage \in {"rerun", "done"} =>
         \A p \in live[s] : run[s].pc \in {"record", "wait"} /\ run[s].agent = p

\* What the operator was told of pausing holds for the daemon that runs now,
\* also if it is not the one that told it.
PauseSurvives ==
  Serving /\ cmd = "none" => /\ said = "paused" => paused
                             /\ said = "active" => ~paused

\* An agent that was killed is no answer: its message is not settled, so that
\* the next daemon finds it.
CutIsNotAnswered ==
  [][\A s \in Rows : work[s] = "running" /\ work'[s] = "none" => run[s].own]_vars

\* What ran when the daemon went down is settled in the end, through whatever
\* upgrade and however many ends on the way, unless the operator halts it.
RunsAreResumed ==
  \A s \in Rows : stage = "down" /\ work[s] = "running" ~> work[s] \in {"none", "halted"}
=============================================================================
