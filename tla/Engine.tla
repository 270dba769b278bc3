------------------------------- MODULE Engine -------------------------------
(***************************************************************************)
(* The whole engine of src/opencode.ts around the scheduler: closing,      *)
(* halting and reopening an issue, the operator's force-stop and retry,    *)
(* the reply-burst breaker, and the observer cycle that looks for dead,    *)
(* stuck and overlong processes.  Each works on the same maps and rows as  *)
(* the scheduler, between its awaits.                                      *)
(***************************************************************************)
EXTENDS Scheduler

\* Start an activation on session k at pc p.
Begin(k, p) ==
  /\ Free # {}
  /\ Becomes(Oldest(Free), At(p, k, NoMsg))

\* Mutant: only what is queued counts as unsettled.
UnsettledPending(k) == {m \in Msgs : /\ message[m].key = k
                                     /\ message[m].status = "pending"}

Unsettled(k) == {m \in Msgs : /\ message[m].key = k
                              /\ message[m].status \in {"pending", "running"}}

\* Session k is either untouched or only waits for its registered process.
AtRest(k) == ~Busy(k)
AtWork(k) == /\ processes[k] # NoProc /\ proc[processes[k]] = "live"
             /\ \A r \in Fibers :
                  fiber[r].key = k => fiber[r].pc \in {"idle", "drain", "live"}

-----------------------------------------------------------------------------
(* handleClosed, handleHalted, and the reopening in handleEvent/handleOpened *)

Close(k) ==
  /\ "close" \in Env
  /\ "midflight" \notin Env => AtRest(k) \/ AtWork(k)
  /\ issueState[k] = "active"
  /\ issueState' = [issueState EXCEPT ![k] = "closed"]
  /\ Begin(k, "kill")
  /\ UNCHANGED <<memory, message, sessionState, dbPid, proc>>

Halt(k) ==
  /\ "halt" \in Env
  /\ "midflight" \notin Env => AtRest(k) \/ AtWork(k)
  /\ Begin(k, "kill")
  /\ UNCHANGED <<memory, store, proc>>

\* haltAll stops the sessions whose rows say running, one after the other.
HaltAll(k) ==
  /\ "haltall" \in Env
  /\ "midflight" \notin Env => AtRest(k) \/ AtWork(k)
  /\ sessionState[k] = "running"
  /\ Begin(k, "kill")
  /\ UNCHANGED <<memory, store, proc>>

\* The row is healed whatever happens next; a session still marked running is
\* taken for a duplicate issue_opened.
Reopen(k) ==
  /\ "reopen" \in Env
  /\ issueState[k] = "closed"
  /\ issueState' = [issueState EXCEPT ![k] = "active"]
  /\ IF sessionState[k] = "running" \/ UserMsgs >= MaxUserMsgs
     THEN UNCHANGED fiber
     ELSE Begin(k, "ack")
  /\ UNCHANGED <<memory, message, sessionState, dbPid, proc>>

\* Forget the session and read the messages to interrupt.
forget(r, k) ==
  /\ clearRuntimeState(k)
  /\ Becomes(r, [fiber[r] EXCEPT !.pc = "interrupt", !.todo = Unsettled(k)])

\* Mutant: the runtime state is cleared but the process is not killed.
KillSessionForgets(r) ==
  /\ fiber[r].pc = "kill"
  /\ forget(r, fiber[r].key)
  /\ UNCHANGED <<store, proc>>

\* killSessionProcess: a registered handle is killed; without one, a process
\* that the row still names is killed and awaited.
KillSession(r) ==
  LET k == fiber[r].key
  IN  /\ fiber[r].pc = "kill"
      /\ IF processes[k] = NoProc /\ dbPid[k] # NoProc
         THEN /\ stopping' = stopping \cup {k}
              /\ proc' = Kill(dbPid[k])
              /\ Goto(r, "reap")
              /\ UNCHANGED <<running, processes, currentMessage, generation, rounds>>
         ELSE /\ proc' = IF processes[k] = NoProc THEN proc ELSE Kill(processes[k])
              /\ forget(r, k)
      /\ UNCHANGED store

Reaped(r) ==
  /\ fiber[r].pc = "reap"
  /\ forget(r, fiber[r].key)
  /\ UNCHANGED <<store, proc>>

\* A write over every message of the snapshot, then the session row.
endMessages(r, st) ==
  /\ message' = [m \in Msgs |->
                   IF m \in fiber[r].todo
                   THEN SetStatus(message, m, st)[m] ELSE message[m]]
  /\ sessionState' = [sessionState EXCEPT ![fiber[r].key] = "idle"]
  /\ Return(r)
  /\ UNCHANGED <<memory, dbPid, issueState, proc>>

Interrupt(r) ==
  /\ fiber[r].pc = "interrupt"
  /\ endMessages(r, "interrupted")

-----------------------------------------------------------------------------
(* forceStop *)

\* Mutant: the slot is kept.
forceStopKeepsSlot(k, stuckTo) ==
  /\ stopping' = stopping \cup {k}
  /\ proc' = IF processes[k] = NoProc THEN proc ELSE Kill(processes[k])
  /\ processes' = [processes EXCEPT ![k] = NoProc]
  /\ currentMessage' = [currentMessage EXCEPT ![k] = NoMsg]
  /\ generation' = [generation EXCEPT ![k] = 0]
  /\ exitRounds' = [exitRounds EXCEPT ![k] = 0]
  /\ stuckRounds' = [stuckRounds EXCEPT ![k] = stuckTo]
  /\ UNCHANGED running

\* What forceStop does before its first await.  The flag is raised whether or
\* not there is a process; stuckTo is what the caller leaves in stuckRounds.
forceStop(k, stuckTo) ==
  /\ stopping' = stopping \cup {k}
  /\ proc' = IF processes[k] = NoProc THEN proc ELSE Kill(processes[k])
  /\ processes' = [processes EXCEPT ![k] = NoProc]
  /\ running' = running \ {k}
  /\ currentMessage' = [currentMessage EXCEPT ![k] = NoMsg]
  /\ generation' = [generation EXCEPT ![k] = 0]
  /\ exitRounds' = [exitRounds EXCEPT ![k] = 0]
  /\ stuckRounds' = [stuckRounds EXCEPT ![k] = stuckTo]

ForceStop(k) ==
  /\ "force" \in Env
  /\ "midflight" \notin Env => AtWork(k)
  /\ forceStop(k, 0)
  /\ Begin(k, "force")
  /\ UNCHANGED <<nudgeRounds, emptyRounds, store>>

\* The session was found: read its messages.
ForceRead(r) ==
  /\ fiber[r].pc = "force"
  /\ Becomes(r, [fiber[r] EXCEPT !.pc = "failing",
                                 !.todo = Unsettled(fiber[r].key)])
  /\ UNCHANGED <<memory, store, proc>>

ForceFail(r) ==
  /\ fiber[r].pc = "failing"
  /\ endMessages(r, "failed")

-----------------------------------------------------------------------------
(* trackSelfReply and retryMessage *)

\* The breaker kills the process of a running session and leaves everything
\* else to that process's execProcess.
Burst(k) ==
  /\ "burst" \in Env
  /\ k \in running
  /\ processes[k] # NoProc \/ dbPid[k] # NoProc
  /\ stopping' = stopping \cup {k}
  /\ proc' = Kill(IF processes[k] # NoProc THEN processes[k] ELSE dbPid[k])
  /\ processes' = [processes EXCEPT ![k] = NoProc]
  /\ UNCHANGED <<running, currentMessage, generation, rounds, fiber, store>>

Retry(m) ==
  /\ "retry" \in Env
  /\ "midflight" \notin Env => AtRest(message[m].key)
  /\ message[m].status = "failed"
  /\ message[m].attempts < MaxAttempts
  /\ issueState[message[m].key] # "closed"
  /\ Free # {}
  /\ message' = SetStatus(message, m, "pending")
  /\ Becomes(Oldest(Free), At("retry", message[m].key, m))
  /\ UNCHANGED <<memory, sessionState, dbPid, issueState, proc>>

\* dequeueOrIdle with force: no expiry.
RetryRun(r) ==
  LET k == fiber[r].key
  IN  /\ fiber[r].pc = "retry"
      /\ IF k \notin running /\ Cardinality(running) < MaxConcurrent
         THEN /\ message' = SetStatus(message, fiber[r].msg, "running")
              /\ Goto(r, "dequeued")
         ELSE /\ Return(r)
              /\ UNCHANGED message
      /\ UNCHANGED <<memory, sessionState, dbPid, issueState, proc>>

-----------------------------------------------------------------------------
(* observeIssue *)

\* One activation of the observer at a time, on a session whose row says
\* running and for which a handle is registered.
Observes(k) ==
  /\ issueState[k] = "active"
  /\ sessionState[k] = "running"
  /\ processes[k] # NoProc
  /\ \A r \in Fibers :
       fiber[r].pc \notin {"stuck", "stuckout", "overtime", "dead", "obituary"}

\* The process is gone although its exit has not been delivered yet.
FindDead(k) ==
  /\ "linger" \in Env
  /\ Observes(k)
  /\ proc[processes[k]] \in {"ok", "crash"}
  /\ processes' = [processes EXCEPT ![k] = NoProc]
  /\ running' = running \ {k}
  /\ sessionState' = [sessionState EXCEPT ![k] = "idle"]
  /\ Begin(k, "dead")
  /\ UNCHANGED <<stopping, currentMessage, generation, rounds, message, dbPid,
                 issueState, proc>>

\* currentMessage is read only now, after the await.
FailDead(r) ==
  LET k == fiber[r].key
      cur == currentMessage[k]
  IN  /\ fiber[r].pc = "dead"
      /\ message' = IF cur = NoMsg THEN message ELSE SetStatus(message, cur, "failed")
      /\ currentMessage' = [currentMessage EXCEPT ![k] = NoMsg]
      /\ Goto(r, "obituary")
      /\ UNCHANGED <<running, stopping, processes, generation, rounds, sessionState,
                     dbPid, issueState, proc>>

\* No reply so far: one restart.
RestartDead(r) ==
  LET k == fiber[r].key
  IN  /\ fiber[r].pc = "obituary"
      /\ exitRounds[k] < MaxExitRounds
      /\ exitRounds' = [exitRounds EXCEPT ![k] = @ + 1]
      /\ nudge(r)
      /\ UNCHANGED <<running, processes, currentMessage, generation, nudgeRounds,
                     emptyRounds, stuckRounds, proc>>

\* Mutant: giving up counts a round instead of clearing them.
BuryDeadCounts(r) ==
  LET k == fiber[r].key
      m == NextOf(Pending(k))
  IN  /\ fiber[r].pc = "obituary"
      /\ exitRounds' = [exitRounds EXCEPT ![k] = @ + 1]
      /\ Becomes(r, IF m = NoMsg THEN NoFiber
                     ELSE At("next", k, m))
      /\ UNCHANGED <<running, stopping, processes, currentMessage, generation,
                     nudgeRounds, emptyRounds, stuckRounds, store, proc>>

\* Replied before dying, or restarted enough: go on with what is pending.
BuryDead(r) ==
  LET k == fiber[r].key
      m == NextOf(Pending(k))
  IN  /\ fiber[r].pc = "obituary"
      /\ exitRounds' = [exitRounds EXCEPT ![k] = IF @ < MaxExitRounds THEN @ ELSE 0]
      /\ Becomes(r, IF m = NoMsg THEN NoFiber
                     ELSE At("next", k, m))
      /\ UNCHANGED <<running, stopping, processes, currentMessage, generation,
                     nudgeRounds, emptyRounds, stuckRounds, store, proc>>

FindStuck(k) ==
  /\ "hang" \in Env
  /\ Observes(k)
  /\ proc[processes[k]] = "live"
  /\ Begin(k, IF stuckRounds[k] < MaxStuckRounds THEN "stuck" ELSE "stuckout")
  /\ UNCHANGED <<memory, store, proc>>

\* forceStop is called without an await: its store writes go on in an
\* activation of their own while this one queues the nudge.
RestartStuck(r) ==
  LET k == fiber[r].key
  IN  /\ fiber[r].pc = "stuck"
      /\ Free # {}
      /\ forceStop(k, MaxStuckRounds)
      /\ \E m \in Fresh :
           /\ message' = [message EXCEPT ![m] = NewRow(k, FALSE)]
           /\ fiber' = [fiber EXCEPT ![r] = At("requeue", k, m),
                                    ![Oldest(Free)] = At("force", k, NoMsg)]
      /\ UNCHANGED <<nudgeRounds, emptyRounds, sessionState, dbPid, issueState>>

GiveUpStuck(r) ==
  LET k == fiber[r].key
  IN  /\ fiber[r].pc = "stuckout"
      /\ forceStop(k, 0)
      /\ Goto(r, "force")
      /\ UNCHANGED <<nudgeRounds, emptyRounds, store>>

FindOvertime(k) ==
  /\ "overtime" \in Env
  /\ Observes(k)
  /\ proc[processes[k]] = "live"
  /\ Begin(k, "overtime")
  /\ UNCHANGED <<memory, store, proc>>

StopOvertime(r) ==
  LET k == fiber[r].key
  IN  /\ fiber[r].pc = "overtime"
      /\ nudgeRounds' = [nudgeRounds EXCEPT ![k] = MaxNudgeRounds]
      /\ forceStop(k, 0)
      /\ Goto(r, "force")
      /\ UNCHANGED <<emptyRounds, store>>

-----------------------------------------------------------------------------
ControlStep(r) == KillSession(r) \/ Reaped(r) \/ Interrupt(r) \/ ForceRead(r)
                  \/ ForceFail(r) \/ RetryRun(r) \/ FailDead(r) \/ RestartDead(r)
                  \/ BuryDead(r) \/ RestartStuck(r) \/ GiveUpStuck(r)
                  \/ StopOvertime(r)

EngineResume(r) == Resume(r) \/ ControlStep(r)

Stimulus(k) == Close(k) \/ Halt(k) \/ HaltAll(k) \/ Reopen(k) \/ ForceStop(k)
               \/ Burst(k) \/ FindDead(k) \/ FindStuck(k) \/ FindOvertime(k)

EngineNext ==
  \/ \E k \in Keys : Deliver(k) \/ ObserverFixes(k) \/ Stimulus(k)
  \/ \E r \in Fibers : Turn(r) /\ EngineResume(r)
  \/ \E p \in Procs : Exit(p)
  \/ ObserverDrains
  \/ \E m \in Msgs : Age(m) \/ Retry(m)

EngineFairness ==
  /\ \A r \in Fibers : WF_vars(Turn(r) /\ EngineResume(r))
  /\ \A p \in Procs : WF_vars(Exit(p))
  /\ \A k \in Keys : WF_vars(ObserverFixes(k))
  /\ WF_vars(ObserverDrains)

EngineSpec == Init /\ [][EngineNext]_vars
EngineFairSpec == EngineSpec /\ EngineFairness

-----------------------------------------------------------------------------
(* Properties *)

\* pcs of handleClosed and handleHalted
ClosePCs == {"kill", "reap", "interrupt"}

\* Once the handler of the closing has run to its end, no process works for the
\* closed issue.
ClosedIsQuiet ==
  \A k \in Keys :
    /\ issueState[k] = "closed"
    /\ \A r \in Fibers : fiber[r].key = k => fiber[r].pc \notin ClosePCs
    => LiveOf(k) = {}

\* A stop, of whatever kind, leaves nothing behind in the other sessions or in
\* its own: live processes stay managed, slots and running rows attended.
StopsLeaveNothing == LiveIsManaged /\ SlotHasRun /\ RunningIsAttended

\* A closed issue comes to rest and stays at rest: no process, no slot, no
\* message left to run, and a session row that says idle.
AtPeace(k) ==
  /\ k \notin running /\ LiveOf(k) = {} /\ sessionState[k] = "idle"
  /\ \A m \in Msgs : message[m].key = k => message[m].status \notin {"pending", "running"}

StopsSettle == \A k \in Keys : issueState[k] = "closed" ~> []AtPeace(k)
=============================================================================
