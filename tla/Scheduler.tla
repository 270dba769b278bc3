----------------------------- MODULE Scheduler -----------------------------
(***************************************************************************)
(* The preemptive scheduler of one ework-daemon engine (src/opencode.ts):  *)
(* delivery of a user message to a session, the concurrency cap, atomic    *)
(* message claims, execProcess and its web gate, the process exit, the     *)
(* finishRun decision (done, retry, nudge, report), and the drain of       *)
(* queued messages.                                                        *)
(*                                                                         *)
(* The daemon is one JavaScript thread.  Code between two awaits runs      *)
(* without interruption, so a step of this module is such a segment, and   *)
(* an activation of an async function (or of a chain of them that await    *)
(* each other) is a FIBER whose pc names the await it is suspended in.  A  *)
(* store call takes effect when it is made; its reply resumes the fiber at *)
(* any later time.  Consecutive awaits with nothing but comments, badges   *)
(* or logging between them are one pc.                                     *)
(***************************************************************************)
EXTENDS Naturals, FiniteSets

CONSTANTS
  Keys,           \* sessions, named by sessionKey (tracker:scope#issue@session)
  Msgs,           \* message rows, numbered in the order of created_at
  Fibers,         \* activations of async functions that may be in flight
  Procs,          \* opencode processes (handles)
  MaxConcurrent,  \* maxConcurrent: the cap on running sessions
  MaxUserMsgs,    \* bound: messages that users send
  MaxAttempts,    \* bound: attempts is counted up to this value
  HasPool,        \* modelPool has a member besides defaultModel
  Env             \* what the environment may do; a subset of EnvEvents

EnvEvents == { "overlap",    \* a message arrives while its session is busy
               "midflight",  \* a stop hits a session between two awaits of its run
               "slowinsert", \* others run between an INSERT and its reply
               "deny",       \* the web gate refuses a spawn
               "spawnfail",  \* backend.spawn throws
               "throw",      \* the preparation of the spawn throws
               "crash",      \* the process exits with a nonzero code
               "silent",     \* the process ends without posting a reply
               "empty",      \* the model produced no output tokens
               "age",        \* a message grows older than MAX_PENDING_AGE_MS
               \* and, for module Engine:
               "close",      \* the issue is closed
               "reopen",     \* a closed issue is opened again
               "halt",       \* the issue's ai_status becomes halted
               "haltall",    \* the operator halts the whole daemon
               "force",      \* POST /api/force-stop
               "burst",      \* the session's own replies trip the burst breaker
               "retry",      \* POST /api/retry
               "hang",       \* a process emits nothing for stuckThresholdMs
               "overtime",   \* a process lives longer than maxRuntimeMs
               "linger" }    \* the observer sees a dead process before its exit event

NoMsg  == 0
NoProc == 0

ASSUME SchedulerAssumption ==
  /\ Keys # {}
  /\ Msgs \subseteq Nat \ {0}
  /\ Procs \subseteq Nat \ {0}
  /\ Fibers \subseteq Nat
  /\ MaxConcurrent \in Nat \ {0}
  /\ MaxUserMsgs \in Nat
  /\ MaxAttempts \in Nat \ {0}
  /\ HasPool \in BOOLEAN

\* Engine.MAX_NUDGE_ROUNDS and Engine.MAX_EMPTY_RESPONSE_ROUNDS
MaxNudgeRounds == 1
MaxEmptyRounds == 1
\* Engine.MAX_PROCESS_EXIT_NUDGE_ROUNDS and Engine.MAX_STUCK_NUDGE_ROUNDS
MaxExitRounds  == 1
MaxStuckRounds == 1

VARIABLES
  \* memory of the engine, all keyed by session key
  running,         \* this.running: sessions that hold a slot
  stopping,        \* this.stopping: sessions whose process the engine killed
  processes,       \* this.processes: the registered handle, or NoProc
  currentMessage,  \* this.currentMessage: the message being run, or NoMsg
  generation,      \* this.generation
  nudgeRounds,     \* this.nudgeRounds
  emptyRounds,     \* this.emptyResponseRounds
  exitRounds,      \* this.processExitNudgeRounds
  stuckRounds,     \* this.stuckNudgeRounds
  fiber,           \* the suspended async activations
  \* the store
  message,         \* rows of the messages table
  sessionState,    \* sessions.state
  dbPid,           \* sessions.opencode_pid, as far as that process is alive
  issueState,      \* issues.state of the session's issue
  \* the operating system
  proc             \* the state of each opencode process

memory == <<running, stopping, processes, currentMessage, generation,
            nudgeRounds, emptyRounds, exitRounds, stuckRounds>>
rounds == <<nudgeRounds, emptyRounds, exitRounds, stuckRounds>>
store  == <<message, sessionState, dbPid, issueState>>
vars   == <<memory, fiber, store, proc>>

PCs == { "idle",      \* no activation
         "ack",       \* handler accepted the event, posts its acknowledgement
         "enqueue",   \* enqueueOrRun awaits createMessage
         "preempt",   \* preemptSession awaits the interruption of the old message
         "claimed",   \* executeMessage awaits claimMessage, which it won
         "dequeued",  \* dequeueOrIdle awaits the update to running
         "expire",    \* dequeueOrIdle expired a message and reads the next one
         "gate",      \* execProcess awaits the web gate
         "denied",    \* the gate refused, the message is being failed
         "next",      \* dequeueAfterGate read the next message
         "spawn",     \* execProcess prepares the workdir and spawns
         "live",      \* execProcess awaits the exit of its process
         "exited",    \* the exit was seen, the pid is being cleared
         "finish",    \* the outcome was stored, finishRun is about to start
         "current",   \* finishRun reads the attempts of the current message
         "report",    \* finishRun reports and lists the comments
         "output",    \* finishRun asks the backend for output tokens
         "requeue",   \* a nudge or fallback message is stored, to be dequeued
         "settle",    \* finishRun writes its last reactions
         "abandon",   \* finishRun after a spawn failure
         "deact",     \* deactivateIfIdle read the next pending message
         "drain",     \* drainGlobalPending read the pending messages
         "drained",   \* drainGlobalPending claimed a message
         \* and, for module Engine:
         "kill",      \* close or halt read the sessions to stop
         "reap",      \* close or halt await the death of a process without handle
         "interrupt", \* close or halt read the messages to interrupt
         "force",     \* forceStop looks up the session
         "failing",   \* forceStop read the messages to fail
         "retry",     \* retryMessage awaits the update to pending
         "stuck",     \* the observer announces the restart of a stuck session
         "stuckout",  \* the observer announces that it gives up on one
         "overtime",  \* the observer announces the end of an overlong run
         "dead",      \* the observer awaits the update to idle of a dead session
         "obituary" } \* the observer reports the death

Status == {"none", "pending", "running", "done", "failed", "interrupted"}

NoFiber == [pc |-> "idle", key |-> CHOOSE k \in Keys : TRUE, msg |-> NoMsg,
            gen |-> 0, proc |-> NoProc, exit |-> "null", todo |-> {}]

\* What a suspended activation remembers
Activation == [pc : PCs, key : Keys, msg : Msgs \cup {NoMsg}, gen : Nat,
               proc : Procs \cup {NoProc}, exit : {"null", "ok", "crash"},
               todo : SUBSET Msgs]

\* A row of the messages table
Row == [key : Keys, status : Status, stale : BOOLEAN, user : BOOLEAN,
        attempts : 0 .. MaxAttempts]

TypeOK ==
  /\ running \subseteq Keys
  /\ stopping \subseteq Keys
  /\ processes \in [Keys -> Procs \cup {NoProc}]
  /\ currentMessage \in [Keys -> Msgs \cup {NoMsg}]
  /\ generation \in [Keys -> Nat]
  /\ nudgeRounds \in [Keys -> 0 .. MaxNudgeRounds]
  /\ emptyRounds \in [Keys -> 0 .. MaxEmptyRounds]
  /\ exitRounds \in [Keys -> 0 .. MaxExitRounds]
  /\ stuckRounds \in [Keys -> 0 .. MaxStuckRounds]
  /\ fiber \in [Fibers -> Activation]
  /\ message \in [Msgs -> Row]
  /\ sessionState \in [Keys -> {"idle", "running"}]
  /\ dbPid \in [Keys -> Procs \cup {NoProc}]
  /\ issueState \in [Keys -> {"active", "closed"}]
  /\ proc \in [Procs -> {"none", "live", "ok", "crash", "killed"}]

Init ==
  /\ running = {}
  /\ stopping = {}
  /\ processes = [k \in Keys |-> NoProc]
  /\ currentMessage = [k \in Keys |-> NoMsg]
  /\ generation = [k \in Keys |-> 0]
  /\ nudgeRounds = [k \in Keys |-> 0]
  /\ emptyRounds = [k \in Keys |-> 0]
  /\ exitRounds = [k \in Keys |-> 0]
  /\ stuckRounds = [k \in Keys |-> 0]
  /\ fiber = [r \in Fibers |-> NoFiber]
  /\ message = [m \in Msgs |-> [key |-> NoFiber.key, status |-> "none",
                                stale |-> FALSE, user |-> FALSE, attempts |-> 0]]
  /\ sessionState = [k \in Keys |-> "idle"]
  /\ dbPid = [k \in Keys |-> NoProc]
  /\ issueState = [k \in Keys |-> "active"]
  /\ proc = [p \in Procs |-> "none"]

-----------------------------------------------------------------------------
(* Reading the store *)

Oldest(S) == CHOOSE m \in S : \A q \in S : m <= q

Pending(k) == {m \in Msgs : message[m].key = k /\ message[m].status = "pending"}

\* getNextPendingMessage: the oldest pending message of a session, or NoMsg
NextOf(S) == IF S = {} THEN NoMsg ELSE Oldest(S)

\* getGlobalPendingMessages(limit): the oldest pending messages of any session
GlobalPending(limit) ==
  LET all == {m \in Msgs : message[m].status = "pending"}
  IN  {m \in all : Cardinality({q \in all : q < m}) < limit}

\* createMessage assigns the next row
Fresh == {m \in Msgs : /\ message[m].status = "none"
                       /\ \A q \in Msgs : q < m => message[q].status # "none"}

\* updateMessageStatus: unconditional, and failing counts an attempt
SetStatus(f, m, st) ==
  LET n == f[m].attempts
  IN  [f EXCEPT ![m] =
         [f[m] EXCEPT !.status = st,
                      !.attempts = IF st = "failed" /\ n < MaxAttempts THEN n + 1 ELSE n]]

NewRow(k, isUser) ==
  [key |-> k, status |-> "pending", stale |-> FALSE, user |-> isUser, attempts |-> 0]

(* Fibers and processes *)

Free == {r \in Fibers : fiber[r].pc = "idle"}

\* A handle that no activation, map or row still refers to
FreeProcs == {p \in Procs : /\ proc[p] = "none"
                            /\ \A r \in Fibers : fiber[r].proc # p
                            /\ \A k \in Keys : processes[k] # p /\ dbPid[k] # p}

Kill(p) == [q \in Procs |-> IF q = p /\ proc[q] = "live" THEN "killed" ELSE proc[q]]

\* Activation r goes on as a; the others stay suspended.
Becomes(r, a) == fiber' = [fiber EXCEPT ![r] = a]

\* A new activation at pc p, working on message m of session k
At(p, k, m) == [NoFiber EXCEPT !.pc = p, !.key = k, !.msg = m]

Goto(r, p) == Becomes(r, [fiber[r] EXCEPT !.pc = p])
Return(r)  == Becomes(r, NoFiber)

\* An activation works on session k (a drain works on none until it claims)
Busy(k) == \E r \in Fibers : /\ fiber[r].key = k
                             /\ fiber[r].pc \notin {"idle", "drain"}

superseded(r) == generation[fiber[r].key] # fiber[r].gen

-----------------------------------------------------------------------------
(* Shared segments *)

\* Mutant: the slot is not given back.
clearRuntimeStateKeepsSlot(k) ==
  /\ processes' = [processes EXCEPT ![k] = NoProc]
  /\ stopping' = stopping \ {k}
  /\ currentMessage' = [currentMessage EXCEPT ![k] = NoMsg]
  /\ nudgeRounds' = [nudgeRounds EXCEPT ![k] = 0]
  /\ exitRounds' = [exitRounds EXCEPT ![k] = 0]
  /\ stuckRounds' = [stuckRounds EXCEPT ![k] = 0]
  /\ generation' = [generation EXCEPT ![k] = 0]
  /\ UNCHANGED <<running, emptyRounds>>

\* Mutant: the handle stays registered.
clearRuntimeStateKeepsHandle(k) ==
  /\ running' = running \ {k}
  /\ stopping' = stopping \ {k}
  /\ currentMessage' = [currentMessage EXCEPT ![k] = NoMsg]
  /\ nudgeRounds' = [nudgeRounds EXCEPT ![k] = 0]
  /\ exitRounds' = [exitRounds EXCEPT ![k] = 0]
  /\ stuckRounds' = [stuckRounds EXCEPT ![k] = 0]
  /\ generation' = [generation EXCEPT ![k] = 0]
  /\ UNCHANGED <<processes, emptyRounds>>

\* clearRuntimeState(k); emptyResponseRounds is not among what it clears
clearRuntimeState(k) ==
  /\ processes' = [processes EXCEPT ![k] = NoProc]
  /\ running' = running \ {k}
  /\ stopping' = stopping \ {k}
  /\ currentMessage' = [currentMessage EXCEPT ![k] = NoMsg]
  /\ nudgeRounds' = [nudgeRounds EXCEPT ![k] = 0]
  /\ exitRounds' = [exitRounds EXCEPT ![k] = 0]
  /\ stuckRounds' = [stuckRounds EXCEPT ![k] = 0]
  /\ generation' = [generation EXCEPT ![k] = 0]
  /\ UNCHANGED emptyRounds

\* The segment of dequeueOrIdle that ends in its first await: an expired
\* message is failed and the next one read, a fresh one is set running
\* without a claim.
dequeueOrIdle(r, k, m) ==
  /\ IF message[m].stale
     THEN /\ message' = SetStatus(message, m, "failed")
          /\ Becomes(r, [fiber[r] EXCEPT !.pc = "expire", !.key = k,
                                         !.msg = NextOf(Pending(k) \ {m})])
     ELSE /\ message' = SetStatus(message, m, "running")
          /\ Becomes(r, [fiber[r] EXCEPT !.pc = "dequeued", !.key = k, !.msg = m])
  /\ UNCHANGED <<memory, sessionState, dbPid, issueState, proc>>

\* The first segment of drainGlobalPending, run by fiber r with the given
\* running set: read as many of the oldest pending messages as there are slots.
startDrain(r, occupied) ==
  LET limit == IF Cardinality(occupied) >= MaxConcurrent THEN 0
               ELSE MaxConcurrent - Cardinality(occupied)
      list  == GlobalPending(limit) \cup fiber[r].todo
  IN  Becomes(r, IF list = {} THEN NoFiber
                  ELSE [NoFiber EXCEPT !.pc = "drain", !.todo = list])

\* Leave the session idle: clear its memory, store idle, start a drain.
settleIdle(r, k) ==
  /\ clearRuntimeState(k)
  /\ sessionState' = [sessionState EXCEPT ![k] = "idle"]
  /\ startDrain(r, running \ {k})
  /\ UNCHANGED <<message, dbPid, issueState, proc>>

\* executeMessage up to claimMessage: pending -> running only if still pending;
\* a lost claim ends the activation.
claimAndRun(r, k, m) ==
  IF message[m].status = "pending"
  THEN /\ message' = SetStatus(message, m, "running")
       /\ Becomes(r, At("claimed", k, m))
  ELSE /\ Return(r)
       /\ UNCHANGED message

\* preemptSession from the kill on: p is the handle it captured on entry.
takeOver(r, k, m, p) ==
  /\ IF p # NoProc
     THEN /\ stopping' = stopping \cup {k}
          /\ processes' = [processes EXCEPT ![k] = NoProc]
          /\ proc' = Kill(p)
     ELSE UNCHANGED <<stopping, processes, proc>>
  /\ running' = running \ {k}
  /\ currentMessage' = [currentMessage EXCEPT ![k] = NoMsg]
  /\ claimAndRun(r, k, m)
  /\ UNCHANGED <<generation, rounds, sessionState, dbPid, issueState>>

\* The remaining list of a drain goes on in an activation of its own while
\* the message it dequeued runs.
Fork(f, todo) ==
  IF todo = {} THEN f
  ELSE [f EXCEPT ![Oldest({q \in Fibers : f[q].pc = "idle"})] =
          [NoFiber EXCEPT !.pc = "drain", !.todo = todo]]
CanFork(todo) == todo = {} \/ Free # {}

-----------------------------------------------------------------------------
(* Delivery of a user message: handleOpened / handleCommented / enqueueOrRun *)

UserMsgs == Cardinality({m \in Msgs : message[m].user})
            + Cardinality({r \in Fibers : fiber[r].pc = "ack"})

\* The handler saw the issue open and posts its acknowledgement.
Deliver(k) ==
  /\ Free # {}
  /\ UserMsgs < MaxUserMsgs
  /\ issueState[k] = "active"
  /\ "overlap" \notin Env => ~Busy(k) /\ Pending(k) = {}
  /\ LET r == Oldest(Free)
     IN  Becomes(r, [fiber[r] EXCEPT !.pc = "ack", !.key = k])
  /\ UNCHANGED <<memory, store, proc>>

\* enqueueOrRun forgets the restarts so far and stores the message as pending.
CreateMessage(r) ==
  /\ fiber[r].pc = "ack"
  /\ exitRounds' = [exitRounds EXCEPT ![fiber[r].key] = 0]
  /\ stuckRounds' = [stuckRounds EXCEPT ![fiber[r].key] = 0]
  /\ \E m \in Fresh :
       /\ message' = [message EXCEPT ![m] = NewRow(fiber[r].key, TRUE)]
       /\ Becomes(r, [fiber[r] EXCEPT !.pc = "enqueue", !.msg = m])
  /\ UNCHANGED <<running, stopping, processes, currentMessage, generation,
                 nudgeRounds, emptyRounds, sessionState, dbPid, issueState, proc>>

\* The session holds a slot: preempt it.  With a current message the first
\* thing awaited is its interruption, with the handle captured before it.
Preempt(r) ==
  LET k   == fiber[r].key
      old == currentMessage[k]
  IN  /\ fiber[r].pc = "enqueue"
      /\ k \in running
      /\ IF old # NoMsg
         THEN /\ message' = SetStatus(message, old, "interrupted")
              /\ Becomes(r, [fiber[r] EXCEPT !.pc = "preempt", !.proc = processes[k]])
              /\ UNCHANGED <<memory, sessionState, dbPid, issueState, proc>>
         ELSE takeOver(r, k, fiber[r].msg, processes[k])

PreemptKill(r) ==
  /\ fiber[r].pc = "preempt"
  /\ takeOver(r, fiber[r].key, fiber[r].msg, fiber[r].proc)

\* At the cap the message stays pending and the handler returns.
Queue(r) ==
  /\ fiber[r].pc = "enqueue"
  /\ fiber[r].key \notin running
  /\ Cardinality(running) >= MaxConcurrent
  /\ Return(r)
  /\ UNCHANGED <<memory, store, proc>>

Execute(r) ==
  /\ fiber[r].pc = "enqueue"
  /\ fiber[r].key \notin running
  /\ Cardinality(running) < MaxConcurrent
  /\ claimAndRun(r, fiber[r].key, fiber[r].msg)
  /\ UNCHANGED <<memory, sessionState, dbPid, issueState, proc>>

\* Mutant: the session is not added to running.
TakeSlotUncounted(r) ==
  LET k == fiber[r].key
      todo == fiber[r].todo
  IN  /\ fiber[r].pc \in {"claimed", "dequeued"}
      /\ CanFork(todo)
      /\ currentMessage' = [currentMessage EXCEPT ![k] = fiber[r].msg]
      /\ sessionState' = [sessionState EXCEPT ![k] = "running"]
      /\ fiber' = Fork([fiber EXCEPT ![r] = At("gate", k, fiber[r].msg)], todo)
      /\ UNCHANGED <<running, stopping, processes, generation, rounds, message, dbPid,
                     issueState, proc>>

\* The claim (or dequeueOrIdle's update) is acknowledged: take the slot.
TakeSlot(r) ==
  LET k == fiber[r].key
      todo == fiber[r].todo
  IN  /\ fiber[r].pc \in {"claimed", "dequeued"}
      /\ CanFork(todo)
      /\ running' = running \cup {k}
      /\ currentMessage' = [currentMessage EXCEPT ![k] = fiber[r].msg]
      /\ sessionState' = [sessionState EXCEPT ![k] = "running"]
      /\ fiber' = Fork([fiber EXCEPT ![r] = At("gate", k, fiber[r].msg)], todo)
      /\ UNCHANGED <<stopping, processes, generation, rounds, message, dbPid,
                     issueState, proc>>

-----------------------------------------------------------------------------
(* execProcess *)

\* What the gate may answer: a web that is off, halted or unreachable refuses.
webGateAllows == IF "deny" \in Env THEN BOOLEAN ELSE {TRUE}

GateAllows(r) ==
  LET k == fiber[r].key
  IN  /\ fiber[r].pc = "gate"
      /\ generation' = [generation EXCEPT ![k] = @ + 1]
      /\ Becomes(r, [fiber[r] EXCEPT !.pc = "spawn", !.gen = generation[k] + 1])
      /\ UNCHANGED <<running, stopping, processes, currentMessage, rounds, store, proc>>

\* Mutant: the refused message is not failed.
GateDeniesSilently(r) ==
  /\ "deny" \in Env
  /\ fiber[r].pc = "gate"
  /\ Goto(r, "denied")
  /\ UNCHANGED <<memory, store, proc>>

GateDenies(r) ==
  /\ FALSE \in webGateAllows
  /\ fiber[r].pc = "gate"
  /\ message' = SetStatus(message, fiber[r].msg, "failed")
  /\ Goto(r, "denied")
  /\ UNCHANGED <<memory, sessionState, dbPid, issueState, proc>>

\* Mutant: a refused spawn keeps its slot.
ReleaseDeniedKeepsSlot(r) ==
  LET k == fiber[r].key
      m == NextOf(Pending(k))
  IN  /\ fiber[r].pc = "denied"
      /\ currentMessage' = [currentMessage EXCEPT ![k] = NoMsg]
      /\ Becomes(r, IF m = NoMsg THEN NoFiber
                     ELSE At("next", k, m))
      /\ UNCHANGED <<running, stopping, processes, generation, rounds, store, proc>>

\* The slot is given back (sessions.state is not touched) and
\* dequeueAfterGate reads the next pending message.
ReleaseDenied(r) ==
  LET k == fiber[r].key
      m == NextOf(Pending(k))
  IN  /\ fiber[r].pc = "denied"
      /\ running' = running \ {k}
      /\ currentMessage' = [currentMessage EXCEPT ![k] = NoMsg]
      /\ Becomes(r, IF m = NoMsg THEN NoFiber
                     ELSE At("next", k, m))
      /\ UNCHANGED <<stopping, processes, generation, rounds, store, proc>>

DequeueAfterGate(r) ==
  /\ fiber[r].pc = "next"
  /\ dequeueOrIdle(r, fiber[r].key, fiber[r].msg)

\* OpencodeBackend.spawn starts process p and does not wait for its session id.
spawn(p) == proc' = [proc EXCEPT ![p] = "live"]

\* Mutant: the process of a superseded generation is left running.
SpawnLeavesOrphan(r) ==
  LET k == fiber[r].key
  IN  /\ fiber[r].pc = "spawn"
      /\ FreeProcs # {}
      /\ LET p == Oldest(FreeProcs)
         IN  /\ spawn(p)
             /\ IF superseded(r)
                THEN /\ Return(r)
                     /\ UNCHANGED <<processes, dbPid>>
                ELSE /\ processes' = [processes EXCEPT ![k] = p]
                     /\ dbPid' = [dbPid EXCEPT ![k] = p]
                     /\ Becomes(r, [fiber[r] EXCEPT !.pc = "live", !.proc = p])
      /\ UNCHANGED <<running, stopping, currentMessage, generation, rounds, message,
                     sessionState, issueState>>

\* backend.spawn returned.  A superseded generation kills the process at once
\* and returns; otherwise the handle is registered and its pid persisted.
Spawn(r) ==
  LET k == fiber[r].key
  IN  /\ fiber[r].pc = "spawn"
      /\ IF superseded(r)
         THEN /\ Return(r)
              /\ UNCHANGED <<processes, dbPid, proc>>
         ELSE /\ FreeProcs # {}
              /\ LET p == Oldest(FreeProcs)
                 IN  /\ spawn(p)
                     /\ processes' = [processes EXCEPT ![k] = p]
                     /\ dbPid' = [dbPid EXCEPT ![k] = p]
                     /\ Becomes(r, [fiber[r] EXCEPT !.pc = "live", !.proc = p])
      /\ UNCHANGED <<running, stopping, currentMessage, generation, rounds, message,
                     sessionState, issueState>>

SpawnFails(r) ==
  /\ "spawnfail" \in Env
  /\ fiber[r].pc = "spawn"
  /\ message' = SetStatus(message, fiber[r].msg, "failed")
  /\ Goto(r, "finish")
  /\ UNCHANGED <<memory, sessionState, dbPid, issueState, proc>>

\* resolveWorkdir, a hook script or sessionExists throws before the try: the
\* promise is rejected and nobody handles it.
SpawnThrows(r) ==
  /\ "throw" \in Env
  /\ fiber[r].pc = "spawn"
  /\ Return(r)
  /\ UNCHANGED <<memory, store, proc>>

\* The opencode process ends on its own.
Exit(p) ==
  /\ proc[p] = "live"
  /\ \E code \in {"ok"} \cup (IF "crash" \in Env THEN {"crash"} ELSE {}) :
       proc' = [proc EXCEPT ![p] = code]
  /\ UNCHANGED <<memory, fiber, store>>

\* Mutant: the handle is not compared, so a replaced run finishes too.
ObserveExitOfAny(r) ==
  LET k == fiber[r].key
      p == fiber[r].proc
  IN  /\ fiber[r].pc = "live"
      /\ proc[p] \in {"ok", "crash", "killed"}
      /\ proc' = [proc EXCEPT ![p] = "none"]
      /\ dbPid' = [q \in Keys |-> IF dbPid[q] = p THEN NoProc ELSE dbPid[q]]
      /\ processes' = [processes EXCEPT ![k] = NoProc]
      /\ Becomes(r, [fiber[r] EXCEPT !.pc = "exited", !.proc = NoProc,
                              !.exit = IF proc[p] = "ok" THEN "ok" ELSE "crash"])
      /\ UNCHANGED <<running, stopping, currentMessage, generation, rounds, message,
                     sessionState, issueState>>

\* handle.exited resolved: if the handle is still the registered one it is
\* unregistered and the run goes on to finish, else the run was replaced.
ObserveExit(r) ==
  LET k == fiber[r].key
      p == fiber[r].proc
  IN  /\ fiber[r].pc = "live"
      /\ proc[p] \in {"ok", "crash", "killed"}
      /\ proc' = [proc EXCEPT ![p] = "none"]
      /\ dbPid' = [q \in Keys |-> IF dbPid[q] = p THEN NoProc ELSE dbPid[q]]
      /\ IF processes[k] = p
         THEN /\ processes' = [processes EXCEPT ![k] = NoProc]
              /\ Becomes(r, [fiber[r] EXCEPT !.pc = "exited", !.proc = NoProc,
                              !.exit = IF proc[p] = "ok" THEN "ok" ELSE "crash"])
              /\ UNCHANGED stopping
         ELSE /\ stopping' = stopping \ {k}
              /\ Return(r)
              /\ UNCHANGED processes
      /\ UNCHANGED <<running, currentMessage, generation, rounds, message,
                     sessionState, issueState>>

\* Mutant: a crashed run leaves its message as it is.
StoreOutcomeOfSuccess(r) ==
  /\ fiber[r].pc = "exited"
  /\ message' = IF fiber[r].exit = "ok" THEN SetStatus(message, fiber[r].msg, "done")
                                         ELSE message
  /\ Goto(r, "finish")
  /\ UNCHANGED <<memory, sessionState, dbPid, issueState, proc>>

StoreOutcome(r) ==
  /\ fiber[r].pc = "exited"
  /\ message' = SetStatus(message, fiber[r].msg,
                          IF fiber[r].exit = "ok" THEN "done" ELSE "failed")
  /\ Goto(r, "finish")
  /\ UNCHANGED <<memory, sessionState, dbPid, issueState, proc>>

-----------------------------------------------------------------------------
(* finishRun *)

\* The stopping flag, whoever set it, makes finishRun return at once.
FinishSkipped(r) ==
  /\ fiber[r].pc = "finish"
  /\ fiber[r].key \in stopping
  /\ stopping' = stopping \ {fiber[r].key}
  /\ Return(r)
  /\ UNCHANGED <<running, processes, currentMessage, generation, rounds, store, proc>>

\* msg now is curMsgId: what currentMessage held when finishRun started.
FinishRun(r) ==
  LET cur == currentMessage[fiber[r].key]
  IN  /\ fiber[r].pc = "finish"
      /\ fiber[r].key \notin stopping
      /\ Becomes(r, [fiber[r] EXCEPT !.msg = cur,
                        !.pc = IF cur = NoMsg THEN "report" ELSE "current"])
      /\ UNCHANGED <<memory, store, proc>>

ForgetCurrent(r) ==
  /\ fiber[r].pc = "current"
  /\ currentMessage' = [currentMessage EXCEPT ![fiber[r].key] = NoMsg]
  /\ Goto(r, "report")
  /\ UNCHANGED <<running, stopping, processes, generation, rounds, store, proc>>

\* A newer spawn for this key owns its state now.
Superseded(r) ==
  /\ fiber[r].pc \in {"report", "settle"}
  /\ superseded(r)
  /\ Return(r)
  /\ UNCHANGED <<memory, store, proc>>

SpawnFailed(r) ==
  /\ fiber[r].pc = "report"
  /\ ~superseded(r)
  /\ fiber[r].exit = "null"
  /\ Goto(r, "abandon")
  /\ UNCHANGED <<memory, store, proc>>

\* Whether the comments hold a reply that the bot posted after this run was
\* started, and whether the model produced anything: a database that cannot be
\* read counts as output.
hasRecentBotReply == IF "silent" \in Env THEN BOOLEAN ELSE {TRUE}
hasOutput == IF "empty" \in Env THEN BOOLEAN ELSE {TRUE}

\* The bot replied after the run started: done, both round counters reset.
Replied(r) ==
  LET k == fiber[r].key
  IN  /\ fiber[r].pc = "report"
      /\ ~superseded(r)
      /\ fiber[r].exit # "null"
      /\ nudgeRounds' = [nudgeRounds EXCEPT ![k] = 0]
      /\ emptyRounds' = [emptyRounds EXCEPT ![k] = 0]
      /\ Goto(r, "settle")
      /\ UNCHANGED <<running, stopping, processes, currentMessage, generation, exitRounds,
                     stuckRounds, store, proc>>

NoReply(r) ==
  /\ FALSE \in hasRecentBotReply
  /\ fiber[r].pc = "report"
  /\ ~superseded(r)
  /\ fiber[r].exit # "null"
  /\ Goto(r, "output")
  /\ UNCHANGED <<memory, store, proc>>

\* applyModelFallback: one requeue of the very message on the default model.
CanFallBack(r) == /\ HasPool
                  /\ fiber[r].msg # NoMsg
                  /\ message[fiber[r].msg].attempts = 0

ModelFallback(r) ==
  LET k == fiber[r].key
      m == fiber[r].msg
  IN  /\ FALSE \in hasOutput
      /\ fiber[r].pc = "output"
      /\ CanFallBack(r)
      /\ nudgeRounds' = [nudgeRounds EXCEPT ![k] = 0]
      /\ emptyRounds' = [emptyRounds EXCEPT ![k] = 0]
      /\ message' = [message EXCEPT
                       ![m] = [message[m] EXCEPT !.status = "pending", !.attempts = 1]]
      /\ Goto(r, "requeue")
      /\ UNCHANGED <<running, stopping, processes, currentMessage, generation, exitRounds,
                     stuckRounds, sessionState, dbPid, issueState, proc>>

\* Another prompt for the same session, created pending.
nudge(r) ==
  /\ \E m \in Fresh :
       /\ message' = [message EXCEPT ![m] = NewRow(fiber[r].key, FALSE)]
       /\ Becomes(r, [fiber[r] EXCEPT !.pc = "requeue", !.msg = m])
  /\ UNCHANGED <<stopping, sessionState, dbPid, issueState>>

\* Mutant: the empty-response round is not counted.
EmptyRetryUncounted(r) ==
  /\ "empty" \in Env
  /\ fiber[r].pc = "output"
  /\ emptyRounds[fiber[r].key] < MaxEmptyRounds
  /\ UNCHANGED <<running, processes, currentMessage, generation, rounds, proc>>
  /\ nudge(r)

EmptyRetry(r) ==
  LET k == fiber[r].key
  IN  /\ FALSE \in hasOutput
      /\ fiber[r].pc = "output"
      /\ emptyRounds[k] < MaxEmptyRounds
      /\ emptyRounds' = [emptyRounds EXCEPT ![k] = @ + 1]
      /\ UNCHANGED <<running, processes, currentMessage, generation, nudgeRounds,
                     exitRounds, stuckRounds, proc>>
      /\ nudge(r)

EmptyReport(r) ==
  LET k == fiber[r].key
  IN  /\ FALSE \in hasOutput
      /\ fiber[r].pc = "output"
      /\ emptyRounds[k] >= MaxEmptyRounds
      /\ emptyRounds' = [emptyRounds EXCEPT ![k] = 0]
      /\ nudgeRounds' = [nudgeRounds EXCEPT ![k] = 0]
      /\ Goto(r, "settle")
      /\ UNCHANGED <<running, stopping, processes, currentMessage, generation, exitRounds,
                     stuckRounds, store, proc>>

Nudge(r) ==
  LET k == fiber[r].key
  IN  /\ fiber[r].pc = "output"
      /\ fiber[r].exit = "ok"
      /\ nudgeRounds[k] < MaxNudgeRounds
      /\ nudgeRounds' = [nudgeRounds EXCEPT ![k] = @ + 1]
      /\ UNCHANGED <<running, processes, currentMessage, generation, emptyRounds,
                     exitRounds, stuckRounds, proc>>
      /\ nudge(r)

GiveUp(r) ==
  LET k == fiber[r].key
  IN  /\ fiber[r].pc = "output"
      /\ fiber[r].exit # "ok" \/ nudgeRounds[k] >= MaxNudgeRounds
      /\ nudgeRounds' = [nudgeRounds EXCEPT ![k] = 0]
      /\ Goto(r, "settle")
      /\ UNCHANGED <<running, stopping, processes, currentMessage, generation, emptyRounds,
                     exitRounds, stuckRounds, store, proc>>

Requeue(r) ==
  /\ fiber[r].pc = "requeue"
  /\ dequeueOrIdle(r, fiber[r].key, fiber[r].msg)

\* deactivateIfIdle reads the next pending message.
Deactivate(r) ==
  /\ \/ fiber[r].pc = "settle" /\ ~superseded(r)
     \/ fiber[r].pc = "abandon"
  /\ Becomes(r, [fiber[r] EXCEPT !.pc = "deact",
                                 !.msg = NextOf(Pending(fiber[r].key))])
  /\ UNCHANGED <<memory, store, proc>>

\* Go on with the next message only below the cap, else give the slot back.
DeactivateIfIdle(r) ==
  LET k == fiber[r].key
      m == fiber[r].msg
  IN  /\ fiber[r].pc = "deact"
      /\ IF m # NoMsg /\ sessionState[k] # "idle" /\ Cardinality(running) < MaxConcurrent
         THEN dequeueOrIdle(r, k, m)
         ELSE settleIdle(r, k)

\* dequeueOrIdle after an expiry: the next message, or idle.
AfterExpiry(r) ==
  LET k == fiber[r].key
      m == fiber[r].msg
  IN  /\ fiber[r].pc = "expire"
      /\ IF m # NoMsg THEN dequeueOrIdle(r, k, m) ELSE settleIdle(r, k)

-----------------------------------------------------------------------------
(* drainGlobalPending and the observer cycle that backs it up *)

\* The message at the head of the list cannot run now, or there is no slot.
DrainSkip(r) ==
  LET m == Oldest(fiber[r].todo)
      k == message[m].key
      rest == fiber[r].todo \ {m}
  IN  /\ fiber[r].pc = "drain"
      /\ fiber[r].todo # {}
      /\ \/ Cardinality(running) >= MaxConcurrent
         \/ sessionState[k] = "running"
         \/ issueState[k] = "closed"
         \/ k \in running
         \/ message[m].status # "pending"
      /\ IF Cardinality(running) >= MaxConcurrent \/ rest = {}
         THEN Return(r)
         ELSE Becomes(r, [fiber[r] EXCEPT !.todo = rest])
      /\ UNCHANGED <<memory, store, proc>>

\* Mutant: the claim succeeds whatever the status of the message is now.
DrainClaimsAny(r) ==
  LET m == Oldest(fiber[r].todo)
      k == message[m].key
  IN  /\ fiber[r].pc = "drain"
      /\ fiber[r].todo # {}
      /\ Cardinality(running) < MaxConcurrent
      /\ sessionState[k] # "running"
      /\ issueState[k] # "closed"
      /\ k \notin running
      /\ message' = SetStatus(message, m, "running")
      /\ Becomes(r, [fiber[r] EXCEPT !.pc = "drained", !.key = k, !.msg = m,
                                     !.todo = @ \ {m}])
      /\ UNCHANGED <<memory, sessionState, dbPid, issueState, proc>>

\* Mutant: the drain does not look at the state of the issue.
DrainClaimsClosed(r) ==
  LET m == Oldest(fiber[r].todo)
      k == message[m].key
  IN  /\ fiber[r].pc = "drain"
      /\ fiber[r].todo # {}
      /\ Cardinality(running) < MaxConcurrent
      /\ sessionState[k] # "running"
      /\ k \notin running
      /\ message[m].status = "pending"
      /\ message' = SetStatus(message, m, "running")
      /\ Becomes(r, [fiber[r] EXCEPT !.pc = "drained", !.key = k, !.msg = m,
                                     !.todo = @ \ {m}])
      /\ UNCHANGED <<memory, sessionState, dbPid, issueState, proc>>

DrainClaim(r) ==
  LET m == Oldest(fiber[r].todo)
      k == message[m].key
  IN  /\ fiber[r].pc = "drain"
      /\ fiber[r].todo # {}
      /\ Cardinality(running) < MaxConcurrent
      /\ sessionState[k] # "running"
      /\ issueState[k] # "closed"
      /\ k \notin running
      /\ message[m].status = "pending"
      /\ message' = SetStatus(message, m, "running")
      /\ Becomes(r, [fiber[r] EXCEPT !.pc = "drained", !.key = k, !.msg = m,
                                     !.todo = @ \ {m}])
      /\ UNCHANGED <<memory, sessionState, dbPid, issueState, proc>>

DrainRun(r) ==
  /\ fiber[r].pc = "drained"
  /\ dequeueOrIdle(r, fiber[r].key, fiber[r].msg)

\* Mutant: the observer does not ask whether the session holds a slot.
ObserverFixesAny(k) ==
  /\ issueState[k] = "active"
  /\ sessionState[k] = "running"
  /\ processes[k] = NoProc
  /\ sessionState' = [sessionState EXCEPT ![k] = "idle"]
  /\ UNCHANGED <<memory, fiber, message, dbPid, issueState, proc>>

\* Mutant: the observer only looks at sessions that hold a slot.
ObserverFixesSlots(k) ==
  /\ issueState[k] = "active"
  /\ sessionState[k] = "running"
  /\ processes[k] = NoProc
  /\ k \in running
  /\ UNCHANGED vars

\* observeIssue: the store says running, the engine runs nothing for it.
ObserverFixes(k) ==
  /\ issueState[k] = "active"
  /\ sessionState[k] = "running"
  /\ processes[k] = NoProc
  /\ k \notin running
  /\ sessionState' = [sessionState EXCEPT ![k] = "idle"]
  /\ UNCHANGED <<memory, fiber, message, dbPid, issueState, proc>>

\* runObserverCycle: some message is pending and a slot is free.
ObserverDrains ==
  /\ Free # {}
  /\ \E k \in Keys : issueState[k] = "active"
  /\ GlobalPending(1) # {}
  /\ Cardinality(running) < MaxConcurrent
  /\ startDrain(Oldest(Free), running)
  /\ UNCHANGED <<memory, store, proc>>

\* Time: a message row passes MAX_PENDING_AGE_MS.
Age(m) ==
  /\ "age" \in Env
  /\ message[m].status \in {"pending", "running", "failed"}
  /\ ~message[m].stale
  /\ message' = [message EXCEPT ![m].stale = TRUE]
  /\ UNCHANGED <<memory, fiber, sessionState, dbPid, issueState, proc>>

-----------------------------------------------------------------------------
EnqueueStep(r) == CreateMessage(r) \/ Preempt(r) \/ PreemptKill(r) \/ Queue(r)
                  \/ Execute(r) \/ TakeSlot(r)

ExecStep(r) == GateAllows(r) \/ GateDenies(r) \/ ReleaseDenied(r)
               \/ DequeueAfterGate(r) \/ Spawn(r) \/ SpawnFails(r)
               \/ SpawnThrows(r) \/ ObserveExit(r) \/ StoreOutcome(r)

FinishStep(r) == FinishSkipped(r) \/ FinishRun(r) \/ ForgetCurrent(r)
                 \/ Superseded(r) \/ SpawnFailed(r) \/ Replied(r) \/ NoReply(r)
                 \/ ModelFallback(r) \/ EmptyRetry(r) \/ EmptyReport(r)
                 \/ Nudge(r) \/ GiveUp(r) \/ Requeue(r) \/ Deactivate(r)
                 \/ DeactivateIfIdle(r) \/ AfterExpiry(r)

DrainStep(r) == DrainSkip(r) \/ DrainClaim(r) \/ DrainRun(r)

\* Whatever a suspended activation does when its await resolves
Resume(r) == EnqueueStep(r) \/ ExecStep(r) \/ FinishStep(r) \/ DrainStep(r)

\* Without "slowinsert" the reply of createMessage is handled before any other
\* activation goes on.
Turn(r) == "slowinsert" \notin Env =>
             fiber[r].pc = "enqueue" \/ \A q \in Fibers : fiber[q].pc # "enqueue"

Next ==
  \/ \E k \in Keys : Deliver(k) \/ ObserverFixes(k)
  \/ \E r \in Fibers : Turn(r) /\ Resume(r)
  \/ \E p \in Procs : Exit(p)
  \/ ObserverDrains
  \/ \E m \in Msgs : Age(m)

\* A pending await resolves, a process ends, and the observer timer fires.
Fairness ==
  /\ \A r \in Fibers : WF_vars(Turn(r) /\ Resume(r))
  /\ \A p \in Procs : WF_vars(Exit(p))
  /\ \A k \in Keys : WF_vars(ObserverFixes(k))
  /\ WF_vars(ObserverDrains)

Spec == Init /\ [][Next]_vars
FairSpec == Spec /\ Fairness

-----------------------------------------------------------------------------
(* Properties *)

\* The activation that waits for process p
RunsProcess(r, p) == fiber[r].pc = "live" /\ fiber[r].proc = p

\* this.processes never holds a handle that the engine has killed, and the
\* handle of a session is awaited by an execProcess of that session: whoever
\* kills through the map (preempt, close, halt, forceStop, the breaker, the
\* observer) also takes the handle out of it in the same segment.
RegisteredHandle ==
  \A k \in Keys : processes[k] # NoProc =>
    /\ proc[processes[k]] # "killed"
    /\ \E r \in Fibers : RunsProcess(r, processes[k]) /\ fiber[r].key = k

\* A process is awaited by one execProcess only, and every live process is
\* awaited: none runs without an activation that sees its exit.
AwaitedOnce ==
  \A p \in Procs : proc[p] \in {"live", "killed"} =>
    \E r \in Fibers : /\ RunsProcess(r, p)
                      /\ \A q \in Fibers : RunsProcess(q, p) => q = r

\* Once the engine has killed a process, the execProcess that awaits it only
\* ever returns: it stores no outcome and never reaches finishRun.
KilledRunIsSilent ==
  [][\A r \in Fibers :
       fiber[r].pc = "live" /\ proc[fiber[r].proc] = "killed"
       => fiber'[r] \in {fiber[r], NoFiber}]_vars

\* The session a live process works for, through the activation awaiting it
LiveOf(k) == {p \in Procs : /\ proc[p] = "live"
                            /\ \E r \in Fibers : RunsProcess(r, p) /\ fiber[r].key = k}

\* Requests of one session are serialized: never two live processes for it.
OneProcess == \A k \in Keys : Cardinality(LiveOf(k)) <= 1

\* Every live process is under control: its session holds a slot, its handle
\* is the registered one, and the row of the message it works on says running.
LiveIsManaged ==
  \A r \in Fibers : fiber[r].pc = "live" /\ proc[fiber[r].proc] = "live" =>
    /\ fiber[r].key \in running
    /\ processes[fiber[r].key] = fiber[r].proc
    /\ message[fiber[r].msg].status = "running"

\* A live process that the engine has registered is one the observer looks at:
\* its session row says running, the only rows observeIssue does not skip.
WatchedRun ==
  \A k \in Keys : /\ processes[k] # NoProc
                  /\ proc[processes[k]] = "live"
                  => sessionState[k] = "running"

\* pcs from which an activation goes on to give its slot back
RunPCs == {"gate", "denied", "spawn", "live", "exited", "finish", "current",
           "report", "output", "requeue", "settle", "abandon", "deact",
           "dequeued", "expire"}

\* A slot is held only while some activation of the session is on its way to
\* release it; a slot without one would be lost until the daemon restarts.
SlotHasRun ==
  \A k \in running : \E r \in Fibers : fiber[r].key = k /\ fiber[r].pc \in RunPCs

\* A message whose row says running is in the hands of an activation, or of a
\* forceStop or an observer that has yet to look up what to fail.
RunningIsAttended ==
  \A m \in Msgs : message[m].status = "running" =>
    \E r \in Fibers : \/ fiber[r].msg = m \/ m \in fiber[r].todo
                      \/ fiber[r].key = message[m].key /\ fiber[r].pc \in {"force", "dead"}

\* The engine's own prompts are bounded by what users asked: per user message
\* of a session at most one empty-response retry and one nudge.
NudgeBudget ==
  \A k \in Keys :
    Cardinality({m \in Msgs : /\ message[m].key = k
                             /\ message[m].status # "none"
                             /\ ~message[m].user})
    <= (MaxNudgeRounds + MaxEmptyRounds)
       * Cardinality({m \in Msgs : message[m].key = k /\ message[m].user})

\* The refinement mapping: a row of the lifecycle is what a reader of table
\* messages sees, without its author, its age and its place in the order.
NoKey == 0
rowOf(m) == [key      |-> IF message[m].status = "none" THEN NoKey ELSE message[m].key,
             status   |-> message[m].status,
             attempts |-> message[m].attempts]

Lifecycle == INSTANCE MessageLifecycle WITH
               NoKey <- NoKey,
               row   <- [m \in Msgs |-> rowOf(m)]

\* The scheduler implements the lifecycle of the rows.
ImplementsLifecycle == Lifecycle!LifecycleSpec

\* Every stored message is eventually answered, failed or interrupted, even
\* behind the cap and across denied gates and failed spawns.
MessagesSettle ==
  \A m \in Msgs : message[m].status \in {"pending", "running"}
                  ~> message[m].status \in {"done", "failed", "interrupted"}

\* No session keeps a slot forever.
SlotsAreFreed == \A k \in Keys : k \in running ~> k \notin running

\* The stored session state returns to idle whenever it was set to running.
SessionsGoIdle == \A k \in Keys : sessionState[k] = "running" ~> sessionState[k] = "idle"
=============================================================================
