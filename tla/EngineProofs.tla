---------------------------- MODULE EngineProofs ----------------------------
(***************************************************************************)
(* Proofs about module Engine, and so about the scheduler inside it, for   *)
(* any sessions, messages, activations and processes, any cap, and any     *)
(* choice of what the environment does.                                    *)
(***************************************************************************)
EXTENDS Engine, WellFoundedInduction, TLAPS

-----------------------------------------------------------------------------
(* The helpers *)

\* The least member of a nonempty set of naturals exists.
LEMMA OldestIn ==
  ASSUME NEW S, S \subseteq Nat, S # {}
  PROVE  Oldest(S) \in S
<1>1. PICK m \in S : \A q \in S : <<q, m>> \notin OpToRel(<, Nat)
  BY WFMin, NatLessThanWellFounded, Zenon
<1>2. \A q \in S : ~ (q < m)
  <2>1. SUFFICES ASSUME NEW q \in S, q < m PROVE FALSE
    OBVIOUS
  <2>2. <<q, m>> \in Nat \X Nat /\ <<q, m>>[1] < <<q, m>>[2]
    BY <2>1
  <2>3. QED
    BY <2>2, <1>1, Zenon DEF OpToRel
<1>3. \A q \in S : m <= q
  BY <1>2
<1>4. QED
  BY <1>3 DEF Oldest

\* The next message of a set of messages is one of them or none.
LEMMA NextOfType ==
  ASSUME SchedulerAssumption, NEW S, S \subseteq Msgs
  PROVE  NextOf(S) \in Msgs \cup {NoMsg}
<1>1. CASE S = {}
  BY <1>1 DEF NextOf
<1>2. CASE S # {}
  <2>1. Oldest(S) \in S
    BY <1>2, OldestIn DEF SchedulerAssumption
  <2>2. QED
    BY <1>2, <2>1 DEF NextOf
<1>3. QED
  BY <1>1, <1>2

LEMMA NoFiberType ==
  ASSUME SchedulerAssumption
  PROVE  NoFiber \in Activation /\ NoFiber.pc = "idle" /\ NoFiber.proc = NoProc
BY DEF SchedulerAssumption, NoFiber, Activation, PCs, NoProc, NoMsg

\* Writing a status keeps the rows well formed.
LEMMA SetStatusType ==
  ASSUME SchedulerAssumption, NEW f \in [Msgs -> Row], NEW m, NEW st \in Status
  PROVE  SetStatus(f, m, st) \in [Msgs -> Row]
<1> DEFINE n(a) == IF st = "failed" /\ a < MaxAttempts THEN a + 1 ELSE a
<1>1. ASSUME NEW a \in 0 .. MaxAttempts PROVE n(a) \in 0 .. MaxAttempts
  BY DEF SchedulerAssumption
<1>2. SetStatus(f, m, st)
        = [f EXCEPT ![m] = [f[m] EXCEPT !.status = st, !.attempts = n(f[m].attempts)]]
  BY DEF SetStatus
<1>3. CASE m \in Msgs
  <2>1. f[m] \in Row
    BY <1>3
  <2>2. f[m].attempts \in 0 .. MaxAttempts
    BY <2>1 DEF Row
  <2>3. n(f[m].attempts) \in 0 .. MaxAttempts
    BY <1>1, <2>2
  <2> HIDE DEF n
  <2>4. [f[m] EXCEPT !.status = st, !.attempts = n(f[m].attempts)] \in Row
    BY <2>1, <2>3 DEF Row
  <2>5. QED
    BY <1>2, <2>4
<1>4. CASE m \notin Msgs
  BY <1>2, <1>4
<1>5. QED
  BY <1>3, <1>4

LEMMA NewRowType ==
  ASSUME SchedulerAssumption, NEW k \in Keys, NEW b \in BOOLEAN
  PROVE  NewRow(k, b) \in Row
BY DEF SchedulerAssumption, NewRow, Row, Status

\* An activation that moves on keeps its shape, wherever it goes.
LEMMA ActivationType ==
  ASSUME NEW a \in Activation,
         NEW p \in PCs, NEW k \in Keys, NEW m \in Msgs \cup {NoMsg}, NEW g \in Nat,
         NEW q \in Procs \cup {NoProc}, NEW x \in {"null", "ok", "crash"},
         NEW T \in SUBSET Msgs
  PROVE  /\ [a EXCEPT !.pc = p] \in Activation
         /\ [a EXCEPT !.pc = p, !.key = k] \in Activation
         /\ [a EXCEPT !.pc = p, !.msg = m] \in Activation
         /\ [a EXCEPT !.msg = m, !.pc = p] \in Activation
         /\ [a EXCEPT !.todo = T] \in Activation
         /\ [a EXCEPT !.pc = p, !.todo = T] \in Activation
         /\ [a EXCEPT !.pc = p, !.gen = g] \in Activation
         /\ [a EXCEPT !.pc = p, !.proc = q] \in Activation
         /\ [a EXCEPT !.pc = p, !.proc = q, !.exit = x] \in Activation
         /\ [a EXCEPT !.pc = p, !.key = k, !.msg = m] \in Activation
         /\ [a EXCEPT !.pc = p, !.key = k, !.msg = m, !.todo = T] \in Activation
BY DEF Activation

LEMMA AtType ==
  ASSUME SchedulerAssumption, NEW p \in PCs, NEW k \in Keys, NEW m \in Msgs \cup {NoMsg}
  PROVE  At(p, k, m) \in Activation
BY NoFiberType DEF At, Activation

LEMMA BecomesType ==
  ASSUME TypeOK, NEW r, NEW a \in Activation, Becomes(r, a)
  PROVE  fiber' \in [Fibers -> Activation]
BY DEF Becomes, TypeOK

LEMMA GotoType ==
  ASSUME TypeOK, NEW r \in Fibers, NEW p \in PCs, Goto(r, p)
  PROVE  fiber' \in [Fibers -> Activation]
<1>1. fiber[r] \in Activation
  BY DEF TypeOK
<1>2. [fiber[r] EXCEPT !.pc = p] \in Activation
  BY <1>1 DEF Activation
<1>3. QED
  BY <1>2, BecomesType DEF Goto

LEMMA ReturnType ==
  ASSUME SchedulerAssumption, TypeOK, NEW r, Return(r)
  PROVE  fiber' \in [Fibers -> Activation]
BY NoFiberType, BecomesType DEF Return

LEMMA clearType ==
  ASSUME SchedulerAssumption, TypeOK, NEW k \in Keys, clearRuntimeState(k)
  PROVE  /\ running' \subseteq Keys
         /\ stopping' \subseteq Keys
         /\ processes' \in [Keys -> Procs \cup {NoProc}]
         /\ currentMessage' \in [Keys -> Msgs \cup {NoMsg}]
         /\ generation' \in [Keys -> Nat]
         /\ nudgeRounds' \in [Keys -> 0 .. MaxNudgeRounds]
         /\ emptyRounds' \in [Keys -> 0 .. MaxEmptyRounds]
         /\ exitRounds' \in [Keys -> 0 .. MaxExitRounds]
         /\ stuckRounds' \in [Keys -> 0 .. MaxStuckRounds]
BY DEF clearRuntimeState, TypeOK, MaxNudgeRounds, MaxEmptyRounds, MaxExitRounds,
       MaxStuckRounds

LEMMA dequeueType ==
  ASSUME SchedulerAssumption, TypeOK, NEW r \in Fibers, NEW k \in Keys,
         NEW m \in Msgs \cup {NoMsg}, dequeueOrIdle(r, k, m)
  PROVE  TypeOK'
<1> DEFINE follow == NextOf(Pending(k) \ {m})
<1>1. follow \in Msgs \cup {NoMsg}
  BY NextOfType DEF Pending
<1>2. /\ "failed" \in Status /\ "running" \in Status
      /\ "expire" \in PCs /\ "dequeued" \in PCs
      /\ message \in [Msgs -> Row] /\ fiber[r] \in Activation
  BY DEF Status, PCs, TypeOK
<1>3. \/ /\ message' = SetStatus(message, m, "failed")
         /\ Becomes(r, [fiber[r] EXCEPT !.pc = "expire", !.key = k, !.msg = follow])
      \/ /\ message' = SetStatus(message, m, "running")
         /\ Becomes(r, [fiber[r] EXCEPT !.pc = "dequeued", !.key = k, !.msg = m])
  BY Zenon DEF dequeueOrIdle
<1>4. message' \in [Msgs -> Row]
  BY <1>2, <1>3, SetStatusType
<1> HIDE DEF follow
<1>5. fiber' \in [Fibers -> Activation]
  <2>1. ASSUME NEW p \in PCs, NEW q \in Msgs \cup {NoMsg}
        PROVE  [fiber[r] EXCEPT !.pc = p, !.key = k, !.msg = q] \in Activation
    BY <1>2 DEF Activation
  <2>2. QED
    BY <1>1, <1>2, <1>3, <2>1, BecomesType
<1>6. QED
  BY <1>4, <1>5 DEF dequeueOrIdle, TypeOK, memory, rounds

LEMMA startDrainType ==
  ASSUME SchedulerAssumption, TypeOK, NEW r \in Fibers, NEW S, startDrain(r, S)
  PROVE  fiber' \in [Fibers -> Activation]
<1> DEFINE limit == IF Cardinality(S) >= MaxConcurrent THEN 0
                    ELSE MaxConcurrent - Cardinality(S)
           list  == GlobalPending(limit) \cup fiber[r].todo
           a     == IF list = {} THEN NoFiber
                    ELSE [NoFiber EXCEPT !.pc = "drain", !.todo = list]
<1>1. list \in SUBSET Msgs
  BY DEF GlobalPending, TypeOK, Activation
<1>2. Becomes(r, a)
  BY DEF startDrain
<1>3. "drain" \in PCs
  BY DEF PCs
<1> HIDE DEF list
<1>4. a \in Activation
  BY <1>1, <1>3, NoFiberType DEF Activation
<1>5. QED
  BY <1>2, <1>4, BecomesType

LEMMA settleType ==
  ASSUME SchedulerAssumption, TypeOK, NEW r \in Fibers, NEW k \in Keys, settleIdle(r, k)
  PROVE  TypeOK'
<1>1. fiber' \in [Fibers -> Activation]
  BY startDrainType DEF settleIdle
<1>2. clearRuntimeState(k)
  BY DEF settleIdle
<1>3. sessionState' \in [Keys -> {"idle", "running"}]
  BY DEF settleIdle, TypeOK
<1>4. QED
  BY <1>1, <1>2, <1>3, clearType DEF settleIdle, TypeOK

LEMMA KillType ==
  ASSUME TypeOK, NEW p
  PROVE  Kill(p) \in [Procs -> {"none", "live", "ok", "crash", "killed"}]
BY DEF Kill, TypeOK

LEMMA claimType ==
  ASSUME SchedulerAssumption, TypeOK, NEW r \in Fibers, NEW k \in Keys,
         NEW m \in Msgs \cup {NoMsg}, claimAndRun(r, k, m)
  PROVE  fiber' \in [Fibers -> Activation] /\ message' \in [Msgs -> Row]
<1>1. "running" \in Status /\ "claimed" \in PCs /\ message \in [Msgs -> Row]
  BY DEF Status, PCs, TypeOK
<1>2. \/ /\ message' = SetStatus(message, m, "running")
         /\ Becomes(r, At("claimed", k, m))
      \/ Return(r) /\ message' = message
  BY Zenon DEF claimAndRun
<1>3. QED
  BY <1>1, <1>2, SetStatusType, AtType, BecomesType, ReturnType

LEMMA takeOverType ==
  ASSUME SchedulerAssumption, TypeOK, NEW r \in Fibers, NEW k \in Keys,
         NEW m \in Msgs \cup {NoMsg}, NEW p, takeOver(r, k, m, p)
  PROVE  TypeOK'
<1>1. fiber' \in [Fibers -> Activation] /\ message' \in [Msgs -> Row]
  BY claimType DEF takeOver
<1>2. QED
  BY <1>1, KillType DEF takeOver, TypeOK, rounds, NoProc, NoMsg

\* The fields of an activation and of the rows
LEMMA FieldTypes ==
  ASSUME TypeOK, NEW r \in Fibers
  PROVE  /\ fiber[r] \in Activation
         /\ fiber[r].key \in Keys
         /\ fiber[r].msg \in Msgs \cup {NoMsg}
         /\ fiber[r].todo \in SUBSET Msgs
         /\ message \in [Msgs -> Row]
         /\ \A k \in Keys : /\ currentMessage[k] \in Msgs \cup {NoMsg}
                            /\ processes[k] \in Procs \cup {NoProc}
                            /\ generation[k] \in Nat
BY DEF TypeOK, Activation

\* A round counter set to a value within its limit
LEMMA RoundsType ==
  ASSUME NEW f \in [Keys -> 0 .. 1], NEW k, NEW v \in 0 .. 1
  PROVE  [f EXCEPT ![k] = v] \in [Keys -> 0 .. 1]
OBVIOUS

LEMMA PendingType ==
  ASSUME SchedulerAssumption, NEW k
  PROVE  NextOf(Pending(k)) \in Msgs \cup {NoMsg}
BY NextOfType DEF Pending

LEMMA EnqueueType ==
  ASSUME SchedulerAssumption, TypeOK, NEW r \in Fibers, EnqueueStep(r)
  PROVE  TypeOK'
<1>1. CASE CreateMessage(r)
  <2>1. PICK m \in Fresh :
          /\ message' = [message EXCEPT ![m] = NewRow(fiber[r].key, TRUE)]
          /\ Becomes(r, [fiber[r] EXCEPT !.pc = "enqueue", !.msg = m])
    BY <1>1 DEF CreateMessage
  <2>2. m \in Msgs /\ "enqueue" \in PCs
    BY DEF Fresh, PCs
  <2>3. message' \in [Msgs -> Row]
    BY <2>1, FieldTypes, NewRowType
  <2>4. fiber' \in [Fibers -> Activation]
    <3>1. [fiber[r] EXCEPT !.pc = "enqueue", !.msg = m] \in Activation
      BY <2>2, FieldTypes DEF Activation
    <3>2. QED
      BY <2>1, <3>1, BecomesType
  <2>5. /\ exitRounds' = [exitRounds EXCEPT ![fiber[r].key] = 0]
        /\ stuckRounds' = [stuckRounds EXCEPT ![fiber[r].key] = 0]
        /\ UNCHANGED <<running, stopping, processes, currentMessage, generation,
                       nudgeRounds, emptyRounds, sessionState, dbPid, issueState, proc>>
    BY <1>1 DEF CreateMessage
  <2>6. /\ exitRounds' \in [Keys -> 0 .. MaxExitRounds]
        /\ stuckRounds' \in [Keys -> 0 .. MaxStuckRounds]
    BY <2>5, RoundsType DEF TypeOK, MaxExitRounds, MaxStuckRounds
  <2>7. QED
    BY <2>3, <2>4, <2>5, <2>6 DEF TypeOK
<1>2. CASE Preempt(r)
  <2>1. CASE currentMessage[fiber[r].key] # NoMsg
    <3>1. /\ message' = SetStatus(message, currentMessage[fiber[r].key], "interrupted")
          /\ Becomes(r, [fiber[r] EXCEPT !.pc = "preempt", !.proc = processes[fiber[r].key]])
          /\ UNCHANGED <<memory, sessionState, dbPid, issueState, proc>>
      BY <1>2, <2>1 DEF Preempt
    <3>2. "interrupted" \in Status /\ "preempt" \in PCs
      BY DEF Status, PCs
    <3>3. message' \in [Msgs -> Row]
      BY <3>1, <3>2, FieldTypes, SetStatusType
    <3>4. [fiber[r] EXCEPT !.pc = "preempt", !.proc = processes[fiber[r].key]] \in Activation
      BY <3>2, FieldTypes DEF Activation
    <3>5. fiber' \in [Fibers -> Activation]
      BY <3>1, <3>4, BecomesType
    <3>6. QED
      BY <3>1, <3>3, <3>5 DEF TypeOK, memory, rounds
  <2>2. CASE currentMessage[fiber[r].key] = NoMsg
    <3>1. takeOver(r, fiber[r].key, fiber[r].msg, processes[fiber[r].key])
      BY <1>2, <2>2 DEF Preempt
    <3>2. QED
      BY <3>1, FieldTypes, takeOverType
  <2>3. QED
    BY <2>1, <2>2
<1>3. CASE PreemptKill(r)
  BY <1>3, FieldTypes, takeOverType DEF PreemptKill
<1>4. CASE Queue(r)
  BY <1>4, ReturnType DEF Queue, TypeOK, memory, rounds, store
<1>5. CASE Execute(r)
  BY <1>5, FieldTypes, claimType DEF Execute, TypeOK, memory, rounds
<1>6. CASE TakeSlot(r)
  <2> DEFINE f == [fiber EXCEPT ![r] = At("gate", fiber[r].key, fiber[r].msg)]
  <2>1. fiber' = Fork(f, fiber[r].todo)
    BY <1>6 DEF TakeSlot
  <2>2. f \in [Fibers -> Activation]
    <3>1. "gate" \in PCs
      BY DEF PCs
    <3>2. QED
      BY <3>1, FieldTypes, AtType DEF TypeOK
  <2> HIDE DEF f
  <2>3. [NoFiber EXCEPT !.pc = "drain", !.todo = fiber[r].todo] \in Activation
    BY NoFiberType, FieldTypes DEF Activation, PCs
  <2>4. fiber' \in [Fibers -> Activation]
    BY <2>1, <2>2, <2>3 DEF Fork
  <2>5. QED
    BY <1>6, <2>4, FieldTypes DEF TakeSlot, TypeOK, rounds
<1>7. QED
  BY <1>1, <1>2, <1>3, <1>4, <1>5, <1>6 DEF EnqueueStep

LEMMA ExecType ==
  ASSUME SchedulerAssumption, TypeOK, NEW r \in Fibers, ExecStep(r)
  PROVE  TypeOK'
<1> /\ {"spawn", "denied", "next", "live", "exited", "finish"} \subseteq PCs
    /\ {"failed", "done"} \subseteq Status
  BY DEF PCs, Status
<1>1. CASE GateAllows(r)
  <2> generation[fiber[r].key] + 1 \in Nat
    BY FieldTypes
  <2>1. [fiber[r] EXCEPT !.pc = "spawn", !.gen = generation[fiber[r].key] + 1] \in Activation
    BY FieldTypes DEF Activation
  <2>2. fiber' \in [Fibers -> Activation]
    BY <1>1, <2>1, BecomesType DEF GateAllows
  <2>3. QED
    BY <1>1, <2>2, FieldTypes DEF GateAllows, TypeOK, rounds, store
<1>2. CASE GateDenies(r)
  BY <1>2, FieldTypes, SetStatusType, GotoType DEF GateDenies, TypeOK, memory, rounds
<1>3. CASE ReleaseDenied(r)
  <2> DEFINE m == NextOf(Pending(fiber[r].key))
             a == IF m = NoMsg THEN NoFiber ELSE At("next", fiber[r].key, m)
  <2>1. a \in Activation
    BY PendingType, FieldTypes, NoFiberType, AtType
  <2>2. Becomes(r, a)
    BY <1>3 DEF ReleaseDenied
  <2>3. fiber' \in [Fibers -> Activation]
    BY <2>1, <2>2, BecomesType
  <2>4. QED
    BY <1>3, <2>3, FieldTypes DEF ReleaseDenied, TypeOK, rounds, store, NoMsg
<1>4. CASE DequeueAfterGate(r)
  BY <1>4, FieldTypes, dequeueType DEF DequeueAfterGate
<1>5. CASE Spawn(r)
  <2>1. CASE superseded(r)
    BY <1>5, <2>1, ReturnType DEF Spawn, TypeOK, rounds
  <2>2. CASE ~superseded(r)
    <3> DEFINE p == Oldest(FreeProcs)
    <3>1. /\ FreeProcs # {}
          /\ processes' = [processes EXCEPT ![fiber[r].key] = p]
          /\ dbPid' = [dbPid EXCEPT ![fiber[r].key] = p]
          /\ proc' = [proc EXCEPT ![p] = "live"]
          /\ Becomes(r, [fiber[r] EXCEPT !.pc = "live", !.proc = p])
          /\ UNCHANGED <<running, stopping, currentMessage, generation, rounds, message,
                         sessionState, issueState>>
      BY <1>5, <2>2 DEF Spawn, spawn
    <3>2. p \in Procs
      BY <3>1, OldestIn DEF FreeProcs, SchedulerAssumption
    <3> HIDE DEF p
    <3>3. [fiber[r] EXCEPT !.pc = "live", !.proc = p] \in Activation
      BY <3>2, FieldTypes DEF Activation
    <3>4. fiber' \in [Fibers -> Activation]
      BY <3>1, <3>3, BecomesType
    <3>5. QED
      BY <3>1, <3>2, <3>4, FieldTypes DEF TypeOK, rounds
  <2>3. QED
    BY <2>1, <2>2
<1>6. CASE SpawnFails(r)
  BY <1>6, FieldTypes, SetStatusType, GotoType DEF SpawnFails, TypeOK, memory, rounds
<1>7. CASE ObserveExit(r)
  <2> DEFINE k == fiber[r].key
             p == fiber[r].proc
             x == IF proc[p] = "ok" THEN "ok" ELSE "crash"
  <2>1. CASE processes[k] = p
    <3>1. Becomes(r, [fiber[r] EXCEPT !.pc = "exited", !.proc = NoProc, !.exit = x])
      BY <1>7, <2>1 DEF ObserveExit
    <3>2. x \in {"null", "ok", "crash"}
      OBVIOUS
    <3> HIDE DEF x
    <3>3. [fiber[r] EXCEPT !.pc = "exited", !.proc = NoProc, !.exit = x] \in Activation
      BY <3>2, FieldTypes DEF Activation
    <3>4. fiber' \in [Fibers -> Activation]
      BY <3>1, <3>3, BecomesType
    <3>5. QED
      BY <1>7, <2>1, <3>4, FieldTypes DEF ObserveExit, TypeOK, rounds, NoProc
  <2>2. CASE processes[k] # p
    BY <1>7, <2>2, ReturnType DEF ObserveExit, TypeOK, rounds, NoProc
  <2>3. QED
    BY <2>1, <2>2
<1>8. CASE StoreOutcome(r)
  BY <1>8, FieldTypes, SetStatusType, GotoType DEF StoreOutcome, TypeOK, memory, rounds
<1>9. CASE SpawnThrows(r)
  BY <1>9, ReturnType DEF SpawnThrows, TypeOK, memory, rounds, store
<1>10. QED
  BY <1>1, <1>2, <1>3, <1>4, <1>5, <1>6, <1>7, <1>8, <1>9 DEF ExecStep

LEMMA nudgeType ==
  ASSUME SchedulerAssumption, TypeOK, NEW r \in Fibers, nudge(r)
  PROVE  fiber' \in [Fibers -> Activation] /\ message' \in [Msgs -> Row]
<1>1. PICK m \in Fresh :
        /\ message' = [message EXCEPT ![m] = NewRow(fiber[r].key, FALSE)]
        /\ Becomes(r, [fiber[r] EXCEPT !.pc = "requeue", !.msg = m])
  BY DEF nudge
<1>2. m \in Msgs /\ "requeue" \in PCs
  BY DEF Fresh, PCs
<1>3. [fiber[r] EXCEPT !.pc = "requeue", !.msg = m] \in Activation
  BY <1>2, FieldTypes DEF Activation
<1>4. QED
  BY <1>1, <1>3, FieldTypes, NewRowType, BecomesType

LEMMA FinishType ==
  ASSUME SchedulerAssumption, TypeOK, NEW r \in Fibers, FinishStep(r)
  PROVE  TypeOK'
<1> /\ {"current", "report", "abandon", "settle", "output", "requeue", "deact"} \subseteq PCs
    /\ "pending" \in Status
  BY DEF PCs, Status
<1>1. CASE FinishSkipped(r)
  BY <1>1, ReturnType DEF FinishSkipped, TypeOK, rounds, store
<1>2. CASE FinishRun(r)
  <2> DEFINE cur == currentMessage[fiber[r].key]
             pc  == IF cur = NoMsg THEN "report" ELSE "current"
  <2>1. Becomes(r, [fiber[r] EXCEPT !.msg = cur, !.pc = pc])
    BY <1>2 DEF FinishRun
  <2>2. pc \in PCs /\ cur \in Msgs \cup {NoMsg}
    BY FieldTypes
  <2> HIDE DEF cur, pc
  <2>3. [fiber[r] EXCEPT !.msg = cur, !.pc = pc] \in Activation
    BY <2>2, FieldTypes DEF Activation
  <2>4. fiber' \in [Fibers -> Activation]
    BY <2>1, <2>3, BecomesType
  <2>5. QED
    BY <1>2, <2>4 DEF FinishRun, TypeOK, memory, rounds, store
<1>3. CASE ForgetCurrent(r)
  BY <1>3, GotoType DEF ForgetCurrent, TypeOK, rounds, store, NoMsg
<1>4. CASE Superseded(r)
  BY <1>4, ReturnType DEF Superseded, TypeOK, memory, rounds, store
<1>5. CASE SpawnFailed(r)
  BY <1>5, GotoType DEF SpawnFailed, TypeOK, memory, rounds, store
<1>6. CASE Replied(r)
  BY <1>6, GotoType, RoundsType DEF Replied, TypeOK, store, MaxNudgeRounds, MaxEmptyRounds
<1>7. CASE NoReply(r)
  BY <1>7, GotoType DEF NoReply, TypeOK, memory, rounds, store
<1>8. CASE ModelFallback(r)
  <2> DEFINE m == fiber[r].msg
  <2>1. m \in Msgs
    BY <1>8, FieldTypes DEF ModelFallback, CanFallBack
  <2>2. message[m] \in Row
    BY <2>1, FieldTypes
  <2> 1 \in 0 .. MaxAttempts
    BY DEF SchedulerAssumption
  <2>3. [message[m] EXCEPT !.status = "pending", !.attempts = 1] \in Row
    BY <2>2 DEF Row
  <2>4. message' \in [Msgs -> Row]
    BY <1>8, <2>1, <2>3, FieldTypes DEF ModelFallback
  <2>5. fiber' \in [Fibers -> Activation]
    BY <1>8, GotoType DEF ModelFallback
  <2>6. QED
    BY <1>8, <2>4, <2>5, RoundsType DEF ModelFallback, TypeOK, MaxNudgeRounds, MaxEmptyRounds
<1>9. CASE EmptyRetry(r)
  <2>1. fiber' \in [Fibers -> Activation] /\ message' \in [Msgs -> Row]
    BY <1>9, nudgeType DEF EmptyRetry
  <2>2. emptyRounds' \in [Keys -> 0 .. MaxEmptyRounds]
    <3>1. emptyRounds[fiber[r].key] + 1 \in 0 .. 1
      BY <1>9, FieldTypes DEF EmptyRetry, TypeOK, MaxEmptyRounds
    <3>2. QED
      BY <1>9, <3>1, RoundsType DEF EmptyRetry, TypeOK, MaxEmptyRounds
  <2>3. QED
    BY <1>9, <2>1, <2>2 DEF EmptyRetry, nudge, TypeOK
<1>10. CASE EmptyReport(r)
  BY <1>10, GotoType, RoundsType DEF EmptyReport, TypeOK, store, MaxNudgeRounds, MaxEmptyRounds
<1>11. CASE Nudge(r)
  <2>1. fiber' \in [Fibers -> Activation] /\ message' \in [Msgs -> Row]
    BY <1>11, nudgeType DEF Nudge
  <2>2. nudgeRounds' \in [Keys -> 0 .. MaxNudgeRounds]
    <3>1. nudgeRounds[fiber[r].key] + 1 \in 0 .. 1
      BY <1>11, FieldTypes DEF Nudge, TypeOK, MaxNudgeRounds
    <3>2. QED
      BY <1>11, <3>1, RoundsType DEF Nudge, TypeOK, MaxNudgeRounds
  <2>3. QED
    BY <1>11, <2>1, <2>2 DEF Nudge, nudge, TypeOK
<1>12. CASE GiveUp(r)
  BY <1>12, GotoType, RoundsType DEF GiveUp, TypeOK, store, MaxNudgeRounds
<1>13. CASE Requeue(r)
  BY <1>13, FieldTypes, dequeueType DEF Requeue
<1>14. CASE Deactivate(r)
  <2> DEFINE m == NextOf(Pending(fiber[r].key))
  <2>1. m \in Msgs \cup {NoMsg}
    BY PendingType
  <2>2. Becomes(r, [fiber[r] EXCEPT !.pc = "deact", !.msg = m])
    BY <1>14 DEF Deactivate
  <2> HIDE DEF m
  <2>3. [fiber[r] EXCEPT !.pc = "deact", !.msg = m] \in Activation
    BY <2>1, FieldTypes DEF Activation
  <2>4. fiber' \in [Fibers -> Activation]
    BY <2>2, <2>3, BecomesType
  <2>5. QED
    BY <1>14, <2>4 DEF Deactivate, TypeOK, memory, rounds, store
<1>15. CASE DeactivateIfIdle(r)
  <2>1. dequeueOrIdle(r, fiber[r].key, fiber[r].msg) \/ settleIdle(r, fiber[r].key)
    BY <1>15, Zenon DEF DeactivateIfIdle
  <2>2. QED
    BY <2>1, FieldTypes, dequeueType, settleType
<1>16. CASE AfterExpiry(r)
  <2>1. dequeueOrIdle(r, fiber[r].key, fiber[r].msg) \/ settleIdle(r, fiber[r].key)
    BY <1>16, Zenon DEF AfterExpiry
  <2>2. QED
    BY <2>1, FieldTypes, dequeueType, settleType
<1>17. QED
  BY <1>1, <1>2, <1>3, <1>4, <1>5, <1>6, <1>7, <1>8, <1>9, <1>10, <1>11, <1>12, <1>13,
     <1>14, <1>15, <1>16 DEF FinishStep

LEMMA DrainType ==
  ASSUME SchedulerAssumption, TypeOK, NEW r \in Fibers, DrainStep(r)
  PROVE  TypeOK'
<1>1. CASE DrainSkip(r)
  <2> DEFINE rest == fiber[r].todo \ {Oldest(fiber[r].todo)}
  <2>1. rest \in SUBSET Msgs
    BY FieldTypes
  <2>2. Return(r) \/ Becomes(r, [fiber[r] EXCEPT !.todo = rest])
    BY <1>1, Zenon DEF DrainSkip
  <2> HIDE DEF rest
  <2>3. [fiber[r] EXCEPT !.todo = rest] \in Activation
    BY <2>1, FieldTypes DEF Activation
  <2>4. fiber' \in [Fibers -> Activation]
    BY <2>2, <2>3, BecomesType, ReturnType
  <2>5. QED
    BY <1>1, <2>4 DEF DrainSkip, TypeOK, memory, rounds, store
<1>2. CASE DrainClaim(r)
  <2> DEFINE m == Oldest(fiber[r].todo)
             k == message[m].key
             T == fiber[r].todo \ {m}
  <2>1. /\ message' = SetStatus(message, m, "running")
        /\ Becomes(r, [fiber[r] EXCEPT !.pc = "drained", !.key = k, !.msg = m, !.todo = T])
        /\ UNCHANGED <<memory, sessionState, dbPid, issueState, proc>>
    BY <1>2 DEF DrainClaim
  <2>2. fiber[r].todo # {}
    BY <1>2 DEF DrainClaim
  <2>3. m \in Msgs /\ T \in SUBSET Msgs
    BY <2>2, FieldTypes, OldestIn DEF SchedulerAssumption
  <2>4. k \in Keys /\ "drained" \in PCs /\ "running" \in Status
    BY <2>3, FieldTypes DEF Row, PCs, Status
  <2> HIDE DEF m, k, T
  <2>5. [fiber[r] EXCEPT !.pc = "drained", !.key = k, !.msg = m, !.todo = T] \in Activation
    BY <2>3, <2>4, FieldTypes DEF Activation
  <2>6. fiber' \in [Fibers -> Activation] /\ message' \in [Msgs -> Row]
    BY <2>1, <2>4, <2>5, FieldTypes, BecomesType, SetStatusType
  <2>7. QED
    BY <2>1, <2>6 DEF TypeOK, memory, rounds
<1>3. CASE DrainRun(r)
  BY <1>3, FieldTypes, dequeueType DEF DrainRun
<1>4. QED
  BY <1>1, <1>2, <1>3 DEF DrainStep

LEMMA ObserverType ==
  ASSUME SchedulerAssumption, TypeOK,
         \/ \E k \in Keys : Deliver(k) \/ ObserverFixes(k)
         \/ \E p \in Procs : Exit(p)
         \/ ObserverDrains
         \/ \E m \in Msgs : Age(m)
  PROVE  TypeOK'
<1>1. ASSUME NEW k \in Keys, Deliver(k) PROVE TypeOK'
  <2> DEFINE r == Oldest(Free)
  <2>1. r \in Fibers
    BY <1>1, OldestIn DEF Deliver, Free, SchedulerAssumption
  <2>2. Becomes(r, [fiber[r] EXCEPT !.pc = "ack", !.key = k])
    BY <1>1 DEF Deliver
  <2>3. "ack" \in PCs
    BY DEF PCs
  <2> HIDE DEF r
  <2>4. [fiber[r] EXCEPT !.pc = "ack", !.key = k] \in Activation
    BY <2>1, <2>3, FieldTypes DEF Activation
  <2>5. fiber' \in [Fibers -> Activation]
    BY <2>2, <2>4, BecomesType
  <2>6. QED
    BY <1>1, <2>5 DEF Deliver, TypeOK, memory, rounds, store
<1>2. ASSUME NEW k \in Keys, ObserverFixes(k) PROVE TypeOK'
  BY <1>2 DEF ObserverFixes, TypeOK, memory, rounds
<1>3. ASSUME NEW p \in Procs, Exit(p) PROVE TypeOK'
  <2>1. proc' \in [Procs -> {"none", "live", "ok", "crash", "killed"}]
    BY <1>3 DEF Exit, TypeOK
  <2>2. QED
    BY <1>3, <2>1 DEF Exit, TypeOK, memory, rounds, store
<1>4. CASE ObserverDrains
  <2>1. Oldest(Free) \in Fibers
    BY <1>4, OldestIn DEF ObserverDrains, Free, SchedulerAssumption
  <2>2. fiber' \in [Fibers -> Activation]
    BY <1>4, <2>1, startDrainType DEF ObserverDrains
  <2>3. QED
    BY <1>4, <2>2 DEF ObserverDrains, TypeOK, memory, rounds, store
<1>5. ASSUME NEW m \in Msgs, Age(m) PROVE TypeOK'
  <2>1. message' \in [Msgs -> Row]
    <3>0. message \in [Msgs -> Row] /\ message[m] \in Row
      BY <1>5 DEF TypeOK
    <3>1. [message[m] EXCEPT !.stale = TRUE] \in Row
      BY <3>0 DEF Row
    <3>2. message' = [message EXCEPT ![m] = [message[m] EXCEPT !.stale = TRUE]]
      BY <1>5 DEF Age
    <3>3. QED
      BY <3>0, <3>1, <3>2
  <2>2. QED
    BY <1>5, <2>1 DEF Age, TypeOK, memory, rounds
<1>6. QED
  BY <1>1, <1>2, <1>3, <1>4, <1>5

-----------------------------------------------------------------------------
(* Type correctness of the control operations *)

LEMMA BeginType ==
  ASSUME SchedulerAssumption, TypeOK, NEW k \in Keys, NEW p \in PCs, Begin(k, p)
  PROVE  fiber' \in [Fibers -> Activation]
BY AtType, BecomesType DEF Begin

LEMMA forgetType ==
  ASSUME SchedulerAssumption, TypeOK, NEW r \in Fibers, NEW k \in Keys, forget(r, k),
         UNCHANGED store, proc' \in [Procs -> {"none", "live", "ok", "crash", "killed"}]
  PROVE  TypeOK'
<1>1. [fiber[r] EXCEPT !.pc = "interrupt", !.todo = Unsettled(k)] \in Activation
  <2> Unsettled(k) \in SUBSET Msgs
    BY DEF Unsettled
  <2> "interrupt" \in PCs
    BY DEF PCs
  <2> QED
    BY FieldTypes DEF Activation
<1>2. fiber' \in [Fibers -> Activation]
  BY <1>1, BecomesType DEF forget
<1>3. clearRuntimeState(k)
  BY DEF forget
<1>4. QED
  BY <1>2, <1>3, clearType DEF TypeOK, store

LEMMA endMessagesType ==
  ASSUME SchedulerAssumption, TypeOK, NEW r \in Fibers, NEW st \in Status,
         endMessages(r, st)
  PROVE  TypeOK'
<1>1. ASSUME NEW m \in Msgs
      PROVE  SetStatus(message, m, st)[m] \in Row /\ message[m] \in Row
  <2>1. message \in [Msgs -> Row]
    BY DEF TypeOK
  <2>2. SetStatus(message, m, st) \in [Msgs -> Row]
    BY <2>1, SetStatusType
  <2>3. QED
    BY <2>1, <2>2
<1>2. message' \in [Msgs -> Row]
  <2>1. message' = [m \in Msgs |-> IF m \in fiber[r].todo
                                   THEN SetStatus(message, m, st)[m] ELSE message[m]]
    BY DEF endMessages
  <2>2. QED
    BY <1>1, <2>1
<1>3. fiber' \in [Fibers -> Activation]
  BY ReturnType DEF endMessages
<1>4. QED
  BY <1>2, <1>3 DEF endMessages, TypeOK, memory, rounds

\* What forceStop does before its first await, except for the other rounds
LEMMA forceStopType ==
  ASSUME TypeOK, NEW k \in Keys, NEW n \in {0, 1}, forceStop(k, n)
  PROVE  /\ running' \subseteq Keys
         /\ stopping' \subseteq Keys
         /\ processes' \in [Keys -> Procs \cup {NoProc}]
         /\ currentMessage' \in [Keys -> Msgs \cup {NoMsg}]
         /\ generation' \in [Keys -> Nat]
         /\ exitRounds' \in [Keys -> 0 .. MaxExitRounds]
         /\ stuckRounds' \in [Keys -> 0 .. MaxStuckRounds]
         /\ proc' \in [Procs -> {"none", "live", "ok", "crash", "killed"}]
<1>1. proc' \in [Procs -> {"none", "live", "ok", "crash", "killed"}]
  BY KillType DEF forceStop, TypeOK
<1>2. /\ exitRounds' \in [Keys -> 0 .. MaxExitRounds]
      /\ stuckRounds' \in [Keys -> 0 .. MaxStuckRounds]
  BY RoundsType DEF forceStop, TypeOK, MaxExitRounds, MaxStuckRounds
<1>3. QED
  BY <1>1, <1>2 DEF forceStop, TypeOK, NoProc, NoMsg

LEMMA ControlType ==
  ASSUME SchedulerAssumption, TypeOK, NEW r \in Fibers, ControlStep(r)
  PROVE  TypeOK'
<1> /\ {"reap", "interrupt", "failing", "dequeued", "obituary", "requeue", "next",
        "force"} \subseteq PCs
    /\ {"interrupted", "failed", "running"} \subseteq Status
    /\ fiber[r] \in Activation /\ fiber[r].key \in Keys
    /\ fiber[r].msg \in Msgs \cup {NoMsg}
    /\ MaxStuckRounds = 1 /\ MaxExitRounds = 1
    /\ MaxNudgeRounds = 1 /\ MaxEmptyRounds = 1
  BY FieldTypes DEF PCs, Status, MaxStuckRounds, MaxExitRounds, MaxNudgeRounds,
     MaxEmptyRounds
<1>1. CASE KillSession(r)
  <2>1. \/ /\ stopping' = stopping \cup {fiber[r].key}
           /\ proc' = Kill(dbPid[fiber[r].key])
           /\ Goto(r, "reap")
           /\ UNCHANGED <<running, processes, currentMessage, generation, rounds>>
        \/ /\ \/ proc' = proc
              \/ proc' = Kill(processes[fiber[r].key])
           /\ forget(r, fiber[r].key)
    BY <1>1, Zenon DEF KillSession
  <2>2. UNCHANGED store
    BY <1>1 DEF KillSession
  <2>3. proc' \in [Procs -> {"none", "live", "ok", "crash", "killed"}]
    BY <2>1, KillType DEF TypeOK
  <2>4. CASE forget(r, fiber[r].key)
    BY <2>2, <2>3, <2>4, forgetType
  <2>5. CASE /\ stopping' = stopping \cup {fiber[r].key}
             /\ Goto(r, "reap")
             /\ UNCHANGED <<running, processes, currentMessage, generation, rounds>>
    BY <2>2, <2>3, <2>5, GotoType DEF TypeOK, store, rounds
  <2>6. QED
    BY <2>1, <2>4, <2>5
<1>2. CASE Reaped(r)
  <2>1. forget(r, fiber[r].key) /\ UNCHANGED store /\ proc' = proc
    BY <1>2 DEF Reaped
  <2>2. proc' \in [Procs -> {"none", "live", "ok", "crash", "killed"}]
    BY <2>1 DEF TypeOK
  <2>3. QED
    BY <2>1, <2>2, forgetType
<1>3. CASE Interrupt(r)
  BY <1>3, endMessagesType DEF Interrupt
<1>4. CASE ForceRead(r)
  <2> DEFINE T == Unsettled(fiber[r].key)
  <2>1. T \in SUBSET Msgs
    BY DEF Unsettled
  <2>2. Becomes(r, [fiber[r] EXCEPT !.pc = "failing", !.todo = T])
    BY <1>4 DEF ForceRead
  <2> HIDE DEF T
  <2>3. [fiber[r] EXCEPT !.pc = "failing", !.todo = T] \in Activation
    BY <2>1 DEF Activation
  <2>4. fiber' \in [Fibers -> Activation]
    BY <2>2, <2>3, BecomesType
  <2>5. QED
    BY <1>4, <2>4 DEF ForceRead, TypeOK, memory, rounds, store
<1>5. CASE ForceFail(r)
  BY <1>5, endMessagesType DEF ForceFail
<1>6. CASE RetryRun(r)
  <2>1. \/ message' = SetStatus(message, fiber[r].msg, "running") /\ Goto(r, "dequeued")
        \/ message' = message /\ Return(r)
    BY <1>6, Zenon DEF RetryRun
  <2>2. fiber' \in [Fibers -> Activation] /\ message' \in [Msgs -> Row]
    <3>1. message \in [Msgs -> Row]
      BY DEF TypeOK
    <3>2. CASE message' = SetStatus(message, fiber[r].msg, "running") /\ Goto(r, "dequeued")
      BY <3>1, <3>2, GotoType, SetStatusType
    <3>3. CASE message' = message /\ Return(r)
      BY <3>1, <3>3, ReturnType
    <3>4. QED
      BY <2>1, <3>2, <3>3
  <2>3. QED
    BY <1>6, <2>2 DEF RetryRun, TypeOK, memory, rounds
<1>7. CASE FailDead(r)
  <2>1. \/ message' = message
        \/ message' = SetStatus(message, currentMessage[fiber[r].key], "failed")
    BY <1>7, Zenon DEF FailDead
  <2>2. message' \in [Msgs -> Row]
    BY <2>1, SetStatusType, FieldTypes
  <2>3. fiber' \in [Fibers -> Activation]
    BY <1>7, GotoType DEF FailDead
  <2>4. QED
    BY <1>7, <2>2, <2>3 DEF FailDead, TypeOK, rounds, NoMsg
<1>8. CASE RestartDead(r)
  <2>1. fiber' \in [Fibers -> Activation] /\ message' \in [Msgs -> Row]
    BY <1>8, nudgeType DEF RestartDead
  <2>2. exitRounds' \in [Keys -> 0 .. 1]
    <3>1. exitRounds[fiber[r].key] + 1 \in 0 .. 1
      BY <1>8 DEF RestartDead, TypeOK
    <3>2. QED
      BY <1>8, <3>1, RoundsType DEF RestartDead, TypeOK
  <2>3. QED
    BY <1>8, <2>1, <2>2 DEF RestartDead, nudge, TypeOK
<1>9. CASE BuryDead(r)
  <2> DEFINE m == NextOf(Pending(fiber[r].key))
             a == IF m = NoMsg THEN NoFiber ELSE At("next", fiber[r].key, m)
             n == IF exitRounds[fiber[r].key] < MaxExitRounds
                  THEN exitRounds[fiber[r].key] ELSE 0
  <2>1. a \in Activation
    BY PendingType, NoFiberType, AtType
  <2>2. fiber' \in [Fibers -> Activation]
    BY <1>9, <2>1, BecomesType DEF BuryDead
  <2>3. n \in 0 .. 1 /\ exitRounds' = [exitRounds EXCEPT ![fiber[r].key] = n]
    BY <1>9 DEF BuryDead, TypeOK
  <2> HIDE DEF n
  <2>4. exitRounds' \in [Keys -> 0 .. 1]
    BY <2>3, RoundsType DEF TypeOK
  <2>5. QED
    BY <1>9, <2>2, <2>4 DEF BuryDead, TypeOK, store
<1>10. CASE RestartStuck(r)
  <2> DEFINE b == At("force", fiber[r].key, NoMsg)
             q == Oldest(Free)
  <2>1. PICK m \in Fresh :
          /\ message' = [message EXCEPT ![m] = NewRow(fiber[r].key, FALSE)]
          /\ fiber' = [fiber EXCEPT ![r] = At("requeue", fiber[r].key, m), ![q] = b]
    BY <1>10 DEF RestartStuck
  <2>2. m \in Msgs
    BY DEF Fresh
  <2>3. message' \in [Msgs -> Row]
    BY <2>1, <2>2, NewRowType, FieldTypes
  <2>4. At("requeue", fiber[r].key, m) \in Activation /\ b \in Activation
    BY <2>2, AtType
  <2> HIDE DEF b, q
  <2>5. fiber' \in [Fibers -> Activation]
    BY <2>1, <2>4 DEF TypeOK
  <2>6. forceStop(fiber[r].key, 1)
    BY <1>10 DEF RestartStuck
  <2>7. QED
    BY <1>10, <2>3, <2>5, <2>6, forceStopType DEF RestartStuck, TypeOK
<1>11. CASE GiveUpStuck(r)
  <2>1. forceStop(fiber[r].key, 0) /\ Goto(r, "force")
    BY <1>11 DEF GiveUpStuck
  <2>2. fiber' \in [Fibers -> Activation]
    BY <2>1, GotoType
  <2>3. QED
    BY <1>11, <2>1, <2>2, forceStopType DEF GiveUpStuck, TypeOK, store
<1>12. CASE StopOvertime(r)
  <2>1. nudgeRounds' \in [Keys -> 0 .. 1]
    BY <1>12, RoundsType DEF StopOvertime, TypeOK
  <2>2. forceStop(fiber[r].key, 0) /\ Goto(r, "force")
    BY <1>12 DEF StopOvertime
  <2>3. fiber' \in [Fibers -> Activation]
    BY <2>2, GotoType
  <2>4. QED
    BY <1>12, <2>1, <2>2, <2>3, forceStopType DEF StopOvertime, TypeOK, store
<1>13. QED
  BY <1>1, <1>2, <1>3, <1>4, <1>5, <1>6, <1>7, <1>8, <1>9, <1>10, <1>11, <1>12
     DEF ControlStep

LEMMA StimulusType ==
  ASSUME SchedulerAssumption, TypeOK, NEW k \in Keys, Stimulus(k)
  PROVE  TypeOK'
<1> {"kill", "ack", "force", "dead", "stuck", "stuckout", "overtime"} \subseteq PCs
  BY DEF PCs
<1>1. CASE Close(k)
  BY <1>1, BeginType DEF Close, TypeOK, memory, rounds
<1>2. CASE Halt(k)
  BY <1>2, BeginType DEF Halt, TypeOK, memory, rounds, store
<1>9. CASE HaltAll(k)
  BY <1>9, BeginType DEF HaltAll, TypeOK, memory, rounds, store
<1>3. CASE Reopen(k)
  <2>1. fiber' = fiber \/ Begin(k, "ack")
    BY <1>3, Zenon DEF Reopen
  <2>2. fiber' \in [Fibers -> Activation]
    BY <2>1, BeginType DEF TypeOK
  <2>3. QED
    BY <1>3, <2>2 DEF Reopen, TypeOK, memory, rounds
<1>4. CASE ForceStop(k)
  <2>1. forceStop(k, 0) /\ Begin(k, "force")
    BY <1>4 DEF ForceStop
  <2>2. fiber' \in [Fibers -> Activation]
    BY <2>1, BeginType
  <2>3. QED
    BY <1>4, <2>1, <2>2, forceStopType DEF ForceStop, TypeOK, store
<1>5. CASE Burst(k)
  <2>1. proc' \in [Procs -> {"none", "live", "ok", "crash", "killed"}]
    BY <1>5, KillType DEF Burst
  <2>2. QED
    BY <1>5, <2>1 DEF Burst, TypeOK, rounds, store, NoProc
<1>6. CASE FindDead(k)
  BY <1>6, BeginType DEF FindDead, TypeOK, rounds, NoProc
<1>7. CASE FindStuck(k)
  <2>1. Begin(k, "stuck") \/ Begin(k, "stuckout")
    BY <1>7, Zenon DEF FindStuck
  <2>2. QED
    BY <1>7, <2>1, BeginType DEF FindStuck, TypeOK, memory, rounds, store
<1>8. CASE FindOvertime(k)
  BY <1>8, BeginType DEF FindOvertime, TypeOK, memory, rounds, store
<1>10. QED
  BY <1>1, <1>2, <1>3, <1>4, <1>5, <1>6, <1>7, <1>8, <1>9 DEF Stimulus

LEMMA RetryType ==
  ASSUME SchedulerAssumption, TypeOK, NEW m \in Msgs, Retry(m)
  PROVE  TypeOK'
<1>1. message[m].key \in Keys /\ "retry" \in PCs /\ "pending" \in Status
  BY DEF TypeOK, Row, PCs, Status
<1>2. fiber' \in [Fibers -> Activation]
  BY <1>1, AtType, BecomesType DEF Retry
<1>3. message' \in [Msgs -> Row]
  BY <1>1, SetStatusType DEF Retry, TypeOK
<1>4. QED
  BY <1>2, <1>3 DEF Retry, TypeOK, memory, rounds

LEMMA InitType ==
  ASSUME SchedulerAssumption, Init
  PROVE  TypeOK
<1>1. NoFiber \in Activation /\ NoFiber.key \in Keys
  BY NoFiberType DEF Activation
<1>2. [key |-> NoFiber.key, status |-> "none", stale |-> FALSE, user |-> FALSE,
       attempts |-> 0] \in Row
  BY <1>1 DEF Row, Status, SchedulerAssumption
<1>3. fiber \in [Fibers -> Activation] /\ message \in [Msgs -> Row]
  BY <1>1, <1>2 DEF Init
<1>4. /\ nudgeRounds \in [Keys -> 0 .. MaxNudgeRounds]
      /\ emptyRounds \in [Keys -> 0 .. MaxEmptyRounds]
      /\ exitRounds \in [Keys -> 0 .. MaxExitRounds]
      /\ stuckRounds \in [Keys -> 0 .. MaxStuckRounds]
  BY DEF Init, MaxNudgeRounds, MaxEmptyRounds, MaxExitRounds, MaxStuckRounds
<1>5. /\ processes \in [Keys -> Procs \cup {NoProc}]
      /\ currentMessage \in [Keys -> Msgs \cup {NoMsg}]
      /\ generation \in [Keys -> Nat]
      /\ dbPid \in [Keys -> Procs \cup {NoProc}]
  BY DEF Init
<1>6. /\ sessionState \in [Keys -> {"idle", "running"}]
      /\ issueState \in [Keys -> {"active", "closed"}]
      /\ proc \in [Procs -> {"none", "live", "ok", "crash", "killed"}]
      /\ running \subseteq Keys
      /\ stopping \subseteq Keys
  BY DEF Init
<1>7. QED
  BY <1>3, <1>4, <1>5, <1>6 DEF TypeOK

LEMMA StutterType ==
  ASSUME TypeOK, UNCHANGED vars
  PROVE  TypeOK'
BY DEF TypeOK, vars, memory, store

\* Every step of the engine keeps the state well formed.
LEMMA StepType ==
  ASSUME SchedulerAssumption, TypeOK, [EngineNext]_vars
  PROVE  TypeOK'
<1>1. CASE \E k \in Keys : Stimulus(k)
  BY <1>1, StimulusType
<1>2. CASE \E m \in Msgs : Retry(m)
  BY <1>2, RetryType
<1>3. CASE \/ \E k \in Keys : Deliver(k) \/ ObserverFixes(k)
           \/ \E p \in Procs : Exit(p)
           \/ ObserverDrains
           \/ \E m \in Msgs : Age(m)
  BY <1>3, ObserverType
<1>4. CASE \E r \in Fibers : EngineResume(r)
  <2>1. PICK r \in Fibers : EngineResume(r)
    BY <1>4
  <2>2. QED
    BY <2>1, EnqueueType, ExecType, FinishType, DrainType, ControlType
       DEF EngineResume, Resume
<1>5. CASE UNCHANGED vars
  BY <1>5, StutterType
<1>6. QED
  BY <1>1, <1>2, <1>3, <1>4, <1>5, Zenon DEF EngineNext

\* The state is well formed at all times, whatever the environment does.  The
\* part that could be wrong is that no round counter passes its limit: every
\* retry, nudge and restart is counted before the prompt is stored.
THEOREM EngineTypeCorrect ==
  EngineSpec => []TypeOK
<1>1. Init => TypeOK
  BY InitType, SchedulerAssumption
<1>2. TypeOK /\ [EngineNext]_vars => TypeOK'
  BY StepType, SchedulerAssumption
<1>3. QED
  BY <1>1, <1>2, PTL DEF EngineSpec

\* The scheduler on its own is the engine without stops, retries and observer
\* stimuli, so every theorem about the engine holds of the scheduler too.
THEOREM SchedulerIsEngine ==
  Spec => EngineSpec
<1>1. [Next]_vars => [EngineNext]_vars
  BY Zenon DEF Next, EngineNext, EngineResume
<1>2. QED
  BY <1>1, PTL DEF Spec, EngineSpec

-----------------------------------------------------------------------------
(* Who holds which opencode process: RegisteredHandle, AwaitedOnce and     *)
(* KilledRunIsSilent, from one inductive invariant over the handles that   *)
(* maps, rows and activations hold.                                        *)

\* Activations that hold the same handle work on the same session.
SameKey ==
  \A r, q \in Fibers :
    fiber[r].proc = fiber[q].proc /\ fiber[r].proc # NoProc
    => fiber[r].key = fiber[q].key

\* No two activations await the same process.
AwaitedBy ==
  \A r, q \in Fibers :
    fiber[r].pc = "live" /\ fiber[q].pc = "live" /\ fiber[r].proc = fiber[q].proc
    => r = q

\* The process a session row names is held only on behalf of that session.
RowOwnsPid ==
  \A k \in Keys, r \in Fibers :
    dbPid[k] # NoProc /\ fiber[r].proc = dbPid[k] => fiber[r].key = k

\* Only an execProcess that awaits its exit and a preemption that is about to
\* kill remember a handle.
HoldersKnown ==
  \A r \in Fibers :
    /\ fiber[r].pc = "live" => fiber[r].proc \in Procs
    /\ fiber[r].proc # NoProc => fiber[r].pc \in {"live", "preempt"}

\* Every process that has not been reaped is awaited.
Reapable ==
  \A p \in Procs : proc[p] \in {"live", "killed"} => \E r \in Fibers : RunsProcess(r, p)

HandleInv == /\ RegisteredHandle
             /\ SameKey
             /\ AwaitedBy
             /\ RowOwnsPid
             /\ HoldersKnown
             /\ Reapable

\* What one step may do to an activation that awaits a killed process
Silent == \A r \in Fibers : fiber[r].pc = "live" /\ proc[fiber[r].proc] = "killed"
                            => fiber'[r] \in {fiber[r], NoFiber}

-----------------------------------------------------------------------------
(* Most steps touch no handle: they move activations that hold none, drop  *)
(* registrations, let processes end and kill unregistered ones.            *)

Moves ==
  \A r \in Fibers :
    \/ fiber'[r] = fiber[r]
    \/ /\ fiber[r].pc # "live"
       /\ fiber'[r].proc = NoProc
       /\ fiber'[r].pc \notin {"live", "preempt"}

Drops == /\ \A k \in Keys : processes'[k] \in {processes[k], NoProc}
         /\ \A k \in Keys : dbPid'[k] = dbPid[k]

Ends ==
  \A p \in Procs :
    \/ proc'[p] = proc[p]
    \/ proc[p] = "live" /\ proc'[p] \in {"ok", "crash"}
    \/ proc[p] = "live" /\ proc'[p] = "killed" /\ \A k \in Keys : processes'[k] # p

Benign == Moves /\ Drops /\ Ends

LEMMA BenignKeeps ==
  ASSUME SchedulerAssumption, TypeOK, HandleInv, Benign
  PROVE  HandleInv' /\ Silent
<1> /\ RegisteredHandle /\ SameKey /\ AwaitedBy /\ RowOwnsPid /\ HoldersKnown /\ Reapable
    /\ Moves /\ Drops /\ Ends
  BY DEF HandleInv, Benign
<1>1. ASSUME NEW r \in Fibers, fiber[r].pc = "live" PROVE fiber'[r] = fiber[r]
  BY <1>1 DEF Moves
<1>2. ASSUME NEW r \in Fibers, fiber'[r].proc # NoProc PROVE fiber'[r] = fiber[r]
  BY <1>2 DEF Moves
<1>3. ASSUME NEW r \in Fibers, fiber'[r].pc = "live" PROVE fiber'[r] = fiber[r]
  BY <1>3 DEF Moves
<1>4. RegisteredHandle'
  <2> SUFFICES ASSUME NEW k \in Keys, processes'[k] # NoProc
               PROVE  /\ proc'[processes'[k]] # "killed"
                      /\ \E r \in Fibers : /\ fiber'[r].pc = "live"
                                            /\ fiber'[r].proc = processes'[k]
                                            /\ fiber'[r].key = k
    BY DEF RegisteredHandle, RunsProcess
  <2>1. processes'[k] = processes[k] /\ processes[k] \in Procs
    BY DEF Drops, TypeOK
  <2>2. proc'[processes'[k]] # "killed"
    BY <2>1 DEF Ends, RegisteredHandle
  <2>3. PICK r \in Fibers : RunsProcess(r, processes[k]) /\ fiber[r].key = k
    BY <2>1 DEF RegisteredHandle
  <2>4. fiber'[r] = fiber[r]
    BY <2>3, <1>1 DEF RunsProcess
  <2>5. QED
    BY <2>1, <2>2, <2>3, <2>4 DEF RunsProcess
<1>5. SameKey'
  BY <1>2 DEF SameKey
<1>6. AwaitedBy'
  BY <1>3 DEF AwaitedBy
<1>7. RowOwnsPid'
  BY <1>2 DEF RowOwnsPid, Drops
<1>8. HoldersKnown'
  BY <1>2, <1>3 DEF HoldersKnown
<1>9. Reapable'
  <2> SUFFICES ASSUME NEW p \in Procs, proc'[p] \in {"live", "killed"}
               PROVE  \E r \in Fibers : RunsProcess(r, p)'
    BY DEF Reapable
  <2>1. proc[p] \in {"live", "killed"}
    BY DEF Ends
  <2>2. PICK r \in Fibers : RunsProcess(r, p)
    BY <2>1 DEF Reapable
  <2>3. fiber'[r] = fiber[r]
    BY <2>2, <1>1 DEF RunsProcess
  <2>4. QED
    BY <2>2, <2>3 DEF RunsProcess
<1>10. Silent
  BY <1>1 DEF Silent
<1>11. QED
  BY <1>4, <1>5, <1>6, <1>7, <1>8, <1>9, <1>10 DEF HandleInv

-----------------------------------------------------------------------------
(* How the helpers move activations *)

LEMMA BecomesMoves ==
  ASSUME TypeOK, NEW r \in Fibers, fiber[r].pc # "live",
         NEW a, a.proc = NoProc, a.pc \notin {"live", "preempt"}, Becomes(r, a)
  PROVE  Moves
BY DEF Becomes, Moves, TypeOK

LEMMA AtFields ==
  ASSUME SchedulerAssumption, NEW p, NEW k, NEW m
  PROVE  At(p, k, m).proc = NoProc /\ At(p, k, m).pc = p
BY DEF At, NoFiber

LEMMA ReturnMoves ==
  ASSUME SchedulerAssumption, TypeOK, NEW r \in Fibers, fiber[r].pc # "live", Return(r)
  PROVE  Moves
BY NoFiberType, BecomesMoves DEF Return

LEMMA GotoMoves ==
  ASSUME TypeOK, HoldersKnown, NEW r \in Fibers, fiber[r].pc \notin {"live", "preempt"},
         NEW p, p \notin {"live", "preempt"}, Goto(r, p)
  PROVE  Moves
<1>1. fiber[r].proc = NoProc
  BY DEF HoldersKnown
<1>2. /\ [fiber[r] EXCEPT !.pc = p].proc = NoProc
      /\ [fiber[r] EXCEPT !.pc = p].pc = p
  BY <1>1 DEF TypeOK, Activation
<1>3. QED
  BY <1>2, BecomesMoves DEF Goto

\* A session that loses its registration while its process is killed
LEMMA KillEnds ==
  ASSUME TypeOK, NEW p, proc' = Kill(p),
         p \in Procs => \A k \in Keys : processes'[k] # p
  PROVE  Ends
BY DEF Ends, Kill, TypeOK

LEMMA SameEnds ==
  ASSUME proc' = proc
  PROVE  Ends
BY DEF Ends

LEMMA SameDrops ==
  ASSUME processes' = processes, dbPid' = dbPid
  PROVE  Drops
BY DEF Drops

LEMMA ClearDrops ==
  ASSUME TypeOK, NEW k, processes' = [processes EXCEPT ![k] = NoProc], dbPid' = dbPid
  PROVE  Drops
BY DEF Drops, TypeOK

\* The registered handle of a session is registered for no other session.
LEMMA OneRegistration ==
  ASSUME TypeOK, HandleInv, NEW k \in Keys, NEW j \in Keys,
         processes[k] # NoProc, processes[j] = processes[k]
  PROVE  j = k
BY DEF HandleInv, RegisteredHandle, AwaitedBy, RunsProcess

LEMMA dequeueMoves ==
  ASSUME TypeOK, HoldersKnown, NEW r \in Fibers, fiber[r].pc \notin {"live", "preempt"},
         NEW k, NEW m, dequeueOrIdle(r, k, m)
  PROVE  Benign
<1> DEFINE follow == NextOf(Pending(k) \ {m})
           a == [fiber[r] EXCEPT !.pc = "expire", !.key = k, !.msg = follow]
           b == [fiber[r] EXCEPT !.pc = "dequeued", !.key = k, !.msg = m]
<1>1. Becomes(r, a) \/ Becomes(r, b)
  BY Zenon DEF dequeueOrIdle
<1> HIDE DEF follow
<1>2. fiber[r].proc = NoProc /\ fiber[r] \in Activation
  BY DEF HoldersKnown, TypeOK
<1>3. a.proc = NoProc /\ a.pc = "expire" /\ b.proc = NoProc /\ b.pc = "dequeued"
  BY <1>2 DEF Activation
<1> HIDE DEF a, b
<1>4. Moves
  BY <1>1, <1>3, BecomesMoves
<1>5. QED
  BY <1>4, SameEnds, SameDrops DEF Benign, dequeueOrIdle, memory

LEMMA startDrainMoves ==
  ASSUME SchedulerAssumption, TypeOK, NEW r \in Fibers, fiber[r].pc # "live",
         NEW S, startDrain(r, S)
  PROVE  Moves
<1> DEFINE limit == IF Cardinality(S) >= MaxConcurrent THEN 0
                    ELSE MaxConcurrent - Cardinality(S)
           list  == GlobalPending(limit) \cup fiber[r].todo
           a     == IF list = {} THEN NoFiber
                    ELSE [NoFiber EXCEPT !.pc = "drain", !.todo = list]
<1>1. Becomes(r, a)
  BY DEF startDrain
<1> HIDE DEF list
<1>2. a.proc = NoProc /\ a.pc \in {"idle", "drain"}
  BY DEF NoFiber
<1> HIDE DEF a
<1>3. QED
  BY <1>1, <1>2, BecomesMoves

LEMMA settleMoves ==
  ASSUME SchedulerAssumption, TypeOK, NEW r \in Fibers, fiber[r].pc # "live",
         NEW k, settleIdle(r, k)
  PROVE  Benign
<1>1. Moves
  BY startDrainMoves DEF settleIdle
<1>2. Drops
  BY ClearDrops DEF settleIdle, clearRuntimeState
<1>3. QED
  BY <1>1, <1>2, SameEnds DEF settleIdle, Benign

LEMMA claimMoves ==
  ASSUME SchedulerAssumption, TypeOK, NEW r \in Fibers, fiber[r].pc # "live",
         NEW k, NEW m, claimAndRun(r, k, m)
  PROVE  Moves
<1>1. Becomes(r, At("claimed", k, m)) \/ Return(r)
  BY Zenon DEF claimAndRun
<1>2. QED
  BY <1>1, AtFields, BecomesMoves, ReturnMoves

\* A takeover kills a handle that, if any session has it registered, is the
\* registered one of the very session that is being taken over.
LEMMA takeOverMoves ==
  ASSUME SchedulerAssumption, TypeOK, NEW r \in Fibers, fiber[r].pc # "live",
         NEW k \in Keys, NEW m, NEW p, takeOver(r, k, m, p),
         \A j \in Keys : processes[j] = p /\ p # NoProc => j = k
  PROVE  Benign
<1>1. Moves
  BY claimMoves DEF takeOver
<1>2. CASE p # NoProc
  <2>1. processes' = [processes EXCEPT ![k] = NoProc] /\ proc' = Kill(p) /\ dbPid' = dbPid
    BY <1>2 DEF takeOver
  <2>2. Drops
    BY <2>1, ClearDrops
  <2>3. \A j \in Keys : processes'[j] # p
    BY <1>2, <2>1 DEF TypeOK
  <2>4. QED
    BY <1>1, <2>1, <2>2, <2>3, KillEnds DEF Benign
<1>3. CASE p = NoProc
  <2>1. processes' = processes /\ proc' = proc /\ dbPid' = dbPid
    BY <1>3 DEF takeOver
  <2>2. QED
    BY <1>1, <2>1, SameDrops, SameEnds DEF Benign
<1>4. QED
  BY <1>2, <1>3

-----------------------------------------------------------------------------
(* The three steps that hand a handle on *)

\* A preemption captures the registered handle.
LEMMA CaptureKeeps ==
  ASSUME SchedulerAssumption, TypeOK, HandleInv, NEW r \in Fibers,
         fiber[r].pc = "enqueue",
         Becomes(r, [fiber[r] EXCEPT !.pc = "preempt", !.proc = processes[fiber[r].key]]),
         UNCHANGED <<processes, dbPid, proc>>
  PROVE  HandleInv' /\ Silent
<1> /\ RegisteredHandle /\ SameKey /\ AwaitedBy /\ RowOwnsPid /\ HoldersKnown /\ Reapable
  BY DEF HandleInv
<1> DEFINE k == fiber[r].key
           p == processes[k]
<1>1. /\ fiber'[r].pc = "preempt" /\ fiber'[r].proc = p /\ fiber'[r].key = k
      /\ \A q \in Fibers : q # r => fiber'[q] = fiber[q]
      /\ k \in Keys
  BY DEF Becomes, TypeOK, Activation
<1>2. p # NoProc => \E q \in Fibers : /\ q # r /\ fiber[q].pc = "live"
                                      /\ fiber[q].proc = p /\ fiber[q].key = k
  BY <1>1 DEF RegisteredHandle, RunsProcess
<1> HIDE DEF p, k
<1>3. \A q \in Fibers : fiber[q].pc = "live" => fiber'[q] = fiber[q]
  BY <1>1
<1>4. \A q \in Fibers : fiber'[q].pc = "live" => q # r /\ fiber'[q] = fiber[q]
  BY <1>1
<1>5. RegisteredHandle'
  BY <1>3 DEF RegisteredHandle, RunsProcess
<1>6. SameKey'
  <2>1. \A q \in Fibers : q # r /\ fiber[q].proc = p /\ p # NoProc => fiber[q].key = k
    BY <1>2 DEF SameKey
  <2>2. QED
    BY <1>1, <2>1 DEF SameKey
<1>7. AwaitedBy'
  BY <1>4 DEF AwaitedBy
<1>8. RowOwnsPid'
  <2>1. \A j \in Keys : dbPid[j] # NoProc /\ dbPid[j] = p => k = j
    BY <1>2 DEF RowOwnsPid
  <2>2. QED
    BY <1>1, <2>1 DEF RowOwnsPid
<1>9. HoldersKnown'
  BY <1>1 DEF HoldersKnown
<1>10. Reapable'
  BY <1>3 DEF Reapable, RunsProcess
<1>11. QED
  BY <1>3, <1>5, <1>6, <1>7, <1>8, <1>9, <1>10 DEF HandleInv, Silent

\* A spawn registers a handle that nobody holds.
LEMMA SpawnKeeps ==
  ASSUME SchedulerAssumption, TypeOK, HandleInv, NEW r \in Fibers,
         fiber[r].pc = "spawn", NEW p \in FreeProcs,
         processes' = [processes EXCEPT ![fiber[r].key] = p],
         dbPid' = [dbPid EXCEPT ![fiber[r].key] = p],
         proc' = [proc EXCEPT ![p] = "live"],
         Becomes(r, [fiber[r] EXCEPT !.pc = "live", !.proc = p])
  PROVE  HandleInv' /\ Silent
<1> /\ RegisteredHandle /\ SameKey /\ AwaitedBy /\ RowOwnsPid /\ HoldersKnown /\ Reapable
  BY DEF HandleInv
<1> DEFINE k == fiber[r].key
<1>1. /\ fiber'[r].pc = "live" /\ fiber'[r].proc = p /\ fiber'[r].key = k
      /\ \A q \in Fibers : q # r => fiber'[q] = fiber[q]
      /\ k \in Keys
  BY DEF Becomes, TypeOK, Activation
<1>2. /\ p \in Procs /\ p # NoProc
      /\ \A q \in Fibers : fiber[q].proc # p
      /\ \A j \in Keys : processes[j] # p /\ dbPid[j] # p
  BY DEF FreeProcs, SchedulerAssumption, NoProc
<1>3. /\ processes'[k] = p /\ dbPid'[k] = p /\ proc'[p] = "live"
      /\ \A j \in Keys : j # k => processes'[j] = processes[j] /\ dbPid'[j] = dbPid[j]
      /\ \A q \in Procs : q # p => proc'[q] = proc[q]
  BY <1>1, <1>2 DEF TypeOK
<1>4. \A j \in Keys : processes[j] \in Procs \cup {NoProc}
  BY DEF TypeOK
<1> HIDE DEF k
<1>5. \A q \in Fibers : fiber[q].pc = "live" => q # r /\ fiber'[q] = fiber[q]
  BY <1>1
<1>6. RegisteredHandle'
  <2> SUFFICES ASSUME NEW j \in Keys, processes'[j] # NoProc
               PROVE  /\ proc'[processes'[j]] # "killed"
                      /\ \E q \in Fibers : /\ fiber'[q].pc = "live"
                                           /\ fiber'[q].proc = processes'[j]
                                           /\ fiber'[q].key = j
    BY DEF RegisteredHandle, RunsProcess
  <2>1. CASE j = k
    BY <2>1, <1>1, <1>3
  <2>2. CASE j # k
    <3>1. processes'[j] = processes[j] /\ processes[j] \in Procs /\ processes[j] # p
      BY <2>2, <1>2, <1>3, <1>4
    <3>2. proc'[processes'[j]] # "killed"
      BY <3>1, <1>3 DEF RegisteredHandle
    <3>3. PICK q \in Fibers : RunsProcess(q, processes[j]) /\ fiber[q].key = j
      BY <3>1 DEF RegisteredHandle
    <3>4. QED
      BY <3>1, <3>2, <3>3, <1>5 DEF RunsProcess
  <2>3. QED
    BY <2>1, <2>2
<1>7. SameKey'
  BY <1>1, <1>2 DEF SameKey
<1>8. AwaitedBy'
  BY <1>1, <1>2 DEF AwaitedBy
<1>9. RowOwnsPid'
  BY <1>1, <1>2, <1>3 DEF RowOwnsPid
<1>10. HoldersKnown'
  BY <1>1, <1>2 DEF HoldersKnown
<1>11. Reapable'
  <2> SUFFICES ASSUME NEW q \in Procs, proc'[q] \in {"live", "killed"}
               PROVE  \E a \in Fibers : fiber'[a].pc = "live" /\ fiber'[a].proc = q
    BY DEF Reapable, RunsProcess
  <2>1. CASE q = p
    BY <2>1, <1>1
  <2>2. CASE q # p
    BY <2>2, <1>3, <1>5 DEF Reapable, RunsProcess
  <2>3. QED
    BY <2>1, <2>2
<1>12. QED
  BY <1>5, <1>6, <1>7, <1>8, <1>9, <1>10, <1>11 DEF HandleInv, Silent

\* An exit releases the handle; an activation whose process was killed finds
\* that it is not the registered one and returns.
LEMMA ExitKeeps ==
  ASSUME SchedulerAssumption, TypeOK, HandleInv, NEW r \in Fibers, ObserveExit(r)
  PROVE  HandleInv' /\ Silent
<1> /\ RegisteredHandle /\ SameKey /\ AwaitedBy /\ RowOwnsPid /\ HoldersKnown /\ Reapable
  BY DEF HandleInv
<1> DEFINE k == fiber[r].key
           p == fiber[r].proc
           x == IF proc[p] = "ok" THEN "ok" ELSE "crash"
           a == [fiber[r] EXCEPT !.pc = "exited", !.proc = NoProc, !.exit = x]
<1>1. /\ fiber[r].pc = "live" /\ k \in Keys /\ p \in Procs
      /\ proc' = [proc EXCEPT ![p] = "none"]
      /\ dbPid' = [j \in Keys |-> IF dbPid[j] = p THEN NoProc ELSE dbPid[j]]
  BY DEF ObserveExit, HoldersKnown, TypeOK, Activation
<1>2. \/ processes[k] = p /\ processes' = [processes EXCEPT ![k] = NoProc] /\ Becomes(r, a)
      \/ processes[k] # p /\ processes' = processes /\ Return(r)
  BY DEF ObserveExit
<1> HIDE DEF x
<1>3. /\ fiber'[r].proc = NoProc /\ fiber'[r].pc \in {"exited", "idle"}
      /\ \A q \in Fibers : q # r => fiber'[q] = fiber[q]
  <2>1. a.proc = NoProc /\ a.pc = "exited"
    BY DEF TypeOK, Activation
  <2>2. NoFiber.proc = NoProc /\ NoFiber.pc = "idle"
    BY DEF NoFiber
  <2> HIDE DEF a
  <2>3. QED
    BY <1>2, <2>1, <2>2 DEF Becomes, Return, TypeOK
<1>4. p # NoProc
  BY <1>1 DEF SchedulerAssumption, NoProc
<1>5. \A q \in Fibers : q # r /\ fiber[q].pc = "live" => fiber[q].proc # p
  BY <1>1 DEF AwaitedBy
<1>6. \A j \in Keys : processes[j] = p => j = k
  BY <1>4, <1>5 DEF RegisteredHandle, RunsProcess
<1>7. \A j \in Keys : processes'[j] # p /\ processes'[j] \in {processes[j], NoProc}
  BY <1>1, <1>2, <1>4, <1>6 DEF TypeOK
<1>8. \A q \in Procs : q # p => proc'[q] = proc[q]
  BY <1>1 DEF TypeOK
<1>9. \A j \in Keys : processes[j] \in Procs \cup {NoProc}
  BY DEF TypeOK
<1>10. RegisteredHandle'
  <2> SUFFICES ASSUME NEW j \in Keys, processes'[j] # NoProc
               PROVE  /\ proc'[processes'[j]] # "killed"
                      /\ \E q \in Fibers : /\ fiber'[q].pc = "live"
                                           /\ fiber'[q].proc = processes'[j]
                                           /\ fiber'[q].key = j
    BY DEF RegisteredHandle, RunsProcess
  <2>1. processes'[j] = processes[j] /\ processes[j] # p /\ processes[j] \in Procs
    BY <1>7, <1>9
  <2>2. proc'[processes'[j]] # "killed"
    BY <2>1, <1>8 DEF RegisteredHandle
  <2>3. PICK q \in Fibers : RunsProcess(q, processes[j]) /\ fiber[q].key = j
    BY <2>1 DEF RegisteredHandle
  <2>4. q # r
    BY <2>1, <2>3 DEF RunsProcess
  <2>5. QED
    BY <2>1, <2>2, <2>3, <2>4, <1>3 DEF RunsProcess
<1>11. SameKey'
  BY <1>3 DEF SameKey
<1>12. AwaitedBy'
  BY <1>3 DEF AwaitedBy
<1>13. RowOwnsPid'
  <2>1. \A j \in Keys : dbPid'[j] # NoProc => dbPid'[j] = dbPid[j]
    BY <1>1
  <2>2. QED
    BY <2>1, <1>3 DEF RowOwnsPid
<1>14. HoldersKnown'
  BY <1>3 DEF HoldersKnown
<1>15. Reapable'
  <2> SUFFICES ASSUME NEW q \in Procs, proc'[q] \in {"live", "killed"}
               PROVE  \E b \in Fibers : fiber'[b].pc = "live" /\ fiber'[b].proc = q
    BY DEF Reapable, RunsProcess
  <2>1. q # p
    BY <1>1 DEF TypeOK
  <2>2. PICK b \in Fibers : RunsProcess(b, q)
    BY <2>1, <1>8 DEF Reapable
  <2>3. b # r
    BY <2>1, <2>2 DEF RunsProcess
  <2>4. QED
    BY <2>2, <2>3, <1>3 DEF RunsProcess
<1>16. Silent
  <2> SUFFICES ASSUME NEW q \in Fibers, fiber[q].pc = "live",
                      proc[fiber[q].proc] = "killed"
               PROVE  fiber'[q] \in {fiber[q], NoFiber}
    BY DEF Silent
  <2>1. CASE q # r
    BY <2>1, <1>3
  <2>2. CASE q = r
    <3>1. processes[k] # p
      BY <2>2, <1>1, <1>4 DEF RegisteredHandle
    <3>2. Return(r)
      BY <3>1, <1>2
    <3>3. QED
      BY <2>2, <3>2 DEF Return, Becomes, TypeOK
  <2>3. QED
    BY <2>1, <2>2
<1>17. QED
  BY <1>10, <1>11, <1>12, <1>13, <1>14, <1>15, <1>16 DEF HandleInv

-----------------------------------------------------------------------------
(* Every step of the engine *)

LEMMA EnqueueHandles ==
  ASSUME SchedulerAssumption, TypeOK, HandleInv, NEW r \in Fibers, EnqueueStep(r)
  PROVE  HandleInv' /\ Silent
<1> /\ HoldersKnown /\ fiber[r].key \in Keys
  BY FieldTypes DEF HandleInv
<1> SUFFICES ASSUME ~(fiber[r].pc = "enqueue" /\ currentMessage[fiber[r].key] # NoMsg
                      /\ Preempt(r))
             PROVE  Benign
  BY BenignKeeps, CaptureKeeps DEF Preempt, memory
<1>1. CASE CreateMessage(r)
  <2>1. PICK m \in Fresh : Becomes(r, [fiber[r] EXCEPT !.pc = "enqueue", !.msg = m])
    BY <1>1 DEF CreateMessage
  <2>2. fiber[r].pc = "ack" /\ fiber[r].proc = NoProc
    BY <1>1 DEF CreateMessage, HoldersKnown
  <2>3. /\ [fiber[r] EXCEPT !.pc = "enqueue", !.msg = m].proc = NoProc
        /\ [fiber[r] EXCEPT !.pc = "enqueue", !.msg = m].pc = "enqueue"
    BY <2>2 DEF TypeOK, Activation
  <2>4. Moves
    BY <2>1, <2>2, <2>3, BecomesMoves
  <2>5. QED
    BY <1>1, <2>4, SameDrops, SameEnds DEF CreateMessage, Benign
<1>2. CASE Preempt(r)
  <2>1. /\ takeOver(r, fiber[r].key, fiber[r].msg, processes[fiber[r].key])
        /\ fiber[r].pc = "enqueue"
    BY <1>2 DEF Preempt
  <2>2. \A j \in Keys : /\ processes[j] = processes[fiber[r].key]
                        /\ processes[fiber[r].key] # NoProc
                        => j = fiber[r].key
    BY OneRegistration
  <2>3. QED
    BY <2>1, <2>2, takeOverMoves
<1>3. CASE PreemptKill(r)
  <2>1. takeOver(r, fiber[r].key, fiber[r].msg, fiber[r].proc) /\ fiber[r].pc = "preempt"
    BY <1>3 DEF PreemptKill
  <2>2. \A j \in Keys : processes[j] = fiber[r].proc /\ fiber[r].proc # NoProc
                        => j = fiber[r].key
    BY DEF HandleInv, RegisteredHandle, RunsProcess, SameKey
  <2>3. QED
    BY <2>1, <2>2, takeOverMoves
<1>4. CASE Queue(r)
  BY <1>4, ReturnMoves, SameDrops, SameEnds DEF Queue, Benign, memory, store
<1>5. CASE Execute(r)
  BY <1>5, claimMoves, SameDrops, SameEnds DEF Execute, Benign, memory
<1>6. CASE TakeSlot(r)
  <2> DEFINE a == At("gate", fiber[r].key, fiber[r].msg)
             f == [fiber EXCEPT ![r] = a]
             q == Oldest({b \in Fibers : f[b].pc = "idle"})
             d == [NoFiber EXCEPT !.pc = "drain", !.todo = fiber[r].todo]
  <2>1. a.proc = NoProc /\ a.pc = "gate" /\ d.proc = NoProc /\ d.pc = "drain"
    BY AtFields DEF NoFiber
  <2>2. fiber' = f \/ (fiber[r].todo # {} /\ fiber' = [f EXCEPT ![q] = d])
    BY <1>6 DEF TakeSlot, Fork
  <2>3. fiber[r].pc \in {"claimed", "dequeued"} /\ fiber \in [Fibers -> Activation]
    BY <1>6 DEF TakeSlot, TypeOK
  <2>4. fiber[r].todo # {} => f[q].pc = "idle" /\ q \in Fibers
    <3>1. CASE {b \in Fibers : f[b].pc = "idle"} # {}
      BY <3>1, OldestIn DEF SchedulerAssumption
    <3>2. CASE {b \in Fibers : f[b].pc = "idle"} = {}
      <4>1. Free = {}
        BY <3>2, <2>1, <2>3 DEF Free
      <4>2. fiber[r].todo = {}
        BY <4>1, <1>6 DEF TakeSlot, CanFork
      <4>3. QED
        BY <4>2
    <3>3. QED
      BY <3>1, <3>2
  <2> HIDE DEF a, d, q
  <2>5. Moves
    BY <2>1, <2>2, <2>3, <2>4 DEF Moves
  <2>6. QED
    BY <1>6, <2>5, SameDrops, SameEnds DEF TakeSlot, Benign
<1>7. QED
  BY <1>1, <1>2, <1>3, <1>4, <1>5, <1>6 DEF EnqueueStep

LEMMA ExecHandles ==
  ASSUME SchedulerAssumption, TypeOK, HandleInv, NEW r \in Fibers, ExecStep(r)
  PROVE  HandleInv' /\ Silent
<1> /\ HoldersKnown /\ fiber[r].key \in Keys /\ fiber[r] \in Activation
  BY FieldTypes DEF HandleInv
<1>1. CASE GateAllows(r)
  <2> DEFINE a == [fiber[r] EXCEPT !.pc = "spawn", !.gen = generation[fiber[r].key] + 1]
  <2>1. fiber[r].pc = "gate" /\ Becomes(r, a)
    BY <1>1 DEF GateAllows
  <2>2. a.proc = NoProc /\ a.pc = "spawn"
    BY <2>1 DEF HoldersKnown, Activation
  <2> HIDE DEF a
  <2>3. Moves
    BY <2>1, <2>2, BecomesMoves
  <2>4. QED
    BY <1>1, <2>3, SameDrops, SameEnds, BenignKeeps DEF GateAllows, Benign, store
<1>2. CASE GateDenies(r)
  BY <1>2, GotoMoves, SameDrops, SameEnds, BenignKeeps DEF GateDenies, Benign, memory
<1>3. CASE ReleaseDenied(r)
  <2> DEFINE m == NextOf(Pending(fiber[r].key))
             a == IF m = NoMsg THEN NoFiber ELSE At("next", fiber[r].key, m)
  <2>1. fiber[r].pc = "denied" /\ Becomes(r, a)
    BY <1>3 DEF ReleaseDenied
  <2>2. a.proc = NoProc /\ a.pc \in {"idle", "next"}
    BY NoFiberType, AtFields
  <2> HIDE DEF a
  <2>3. Moves
    BY <2>1, <2>2, BecomesMoves
  <2>4. QED
    BY <1>3, <2>3, SameDrops, SameEnds, BenignKeeps DEF ReleaseDenied, Benign, store
<1>4. CASE DequeueAfterGate(r)
  BY <1>4, dequeueMoves, BenignKeeps DEF DequeueAfterGate
<1>5. CASE Spawn(r)
  <2>1. CASE superseded(r)
    BY <1>5, <2>1, ReturnMoves, SameDrops, SameEnds, BenignKeeps DEF Spawn, Benign
  <2>2. CASE ~superseded(r)
    <3> DEFINE p == Oldest(FreeProcs)
    <3>1. /\ FreeProcs # {} /\ fiber[r].pc = "spawn"
          /\ processes' = [processes EXCEPT ![fiber[r].key] = p]
          /\ dbPid' = [dbPid EXCEPT ![fiber[r].key] = p]
          /\ proc' = [proc EXCEPT ![p] = "live"]
          /\ Becomes(r, [fiber[r] EXCEPT !.pc = "live", !.proc = p])
      BY <1>5, <2>2 DEF Spawn, spawn
    <3>2. p \in FreeProcs
      BY <3>1, OldestIn DEF FreeProcs, SchedulerAssumption
    <3> HIDE DEF p
    <3>3. QED
      BY <3>1, <3>2, SpawnKeeps
  <2>3. QED
    BY <2>1, <2>2
<1>6. CASE SpawnFails(r)
  BY <1>6, GotoMoves, SameDrops, SameEnds, BenignKeeps DEF SpawnFails, Benign, memory
<1>7. CASE ObserveExit(r)
  BY <1>7, ExitKeeps
<1>8. CASE StoreOutcome(r)
  BY <1>8, GotoMoves, SameDrops, SameEnds, BenignKeeps DEF StoreOutcome, Benign, memory
<1>9. CASE SpawnThrows(r)
  BY <1>9, ReturnMoves, SameDrops, SameEnds, BenignKeeps DEF SpawnThrows, Benign, memory, store
<1>10. QED
  BY <1>1, <1>2, <1>3, <1>4, <1>5, <1>6, <1>7, <1>8, <1>9 DEF ExecStep

\* Storing another prompt moves the activation to requeue.
LEMMA nudgeMoves ==
  ASSUME TypeOK, HoldersKnown, NEW r \in Fibers, fiber[r].pc \notin {"live", "preempt"},
         nudge(r)
  PROVE  Moves /\ dbPid' = dbPid
<1>1. PICK m \in Fresh : Becomes(r, [fiber[r] EXCEPT !.pc = "requeue", !.msg = m])
  BY DEF nudge
<1>2. fiber[r].proc = NoProc /\ fiber[r] \in Activation
  BY DEF HoldersKnown, TypeOK
<1>3. /\ [fiber[r] EXCEPT !.pc = "requeue", !.msg = m].proc = NoProc
      /\ [fiber[r] EXCEPT !.pc = "requeue", !.msg = m].pc = "requeue"
  BY <1>2 DEF Activation
<1>4. QED
  BY <1>1, <1>3, BecomesMoves DEF nudge

LEMMA FinishHandles ==
  ASSUME SchedulerAssumption, TypeOK, HandleInv, NEW r \in Fibers, FinishStep(r)
  PROVE  HandleInv' /\ Silent
<1> SUFFICES Benign
  BY BenignKeeps
<1> HoldersKnown /\ fiber[r] \in Activation /\ fiber[r].key \in Keys
  BY FieldTypes DEF HandleInv
<1>1. CASE FinishSkipped(r)
  BY <1>1, ReturnMoves, SameDrops, SameEnds DEF FinishSkipped, Benign, store
<1>2. CASE FinishRun(r)
  <2> DEFINE cur == currentMessage[fiber[r].key]
             pc  == IF cur = NoMsg THEN "report" ELSE "current"
             a   == [fiber[r] EXCEPT !.msg = cur, !.pc = pc]
  <2>1. fiber[r].pc = "finish" /\ Becomes(r, a)
    BY <1>2 DEF FinishRun
  <2> HIDE DEF cur
  <2>2. a.proc = NoProc /\ a.pc = pc /\ pc \in {"report", "current"}
    BY <2>1 DEF HoldersKnown, Activation
  <2> HIDE DEF a, pc
  <2>3. Moves
    BY <2>1, <2>2, BecomesMoves
  <2>4. QED
    BY <1>2, <2>3, SameDrops, SameEnds DEF FinishRun, Benign, memory, store
<1>3. CASE ForgetCurrent(r)
  BY <1>3, GotoMoves, SameDrops, SameEnds DEF ForgetCurrent, Benign, store
<1>4. CASE Superseded(r)
  BY <1>4, ReturnMoves, SameDrops, SameEnds DEF Superseded, Benign, memory, store
<1>5. CASE SpawnFailed(r)
  BY <1>5, GotoMoves, SameDrops, SameEnds DEF SpawnFailed, Benign, memory, store
<1>6. CASE Replied(r)
  BY <1>6, GotoMoves, SameDrops, SameEnds DEF Replied, Benign, store
<1>7. CASE NoReply(r)
  BY <1>7, GotoMoves, SameDrops, SameEnds DEF NoReply, Benign, memory, store
<1>8. CASE ModelFallback(r)
  BY <1>8, GotoMoves, SameDrops, SameEnds DEF ModelFallback, Benign
<1>9. CASE EmptyRetry(r)
  BY <1>9, nudgeMoves, SameDrops, SameEnds DEF EmptyRetry, Benign
<1>10. CASE EmptyReport(r)
  BY <1>10, GotoMoves, SameDrops, SameEnds DEF EmptyReport, Benign, store
<1>11. CASE Nudge(r)
  BY <1>11, nudgeMoves, SameDrops, SameEnds DEF Nudge, Benign
<1>12. CASE GiveUp(r)
  BY <1>12, GotoMoves, SameDrops, SameEnds DEF GiveUp, Benign, store
<1>13. CASE Requeue(r)
  BY <1>13, dequeueMoves DEF Requeue
<1>14. CASE Deactivate(r)
  <2> DEFINE m == NextOf(Pending(fiber[r].key))
             a == [fiber[r] EXCEPT !.pc = "deact", !.msg = m]
  <2>1. fiber[r].pc \in {"settle", "abandon"} /\ Becomes(r, a)
    BY <1>14 DEF Deactivate
  <2> HIDE DEF m
  <2>2. a.proc = NoProc /\ a.pc = "deact"
    BY <2>1 DEF HoldersKnown, Activation
  <2> HIDE DEF a
  <2>3. Moves
    BY <2>1, <2>2, BecomesMoves
  <2>4. QED
    BY <1>14, <2>3, SameDrops, SameEnds DEF Deactivate, Benign, memory, store
<1>15. CASE DeactivateIfIdle(r)
  <2>1. /\ dequeueOrIdle(r, fiber[r].key, fiber[r].msg) \/ settleIdle(r, fiber[r].key)
        /\ fiber[r].pc = "deact"
    BY <1>15, Zenon DEF DeactivateIfIdle
  <2>2. QED
    BY <2>1, dequeueMoves, settleMoves
<1>16. CASE AfterExpiry(r)
  <2>1. /\ dequeueOrIdle(r, fiber[r].key, fiber[r].msg) \/ settleIdle(r, fiber[r].key)
        /\ fiber[r].pc = "expire"
    BY <1>16, Zenon DEF AfterExpiry
  <2>2. QED
    BY <2>1, dequeueMoves, settleMoves
<1>17. QED
  BY <1>1, <1>2, <1>3, <1>4, <1>5, <1>6, <1>7, <1>8, <1>9, <1>10, <1>11, <1>12, <1>13,
     <1>14, <1>15, <1>16 DEF FinishStep

LEMMA DrainHandles ==
  ASSUME SchedulerAssumption, TypeOK, HandleInv, NEW r \in Fibers, DrainStep(r)
  PROVE  HandleInv' /\ Silent
<1> SUFFICES Benign
  BY BenignKeeps
<1> HoldersKnown /\ fiber[r] \in Activation
  BY FieldTypes DEF HandleInv
<1>1. CASE DrainSkip(r)
  <2> DEFINE rest == fiber[r].todo \ {Oldest(fiber[r].todo)}
             a    == [fiber[r] EXCEPT !.todo = rest]
  <2>1. fiber[r].pc = "drain" /\ (Return(r) \/ Becomes(r, a))
    BY <1>1, Zenon DEF DrainSkip
  <2> HIDE DEF rest
  <2>2. a.proc = NoProc /\ a.pc = "drain"
    BY <2>1 DEF HoldersKnown, Activation
  <2> HIDE DEF a
  <2>3. Moves
    BY <2>1, <2>2, BecomesMoves, ReturnMoves
  <2>4. QED
    BY <1>1, <2>3, SameDrops, SameEnds DEF DrainSkip, Benign, memory, store
<1>2. CASE DrainClaim(r)
  <2> DEFINE m == Oldest(fiber[r].todo)
             k == message[m].key
             T == fiber[r].todo \ {m}
             a == [fiber[r] EXCEPT !.pc = "drained", !.key = k, !.msg = m, !.todo = T]
  <2>1. fiber[r].pc = "drain" /\ Becomes(r, a)
    BY <1>2 DEF DrainClaim
  <2> HIDE DEF m, k, T
  <2>2. a.proc = NoProc /\ a.pc = "drained"
    BY <2>1 DEF HoldersKnown, Activation
  <2> HIDE DEF a
  <2>3. Moves
    BY <2>1, <2>2, BecomesMoves
  <2>4. QED
    BY <1>2, <2>3, SameDrops, SameEnds DEF DrainClaim, Benign, memory
<1>3. CASE DrainRun(r)
  BY <1>3, dequeueMoves DEF DrainRun
<1>4. QED
  BY <1>1, <1>2, <1>3 DEF DrainStep

\* A new activation starts on a free fiber.
LEMMA BeginMoves ==
  ASSUME SchedulerAssumption, TypeOK, NEW k, NEW p, p \notin {"live", "preempt"},
         Begin(k, p)
  PROVE  Moves
<1>1. Oldest(Free) \in Free
  BY OldestIn DEF Begin, Free, SchedulerAssumption
<1> DEFINE r == Oldest(Free)
           a == At(p, k, NoMsg)
<1>2. r \in Fibers /\ fiber[r].pc # "live" /\ Becomes(r, a)
  BY <1>1 DEF Begin, Free
<1>3. a.proc = NoProc /\ a.pc = p
  BY AtFields
<1> HIDE DEF r, a
<1>4. QED
  BY <1>2, <1>3, BecomesMoves

LEMMA EnvironmentHandles ==
  ASSUME SchedulerAssumption, TypeOK, HandleInv,
         \/ \E k \in Keys : Deliver(k) \/ ObserverFixes(k)
         \/ \E p \in Procs : Exit(p)
         \/ ObserverDrains
         \/ \E m \in Msgs : Age(m) \/ Retry(m)
         \/ UNCHANGED vars
  PROVE  HandleInv' /\ Silent
<1> SUFFICES Benign
  BY BenignKeeps
<1> HoldersKnown
  BY DEF HandleInv
<1>0. fiber' = fiber => Moves
  BY DEF Moves
<1>1. ASSUME NEW k \in Keys, Deliver(k) PROVE Benign
  <2> DEFINE r == Oldest(Free)
             a == [fiber[r] EXCEPT !.pc = "ack", !.key = k]
  <2>1. r \in Free /\ Becomes(r, a)
    BY <1>1, OldestIn DEF Deliver, Free, SchedulerAssumption
  <2> HIDE DEF r
  <2>2. fiber[r].pc = "idle" /\ r \in Fibers /\ fiber[r] \in Activation
    BY <2>1 DEF Free, TypeOK
  <2>3. a.proc = NoProc /\ a.pc = "ack"
    BY <2>2 DEF HoldersKnown, Activation
  <2> HIDE DEF a
  <2>4. Moves
    BY <2>1, <2>2, <2>3, BecomesMoves
  <2>5. QED
    BY <1>1, <2>4, SameDrops, SameEnds DEF Deliver, Benign, memory, store
<1>2. ASSUME NEW k \in Keys, ObserverFixes(k) PROVE Benign
  BY <1>0, <1>2, SameDrops, SameEnds DEF ObserverFixes, Benign, memory
<1>3. ASSUME NEW p \in Procs, Exit(p) PROVE Benign
  <2>1. Ends
    BY <1>3 DEF Exit, Ends, TypeOK
  <2>2. QED
    BY <1>0, <1>3, <2>1, SameDrops DEF Exit, Benign, memory, store
<1>4. CASE ObserverDrains
  <2>1. Oldest(Free) \in Free
    BY <1>4, OldestIn DEF ObserverDrains, Free, SchedulerAssumption
  <2>2. Moves
    BY <1>4, <2>1, startDrainMoves DEF ObserverDrains, Free
  <2>3. QED
    BY <1>4, <2>2, SameDrops, SameEnds DEF ObserverDrains, Benign, memory, store
<1>5. ASSUME NEW m \in Msgs, Age(m) PROVE Benign
  BY <1>0, <1>5, SameDrops, SameEnds DEF Age, Benign, memory
<1>6. ASSUME NEW m \in Msgs, Retry(m) PROVE Benign
  <2>1. Free # {} /\ Becomes(Oldest(Free), At("retry", message[m].key, m))
    BY <1>6 DEF Retry
  <2>2. Oldest(Free) \in Free
    BY <2>1, OldestIn DEF Free, SchedulerAssumption
  <2>3. Moves
    BY <2>1, <2>2, AtFields, BecomesMoves DEF Free
  <2>4. QED
    BY <1>6, <2>3, SameDrops, SameEnds DEF Retry, Benign, memory
<1>7. CASE UNCHANGED vars
  BY <1>0, <1>7, SameDrops, SameEnds DEF vars, memory, store, Benign
<1>8. QED
  BY <1>1, <1>2, <1>3, <1>4, <1>5, <1>6, <1>7

\* Killing the registered process of a session, and only that, leaves no
\* registration of a killed process.
LEMMA KillRegistered ==
  ASSUME SchedulerAssumption, TypeOK, HandleInv, NEW k \in Keys,
         proc' = IF processes[k] = NoProc THEN proc ELSE Kill(processes[k]),
         processes' = [processes EXCEPT ![k] = NoProc]
  PROVE  Ends
<1>1. CASE processes[k] = NoProc
  BY <1>1, SameEnds
<1>2. CASE processes[k] # NoProc
  <2>1. \A j \in Keys : processes'[j] # processes[k]
    BY <1>2, OneRegistration DEF TypeOK
  <2>2. QED
    BY <1>2, <2>1, KillEnds
<1>3. QED
  BY <1>1, <1>2

LEMMA forceStopHandles ==
  ASSUME SchedulerAssumption, TypeOK, HandleInv, NEW k \in Keys, NEW n,
         forceStop(k, n), dbPid' = dbPid
  PROVE  Drops /\ Ends
BY KillRegistered, ClearDrops DEF forceStop

\* A process that only a session row names is registered for no session.
LEMMA RowPidUnregistered ==
  ASSUME TypeOK, HandleInv, NEW k \in Keys, processes[k] = NoProc, dbPid[k] # NoProc
  PROVE  \A j \in Keys : processes[j] # dbPid[k]
BY DEF HandleInv, RegisteredHandle, RowOwnsPid, RunsProcess, TypeOK

LEMMA forgetMoves ==
  ASSUME TypeOK, HoldersKnown, NEW r \in Fibers, fiber[r].pc \notin {"live", "preempt"},
         NEW k, forget(r, k), dbPid' = dbPid
  PROVE  Moves /\ Drops
<1> DEFINE T == Unsettled(k)
           a == [fiber[r] EXCEPT !.pc = "interrupt", !.todo = T]
<1>1. Becomes(r, a)
  BY DEF forget
<1> HIDE DEF T
<1>2. a.proc = NoProc /\ a.pc = "interrupt"
  BY DEF HoldersKnown, TypeOK, Activation
<1> HIDE DEF a
<1>3. QED
  BY <1>1, <1>2, BecomesMoves, ClearDrops DEF forget, clearRuntimeState

LEMMA endMessagesMoves ==
  ASSUME SchedulerAssumption, TypeOK, NEW r \in Fibers, fiber[r].pc # "live", NEW st,
         endMessages(r, st)
  PROVE  Benign
BY ReturnMoves, SameDrops, SameEnds DEF endMessages, Benign, memory

LEMMA ControlHandles ==
  ASSUME SchedulerAssumption, TypeOK, HandleInv, NEW r \in Fibers, ControlStep(r)
  PROVE  HandleInv' /\ Silent
<1> SUFFICES Benign
  BY BenignKeeps
<1> /\ HoldersKnown /\ fiber[r] \in Activation
    /\ fiber[r].key \in Keys
  BY FieldTypes DEF HandleInv
<1>1. CASE KillSession(r)
  <2> DEFINE k == fiber[r].key
  <2>1. fiber[r].pc = "kill" /\ dbPid' = dbPid
    BY <1>1 DEF KillSession, store
  <2>2. CASE processes[k] = NoProc /\ dbPid[k] # NoProc
    <3>1. proc' = Kill(dbPid[k]) /\ Goto(r, "reap") /\ processes' = processes
      BY <1>1, <2>2 DEF KillSession
    <3>2. Ends
      BY <2>2, <3>1, RowPidUnregistered, KillEnds
    <3>3. Moves
      BY <2>1, <3>1, GotoMoves
    <3>4. QED
      BY <2>1, <3>1, <3>2, <3>3, SameDrops DEF Benign
  <2>3. CASE ~(processes[k] = NoProc /\ dbPid[k] # NoProc)
    <3>1. /\ proc' = IF processes[k] = NoProc THEN proc ELSE Kill(processes[k])
          /\ forget(r, k)
      BY <1>1, <2>3 DEF KillSession
    <3>2. Ends
      BY <3>1, KillRegistered DEF forget, clearRuntimeState
    <3>3. QED
      BY <2>1, <3>1, <3>2, forgetMoves DEF Benign
  <2>4. QED
    BY <2>2, <2>3
<1>2. CASE Reaped(r)
  BY <1>2, forgetMoves, SameEnds DEF Reaped, store, Benign
<1>3. CASE Interrupt(r)
  BY <1>3, endMessagesMoves DEF Interrupt
<1>4. CASE ForceRead(r)
  <2> DEFINE T == Unsettled(fiber[r].key)
             a == [fiber[r] EXCEPT !.pc = "failing", !.todo = T]
  <2>1. fiber[r].pc = "force" /\ Becomes(r, a)
    BY <1>4 DEF ForceRead
  <2> HIDE DEF T
  <2>2. a.proc = NoProc /\ a.pc = "failing"
    BY <2>1 DEF HoldersKnown, Activation
  <2> HIDE DEF a
  <2>3. Moves
    BY <2>1, <2>2, BecomesMoves
  <2>4. QED
    BY <1>4, <2>3, SameDrops, SameEnds DEF ForceRead, Benign, memory, store
<1>5. CASE ForceFail(r)
  BY <1>5, endMessagesMoves DEF ForceFail
<1>6. CASE RetryRun(r)
  <2>1. fiber[r].pc = "retry" /\ (Goto(r, "dequeued") \/ Return(r))
    BY <1>6, Zenon DEF RetryRun
  <2>2. Moves
    BY <2>1, GotoMoves, ReturnMoves
  <2>3. QED
    BY <1>6, <2>2, SameDrops, SameEnds DEF RetryRun, Benign, memory
<1>7. CASE FailDead(r)
  BY <1>7, GotoMoves, SameDrops, SameEnds DEF FailDead, Benign
<1>8. CASE RestartDead(r)
  BY <1>8, nudgeMoves, SameDrops, SameEnds DEF RestartDead, Benign
<1>9. CASE BuryDead(r)
  <2> DEFINE m == NextOf(Pending(fiber[r].key))
             a == IF m = NoMsg THEN NoFiber ELSE At("next", fiber[r].key, m)
  <2>1. fiber[r].pc = "obituary" /\ Becomes(r, a)
    BY <1>9 DEF BuryDead
  <2>2. a.proc = NoProc /\ a.pc \in {"idle", "next"}
    BY NoFiberType, AtFields
  <2> HIDE DEF a
  <2>3. Moves
    BY <2>1, <2>2, BecomesMoves
  <2>4. QED
    BY <1>9, <2>3, SameDrops, SameEnds DEF BuryDead, Benign, store
<1>10. CASE RestartStuck(r)
  <2> DEFINE b == At("force", fiber[r].key, NoMsg)
             q == Oldest(Free)
  <2>1. PICK m \in Fresh :
          fiber' = [fiber EXCEPT ![r] = At("requeue", fiber[r].key, m), ![q] = b]
    BY <1>10 DEF RestartStuck
  <2> DEFINE a == At("requeue", fiber[r].key, m)
  <2>2. fiber[r].pc = "stuck" /\ q \in Free
    BY <1>10, OldestIn DEF RestartStuck, Free, SchedulerAssumption
  <2>3. /\ a.proc = NoProc /\ a.pc = "requeue" /\ b.proc = NoProc /\ b.pc = "force"
        /\ fiber \in [Fibers -> Activation] /\ fiber[q].pc = "idle" /\ q \in Fibers
    BY <2>2, AtFields DEF Free, TypeOK
  <2>4. fiber' = [fiber EXCEPT ![r] = a, ![q] = b]
    BY <2>1
  <2> HIDE DEF a, b, q
  <2>5. Moves
    BY <2>2, <2>3, <2>4 DEF Moves
  <2>6. forceStop(fiber[r].key, MaxStuckRounds) /\ dbPid' = dbPid
    BY <1>10 DEF RestartStuck
  <2>7. QED
    BY <2>5, <2>6, forceStopHandles DEF Benign
<1>11. CASE GiveUpStuck(r)
  BY <1>11, forceStopHandles, GotoMoves DEF GiveUpStuck, Benign, store
<1>12. CASE StopOvertime(r)
  BY <1>12, forceStopHandles, GotoMoves DEF StopOvertime, Benign, store
<1>13. QED
  BY <1>1, <1>2, <1>3, <1>4, <1>5, <1>6, <1>7, <1>8, <1>9, <1>10, <1>11, <1>12
     DEF ControlStep

LEMMA StimulusHandles ==
  ASSUME SchedulerAssumption, TypeOK, HandleInv, NEW k \in Keys, Stimulus(k)
  PROVE  HandleInv' /\ Silent
<1> SUFFICES Benign
  BY BenignKeeps
<1>1. CASE Close(k)
  BY <1>1, BeginMoves, SameDrops, SameEnds DEF Close, Benign, memory
<1>2. CASE Halt(k)
  BY <1>2, BeginMoves, SameDrops, SameEnds DEF Halt, Benign, memory, store
<1>9. CASE HaltAll(k)
  BY <1>9, BeginMoves, SameDrops, SameEnds DEF HaltAll, Benign, memory, store
<1>3. CASE Reopen(k)
  <2>1. fiber' = fiber \/ Begin(k, "ack")
    BY <1>3, Zenon DEF Reopen
  <2>2. Moves
    BY <2>1, BeginMoves DEF Moves
  <2>3. QED
    BY <1>3, <2>2, SameDrops, SameEnds DEF Reopen, Benign, memory
<1>4. CASE ForceStop(k)
  BY <1>4, BeginMoves, forceStopHandles DEF ForceStop, Benign, store
<1>5. CASE Burst(k)
  <2>1. /\ processes' = [processes EXCEPT ![k] = NoProc] /\ dbPid' = dbPid
        /\ fiber' = fiber
    BY <1>5 DEF Burst, store
  <2>2. CASE processes[k] # NoProc
    <3>1. proc' = Kill(processes[k])
      BY <1>5, <2>2 DEF Burst
    <3>2. Ends
      BY <2>1, <2>2, <3>1, KillRegistered
    <3>3. QED
      BY <2>1, <3>2, ClearDrops DEF Benign, Moves
  <2>3. CASE processes[k] = NoProc
    <3>1. proc' = Kill(dbPid[k]) /\ dbPid[k] # NoProc
      BY <1>5, <2>3 DEF Burst
    <3>2. \A j \in Keys : processes'[j] # dbPid[k]
      BY <2>1, <2>3, <3>1, RowPidUnregistered DEF TypeOK
    <3>3. Ends
      BY <3>1, <3>2, KillEnds
    <3>4. QED
      BY <2>1, <3>3, ClearDrops DEF Benign, Moves
  <2>4. QED
    BY <2>2, <2>3
<1>6. CASE FindDead(k)
  BY <1>6, BeginMoves, ClearDrops, SameEnds DEF FindDead, Benign
<1>7. CASE FindStuck(k)
  <2>1. Begin(k, "stuck") \/ Begin(k, "stuckout")
    BY <1>7, Zenon DEF FindStuck
  <2>2. Moves
    BY <2>1, BeginMoves
  <2>3. QED
    BY <1>7, <2>2, SameDrops, SameEnds DEF FindStuck, Benign, memory, store
<1>8. CASE FindOvertime(k)
  BY <1>8, BeginMoves, SameDrops, SameEnds DEF FindOvertime, Benign, memory, store
<1>10. QED
  BY <1>1, <1>2, <1>3, <1>4, <1>5, <1>6, <1>7, <1>8, <1>9 DEF Stimulus

LEMMA StepHandles ==
  ASSUME SchedulerAssumption, TypeOK, HandleInv, [EngineNext]_vars
  PROVE  HandleInv' /\ Silent
<1>1. CASE \E k \in Keys : Stimulus(k)
  BY <1>1, StimulusHandles
<1>2. CASE \E r \in Fibers : EngineResume(r)
  BY <1>2, EnqueueHandles, ExecHandles, FinishHandles, DrainHandles, ControlHandles
     DEF EngineResume, Resume
<1>3. CASE \/ \E k \in Keys : Deliver(k) \/ ObserverFixes(k)
           \/ \E p \in Procs : Exit(p)
           \/ ObserverDrains
           \/ \E m \in Msgs : Age(m) \/ Retry(m)
           \/ UNCHANGED vars
  BY <1>3, EnvironmentHandles
<1>4. QED
  BY <1>1, <1>2, <1>3, Zenon DEF EngineNext

LEMMA InitHandles ==
  ASSUME Init
  PROVE  HandleInv
BY DEF Init, HandleInv, RegisteredHandle, SameKey, AwaitedBy, RowOwnsPid, HoldersKnown,
       Reapable, NoFiber

-----------------------------------------------------------------------------
(* The results *)

LEMMA HandleInvariant ==
  EngineSpec => [](TypeOK /\ HandleInv)
<1>1. Init => TypeOK /\ HandleInv
  BY InitType, InitHandles, SchedulerAssumption
<1>2. TypeOK /\ HandleInv /\ [EngineNext]_vars => (TypeOK /\ HandleInv)'
  BY StepType, StepHandles, SchedulerAssumption
<1>3. QED
  BY <1>1, <1>2, PTL DEF EngineSpec

\* A registered handle is never one the engine has killed, and an execProcess
\* of the session it is registered for awaits it: kills by preemption, closing,
\* force-stop, the burst breaker and the observer all unregister what they
\* kill, whichever map or row they found the handle in.
THEOREM EngineRegisteredHandle ==
  EngineSpec => []RegisteredHandle
<1>1. TypeOK /\ HandleInv => RegisteredHandle
  BY DEF HandleInv
<1>2. QED
  BY <1>1, HandleInvariant, PTL

\* No opencode process is lost: each one that has not been reaped is awaited,
\* and by one execProcess only.
THEOREM EngineAwaitedOnce ==
  EngineSpec => []AwaitedOnce
<1>1. TypeOK /\ HandleInv => AwaitedOnce
  <2> SUFFICES ASSUME AwaitedBy, Reapable, NEW p \in Procs, proc[p] \in {"live", "killed"}
               PROVE  \E r \in Fibers : /\ RunsProcess(r, p)
                                        /\ \A q \in Fibers : RunsProcess(q, p) => q = r
    BY DEF HandleInv, AwaitedOnce
  <2>1. PICK r \in Fibers : RunsProcess(r, p)
    BY DEF Reapable
  <2>2. \A q \in Fibers : RunsProcess(q, p) => q = r
    BY <2>1 DEF AwaitedBy, RunsProcess
  <2>3. QED
    BY <2>1, <2>2
<1>2. QED
  BY <1>1, HandleInvariant, PTL

\* A run whose process the engine killed never finishes: it stores no outcome
\* for its message, and finishRun is not called for it.
THEOREM EngineKilledRunIsSilent ==
  EngineSpec => KilledRunIsSilent
<1>1. TypeOK /\ HandleInv /\ [EngineNext]_vars
      => [\A r \in Fibers :
            fiber[r].pc = "live" /\ proc[fiber[r].proc] = "killed"
            => fiber'[r] \in {fiber[r], NoFiber}]_vars
  BY StepHandles, SchedulerAssumption DEF Silent
<1>2. QED
  BY <1>1, HandleInvariant, PTL DEF EngineSpec, KilledRunIsSilent
=============================================================================
