-------------------------- MODULE SchedulerProofs --------------------------
(***************************************************************************)
(* What a session is doing: that every live process is under control, no   *)
(* slot and no running row is lost, and a closed issue is quiet, for any   *)
(* number of sessions, messages and activations.  The argument is local to *)
(* a session: at most one activation RUNS it and at most one STOPS it, and *)
(* where these two are in the code says what the maps and rows hold.       *)
(***************************************************************************)
EXTENDS EngineProofs, FiniteSetTheorems

\* The circumstances under which this holds: a message comes only when its
\* session is at rest, nothing throws before the spawn, stops come alone and
\* hit a session that is at rest or at work, and a run that may be nudged is
\* not closed meanwhile.
Serial ==
  /\ Env \cap {"overlap", "slowinsert", "throw", "midflight", "halt", "haltall", "reopen",
               "burst", "retry", "hang", "overtime", "linger"} = {}
  /\ "close" \notin Env \/ "silent" \notin Env

-----------------------------------------------------------------------------
(* The invariant *)

Off   == {"idle", "drain"}
\* on the way to a process, or to another one
Early == {"ack", "enqueue", "claimed", "drained", "dequeued", "expire", "gate", "denied", "spawn",
          "output", "requeue"}
\* at a process, or past it
Late  == {"live", "exited", "finish", "current", "report", "settle", "abandon", "deact"}
Runners  == Early \cup Late
Stoppers == {"kill", "interrupt", "force", "failing"}
\* with a claimed message and without a process
Carriers == {"claimed", "drained", "dequeued", "gate", "spawn"}
\* with the current message of the session, until finishRun forgets it
Holders  == {"gate", "denied", "spawn", "live", "exited", "finish", "current"}
\* of a run whose outcome is stored
Settled  == {"finish", "current", "report", "output"}

On(r, k, S) == fiber[r].key = k /\ fiber[r].pc \in S
closed(k) == issueState[k] = "closed"
Unhindered(k) == ~closed(k) /\ \A s \in Fibers : ~On(s, k, Stoppers)
RowOf(k, m) == m \in Msgs /\ message[m].key = k /\ message[m].status # "none"
Registered(r) == processes[fiber[r].key] = fiber[r].proc

\* Message m of session k is about to be ended by a stop.
Doomed(k, m) ==
  \E s \in Fibers : \/ On(s, k, {"force"})
                    \/ On(s, k, {"interrupt", "failing"}) /\ m \in fiber[s].todo

\* Activation r carries message m, or will store its outcome.
Carries(r, k, m) ==
  /\ On(r, k, Carriers \cup {"live", "exited"}) /\ fiber[r].msg = m
  /\ fiber[r].pc = "live" => Registered(r)

KnownPCs == \A r \in Fibers : fiber[r].pc \in Runners \cup Stoppers \cup Off

KeyAlone(k) ==
  /\ \A r, q \in Fibers : On(r, k, Runners) /\ On(q, k, Runners) => r = q
  /\ \A r, q \in Fibers : On(r, k, Stoppers) /\ On(q, k, Stoppers) => r = q

\* What holds while activation r runs session k: of its messages,
RunnerRows(k, r) ==
  /\ fiber[r].pc # "ack" /\ fiber[r].msg # NoMsg => RowOf(k, fiber[r].msg)
  /\ fiber[r].pc \in Carriers \cup {"live", "exited", "enqueue", "requeue"} => fiber[r].msg # NoMsg
  /\ fiber[r].pc \in {"deact", "expire"} => fiber[r].msg = NoMsg
  /\ fiber[r].pc \in Carriers => message[fiber[r].msg].status = "running"
  /\ fiber[r].pc = "requeue" => message[fiber[r].msg].status = "pending"
  /\ fiber[r].pc = "exited" => message[fiber[r].msg].status = "running" \/ closed(k)
  /\ fiber[r].pc \in Settled /\ fiber[r].msg # NoMsg =>
       message[fiber[r].msg].status \in {"done", "failed"} \/ closed(k)
  /\ \A m \in Pending(k) : fiber[r].pc \in {"enqueue", "requeue"} /\ fiber[r].msg = m

\* of its slot,
RunnerSlot(k, r) ==
  /\ fiber[r].pc \in Early => Unhindered(k)
  /\ fiber[r].pc \in {"gate", "denied", "spawn", "output", "requeue"} => k \in running
  /\ fiber[r].pc \in {"gate", "spawn"} => sessionState[k] = "running"
  /\ fiber[r].pc \in {"exited", "finish", "current", "report"} => k \in running \/ closed(k)
  /\ /\ fiber[r].pc \in {"spawn", "live", "exited", "finish", "current", "report", "output", "settle"}
     /\ k \in running
     => generation[k] = fiber[r].gen

\* and of its process.
RunnerLive(k, r) ==
  fiber[r].pc = "live" =>
    IF Registered(r)
    THEN /\ k \in running /\ sessionState[k] = "running"
         /\ message[fiber[r].msg].status = "running"
    ELSE /\ k \notin running /\ currentMessage[k] = NoMsg /\ proc[fiber[r].proc] # "live"
         /\ \A s \in Fibers : ~On(s, k, {"kill"})

KeyRuns(k) ==
  \A r \in Fibers : On(r, k, Runners) => RunnerRows(k, r) /\ RunnerSlot(k, r) /\ RunnerLive(k, r)

\* Once a stop has unregistered the session, no slot and no handle is left.
KeyStops(k) ==
  /\ \A s \in Fibers : On(s, k, {"kill", "interrupt"}) => closed(k)
  /\ \A s \in Fibers : On(s, k, {"force", "failing"}) => "force" \in Env
  /\ \A s \in Fibers : On(s, k, Stoppers \ {"kill"}) => k \notin running /\ processes[k] = NoProc
  /\ closed(k) => /\ "close" \in Env
                  /\ \/ \E s \in Fibers : On(s, k, {"kill"})
                     \/ k \notin running /\ processes[k] = NoProc

KeyRows(k) ==
  /\ currentMessage[k] # NoMsg =>
       \E r \in Fibers : On(r, k, Holders) /\ fiber[r].msg = currentMessage[k]
  /\ \A s \in Fibers : On(s, k, {"interrupt", "failing"}) => \A m \in fiber[s].todo : RowOf(k, m)
  /\ \A m, q \in Pending(k) : m = q
  /\ Pending(k) # {} => closed(k) \/ \A s \in Fibers : ~On(s, k, Stoppers)
  /\ \A m \in Msgs : RowOf(k, m) /\ message[m].status = "running" =>
       Doomed(k, m) \/ \E r \in Fibers : Carries(r, k, m)

KeyHolds(k) ==
  /\ k \in running => \E r \in Fibers : On(r, k, RunPCs)
  /\ k \in stopping => \E r \in Fibers : On(r, k, {"live"}) /\ ~Registered(r)
  /\ dbPid[k] # NoProc => \E r \in Fibers : On(r, k, {"live"}) /\ fiber[r].proc = dbPid[k]

KeyInv(k) == KeyAlone(k) /\ KeyRuns(k) /\ KeyStops(k) /\ KeyRows(k) /\ KeyHolds(k)

SerialInv == KnownPCs /\ \A k \in Keys : KeyInv(k)

-----------------------------------------------------------------------------
(* A step that touches the sessions K only leaves the others as they are.  *)

Aside(r, K) == fiber[r].key \in K \/ fiber[r].pc \in Off

\* No process comes to life under an activation that awaits one.
Ending == \A r \in Fibers : fiber[r].pc = "live" /\ proc[fiber[r].proc] # "live"
                            => proc'[fiber[r].proc] # "live"

MapsWithin(K) ==
  \A j \in Keys \ K :
    /\ (j \in running' <=> j \in running) /\ (j \in stopping' <=> j \in stopping)
    /\ processes'[j] = processes[j] /\ currentMessage'[j] = currentMessage[j]
    /\ generation'[j] = generation[j] /\ sessionState'[j] = sessionState[j]
    /\ dbPid'[j] = dbPid[j] /\ issueState'[j] = issueState[j]

RowsWithin(K) ==
  \A m \in Msgs :
    \/ message'[m].key = message[m].key /\ message'[m].status = message[m].status
    \/ message'[m].key \in K /\ (message[m].status = "none" \/ message[m].key \in K)

Within(K) ==
  /\ \A r \in Fibers : fiber'[r] = fiber[r] \/ (Aside(r, K) /\ Aside(r, K)')
  /\ MapsWithin(K) /\ RowsWithin(K) /\ Ending

LEMMA Apart ==
  ASSUME TypeOK, TypeOK', NEW K, NEW j \in Keys \ K, KeyInv(j), Within(K)
  PROVE  KeyInv(j)'
<1> DEFINE Active == Runners \cup Stoppers
<1>1. ASSUME NEW r \in Fibers, On(r, j, Active) \/ On(r, j, Active)'
      PROVE  fiber'[r] = fiber[r]
  BY <1>1 DEF Within, Aside, On, Off, Runners, Early, Late, Stoppers
<1>2. ASSUME NEW r \in Fibers, NEW S, S \subseteq Active
      PROVE  /\ On(r, j, S)' <=> On(r, j, S)
             /\ On(r, j, S) => fiber'[r] = fiber[r]
  BY <1>1, <1>2 DEF On
<1>3. /\ Runners \subseteq Active /\ Stoppers \subseteq Active /\ RunPCs \subseteq Active
      /\ Carriers \cup {"live", "exited"} \subseteq Active /\ {"live"} \subseteq Active
      /\ {"force"} \subseteq Active /\ {"interrupt", "failing"} \subseteq Active
      /\ {"kill"} \subseteq Active /\ {"kill", "interrupt"} \subseteq Active
      /\ Stoppers \ {"kill"} \subseteq Active /\ {"force", "failing"} \subseteq Active
      /\ Holders \subseteq Active
  BY DEF Runners, Early, Late, Stoppers, RunPCs, Carriers, Holders
<1>4. ASSUME NEW m
      PROVE  /\ RowOf(j, m)' <=> RowOf(j, m)
             /\ RowOf(j, m) => message'[m].status = message[m].status
  BY DEF Within, RowsWithin, RowOf
<1>5. Pending(j)' = Pending(j)
  <2>1. ASSUME NEW m \in Msgs
        PROVE  message'[m].key = j /\ message'[m].status = "pending"
               <=> message[m].key = j /\ message[m].status = "pending"
    BY DEF Within, RowsWithin
  <2> QED  BY <2>1 DEF Pending
<1>6. /\ (j \in running' <=> j \in running) /\ (j \in stopping' <=> j \in stopping)
      /\ processes'[j] = processes[j] /\ currentMessage'[j] = currentMessage[j]
      /\ generation'[j] = generation[j] /\ sessionState'[j] = sessionState[j]
      /\ dbPid'[j] = dbPid[j] /\ issueState'[j] = issueState[j]
      /\ closed(j)' <=> closed(j)
  BY DEF Within, MapsWithin, closed
<1>7. Unhindered(j)' <=> Unhindered(j)
  BY <1>2, <1>3, <1>6 DEF Unhindered
<1>8. KeyAlone(j)'
  BY <1>2, <1>3 DEF KeyInv, KeyAlone
<1>9. KeyRuns(j)'
  <2> SUFFICES ASSUME NEW r \in Fibers, On(r, j, Runners)'
               PROVE  (RunnerRows(j, r) /\ RunnerSlot(j, r) /\ RunnerLive(j, r))'
    BY DEF KeyRuns
  <2>1. On(r, j, Runners) /\ fiber'[r] = fiber[r]
    BY <1>2, <1>3
  <2>2. RunnerRows(j, r) /\ RunnerSlot(j, r) /\ RunnerLive(j, r)
    BY <2>1 DEF KeyInv, KeyRuns
  <2>3. RunnerRows(j, r)'
    <3>1. fiber[r].pc \in Carriers \cup {"exited", "requeue"} => RowOf(j, fiber[r].msg)
      BY <2>2 DEF RunnerRows, Carriers
    <3>2. fiber[r].pc \in Settled /\ fiber[r].msg # NoMsg => RowOf(j, fiber[r].msg)
      BY <2>2 DEF RunnerRows, Settled
    <3> QED  BY <1>4, <1>5, <1>6, <2>1, <2>2, <3>1, <3>2 DEF RunnerRows
  <2>4. RunnerSlot(j, r)'
    BY <1>6, <1>7, <2>1, <2>2 DEF RunnerSlot
  <2>5. RunnerLive(j, r)'
    <3> SUFFICES ASSUME fiber[r].pc = "live" PROVE RunnerLive(j, r)'
      BY <2>1 DEF RunnerLive
    <3>1. fiber[r].key = j /\ (Registered(r)' <=> Registered(r))
      BY <1>6, <2>1 DEF On, Registered
    <3>2. CASE Registered(r)
      <4>1. RowOf(j, fiber[r].msg)
        BY <2>2 DEF RunnerRows
      <4> QED  BY <1>4, <1>6, <2>1, <2>2, <3>1, <3>2, <4>1 DEF RunnerLive
    <3>3. CASE ~Registered(r)
      <4>1. \A s \in Fibers : ~On(s, j, {"kill"})'
        BY <1>2, <1>3, <2>2, <3>3 DEF RunnerLive
      <4> QED  BY <1>6, <2>1, <2>2, <3>1, <3>3, <4>1 DEF RunnerLive, Within, Ending
    <3> QED  BY <3>2, <3>3
  <2> QED  BY <2>3, <2>4, <2>5
<1>10. KeyStops(j)'
  <2>1. KeyStops(j)
    BY DEF KeyInv
  <2> QED  BY <1>2, <1>3, <1>6, <2>1 DEF KeyStops
<1>11. KeyRows(j)'
  <2>1. KeyRows(j)
    BY DEF KeyInv
  <2>2. ASSUME NEW m \in Msgs, Doomed(j, m) PROVE Doomed(j, m)'
    BY <1>2, <1>3, <2>2 DEF Doomed
  <2>3. ASSUME NEW m \in Msgs, NEW r \in Fibers, Carries(r, j, m) PROVE Carries(r, j, m)'
    BY <1>2, <1>3, <1>6, <2>3 DEF Carries, Registered, On
  <2>4. currentMessage'[j] # NoMsg =>
          \E r \in Fibers : On(r, j, Holders)' /\ fiber'[r].msg = currentMessage'[j]
    BY <1>2, <1>3, <1>6, <2>1 DEF KeyRows
  <2>5. ASSUME NEW s \in Fibers, On(s, j, {"interrupt", "failing"})', NEW m \in fiber'[s].todo
        PROVE  RowOf(j, m)'
    BY <1>2, <1>3, <1>4, <2>1, <2>5 DEF KeyRows
  <2>6. /\ \A m, q \in Pending(j)' : m = q
        /\ Pending(j)' # {} => closed(j)' \/ \A s \in Fibers : ~On(s, j, Stoppers)'
    BY <1>2, <1>3, <1>5, <1>6, <2>1 DEF KeyRows
  <2>7. ASSUME NEW m \in Msgs, RowOf(j, m)', message'[m].status = "running"
        PROVE  Doomed(j, m)' \/ \E r \in Fibers : Carries(r, j, m)'
    BY <1>4, <2>1, <2>2, <2>3, <2>7 DEF KeyRows
  <2>8. \A s \in Fibers : On(s, j, {"interrupt", "failing"})' => \A m \in fiber'[s].todo : RowOf(j, m)'
    BY <2>5
  <2> HIDE DEF Active
  <2> QED  BY <1>6, <2>4, <2>6, <2>7, <2>8 DEF KeyRows
<1>12. KeyHolds(j)'
  <2>1. KeyHolds(j)
    BY DEF KeyInv
  <2>2. \A r \in Fibers : On(r, j, {"live"}) => (Registered(r)' <=> Registered(r))
    BY <1>2, <1>3, <1>6 DEF Registered, On
  <2> QED  BY <1>2, <1>3, <1>6, <2>1, <2>2 DEF KeyHolds
<1> QED  BY <1>8, <1>9, <1>10, <1>11, <1>12 DEF KeyInv

-----------------------------------------------------------------------------
(* A step of the activation that runs the session                          *)

\* r runs session k, or begins to, and goes on running it or ends; besides, only
\* drains come and go.
Goes(r, k) ==
  /\ On(r, k, Runners) \/ (fiber[r].pc \in Off /\ \A q \in Fibers : ~On(q, k, Runners))
  /\ On(r, k, Runners)' \/ fiber'[r].pc \in Off
  /\ \A q \in Fibers : \/ q = r \/ fiber'[q] = fiber[q]
                       \/ fiber[q].pc \in Off /\ fiber'[q].pc \in Off
  /\ issueState' = issueState

LEMMA OthersStay ==
  ASSUME NEW k \in Keys, KeyInv(k), NEW r \in Fibers, Goes(r, k)
  PROVE  /\ \A q \in Fibers : On(q, k, Runners)' => q = r
         /\ \A q \in Fibers : On(q, k, Runners) => q = r
         /\ \A S : S \subseteq Stoppers =>
              \A q \in Fibers : /\ On(q, k, S)' <=> On(q, k, S)
                                /\ On(q, k, S) => fiber'[q] = fiber[q]
         /\ closed(k)' <=> closed(k)
         /\ Unhindered(k)' <=> Unhindered(k)
         /\ \A m : Doomed(k, m)' <=> Doomed(k, m)
         /\ KeyAlone(k)'
<1>1. Off \cap Runners = {} /\ Off \cap Stoppers = {} /\ Runners \cap Stoppers = {}
  BY DEF Off, Runners, Early, Late, Stoppers
<1>2. KeyAlone(k)
  BY DEF KeyInv
<1>3. ASSUME NEW q \in Fibers, On(q, k, Runners)' PROVE q = r
  <2> SUFFICES ASSUME q # r PROVE FALSE
    OBVIOUS
  <2>1. On(q, k, Runners)
    BY <1>1, <1>3 DEF Goes, On
  <2> QED  BY <1>2, <2>1 DEF Goes, KeyAlone
<1>4. ASSUME NEW q \in Fibers, On(q, k, Runners) PROVE q = r
  BY <1>2, <1>4 DEF Goes, KeyAlone
<1>5. ASSUME NEW S, S \subseteq Stoppers, NEW q \in Fibers
      PROVE  /\ On(q, k, S)' <=> On(q, k, S)
             /\ On(q, k, S) => fiber'[q] = fiber[q]
  <2>1. CASE q = r
    BY <1>1, <1>5, <2>1 DEF Goes, On
  <2>2. CASE q # r
    BY <1>1, <1>5, <2>2 DEF Goes, On
  <2> QED  BY <2>1, <2>2
<1>6. closed(k)' <=> closed(k)
  BY DEF closed, Goes
<1>7. Unhindered(k)' <=> Unhindered(k)
  BY <1>5, <1>6 DEF Unhindered
<1>8. ASSUME NEW m PROVE Doomed(k, m)' <=> Doomed(k, m)
  <2>1. {"force"} \subseteq Stoppers /\ {"interrupt", "failing"} \subseteq Stoppers
    BY DEF Stoppers
  <2> QED  BY <1>5, <2>1 DEF Doomed
<1>9. KeyAlone(k)'
  BY <1>2, <1>3, <1>5 DEF KeyAlone
<1> QED  BY <1>3, <1>4, <1>5, <1>6, <1>7, <1>8, <1>9

LEMMA RunnerGoes ==
  ASSUME TypeOK, TypeOK', NEW k \in Keys, KeyInv(k), NEW r \in Fibers, Goes(r, k),
         \/ Unhindered(k)
         \/ (k \in running' => k \in running) /\ processes'[k] \in {processes[k], NoProc},
         currentMessage'[k] # NoMsg => (On(r, k, Holders) /\ fiber[r].msg = currentMessage[k])',
         \A m \in Msgs : RowOf(k, m) => RowOf(k, m)',
         \A m, q \in Pending(k)' : m = q,
         Pending(k)' # {} => Pending(k) # {} \/ Unhindered(k),
         \A m \in Msgs : RowOf(k, m)' /\ message'[m].status = "running" =>
           \/ Carries(r, k, m)'
           \/ RowOf(k, m) /\ message[m].status = "running" /\ ~Carries(r, k, m)
           \/ Doomed(k, m),
         k \in running' => On(r, k, RunPCs)',
         k \in stopping' => (On(r, k, {"live"}) /\ ~Registered(r))',
         dbPid'[k] # NoProc => (On(r, k, {"live"}) /\ fiber[r].proc = dbPid[k])',
         On(r, k, Runners)' => (RunnerRows(k, r) /\ RunnerSlot(k, r) /\ RunnerLive(k, r))'
  PROVE  KeyInv(k)'
<1>1. KeyAlone(k)'
  BY OthersStay
<1>2. KeyRuns(k)'
  BY OthersStay DEF KeyRuns
<1>3. KeyStops(k)'
  <2>1. /\ {"kill", "interrupt"} \subseteq Stoppers /\ Stoppers \ {"kill"} \subseteq Stoppers
        /\ {"kill"} \subseteq Stoppers /\ {"force", "failing"} \subseteq Stoppers
    BY DEF Stoppers
  <2>2. ASSUME NEW S, S \subseteq Stoppers
        PROVE  \A s \in Fibers : On(s, k, S)' <=> On(s, k, S)
    BY <2>2, OthersStay
  <2>3. closed(k)' <=> closed(k)
    BY OthersStay
  <2>4. KeyStops(k)
    BY DEF KeyInv
  <2>5. CASE Unhindered(k)
    BY <2>1, <2>2, <2>3, <2>5 DEF KeyStops, Unhindered, On
  <2>6. CASE (k \in running' => k \in running) /\ processes'[k] \in {processes[k], NoProc}
    BY <2>1, <2>2, <2>3, <2>4, <2>6 DEF KeyStops
  <2> QED  BY <2>5, <2>6
<1>4. KeyRows(k)'
  <2>1. KeyRows(k)
    BY DEF KeyInv
  <2>2. {"interrupt", "failing"} \subseteq Stoppers /\ Stoppers \subseteq Stoppers
    BY DEF Stoppers
  <2>3. \A s \in Fibers : On(s, k, {"interrupt", "failing"})' => \A m \in fiber'[s].todo : RowOf(k, m)'
    <3> SUFFICES ASSUME NEW s \in Fibers, On(s, k, {"interrupt", "failing"})', NEW m \in fiber'[s].todo
                 PROVE  RowOf(k, m)'
      OBVIOUS
    <3>1. On(s, k, {"interrupt", "failing"}) /\ fiber'[s] = fiber[s]
      BY <2>2, OthersStay
    <3>2. RowOf(k, m)
      BY <2>1, <3>1 DEF KeyRows
    <3> QED  BY <3>2 DEF RowOf
  <2>4. Pending(k)' # {} => closed(k)' \/ \A s \in Fibers : ~On(s, k, Stoppers)'
    <3>1. closed(k)' <=> closed(k)
      BY OthersStay
    <3>2. \A s \in Fibers : On(s, k, Stoppers)' <=> On(s, k, Stoppers)
      BY <2>2, OthersStay
    <3> QED  BY <2>1, <3>1, <3>2 DEF KeyRows, Unhindered
  <2>5. ASSUME NEW m \in Msgs, RowOf(k, m)', message'[m].status = "running"
        PROVE  Doomed(k, m)' \/ \E q \in Fibers : Carries(q, k, m)'
    <3>1. Doomed(k, m)' <=> Doomed(k, m)
      BY OthersStay
    <3>2. CASE RowOf(k, m) /\ message[m].status = "running" /\ ~Carries(r, k, m)
      <4>1. ASSUME NEW q \in Fibers PROVE ~Carries(q, k, m)
        <5>1. Carries(q, k, m) => On(q, k, Runners)
          BY DEF Carries, On, Runners, Early, Late, Carriers
        <5> QED  BY <3>2, <5>1, OthersStay
      <4> QED  BY <2>1, <3>1, <3>2, <4>1 DEF KeyRows
    <3> QED  BY <2>5, <3>1, <3>2
  <2> QED  BY <2>3, <2>4, <2>5 DEF KeyRows
<1>5. KeyHolds(k)'
  BY DEF KeyHolds
<1> QED  BY <1>1, <1>2, <1>3, <1>4, <1>5 DEF KeyInv

\* The session of an activation without a process is not marked stopping, and its
\* row names no process.
LEMMA NotLive ==
  ASSUME NEW k \in Keys, KeyInv(k), NEW r \in Fibers, On(r, k, Runners), fiber[r].pc # "live"
  PROVE  k \notin stopping /\ dbPid[k] = NoProc
<1>1. ASSUME NEW q \in Fibers, On(q, k, {"live"}) PROVE FALSE
  BY <1>1 DEF KeyInv, KeyAlone, On, Runners, Late
<1> QED  BY <1>1 DEF KeyInv, KeyHolds

\* The current message of a session is the one its activation works on.
LEMMA Current ==
  ASSUME NEW k \in Keys, KeyInv(k), NEW r \in Fibers, On(r, k, Runners),
         currentMessage[k] # NoMsg
  PROVE  On(r, k, Holders) /\ fiber[r].msg = currentMessage[k]
<1>1. PICK q \in Fibers : On(q, k, Holders) /\ fiber[q].msg = currentMessage[k]
  BY DEF KeyInv, KeyRows
<1>2. On(q, k, Runners)
  BY <1>1 DEF On, Holders, Runners, Early, Late
<1> QED  BY <1>1, <1>2 DEF KeyInv, KeyAlone

LEMMA NoCurrent ==
  ASSUME NEW k \in Keys, KeyInv(k), NEW r \in Fibers, On(r, k, Runners),
         fiber[r].pc \notin Holders
  PROVE  currentMessage[k] = NoMsg
BY Current DEF On

LEMMA SessionGoes ==
  ASSUME TypeOK, TypeOK', SerialInv, NEW k \in Keys, NEW r \in Fibers, Goes(r, k), KeyInv(k)',
         MapsWithin({k}), RowsWithin({k}), Ending
  PROVE  SerialInv'
<1>1. Within({k})
  BY DEF Within, Goes, Aside, On
<1>2. ASSUME NEW j \in Keys PROVE KeyInv(j)'
  BY <1>1, <1>2, Apart DEF SerialInv
<1>3. KnownPCs'
  BY DEF SerialInv, KnownPCs, Goes, On
<1> QED  BY <1>2, <1>3 DEF SerialInv

\* Such an activation goes on without writing a row of its session,
Advances(r, k) ==
  /\ Goes(r, k) /\ MapsWithin({k})
  /\ On(r, k, Runners) /\ fiber[r].pc # "live" /\ fiber'[r].pc # "live"
  /\ UNCHANGED <<message, stopping, processes, dbPid, proc>>
  /\ Unhindered(k) \/ (k \in running' => k \in running)
  /\ currentMessage'[k] # NoMsg => (On(r, k, Holders) /\ fiber[r].msg = currentMessage[k])'
  /\ \A m \in Msgs : Carries(r, k, m) => Carries(r, k, m)'
  /\ k \in running' => On(r, k, RunPCs)'
  /\ On(r, k, Runners)' => (RunnerRows(k, r) /\ RunnerSlot(k, r))'

LEMMA Advance ==
  ASSUME TypeOK, TypeOK', SerialInv, NEW k \in Keys, NEW r \in Fibers, Advances(r, k)
  PROVE  SerialInv'
<1> USE DEF Advances
<1>0. KeyInv(k)
  BY DEF SerialInv
<1>1. k \notin stopping' /\ dbPid'[k] = NoProc
  BY <1>0, NotLive
<1>2. Pending(k)' = Pending(k) /\ \A m \in Msgs : RowOf(k, m)' <=> RowOf(k, m)
  BY DEF Pending, RowOf
<1>3. KeyRows(k)
  BY <1>0 DEF KeyInv
<1>4. \A m, q \in Pending(k)' : m = q
  BY <1>2, <1>3 DEF KeyRows
<1>6. RunnerLive(k, r)'
  BY DEF RunnerLive
<1>7. \A m \in Msgs : RowOf(k, m)' /\ message'[m].status = "running" =>
           \/ Carries(r, k, m)'
           \/ RowOf(k, m) /\ message[m].status = "running" /\ ~Carries(r, k, m)
  BY <1>2
<1>8. KeyInv(k)'
  BY <1>0, <1>1, <1>2, <1>4, <1>6, <1>7, RunnerGoes
<1>9. RowsWithin({k}) /\ Ending
  BY DEF RowsWithin, Ending
<1> QED  BY <1>8, <1>9, SessionGoes

\* or writes one.
Writes(r, k, m) ==
  /\ Goes(r, k) /\ MapsWithin({k})
  /\ fiber[r].pc # "live" /\ fiber'[r].pc # "live"
  /\ On(r, k, Runners) \/ (k \notin stopping /\ dbPid[k] = NoProc)
  /\ UNCHANGED <<stopping, processes, dbPid, proc>>
  /\ Unhindered(k) \/ (k \in running' => k \in running)
  /\ RowOf(k, m)' /\ (message[m].status = "none" \/ RowOf(k, m))
  /\ \A q \in Msgs : q # m => /\ message'[q].key = message[q].key
                              /\ message'[q].status = message[q].status
  /\ message'[m].status = "pending" => Unhindered(k) /\ Pending(k) \subseteq {m}
  /\ message'[m].status = "running" => Carries(r, k, m)'
  /\ \A q \in Msgs : Carries(r, k, q) => q = m
  /\ currentMessage'[k] # NoMsg => (On(r, k, Holders) /\ fiber[r].msg = currentMessage[k])'
  /\ k \in running' => On(r, k, RunPCs)'
  /\ On(r, k, Runners)' => (RunnerRows(k, r) /\ RunnerSlot(k, r))'

LEMMA Write ==
  ASSUME TypeOK, TypeOK', SerialInv, NEW k \in Keys, NEW r \in Fibers, NEW m \in Msgs,
         Writes(r, k, m)
  PROVE  SerialInv'
<1> USE DEF Writes
<1>0. KeyInv(k)
  BY DEF SerialInv
<1>1. k \notin stopping' /\ dbPid'[k] = NoProc
  BY <1>0, NotLive
<1>2. KeyRows(k)
  BY <1>0 DEF KeyInv
<1>3. \A q \in Msgs : /\ RowOf(k, q) => RowOf(k, q)'
                      /\ q # m => (RowOf(k, q)' <=> RowOf(k, q))
                      /\ q # m => (q \in Pending(k)' <=> q \in Pending(k))
  BY DEF RowOf, Pending
<1>4. Pending(k)' \subseteq Msgs /\ Pending(k) \subseteq Msgs
  BY DEF Pending
<1>5. \A p, q \in Pending(k)' : p = q
  <2>1. CASE message'[m].status = "pending"
    BY <1>3, <1>4, <2>1
  <2>2. CASE message'[m].status # "pending"
    <3>1. m \notin Pending(k)'
      BY <2>2 DEF Pending
    <3> QED  BY <1>2, <1>3, <1>4, <3>1 DEF KeyRows
  <2> QED  BY <2>1, <2>2
<1>6. Pending(k)' # {} => Pending(k) # {} \/ Unhindered(k)
  <2>1. CASE message'[m].status = "pending"
    BY <2>1
  <2>2. CASE message'[m].status # "pending"
    <3>1. m \notin Pending(k)'
      BY <2>2 DEF Pending
    <3> QED  BY <1>3, <1>4, <3>1
  <2> QED  BY <2>1, <2>2
<1>8. RunnerLive(k, r)'
  BY DEF RunnerLive
<1>9. \A q \in Msgs : RowOf(k, q)' /\ message'[q].status = "running" =>
           \/ Carries(r, k, q)'
           \/ RowOf(k, q) /\ message[q].status = "running" /\ ~Carries(r, k, q)
  BY <1>3
<1>10. KeyInv(k)'
  BY <1>0, <1>1, <1>3, <1>5, <1>6, <1>8, <1>9, RunnerGoes
<1>11. RowsWithin({k}) /\ Ending
  BY DEF RowsWithin, Ending, RowOf
<1> QED  BY <1>10, <1>11, SessionGoes

-----------------------------------------------------------------------------
(* Steps of finishRun                                                      *)

LEMMA Each ==
  ASSUME TypeOK, NEW r \in Fibers, NEW a, Becomes(r, a)
  PROVE  fiber'[r] = a /\ \A q \in Fibers : q # r => fiber'[q] = fiber[q]
BY DEF Becomes, TypeOK

LEMMA Going ==
  ASSUME TypeOK, NEW k, NEW r \in Fibers, On(r, k, Runners), NEW a, Becomes(r, a),
         (a.key = k /\ a.pc \in Runners) \/ a.pc \in Off, issueState' = issueState
  PROVE  Goes(r, k) /\ fiber'[r] = a
BY Each DEF Goes, On

LEMMA Running ==
  ASSUME SerialInv, NEW k \in Keys, NEW r \in Fibers, On(r, k, Runners)
  PROVE  /\ KeyInv(k) /\ KeyStops(k) /\ KeyRows(k) /\ KeyHolds(k)
         /\ RunnerRows(k, r) /\ RunnerSlot(k, r) /\ RunnerLive(k, r)
BY DEF SerialInv, KeyInv, KeyRuns

\* A run that ends up nudging is neither closed nor stopped.
LEMMA NudgedIsUnhindered ==
  ASSUME SerialInv, Serial, "silent" \in Env, NEW k \in Keys, NEW r \in Fibers,
         On(r, k, {"report"})
  PROVE  Unhindered(k) /\ k \in running
<1>1. On(r, k, Runners)
  BY DEF On, Runners, Late
<1>2. ~closed(k)
  BY <1>1, Running DEF KeyStops, Serial
<1>3. k \in running
  BY <1>1, <1>2, Running DEF RunnerSlot, On
<1> QED  BY <1>1, <1>2, <1>3, Running DEF KeyStops, Unhindered, On, Stoppers

LEMMA LateMove ==
  ASSUME SchedulerAssumption, Serial, TypeOK, TypeOK', SerialInv,
         NEW k \in Keys, NEW r \in Fibers,
         On(r, k, {"finish", "current", "report", "output", "settle", "abandon"}),
         NEW a, Becomes(r, a), a.key = k, a.gen = fiber[r].gen,
         a.pc \in {"current", "report", "output", "settle", "abandon", "deact"},
         a.pc \in {"current", "report"} => fiber[r].pc \in {"finish", "current"},
         a.pc = "output" => fiber[r].pc = "report" /\ "silent" \in Env,
         a.pc = "settle" => fiber[r].pc \in {"report", "output"},
         a.msg \in {fiber[r].msg, currentMessage[k], NoMsg}, a.pc = "deact" => a.msg = NoMsg,
         fiber[r].pc \in {"finish", "current"} /\ currentMessage'[k] # NoMsg =>
           a.pc = "current" /\ a.msg = currentMessage[k],
         UNCHANGED <<running, stopping, processes, generation, store, proc>>,
         currentMessage' \in {currentMessage, [currentMessage EXCEPT ![k] = NoMsg]}
  PROVE  SerialInv'
<1>1. On(r, k, Runners) /\ fiber[r].pc \notin Carriers \cup {"live", "exited"}
  BY DEF On, Runners, Early, Late, Carriers
<1>2. Goes(r, k) /\ fiber'[r] = a
  BY <1>1, Going DEF Runners, Early, Late, store
<1>3. RunnerRows(k, r) /\ RunnerSlot(k, r) /\ KeyRows(k) /\ KeyInv(k)
  BY <1>1, Running
<1>4. MapsWithin({k})
  BY DEF MapsWithin, store, TypeOK
<1>5. currentMessage'[k] # NoMsg => (On(r, k, Holders) /\ fiber[r].msg = currentMessage[k])'
  <2>1. fiber[r].pc \notin {"finish", "current"} => fiber[r].pc \notin Holders
    BY DEF On, Holders
  <2>2. currentMessage[k] # NoMsg => fiber[r].pc \in {"finish", "current"}
    BY <1>1, <1>3, <2>1, NoCurrent
  <2>3. currentMessage'[k] # NoMsg => currentMessage'[k] = currentMessage[k]
    BY DEF TypeOK
  <2> QED  BY <1>2, <2>2, <2>3 DEF On, Holders
<1>6. \A m \in Msgs : ~Carries(r, k, m)
  BY <1>1 DEF Carries, On
<1>7. Pending(k)' = Pending(k) /\ Pending(k) = {}
  <2>1. Pending(k) = {}
    BY <1>3 DEF RunnerRows, On
  <2> QED  BY <2>1 DEF Pending, store
<1>8. RunnerRows(k, r)'
  <2>1. a.msg # NoMsg => a.msg = fiber[r].msg
    BY <1>1, <1>3, Current
  <2>2. a.msg # NoMsg => RowOf(k, a.msg)
    BY <1>1, <1>3, <2>1 DEF RunnerRows, On
  <2>3. a.pc \in Settled => fiber[r].pc \in Settled
    BY DEF Settled
  <2>4. a.pc \in Settled /\ a.msg # NoMsg =>
          message[a.msg].status \in {"done", "failed"} \/ closed(k)
    BY <1>3, <2>1, <2>3 DEF RunnerRows
  <2>5. UNCHANGED message /\ (closed(k)' <=> closed(k))
    BY DEF closed, store
  <2>6. a.msg # NoMsg => RowOf(k, a.msg)'
    BY <2>2, <2>5 DEF RowOf
  <2> QED  BY <1>2, <1>7, <2>4, <2>5, <2>6 DEF RunnerRows, Carriers
<1>9. RunnerSlot(k, r)'
  <2>1. a.pc = "output" => Unhindered(k) /\ k \in running
    BY NudgedIsUnhindered DEF On
  <2>2. closed(k)' <=> closed(k)
    BY DEF closed, store
  <2>3. Unhindered(k)' <=> Unhindered(k)
    BY <1>2, <1>3, OthersStay
  <2> QED  BY <1>2, <1>3, <2>1, <2>2, <2>3 DEF RunnerSlot, On, Early
<1>10. On(r, k, RunPCs)'
  BY <1>2 DEF On, RunPCs
<1> QED  BY <1>1, <1>2, <1>4, <1>5, <1>6, <1>8, <1>9, <1>10, Advance DEF Advances, store

\* An activation that has no slot ends.
LEMMA LateReturn ==
  ASSUME SchedulerAssumption, TypeOK, TypeOK', SerialInv, NEW k \in Keys, NEW r \in Fibers,
         On(r, k, {"enqueue", "denied", "report", "settle"}), Return(r), k \notin running',
         UNCHANGED <<stopping, processes, generation, store, proc>>,
         \A j \in Keys \ {k} : j \in running' <=> j \in running,
         \/ currentMessage' = [currentMessage EXCEPT ![k] = NoMsg]
         \/ currentMessage' = currentMessage /\ fiber[r].pc # "denied"
  PROVE  SerialInv'
<1>1. On(r, k, Runners) /\ fiber[r].pc \notin Carriers \cup {"live", "exited"}
  BY DEF On, Runners, Early, Late, Carriers
<1>2. NoFiber.pc = "idle"
  BY NoFiberType
<1>3. Goes(r, k) /\ fiber'[r] = NoFiber
  BY <1>1, <1>2, Going DEF Off, Return, store
<1>4. KeyInv(k)
  BY <1>1, Running
<1>5. MapsWithin({k})
  BY DEF MapsWithin, store, TypeOK
<1>6. currentMessage'[k] = NoMsg
  <2>1. fiber[r].pc # "denied" => fiber[r].pc \notin Holders
    BY DEF On, Holders
  <2>2. fiber[r].pc # "denied" => currentMessage[k] = NoMsg
    BY <1>1, <1>4, <2>1, NoCurrent
  <2> QED  BY <2>2 DEF TypeOK
<1>7. \A m \in Msgs : ~Carries(r, k, m)
  BY <1>1 DEF Carries, On
<1>8. ~On(r, k, Runners)'
  BY <1>2, <1>3 DEF On, Runners, Early, Late
<1>9. fiber[r].pc # "live" /\ fiber'[r].pc # "live"
  BY <1>1, <1>2, <1>3
<1> QED  BY <1>1, <1>3, <1>5, <1>6, <1>7, <1>8, <1>9, Advance DEF Advances, store

LEMMA FinishMoves ==
  ASSUME SchedulerAssumption, Serial, TypeOK, TypeOK', SerialInv, NEW r \in Fibers,
         \/ FinishSkipped(r) \/ FinishRun(r) \/ ForgetCurrent(r) \/ Superseded(r)
         \/ SpawnFailed(r) \/ Replied(r) \/ NoReply(r) \/ EmptyReport(r) \/ GiveUp(r)
         \/ Deactivate(r)
  PROVE  SerialInv'
<1>1. PICK k \in Keys : k = fiber[r].key
  BY FieldTypes
<1>2. fiber[r] \in Activation
  BY FieldTypes
<1>3. On(r, k, {fiber[r].pc})
  BY <1>1 DEF On
<1>4. CASE FinishSkipped(r)
  <2>1. On(r, k, Runners) /\ fiber[r].pc # "live"
    BY <1>1, <1>4 DEF On, Runners, Late, FinishSkipped
  <2>2. k \notin stopping
    BY <2>1, Running, NotLive
  <2> QED  BY <1>1, <1>4, <2>2 DEF FinishSkipped
<1>5. CASE Superseded(r)
  <2>1. On(r, k, {"report", "settle"}) /\ On(r, k, Runners)
    BY <1>1, <1>5 DEF On, Runners, Late, Superseded
  <2>2. k \notin running
    BY <1>1, <1>5, <2>1, Running DEF RunnerSlot, Superseded, superseded
  <2> QED  BY <1>5, <2>1, <2>2, LateReturn DEF Superseded, memory, On
<1>6. CASE FinishRun(r)
  <2> DEFINE p == IF currentMessage[k] = NoMsg THEN "report" ELSE "current"
             a == [fiber[r] EXCEPT !.msg = currentMessage[k], !.pc = p]
  <2>1. Becomes(r, a) /\ fiber[r].pc = "finish"
    BY <1>1, <1>6 DEF FinishRun
  <2>2. p \in {"report", "current"} /\ (currentMessage[k] # NoMsg => p = "current")
    OBVIOUS
  <2> HIDE DEF p
  <2>3. a.key = k /\ a.gen = fiber[r].gen /\ a.pc = p /\ a.msg = currentMessage[k]
    BY <1>1, <1>2 DEF Activation
  <2> HIDE DEF a
  <2> QED  BY <1>1, <1>6, <2>1, <2>2, <2>3, LateMove DEF FinishRun, memory, On
<1>7. ASSUME NEW p \in {"report", "abandon", "settle", "output"}, Goto(r, p),
             UNCHANGED <<running, stopping, processes, generation, store, proc>>,
             currentMessage' \in {currentMessage, [currentMessage EXCEPT ![k] = NoMsg]},
             fiber[r].pc \in {"current", "report", "output"},
             p = "report" => fiber[r].pc = "current",
             fiber[r].pc = "current" => currentMessage'[k] = NoMsg,
             p = "output" => fiber[r].pc = "report" /\ "silent" \in Env,
             p = "settle" => fiber[r].pc \in {"report", "output"}
      PROVE  SerialInv'
  <2> DEFINE a == [fiber[r] EXCEPT !.pc = p]
  <2>1. a.key = k /\ a.gen = fiber[r].gen /\ a.pc = p /\ a.msg = fiber[r].msg
    BY <1>1, <1>2 DEF Activation
  <2>2. Becomes(r, a)
    BY <1>7 DEF Goto
  <2> HIDE DEF a
  <2> QED  BY <1>1, <1>7, <2>1, <2>2, LateMove DEF On
<1>8. CASE ForgetCurrent(r)
  BY <1>1, <1>7, <1>8 DEF ForgetCurrent, TypeOK
<1>9. CASE SpawnFailed(r)
  BY <1>7, <1>9 DEF SpawnFailed, memory
<1>10. CASE Replied(r) \/ EmptyReport(r) \/ GiveUp(r)
  BY <1>7, <1>10 DEF Replied, EmptyReport, GiveUp
<1>11. CASE NoReply(r)
  BY <1>7, <1>11 DEF NoReply, memory, hasRecentBotReply
<1>12. CASE Deactivate(r)
  <2> DEFINE m == NextOf(Pending(k))
             a == [fiber[r] EXCEPT !.pc = "deact", !.msg = m]
  <2>1. On(r, k, Runners) /\ fiber[r].pc \in {"settle", "abandon"} /\ Becomes(r, a)
    BY <1>1, <1>12 DEF Deactivate, On, Runners, Late
  <2>2. m = NoMsg
    <3>1. Pending(k) = {}
      BY <2>1, Running DEF RunnerRows
    <3> QED  BY <3>1 DEF NextOf
  <2> HIDE DEF m
  <2>3. a.key = k /\ a.gen = fiber[r].gen /\ a.pc = "deact" /\ a.msg = m
    BY <1>1, <1>2 DEF Activation
  <2> HIDE DEF a
  <2> QED  BY <1>1, <1>12, <2>1, <2>2, <2>3, LateMove DEF Deactivate, memory, On
<1> QED  BY <1>4, <1>5, <1>6, <1>8, <1>9, <1>10, <1>11, <1>12

-----------------------------------------------------------------------------
(* Steps of enqueueOrRun and executeMessage                                *)

LEMMA StatusSet ==
  ASSUME TypeOK, NEW m \in Msgs, NEW st, message' = SetStatus(message, m, st)
  PROVE  /\ message'[m].status = st /\ message'[m].key = message[m].key
         /\ \A q \in Msgs : q # m => message'[q] = message[q]
<1> DEFINE n == message[m].attempts
           b == IF st = "failed" /\ n < MaxAttempts THEN n + 1 ELSE n
<1>1. message' = [message EXCEPT ![m] = [message[m] EXCEPT !.status = st, !.attempts = b]]
  BY DEF SetStatus
<1> HIDE DEF b
<1>2. message \in [Msgs -> Row] /\ message[m] \in Row
  BY DEF TypeOK
<1> QED  BY <1>1, <1>2 DEF Row

\* A session whose activation is on no way to give a slot back holds none.
LEMMA NoSlot ==
  ASSUME SerialInv, NEW k \in Keys, NEW r \in Fibers, On(r, k, Runners),
         fiber[r].pc \notin RunPCs
  PROVE  k \notin running
<1>1. \A q \in Fibers : ~On(q, k, RunPCs)
  <2>1. RunPCs \subseteq Runners
    BY DEF RunPCs, Runners, Early, Late
  <2>2. \A q \in Fibers : On(q, k, RunPCs) => q = r
    BY <2>1 DEF SerialInv, KeyInv, KeyAlone, On
  <2> QED  BY <2>2 DEF On
<1> QED  BY <1>1, Running DEF KeyHolds

LEMMA CreateMessageKeeps ==
  ASSUME SchedulerAssumption, TypeOK, TypeOK', SerialInv, NEW r \in Fibers, CreateMessage(r)
  PROVE  SerialInv'
<1>1. PICK k \in Keys : k = fiber[r].key
  BY FieldTypes
<1>2. On(r, k, Runners) /\ fiber[r].pc = "ack" /\ fiber[r] \in Activation
  BY <1>1, FieldTypes DEF On, Runners, Early, CreateMessage
<1>3. PICK m \in Fresh : /\ message' = [message EXCEPT ![m] = NewRow(fiber[r].key, TRUE)]
                         /\ Becomes(r, [fiber[r] EXCEPT !.pc = "enqueue", !.msg = m])
  BY DEF CreateMessage
<1> DEFINE a == [fiber[r] EXCEPT !.pc = "enqueue", !.msg = m]
<1>4. a.pc = "enqueue" /\ a.msg = m /\ a.key = k
  BY <1>1, <1>2 DEF Activation
<1>5. Goes(r, k) /\ fiber'[r] = a
  <2>1. Becomes(r, a) /\ issueState' = issueState /\ a.pc \in Runners
    BY <1>3, <1>4 DEF CreateMessage, Runners, Early
  <2> HIDE DEF a
  <2> QED  BY <1>2, <1>4, <2>1, Going
<1> HIDE DEF a
<1>6. /\ m \in Msgs /\ message[m].status = "none"
      /\ message'[m].key = k /\ message'[m].status = "pending"
      /\ \A q \in Msgs : q # m => message'[q] = message[q]
  BY <1>1, <1>3 DEF Fresh, NewRow, TypeOK
<1>7. Unhindered(k) /\ Pending(k) = {}
  BY <1>2, Running DEF RunnerSlot, RunnerRows, Early
<1>8. k \notin running
  BY <1>2, NoSlot DEF RunPCs
<1>9. MapsWithin({k})
  BY DEF MapsWithin, CreateMessage
<1>10. Pending(k)' = {m}
  BY <1>6, <1>7 DEF Pending
<1>11. RunnerRows(k, r)'
  BY <1>4, <1>5, <1>6, <1>10, SchedulerAssumption
     DEF RunnerRows, RowOf, Carriers, Settled, SchedulerAssumption, NoMsg
<1>12. RunnerSlot(k, r)'
  <2>1. Unhindered(k)'
    BY <1>2, <1>5, <1>7, Running, OthersStay
  <2> QED  BY <1>4, <1>5, <2>1 DEF RunnerSlot
<1>13. RowOf(k, m)'
  BY <1>6 DEF RowOf
<1>14. \A q \in Msgs : ~Carries(r, k, q)
  BY <1>2 DEF Carries, On, Carriers
<1>15. currentMessage'[k] = NoMsg
  <2>1. fiber[r].pc \notin Holders
    BY <1>2 DEF Holders
  <2> QED  BY <1>2, <2>1, Running, NoCurrent DEF CreateMessage
<1> QED
  BY <1>2, <1>4, <1>5, <1>6, <1>7, <1>8, <1>9, <1>11, <1>12, <1>13, <1>14, <1>15, Write
  DEF Writes, CreateMessage

LEMMA EnqueueKeeps ==
  ASSUME SchedulerAssumption, TypeOK, TypeOK', SerialInv, NEW r \in Fibers,
         \/ CreateMessage(r) \/ Preempt(r) \/ PreemptKill(r) \/ Queue(r) \/ Execute(r)
  PROVE  SerialInv'
<1>1. PICK k \in Keys : k = fiber[r].key
  BY FieldTypes
<1>2. fiber[r].pc # "preempt"
  BY DEF SerialInv, KnownPCs, Runners, Early, Late, Stoppers, Off
<1>3. CASE fiber[r].pc = "ack"
  BY <1>3, CreateMessageKeeps DEF Preempt, PreemptKill, Queue, Execute
<1>4. CASE fiber[r].pc = "enqueue"
  <2>1. On(r, k, Runners) /\ On(r, k, {"enqueue"})
    BY <1>1, <1>4 DEF On, Runners, Early
  <2>2. k \notin running
    BY <1>4, <2>1, NoSlot DEF RunPCs
  <2>3. CASE Queue(r)
    BY <2>1, <2>2, <2>3, LateReturn DEF Queue, memory, On
  <2>4. CASE Execute(r)
    <3>0. PICK m : m = fiber[r].msg
      OBVIOUS
    <3>1. claimAndRun(r, k, m) /\ UNCHANGED <<memory, sessionState, dbPid, issueState, proc>>
      BY <1>1, <2>4, <3>0 DEF Execute
    <3>2. RunnerRows(k, r) /\ RunnerSlot(k, r) /\ KeyInv(k)
      BY <2>1, Running
    <3>3. m \in Msgs /\ RowOf(k, m) /\ m # NoMsg
      BY <1>4, <3>0, <3>2 DEF RunnerRows, RowOf
    <3>4. CASE message[m].status = "pending"
      <4>1. message' = SetStatus(message, m, "running") /\ Becomes(r, At("claimed", k, m))
        BY <3>1, <3>4 DEF claimAndRun
      <4>2. /\ message'[m].status = "running" /\ message'[m].key = k
            /\ \A q \in Msgs : q # m => message'[q] = message[q]
        BY <3>3, <4>1, StatusSet DEF RowOf
      <4>3. At("claimed", k, m).pc = "claimed" /\ At("claimed", k, m).key = k
            /\ At("claimed", k, m).msg = m
        BY DEF At, NoFiber
      <4>4. Goes(r, k) /\ fiber'[r] = At("claimed", k, m)
        BY <2>1, <3>1, <4>1, <4>3, Going DEF Runners, Early
      <4>5. \A q \in Pending(k) : q = m
        BY <3>0, <3>2 DEF RunnerRows
      <4>6. Pending(k)' = {}
        BY <4>2, <4>5 DEF Pending
      <4>7. RowOf(k, m)'
        BY <3>3, <4>2 DEF RowOf
      <4>8. RunnerRows(k, r)'
        BY <3>3, <4>2, <4>3, <4>4, <4>6, <4>7 DEF RunnerRows, Settled
      <4>9. RunnerSlot(k, r)'
        <5>1. Unhindered(k)
          BY <1>4, <3>2 DEF RunnerSlot, Early
        <5>2. Unhindered(k)'
          BY <3>2, <4>4, <5>1, OthersStay
        <5> QED  BY <4>3, <4>4, <5>2 DEF RunnerSlot
      <4>10. MapsWithin({k})
        BY <3>1 DEF MapsWithin, memory
      <4>11. Carries(r, k, m)' /\ \A q \in Msgs : ~Carries(r, k, q)
        BY <1>4, <4>3, <4>4 DEF Carries, On, Carriers
      <4>12. currentMessage'[k] = NoMsg
        <5>1. fiber[r].pc \notin Holders
          BY <1>4 DEF Holders
        <5> QED  BY <2>1, <3>1, <3>2, <5>1, NoCurrent DEF memory
      <4>13. Writes(r, k, m)
        <5>1. /\ message'[m].status = "running"
              /\ \A q \in Msgs : q # m => /\ message'[q].key = message[q].key
                                          /\ message'[q].status = message[q].status
          BY <4>2
        <5>2. UNCHANGED <<running, stopping, processes, dbPid, proc>>
          BY <3>1 DEF memory
        <5>3. fiber[r].pc # "live" /\ fiber'[r].pc # "live"
          BY <1>4, <4>3, <4>4
        <5> QED
          BY <2>1, <2>2, <3>3, <4>4, <4>7, <4>8, <4>9, <4>10, <4>11, <4>12, <5>1, <5>2, <5>3
          DEF Writes
      <4> QED  BY <3>3, <4>13, Write
    <3>5. CASE message[m].status # "pending"
      <4>1. Return(r) /\ UNCHANGED message
        BY <3>1, <3>5 DEF claimAndRun
      <4> QED  BY <2>1, <2>2, <3>1, <4>1, LateReturn DEF memory, store, On
    <3> QED  BY <3>4, <3>5
  <2> QED  BY <1>1, <1>4, <2>2, <2>3, <2>4 DEF CreateMessage, Preempt, PreemptKill
<1> QED  BY <1>2, <1>3, <1>4 DEF CreateMessage, Preempt, PreemptKill, Queue, Execute

\* A forked drain is started by an activation that has nothing else to do.
LEMMA Forked ==
  ASSUME SchedulerAssumption, TypeOK, NEW r \in Fibers, fiber[r].pc \notin Off,
         NEW a, NEW todo, CanFork(todo),
         fiber' = Fork([fiber EXCEPT ![r] = a], todo), a.pc # "idle"
  PROVE  /\ fiber'[r] = a
         /\ \A q \in Fibers : \/ q = r \/ fiber'[q] = fiber[q]
                              \/ fiber[q].pc \in Off /\ fiber'[q].pc \in Off
<1> DEFINE f == [fiber EXCEPT ![r] = a]
           I == {q \in Fibers : f[q].pc = "idle"}
           d == [NoFiber EXCEPT !.pc = "drain", !.todo = todo]
<1>1. f[r] = a /\ DOMAIN f = Fibers /\ \A q \in Fibers : q # r => f[q] = fiber[q]
  BY DEF TypeOK
<1>2. CASE todo = {}
  BY <1>1, <1>2 DEF Fork
<1>3. CASE todo # {}
  <2>1. fiber' = [f EXCEPT ![Oldest(I)] = d]
    BY <1>3 DEF Fork
  <2> HIDE DEF f
  <2>2. I # {} /\ I \subseteq Nat
    BY <1>1, <1>3 DEF CanFork, Free, SchedulerAssumption, Off
  <2>3. PICK o \in I : o = Oldest(I)
    BY <2>2, OldestIn
  <2>4. o \in Fibers /\ o # r /\ fiber[o].pc = "idle"
    BY <1>1, <2>3
  <2>5. d.pc = "drain"
    BY DEF NoFiber
  <2> HIDE DEF I, d
  <2> QED  BY <1>1, <2>1, <2>3, <2>4, <2>5 DEF Off
<1> QED  BY <1>2, <1>3

LEMMA TakeSlotKeeps ==
  ASSUME SchedulerAssumption, TypeOK, TypeOK', SerialInv, NEW r \in Fibers, TakeSlot(r)
  PROVE  SerialInv'
<1>1. PICK k \in Keys, m \in Msgs \cup {NoMsg} : k = fiber[r].key /\ m = fiber[r].msg
  BY FieldTypes
<1>2. On(r, k, Runners) /\ fiber[r].pc \in {"claimed", "dequeued"} /\ fiber[r].pc \notin Off
  BY <1>1 DEF On, Runners, Early, TakeSlot, Off
<1>3. RunnerRows(k, r) /\ RunnerSlot(k, r) /\ KeyInv(k)
  BY <1>2, Running
<1>4. Unhindered(k) /\ RowOf(k, m) /\ m # NoMsg /\ message[m].status = "running" /\ Pending(k) = {}
  BY <1>1, <1>2, <1>3 DEF RunnerSlot, RunnerRows, Early, Carriers
<1> DEFINE a == At("gate", k, m)
<1>5. a.pc = "gate" /\ a.key = k /\ a.msg = m
  BY DEF At, NoFiber
<1> HIDE DEF a
<1>6. fiber' = Fork([fiber EXCEPT ![r] = a], fiber[r].todo) /\ CanFork(fiber[r].todo)
  BY <1>1 DEF TakeSlot, a
<1>7. /\ fiber'[r] = a
      /\ \A q \in Fibers : \/ q = r \/ fiber'[q] = fiber[q]
                           \/ fiber[q].pc \in Off /\ fiber'[q].pc \in Off
  BY <1>2, <1>5, <1>6, Forked
<1>8. Goes(r, k)
  BY <1>2, <1>5, <1>7 DEF Goes, On, Runners, Early, TakeSlot
<1>9. /\ running' = running \cup {k} /\ currentMessage' = [currentMessage EXCEPT ![k] = m]
      /\ sessionState' = [sessionState EXCEPT ![k] = "running"]
      /\ UNCHANGED <<stopping, processes, generation, rounds, message, dbPid, issueState, proc>>
  BY <1>1 DEF TakeSlot
<1>10. MapsWithin({k})
  BY <1>9 DEF MapsWithin, TypeOK
<1>11. Pending(k)' = {} /\ RowOf(k, m)' /\ currentMessage'[k] = m /\ sessionState'[k] = "running"
  BY <1>4, <1>9 DEF Pending, RowOf, TypeOK
<1>12. RunnerRows(k, r)'
  BY <1>4, <1>5, <1>7, <1>9, <1>11 DEF RunnerRows, Settled
<1>13. RunnerSlot(k, r)'
  <2>1. Unhindered(k)'
    BY <1>3, <1>4, <1>8, OthersStay
  <2> QED  BY <1>5, <1>7, <1>9, <1>11, <2>1 DEF RunnerSlot
<1>14. \A q \in Msgs : Carries(r, k, q) => Carries(r, k, q)'
  BY <1>1, <1>5, <1>7 DEF Carries, On, Carriers
<1>15. On(r, k, RunPCs)' /\ fiber'[r].pc # "live" /\ fiber[r].pc # "live"
  BY <1>2, <1>5, <1>7 DEF On, RunPCs
<1>16. (On(r, k, Holders) /\ fiber[r].msg = currentMessage[k])'
  BY <1>5, <1>7, <1>11 DEF On, Holders
<1> QED
  BY <1>2, <1>4, <1>8, <1>9, <1>10, <1>12, <1>13, <1>14, <1>15, <1>16, Advance DEF Advances

-----------------------------------------------------------------------------
(* Steps of execProcess, nudges and dequeueOrIdle                          *)

\* The outcome of a message is stored.
LEMMA OutcomeKeeps ==
  ASSUME SchedulerAssumption, TypeOK, TypeOK', SerialInv, NEW r \in Fibers, NEW k \in Keys,
         On(r, k, {"gate", "spawn", "exited"}), NEW st \in {"done", "failed"},
         message' = SetStatus(message, fiber[r].msg, st),
         NEW p \in {"denied", "finish"}, p = "denied" <=> fiber[r].pc = "gate", Goto(r, p),
         UNCHANGED <<memory, sessionState, dbPid, issueState, proc>>
  PROVE  SerialInv'
<1>1. On(r, k, Runners) /\ fiber[r] \in Activation
  BY FieldTypes DEF On, Runners, Early, Late
<1>2. PICK m : m = fiber[r].msg
  OBVIOUS
<1>3. RunnerRows(k, r) /\ RunnerSlot(k, r) /\ KeyInv(k)
  BY <1>1, Running
<1>4. m \in Msgs /\ RowOf(k, m) /\ m # NoMsg /\ Pending(k) = {}
  BY <1>2, <1>3 DEF RunnerRows, RowOf, On, Carriers
<1> DEFINE a == [fiber[r] EXCEPT !.pc = p]
<1>5. a.pc = p /\ a.key = k /\ a.msg = m /\ a.gen = fiber[r].gen
  BY <1>1, <1>2 DEF Activation, On
<1>6. Becomes(r, a) /\ issueState' = issueState /\ p \in Runners
  BY DEF Goto, Runners, Early, Late
<1> HIDE DEF a
<1>7. Goes(r, k) /\ fiber'[r] = a
  BY <1>1, <1>5, <1>6, Going
<1>8. /\ message'[m].status = st /\ message'[m].key = k
      /\ \A q \in Msgs : q # m => message'[q] = message[q]
  BY <1>2, <1>4, StatusSet DEF RowOf
<1>9. MapsWithin({k})
  BY DEF MapsWithin, memory
<1>10. Pending(k)' = {}
  BY <1>4, <1>8 DEF Pending
<1>11. RowOf(k, m)'
  BY <1>4, <1>8 DEF RowOf
<1>12. RunnerRows(k, r)'
  BY <1>4, <1>5, <1>7, <1>8, <1>10, <1>11 DEF RunnerRows, Carriers, Settled
<1>13. RunnerSlot(k, r)'
  <2>1. (Unhindered(k)' <=> Unhindered(k)) /\ (closed(k)' <=> closed(k))
    BY <1>3, <1>7, OthersStay
  <2> QED  BY <1>3, <1>5, <1>7, <2>1 DEF RunnerSlot, On, Early, memory
<1>14. \A q \in Msgs : Carries(r, k, q) => q = m
  BY <1>2 DEF Carries
<1>15. On(r, k, RunPCs)' /\ fiber[r].pc # "live" /\ fiber'[r].pc # "live"
  BY <1>5, <1>7 DEF On, RunPCs
<1>16. currentMessage'[k] # NoMsg => (On(r, k, Holders) /\ fiber[r].msg = currentMessage[k])'
  <2>1. currentMessage[k] # NoMsg => m = currentMessage[k]
    BY <1>1, <1>2, <1>3, Current
  <2> QED  BY <1>5, <1>7, <2>1 DEF On, Holders, memory
<1>17. Writes(r, k, m)
  <2>1. /\ message'[m].status \notin {"pending", "running"}
        /\ \A q \in Msgs : q # m => /\ message'[q].key = message[q].key
                                    /\ message'[q].status = message[q].status
    BY <1>8
  <2>2. UNCHANGED <<running, stopping, processes, dbPid, proc>>
    BY DEF memory
  <2> QED
    BY <1>1, <1>4, <1>7, <1>9, <1>11, <1>12, <1>13, <1>14, <1>15, <1>16, <2>1, <2>2 DEF Writes
<1> QED  BY <1>4, <1>17, Write

\* A message is queued for the session that r runs, to be dequeued by r.
LEMMA RequeueKeeps ==
  ASSUME SchedulerAssumption, TypeOK, TypeOK', SerialInv, NEW r \in Fibers, NEW k \in Keys,
         On(r, k, {"output"}), NEW m \in Msgs, message[m].status = "none" \/ RowOf(k, m),
         message'[m].key = k, message'[m].status = "pending",
         \A q \in Msgs : q # m => message'[q] = message[q],
         NEW a, Becomes(r, a), a.pc = "requeue", a.key = k, a.msg = m,
         UNCHANGED <<running, stopping, processes, currentMessage, generation, sessionState,
                     dbPid, issueState, proc>>
  PROVE  SerialInv'
<1>1. On(r, k, Runners)
  BY DEF On, Runners, Early
<1>2. RunnerRows(k, r) /\ RunnerSlot(k, r) /\ KeyInv(k)
  BY <1>1, Running
<1>3. Unhindered(k) /\ Pending(k) = {} /\ k \in running
  BY <1>2 DEF RunnerRows, RunnerSlot, On, Early
<1>4. Goes(r, k) /\ fiber'[r] = a
  BY <1>1, Going DEF Runners, Early
<1>5. MapsWithin({k})
  BY DEF MapsWithin
<1>6. Pending(k)' = {m}
  <2>1. ASSUME NEW q \in Msgs, message'[q].key = k, message'[q].status = "pending" PROVE q = m
    <3>1. q \notin Pending(k) /\ (q # m => message'[q] = message[q])
      BY <1>3
    <3> QED  BY <2>1, <3>1 DEF Pending
  <2> QED  BY <2>1 DEF Pending
<1>7. RowOf(k, m)' /\ m # NoMsg
  BY SchedulerAssumption DEF RowOf, SchedulerAssumption, NoMsg
<1>8. RunnerRows(k, r)'
  BY <1>4, <1>6, <1>7 DEF RunnerRows, Carriers, Settled
<1>9. RunnerSlot(k, r)'
  <2>1. Unhindered(k)'
    BY <1>2, <1>3, <1>4, OthersStay
  <2> QED  BY <1>3, <1>4, <2>1 DEF RunnerSlot
<1>10. \A q \in Msgs : ~Carries(r, k, q)
  BY DEF Carries, On, Carriers
<1>11. On(r, k, RunPCs)' /\ fiber[r].pc # "live" /\ fiber'[r].pc # "live"
  BY <1>4 DEF On, RunPCs
<1>12. currentMessage'[k] = NoMsg
  <2>1. fiber[r].pc \notin Holders
    BY DEF On, Holders
  <2> QED  BY <1>1, <1>2, <2>1, NoCurrent
<1> QED  BY <1>1, <1>3, <1>4, <1>5, <1>7, <1>8, <1>9, <1>10, <1>11, <1>12, Write DEF Writes

\* A message is dequeued: it runs now, or has expired.
LEMMA dequeueKeeps ==
  ASSUME SchedulerAssumption, TypeOK, TypeOK', SerialInv, NEW r \in Fibers, NEW k \in Keys,
         On(r, k, {"requeue", "drained"}), NEW m, m = fiber[r].msg, dequeueOrIdle(r, k, m)
  PROVE  SerialInv'
<1>1. On(r, k, Runners) /\ fiber[r] \in Activation
  BY FieldTypes DEF On, Runners, Early
<1>2. RunnerRows(k, r) /\ RunnerSlot(k, r) /\ KeyInv(k)
  BY <1>1, Running
<1>3. /\ m \in Msgs /\ RowOf(k, m) /\ m # NoMsg /\ Unhindered(k)
      /\ \A q \in Pending(k) : q = m
  BY <1>2 DEF RunnerRows, RowOf, On, Carriers, RunnerSlot, Early
<1>4. PICK a, st : /\ message' = SetStatus(message, m, st) /\ Becomes(r, a) /\ a.key = k
                   /\ \/ st = "failed" /\ a.pc = "expire" /\ a.msg = NoMsg
                      \/ st = "running" /\ a.pc = "dequeued" /\ a.msg = m
  <2>1. CASE message[m].stale
    <3> DEFINE n == NextOf(Pending(k) \ {m})
               b == [fiber[r] EXCEPT !.pc = "expire", !.key = k, !.msg = n]
    <3>1. message' = SetStatus(message, m, "failed") /\ Becomes(r, b)
      BY <2>1 DEF dequeueOrIdle
    <3>2. n = NoMsg
      <4>1. Pending(k) \ {m} = {}
        BY <1>3
      <4> QED  BY <4>1 DEF NextOf
    <3> HIDE DEF n
    <3>3. b.key = k /\ b.pc = "expire" /\ b.msg = n
      BY <1>1 DEF Activation
    <3> QED  BY <3>1, <3>2, <3>3
  <2>2. CASE ~message[m].stale
    <3> DEFINE b == [fiber[r] EXCEPT !.pc = "dequeued", !.key = k, !.msg = m]
    <3>1. message' = SetStatus(message, m, "running") /\ Becomes(r, b)
      BY <2>2 DEF dequeueOrIdle
    <3>2. b.key = k /\ b.pc = "dequeued" /\ b.msg = m
      BY <1>1 DEF Activation
    <3> QED  BY <3>1, <3>2
  <2> QED  BY <2>1, <2>2
<1>5. UNCHANGED <<memory, sessionState, dbPid, issueState, proc>>
  BY DEF dequeueOrIdle
<1>6. Goes(r, k) /\ fiber'[r] = a
  BY <1>1, <1>4, <1>5, Going DEF Runners, Early
<1>7. /\ message'[m].status = st /\ message'[m].key = k
      /\ \A q \in Msgs : q # m => message'[q] = message[q]
  BY <1>3, <1>4, StatusSet DEF RowOf
<1>8. MapsWithin({k})
  BY <1>5 DEF MapsWithin, memory
<1>9. st # "pending"
  BY <1>4
<1>10. Pending(k)' = {}
  <2>1. ASSUME NEW q \in Msgs, message'[q].key = k, message'[q].status = "pending" PROVE FALSE
    <3>1. q # m
      BY <1>7, <1>9, <2>1
    <3>2. q \in Pending(k)
      BY <1>7, <2>1, <3>1 DEF Pending
    <3> QED  BY <1>3, <3>1, <3>2
  <2> QED  BY <2>1 DEF Pending
<1>11. RowOf(k, m)'
  BY <1>3, <1>4, <1>7 DEF RowOf
<1>12. RunnerRows(k, r)'
  BY <1>3, <1>4, <1>6, <1>7, <1>10, <1>11 DEF RunnerRows, Carriers, Settled
<1>13. RunnerSlot(k, r)'
  <2>1. Unhindered(k)'
    BY <1>2, <1>3, <1>6, OthersStay
  <2> QED  BY <1>4, <1>6, <2>1 DEF RunnerSlot
<1>14. \A q \in Msgs : Carries(r, k, q) => q = m
  BY DEF Carries
<1>15. st = "running" => Carries(r, k, m)'
  BY <1>4, <1>6 DEF Carries, On, Carriers
<1>16. On(r, k, RunPCs)' /\ fiber[r].pc # "live" /\ fiber'[r].pc # "live"
  BY <1>4, <1>6 DEF On, RunPCs
<1>17. currentMessage'[k] = NoMsg
  <2>1. fiber[r].pc \notin Holders
    BY DEF On, Holders
  <2> QED  BY <1>1, <1>2, <1>5, <2>1, NoCurrent DEF memory
<1>18. Writes(r, k, m)
  <2>1. /\ message'[m].status # "pending"
        /\ message'[m].status = "running" => Carries(r, k, m)'
        /\ \A q \in Msgs : q # m => /\ message'[q].key = message[q].key
                                    /\ message'[q].status = message[q].status
    BY <1>7, <1>9, <1>15
  <2>2. UNCHANGED <<running, stopping, processes, dbPid, proc>>
    BY <1>5 DEF memory
  <2> QED
    BY <1>1, <1>3, <1>6, <1>8, <1>11, <1>12, <1>13, <1>14, <1>16, <1>17, <2>1, <2>2 DEF Writes
<1> QED  BY <1>3, <1>18, Write

LEMMA GateKeeps ==
  ASSUME SchedulerAssumption, TypeOK, TypeOK', SerialInv, NEW r \in Fibers,
         GateAllows(r) \/ GateDenies(r) \/ ReleaseDenied(r) \/ DequeueAfterGate(r)
  PROVE  SerialInv'
<1>1. PICK k \in Keys : k = fiber[r].key
  BY FieldTypes
<1>2. fiber[r] \in Activation /\ fiber[r].pc # "next"
  BY FieldTypes DEF SerialInv, KnownPCs, Runners, Early, Late, Stoppers, Off
<1>3. CASE GateAllows(r)
  <2> DEFINE a == [fiber[r] EXCEPT !.pc = "spawn", !.gen = generation[k] + 1]
  <2>0. PICK m : m = fiber[r].msg
    OBVIOUS
  <2>1. On(r, k, Runners) /\ fiber[r].pc = "gate" /\ Becomes(r, a)
    BY <1>1, <1>3 DEF On, Runners, Early, GateAllows
  <2>2. a.pc = "spawn" /\ a.key = k /\ a.gen = generation[k] + 1 /\ a.msg = m
    BY <1>1, <1>2, <2>0 DEF Activation
  <2> HIDE DEF a
  <2>3. /\ generation' = [generation EXCEPT ![k] = @ + 1]
        /\ UNCHANGED <<running, stopping, processes, currentMessage, rounds, store, proc>>
    BY <1>1, <1>3 DEF GateAllows
  <2>4. Goes(r, k) /\ fiber'[r] = a
    <3>1. a.pc \in Runners
      BY <2>2 DEF Runners, Early
    <3>2. issueState' = issueState
      BY <2>3 DEF store
    <3> QED  BY <2>1, <2>2, <3>1, <3>2, Going
  <2>5. RunnerRows(k, r) /\ RunnerSlot(k, r) /\ KeyInv(k) /\ KeyRows(k)
    BY <2>1, Running
  <2>6. MapsWithin({k})
    BY <2>3 DEF MapsWithin, store, TypeOK
  <2>7. Pending(k)' = {} /\ (RowOf(k, m) => RowOf(k, m)')
    BY <2>1, <2>3, <2>5 DEF Pending, RunnerRows, RowOf, store
  <2>8. RunnerRows(k, r)'
    BY <2>0, <2>1, <2>2, <2>3, <2>4, <2>5, <2>7 DEF RunnerRows, Carriers, Settled, store
  <2>9. RunnerSlot(k, r)'
    <3>1. Unhindered(k)' /\ generation'[k] = a.gen
      BY <2>1, <2>2, <2>3, <2>4, <2>5, OthersStay DEF RunnerSlot, Early, TypeOK
    <3> QED  BY <2>1, <2>2, <2>3, <2>4, <2>5, <3>1 DEF RunnerSlot, store
  <2>10. \A q \in Msgs : Carries(r, k, q) => Carries(r, k, q)'
    BY <2>0, <2>2, <2>4 DEF Carries, On, Carriers
  <2>11. On(r, k, RunPCs)' /\ fiber[r].pc # "live" /\ fiber'[r].pc # "live"
    BY <2>1, <2>2, <2>4 DEF On, RunPCs
  <2>12. currentMessage'[k] # NoMsg => (On(r, k, Holders) /\ fiber[r].msg = currentMessage[k])'
    <3>1. currentMessage[k] # NoMsg => m = currentMessage[k]
      BY <2>0, <2>1, <2>5, Current
    <3> QED  BY <2>2, <2>3, <2>4, <3>1 DEF On, Holders
  <2> QED
    BY <2>1, <2>3, <2>4, <2>6, <2>8, <2>9, <2>10, <2>11, <2>12, Advance DEF Advances, store
<1>4. CASE GateDenies(r)
  BY <1>1, <1>4, OutcomeKeeps DEF GateDenies, On
<1>5. CASE ReleaseDenied(r)
  <2>1. On(r, k, Runners) /\ On(r, k, {"denied"})
    BY <1>1, <1>5 DEF On, Runners, Early, ReleaseDenied
  <2>2. NextOf(Pending(k)) = NoMsg
    <3>1. Pending(k) = {}
      BY <2>1, Running DEF RunnerRows, On
    <3> QED  BY <3>1 DEF NextOf
  <2>3. Return(r) /\ running' = running \ {k}
        /\ currentMessage' = [currentMessage EXCEPT ![k] = NoMsg]
        /\ UNCHANGED <<stopping, processes, generation, rounds, store, proc>>
    BY <1>1, <1>5, <2>2 DEF ReleaseDenied, Return
  <2> QED  BY <2>1, <2>3, LateReturn DEF On
<1> QED  BY <1>2, <1>3, <1>4, <1>5 DEF DequeueAfterGate

LEMMA NudgeKeeps ==
  ASSUME SchedulerAssumption, TypeOK, TypeOK', SerialInv, NEW r \in Fibers,
         ModelFallback(r) \/ EmptyRetry(r) \/ Nudge(r)
  PROVE  SerialInv'
<1>1. PICK k \in Keys : k = fiber[r].key
  BY FieldTypes
<1>2. fiber[r] \in Activation /\ message \in [Msgs -> Row]
  BY FieldTypes
<1>3. On(r, k, {"output"}) /\ On(r, k, Runners)
  BY <1>1 DEF On, Runners, Early, ModelFallback, EmptyRetry, Nudge
<1>4. CASE ModelFallback(r)
  <2>1. PICK m : m = fiber[r].msg
    OBVIOUS
  <2>2. m # NoMsg /\ RowOf(k, m)
    BY <1>3, <1>4, <2>1, Running DEF RunnerRows, On, ModelFallback, CanFallBack
  <2>3. message' = [message EXCEPT ![m] = [message[m] EXCEPT !.status = "pending", !.attempts = 1]]
    BY <1>4, <2>1 DEF ModelFallback
  <2>4. /\ m \in Msgs /\ message'[m].key = k /\ message'[m].status = "pending"
        /\ \A q \in Msgs : q # m => message'[q] = message[q]
    BY <1>2, <2>2, <2>3 DEF RowOf, Row
  <2> DEFINE a == [fiber[r] EXCEPT !.pc = "requeue"]
  <2>5. Becomes(r, a) /\ a.pc = "requeue" /\ a.key = k /\ a.msg = m
    BY <1>1, <1>2, <1>4, <2>1 DEF ModelFallback, Goto, Activation
  <2> HIDE DEF a
  <2>6. UNCHANGED <<running, stopping, processes, currentMessage, generation, sessionState,
                    dbPid, issueState, proc>>
    BY <1>4 DEF ModelFallback
  <2> QED  BY <1>3, <2>2, <2>4, <2>5, <2>6, RequeueKeeps
<1>5. CASE EmptyRetry(r) \/ Nudge(r)
  <2>1. nudge(r) /\ UNCHANGED <<running, processes, currentMessage, generation, proc>>
    BY <1>5 DEF EmptyRetry, Nudge
  <2>2. PICK m \in Fresh : /\ message' = [message EXCEPT ![m] = NewRow(fiber[r].key, FALSE)]
                           /\ Becomes(r, [fiber[r] EXCEPT !.pc = "requeue", !.msg = m])
    BY <2>1 DEF nudge
  <2>3. /\ m \in Msgs /\ message[m].status = "none"
        /\ message'[m].key = k /\ message'[m].status = "pending"
        /\ \A q \in Msgs : q # m => message'[q] = message[q]
    BY <1>1, <1>2, <2>2 DEF Fresh, NewRow
  <2> DEFINE a == [fiber[r] EXCEPT !.pc = "requeue", !.msg = m]
  <2>4. Becomes(r, a) /\ a.pc = "requeue" /\ a.key = k /\ a.msg = m
    BY <1>1, <1>2, <2>2 DEF Activation
  <2> HIDE DEF a
  <2>5. UNCHANGED <<stopping, sessionState, dbPid, issueState>>
    BY <2>1 DEF nudge
  <2> QED  BY <1>3, <2>1, <2>3, <2>4, <2>5, RequeueKeeps
<1> QED  BY <1>4, <1>5

\* Nothing but drains, processes and ages changes.
LEMMA Elsewhere ==
  ASSUME TypeOK, TypeOK', SerialInv, Within({})
  PROVE  SerialInv'
<1>1. ASSUME NEW j \in Keys PROVE KeyInv(j)'
  BY <1>1, Apart DEF SerialInv
<1>2. KnownPCs'
  BY DEF SerialInv, KnownPCs, Within, Aside
<1> QED  BY <1>1, <1>2 DEF SerialInv

LEMMA SpawnRuns ==
  ASSUME SchedulerAssumption, TypeOK, TypeOK', SerialInv, NEW r \in Fibers, Spawn(r)
  PROVE  SerialInv'
<1>1. PICK k \in Keys, m \in Msgs \cup {NoMsg} : k = fiber[r].key /\ m = fiber[r].msg
  BY FieldTypes
<1>2. On(r, k, Runners) /\ fiber[r].pc = "spawn" /\ fiber[r] \in Activation
  BY <1>1, FieldTypes DEF On, Runners, Early, Spawn
<1>3. RunnerRows(k, r) /\ RunnerSlot(k, r) /\ KeyInv(k) /\ KeyRows(k)
  BY <1>2, Running
<1>4. /\ Unhindered(k) /\ RowOf(k, m) /\ m # NoMsg /\ message[m].status = "running"
      /\ Pending(k) = {}
  BY <1>1, <1>2, <1>3 DEF RunnerSlot, RunnerRows, Early, Carriers
<1>5. k \in running /\ sessionState[k] = "running" /\ generation[k] = fiber[r].gen
  BY <1>2, <1>3 DEF RunnerSlot
<1>6. k \notin stopping
  BY <1>2, <1>3, NotLive
<1>7. PICK p \in FreeProcs : /\ proc' = [proc EXCEPT ![p] = "live"]
                             /\ processes' = [processes EXCEPT ![k] = p]
                             /\ dbPid' = [dbPid EXCEPT ![k] = p]
                             /\ Becomes(r, [fiber[r] EXCEPT !.pc = "live", !.proc = p])
  <2>1. FreeProcs # {} /\ FreeProcs \subseteq Nat
    BY <1>1, <1>5 DEF Spawn, superseded, FreeProcs, SchedulerAssumption
  <2>2. Oldest(FreeProcs) \in FreeProcs
    BY <2>1, OldestIn
  <2> QED  BY <1>1, <1>5, <2>2 DEF Spawn, superseded, spawn
<1>8. UNCHANGED <<running, stopping, currentMessage, generation, message, sessionState, issueState>>
  BY DEF Spawn, rounds
<1> DEFINE a == [fiber[r] EXCEPT !.pc = "live", !.proc = p]
<1>9. a.pc = "live" /\ a.key = k /\ a.msg = m /\ a.gen = fiber[r].gen /\ a.proc = p
  BY <1>1, <1>2, <1>7 DEF Activation, FreeProcs
<1>10. Becomes(r, a) /\ a.pc \in Runners /\ issueState' = issueState
  BY <1>7, <1>8, <1>9 DEF Runners, Late
<1> HIDE DEF a
<1>11. Goes(r, k) /\ fiber'[r] = a
  BY <1>2, <1>9, <1>10, Going
<1>12. p \in Procs /\ p # NoProc /\ \A q \in Fibers : fiber[q].proc # p
  BY DEF FreeProcs, SchedulerAssumption, NoProc
<1>13. /\ processes'[k] = p /\ dbPid'[k] = p /\ Pending(k)' = {}
       /\ \A q : RowOf(k, q)' <=> RowOf(k, q)
  BY <1>4, <1>7, <1>8 DEF TypeOK, Pending, RowOf
<1>14. Registered(r)' /\ On(r, k, {"live"})' /\ fiber'[r].proc = p
  BY <1>9, <1>11, <1>13 DEF Registered, On
<1>15. RunnerRows(k, r)' /\ RunnerLive(k, r)'
  <2>1. RunnerRows(k, r)'
    BY <1>4, <1>9, <1>11, <1>13 DEF RunnerRows, Carriers, Settled
  <2> QED  BY <1>4, <1>5, <1>8, <1>9, <1>11, <1>14, <2>1 DEF RunnerLive
<1>16. RunnerSlot(k, r)'
  BY <1>5, <1>8, <1>9, <1>11 DEF RunnerSlot, Early
<1>17. Carries(r, k, m)' /\ \A q \in Msgs : Carries(r, k, q) => q = m
  BY <1>1, <1>9, <1>11, <1>14 DEF Carries, On
<1>18. On(r, k, RunPCs)'
  BY <1>9, <1>11 DEF On, RunPCs
<1>19. currentMessage'[k] # NoMsg => (On(r, k, Holders) /\ fiber[r].msg = currentMessage[k])'
  <2>1. currentMessage[k] # NoMsg => m = currentMessage[k]
    BY <1>1, <1>2, <1>3, Current
  <2> QED  BY <1>8, <1>9, <1>11, <2>1 DEF On, Holders
<1>20. \A q \in Msgs : RowOf(k, q)' /\ message'[q].status = "running" =>
           \/ Carries(r, k, q)'
           \/ RowOf(k, q) /\ message[q].status = "running" /\ ~Carries(r, k, q)
  BY <1>8, <1>13, <1>17
<1>21. KeyInv(k)'
  BY <1>3, <1>4, <1>6, <1>8, <1>11, <1>13, <1>14, <1>15, <1>16, <1>18, <1>19, <1>20, RunnerGoes
<1>22. MapsWithin({k}) /\ RowsWithin({k})
  BY <1>7, <1>8 DEF MapsWithin, RowsWithin, TypeOK
<1>23. Ending
  BY <1>7, <1>12 DEF Ending, TypeOK, Activation
<1> QED  BY <1>11, <1>21, <1>22, <1>23, SessionGoes

LEMMA ExitRuns ==
  ASSUME SchedulerAssumption, TypeOK, TypeOK', HandleInv, SerialInv, NEW r \in Fibers,
         ObserveExit(r)
  PROVE  SerialInv'
<1>1. PICK k \in Keys, m \in Msgs \cup {NoMsg}, p \in Procs \cup {NoProc} :
        k = fiber[r].key /\ m = fiber[r].msg /\ p = fiber[r].proc
  BY FieldTypes DEF Activation
<1>2. On(r, k, Runners) /\ On(r, k, {"live"}) /\ fiber[r].pc = "live" /\ fiber[r] \in Activation
  BY <1>1, FieldTypes DEF On, Runners, Late, ObserveExit
<1>3. p \in Procs /\ p # NoProc
  BY <1>1, <1>2 DEF HandleInv, HoldersKnown, SchedulerAssumption, NoProc
<1>4. RunnerRows(k, r) /\ RunnerSlot(k, r) /\ RunnerLive(k, r) /\ KeyInv(k) /\ KeyRows(k) /\ KeyHolds(k)
  BY <1>2, Running
<1>5. Pending(k) = {} /\ m # NoMsg /\ RowOf(k, m)
  BY <1>1, <1>2, <1>4 DEF RunnerRows
<1>6. /\ proc' = [proc EXCEPT ![p] = "none"]
      /\ dbPid' = [j \in Keys |-> IF dbPid[j] = p THEN NoProc ELSE dbPid[j]]
      /\ UNCHANGED <<running, currentMessage, generation, message, sessionState, issueState>>
  BY <1>1 DEF ObserveExit, rounds
<1>7. \A q \in Fibers : On(q, k, {"live"}) => q = r
  BY <1>2, <1>4 DEF KeyInv, KeyAlone, On, Runners, Late
<1>8. dbPid'[k] = NoProc
  <2>1. dbPid[k] # NoProc => dbPid[k] = p
    BY <1>1, <1>4, <1>7 DEF KeyHolds
  <2> QED  BY <1>6, <2>1
<1>9. \A j \in Keys \ {k} : dbPid'[j] = dbPid[j]
  BY <1>1, <1>3, <1>6 DEF HandleInv, RowOwnsPid
<1>10. RowsWithin({k}) /\ Ending
  BY <1>3, <1>6 DEF RowsWithin, Ending, TypeOK
<1>11. Pending(k)' = {} /\ \A q : RowOf(k, q)' <=> RowOf(k, q)
  BY <1>5, <1>6 DEF Pending, RowOf
<1>12. currentMessage[k] # NoMsg => m = currentMessage[k]
  BY <1>1, <1>2, <1>4, Current
<1>13. CASE processes[k] = p
  <2> DEFINE x == IF proc[p] = "ok" THEN "ok" ELSE "crash"
             a == [fiber[r] EXCEPT !.pc = "exited", !.proc = NoProc, !.exit = x]
  <2>1. processes' = [processes EXCEPT ![k] = NoProc] /\ Becomes(r, a) /\ UNCHANGED stopping
    BY <1>1, <1>13 DEF ObserveExit
  <2> HIDE DEF x
  <2>2. a.pc = "exited" /\ a.key = k /\ a.msg = m /\ a.gen = fiber[r].gen /\ a.pc \in Runners
    BY <1>1, <1>2 DEF Activation, Runners, Late
  <2> HIDE DEF a
  <2>3. Goes(r, k) /\ fiber'[r] = a
    <3>1. issueState' = issueState
      BY <1>6
    <3> QED  BY <1>2, <2>1, <2>2, <3>1, Going
  <2>4. Registered(r) /\ k \in running
    BY <1>1, <1>2, <1>4, <1>13 DEF Registered, RunnerLive
  <2>5. k \notin stopping'
    BY <1>4, <1>7, <2>1, <2>4 DEF KeyHolds
  <2>6. processes'[k] = NoProc
    BY <2>1 DEF TypeOK
  <2>7. RunnerRows(k, r)' /\ RunnerLive(k, r)'
    <3>1. message'[m].status = "running"
      BY <1>1, <1>2, <1>4, <1>6, <2>4 DEF RunnerLive
    <3> QED  BY <1>5, <1>11, <2>2, <2>3, <3>1 DEF RunnerRows, RunnerLive, Carriers, Settled
  <2>8. RunnerSlot(k, r)'
    BY <1>2, <1>4, <1>6, <2>2, <2>3, <2>4 DEF RunnerSlot, Early
  <2>9. Carries(r, k, m)' /\ \A q \in Msgs : Carries(r, k, q) => q = m
    BY <1>1, <2>2, <2>3 DEF Carries, On
  <2>10. On(r, k, RunPCs)'
    BY <2>2, <2>3 DEF On, RunPCs
  <2>11. \A q \in Msgs : RowOf(k, q)' /\ message'[q].status = "running" =>
           \/ Carries(r, k, q)'
           \/ RowOf(k, q) /\ message[q].status = "running" /\ ~Carries(r, k, q)
    BY <1>6, <1>11, <2>9
  <2>14. currentMessage'[k] # NoMsg => (On(r, k, Holders) /\ fiber[r].msg = currentMessage[k])'
    BY <1>6, <1>12, <2>2, <2>3 DEF On, Holders
  <2>12. KeyInv(k)'
    BY <1>4, <1>6, <1>8, <1>11, <2>3, <2>5, <2>6, <2>7, <2>8, <2>10, <2>11, <2>14, RunnerGoes
  <2>13. MapsWithin({k})
    BY <1>6, <1>9, <2>1 DEF MapsWithin, TypeOK
  <2> QED  BY <1>10, <2>3, <2>12, <2>13, SessionGoes
<1>14. CASE processes[k] # p
  <2>1. stopping' = stopping \ {k} /\ Return(r) /\ UNCHANGED processes
    BY <1>1, <1>14 DEF ObserveExit
  <2>2. NoFiber.pc \in Off
    BY NoFiberType DEF Off
  <2>3. Goes(r, k) /\ fiber'[r] = NoFiber
    BY <1>2, <1>6, <2>1, <2>2, Going DEF Return
  <2>4. ~Registered(r) /\ k \notin running /\ currentMessage'[k] = NoMsg
    BY <1>1, <1>2, <1>4, <1>6, <1>14 DEF Registered, RunnerLive
  <2>5. ~On(r, k, Runners)'
    BY <2>2, <2>3 DEF On, Off, Runners, Early, Late
  <2>6. \A q \in Msgs : ~Carries(r, k, q)
    BY <1>2, <2>4 DEF Carries
  <2>7. \A q \in Msgs : RowOf(k, q)' /\ message'[q].status = "running" =>
           RowOf(k, q) /\ message[q].status = "running" /\ ~Carries(r, k, q)
    BY <1>6, <1>11, <2>6
  <2>8. KeyInv(k)'
    BY <1>4, <1>6, <1>8, <1>11, <2>1, <2>3, <2>4, <2>5, <2>7, RunnerGoes
  <2>9. MapsWithin({k})
    BY <1>6, <1>9, <2>1 DEF MapsWithin
  <2> QED  BY <1>10, <2>3, <2>8, <2>9, SessionGoes
<1> QED  BY <1>13, <1>14

\* With nothing left to run, the session is left idle.
LEMMA SettleKeeps ==
  ASSUME SchedulerAssumption, TypeOK, TypeOK', HandleInv, SerialInv, NEW r \in Fibers,
         DeactivateIfIdle(r) \/ AfterExpiry(r)
  PROVE  SerialInv'
<1>1. PICK k \in Keys : k = fiber[r].key
  BY FieldTypes
<1>2. On(r, k, Runners) /\ fiber[r].pc \in {"deact", "expire"}
  BY <1>1 DEF On, Runners, Early, Late, DeactivateIfIdle, AfterExpiry
<1>3. KeyInv(k) /\ fiber[r].msg = NoMsg
  BY <1>2, Running DEF RunnerRows
<1>4. settleIdle(r, k)
  BY <1>1, <1>3 DEF DeactivateIfIdle, AfterExpiry
<1>5. fiber'[r].pc \in Off /\ \A q \in Fibers : q # r => fiber'[q] = fiber[q]
  <2> DEFINE limit == IF Cardinality(running \ {k}) >= MaxConcurrent THEN 0
                      ELSE MaxConcurrent - Cardinality(running \ {k})
             list  == GlobalPending(limit) \cup fiber[r].todo
             a     == IF list = {} THEN NoFiber
                      ELSE [NoFiber EXCEPT !.pc = "drain", !.todo = list]
  <2>1. Becomes(r, a)
    BY <1>4 DEF settleIdle, startDrain
  <2> HIDE DEF list
  <2>2. a.pc \in Off
    BY DEF NoFiber, Off
  <2> HIDE DEF a
  <2> QED  BY <2>1, <2>2, Each
<1>6. processes[k] = NoProc
  <2>1. \A q \in Fibers : fiber[q].pc = "live" => fiber[q].key # k
    BY <1>2, <1>3 DEF KeyInv, KeyAlone, On, Runners, Late
  <2> QED  BY <2>1 DEF HandleInv, RegisteredHandle, RunsProcess
<1>7. k \notin stopping
  BY <1>2, <1>3, NotLive
<1>8. /\ processes' = processes /\ running' = running \ {k} /\ stopping' = stopping
      /\ currentMessage' = [currentMessage EXCEPT ![k] = NoMsg]
      /\ generation' = [generation EXCEPT ![k] = 0]
      /\ sessionState' = [sessionState EXCEPT ![k] = "idle"]
      /\ UNCHANGED <<message, dbPid, issueState, proc>>
  BY <1>4, <1>6, <1>7 DEF settleIdle, clearRuntimeState, TypeOK
<1>9. Goes(r, k)
  BY <1>2, <1>5, <1>8 DEF Goes
<1>10. MapsWithin({k}) /\ currentMessage'[k] = NoMsg
  BY <1>8 DEF MapsWithin, TypeOK
<1>11. ~On(r, k, Runners)' /\ fiber[r].pc # "live" /\ fiber'[r].pc # "live"
  BY <1>2, <1>5 DEF On, Off, Runners, Early, Late
<1>12. \A m \in Msgs : ~Carries(r, k, m)
  BY <1>2 DEF Carries, On, Carriers
<1> QED  BY <1>2, <1>8, <1>9, <1>10, <1>11, <1>12, Advance DEF Advances

-----------------------------------------------------------------------------
(* Drains, deliveries and what happens around the sessions                 *)

LEMMA OldestOf ==
  ASSUME SchedulerAssumption, NEW S, S \subseteq Msgs \/ S \subseteq Fibers, S # {}
  PROVE  Oldest(S) \in S
BY OldestIn DEF SchedulerAssumption

\* A session that nobody runs or stops holds nothing.
LEMMA AloneIsEmpty ==
  ASSUME NEW k \in Keys, KeyInv(k), \A q \in Fibers : ~On(q, k, Runners)
  PROVE  /\ k \notin running /\ k \notin stopping /\ dbPid[k] = NoProc
         /\ currentMessage[k] = NoMsg
<1>1. RunPCs \subseteq Runners /\ {"live"} \subseteq Runners /\ Holders \subseteq Runners
  BY DEF RunPCs, Runners, Early, Late, Holders
<1> QED  BY <1>1 DEF KeyInv, KeyHolds, KeyRows, On

\* A drain claims a message only when nobody runs its session.
LEMMA DrainAlone ==
  ASSUME Serial, SerialInv, NEW k \in Keys, k \notin running, NEW m \in Pending(k),
         NEW r \in Fibers, fiber[r].pc = "drain", Turn(r)
  PROVE  \A q \in Fibers : ~On(q, k, Runners)
<1> SUFFICES ASSUME NEW q \in Fibers, On(q, k, Runners) PROVE FALSE
  OBVIOUS
<1>1. fiber[q].pc \in {"enqueue", "requeue"}
  BY Running DEF RunnerRows
<1>2. fiber[q].pc # "enqueue"
  BY DEF Turn, Serial
<1> QED  BY <1>1, <1>2, Running DEF RunnerSlot

LEMMA DrainClaimKeeps ==
  ASSUME SchedulerAssumption, Serial, TypeOK, TypeOK', SerialInv, NEW r \in Fibers, Turn(r),
         DrainClaim(r)
  PROVE  SerialInv'
<1>1. PICK m \in Msgs : m = Oldest(fiber[r].todo)
  BY OldestOf, FieldTypes DEF DrainClaim, Activation
<1>2. PICK k \in Keys : k = message[m].key
  BY DEF TypeOK, Row
<1>3. /\ fiber[r].pc = "drain" /\ ~closed(k) /\ k \notin running /\ message[m].status = "pending"
      /\ message' = SetStatus(message, m, "running")
      /\ Becomes(r, [fiber[r] EXCEPT !.pc = "drained", !.key = k, !.msg = m, !.todo = @ \ {m}])
      /\ UNCHANGED <<memory, sessionState, dbPid, issueState, proc>>
  BY <1>1, <1>2 DEF DrainClaim, closed
<1>4. KeyInv(k) /\ KeyRows(k) /\ m \in Pending(k)
  BY <1>2, <1>3 DEF SerialInv, KeyInv, Pending
<1>5. \A q \in Fibers : ~On(q, k, Runners)
  BY <1>3, <1>4, DrainAlone
<1>6. k \notin running /\ k \notin stopping /\ dbPid[k] = NoProc /\ currentMessage'[k] = NoMsg
  BY <1>3, <1>4, <1>5, AloneIsEmpty DEF memory
<1>7. Unhindered(k)
  BY <1>3, <1>4 DEF KeyRows, Unhindered
<1> DEFINE a == [fiber[r] EXCEPT !.pc = "drained", !.key = k, !.msg = m, !.todo = @ \ {m}]
<1>8. a.pc = "drained" /\ a.key = k /\ a.msg = m
  BY FieldTypes DEF Activation
<1>9. fiber'[r] = a /\ \A q \in Fibers : q # r => fiber'[q] = fiber[q]
  BY <1>3, Each
<1> HIDE DEF a
<1>10. Goes(r, k)
  BY <1>3, <1>5, <1>8, <1>9 DEF Goes, On, Off, Runners, Early
<1>11. /\ message'[m].status = "running" /\ message'[m].key = k
       /\ \A q \in Msgs : q # m => message'[q] = message[q]
  BY <1>2, <1>3, StatusSet
<1>12. Pending(k)' = {}
  <2>1. \A q \in Pending(k) : q = m
    BY <1>4 DEF KeyRows
  <2>2. ASSUME NEW q \in Msgs, message'[q].key = k, message'[q].status = "pending" PROVE FALSE
    <3>1. q # m
      BY <1>11, <2>2
    <3>2. q \in Pending(k)
      BY <1>11, <2>2, <3>1 DEF Pending
    <3> QED  BY <2>1, <3>1, <3>2
  <2> QED  BY <2>2 DEF Pending
<1>13. RowOf(k, m)' /\ RowOf(k, m) /\ m # NoMsg
  BY <1>2, <1>3, <1>11 DEF RowOf, SchedulerAssumption, NoMsg
<1>14. RunnerRows(k, r)'
  BY <1>8, <1>9, <1>11, <1>12, <1>13 DEF RunnerRows, Settled
<1>15. RunnerSlot(k, r)'
  <2>1. Unhindered(k)'
    BY <1>4, <1>7, <1>10, OthersStay
  <2> QED  BY <1>8, <1>9, <2>1 DEF RunnerSlot
<1>16. Carries(r, k, m)' /\ \A q \in Msgs : ~Carries(r, k, q)
  BY <1>5, <1>8, <1>9 DEF Carries, On, Carriers, Runners, Early, Late
<1>17. MapsWithin({k})
  BY <1>3 DEF MapsWithin, memory
<1> QED
  BY <1>3, <1>6, <1>7, <1>8, <1>9, <1>10, <1>11, <1>13, <1>14, <1>15, <1>16, <1>17, Write
  DEF Writes, memory

LEMMA DrainKeeps ==
  ASSUME SchedulerAssumption, Serial, TypeOK, TypeOK', SerialInv, NEW r \in Fibers, Turn(r),
         DrainStep(r)
  PROVE  SerialInv'
<1>1. CASE DrainSkip(r)
  <2> DEFINE b == [fiber[r] EXCEPT !.todo = fiber[r].todo \ {Oldest(fiber[r].todo)}]
  <2>1. fiber[r].pc = "drain" /\ (Becomes(r, NoFiber) \/ Becomes(r, b))
        /\ UNCHANGED <<memory, store, proc>>
    BY <1>1 DEF DrainSkip, Return
  <2>2. b.pc = "drain" /\ NoFiber.pc = "idle"
    BY <2>1, FieldTypes, NoFiberType DEF Activation
  <2> HIDE DEF b
  <2>3. fiber'[r] \in {NoFiber, b} /\ \A q \in Fibers : q # r => fiber'[q] = fiber[q]
    BY <2>1, Each
  <2>4. Within({})
    BY <2>1, <2>2, <2>3
       DEF Within, Aside, Off, MapsWithin, RowsWithin, Ending, memory, store
  <2> QED  BY <2>4, Elsewhere
<1>2. CASE DrainClaim(r)
  BY <1>2, DrainClaimKeeps
<1>3. CASE DrainRun(r)
  <2>1. PICK k \in Keys, m \in Msgs \cup {NoMsg} : k = fiber[r].key /\ m = fiber[r].msg
    BY FieldTypes
  <2> QED  BY <1>3, <2>1, dequeueKeeps DEF DrainRun, On
<1> QED  BY <1>1, <1>2, <1>3 DEF DrainStep

\* Starting a drain, a process that ends, and time
LEMMA AroundKeeps ==
  ASSUME SchedulerAssumption, TypeOK, TypeOK', SerialInv,
         \/ ObserverDrains
         \/ \E p \in Procs : Exit(p)
         \/ \E m \in Msgs : Age(m)
  PROVE  SerialInv'
<1>1. CASE ObserverDrains
  <2>1. PICK r \in Fibers : r = Oldest(Free) /\ fiber[r].pc = "idle"
    BY <1>1, OldestOf DEF ObserverDrains, Free
  <2> DEFINE limit == IF Cardinality(running) >= MaxConcurrent THEN 0
                      ELSE MaxConcurrent - Cardinality(running)
             list  == GlobalPending(limit) \cup fiber[r].todo
             a     == IF list = {} THEN NoFiber
                      ELSE [NoFiber EXCEPT !.pc = "drain", !.todo = list]
  <2>2. Becomes(r, a) /\ UNCHANGED <<memory, store, proc>>
    BY <1>1, <2>1 DEF ObserverDrains, startDrain
  <2> HIDE DEF list
  <2>3. a.pc \in Off
    BY DEF NoFiber, Off
  <2> HIDE DEF a
  <2>4. fiber'[r] = a /\ \A q \in Fibers : q # r => fiber'[q] = fiber[q]
    BY <2>2, Each
  <2>5. Within({})
    BY <2>1, <2>2, <2>3, <2>4
       DEF Within, Aside, Off, MapsWithin, RowsWithin, Ending, memory, store
  <2> QED  BY <2>5, Elsewhere
<1>2. ASSUME NEW p \in Procs, Exit(p) PROVE SerialInv'
  <2>1. PICK code : code # "live" /\ proc' = [proc EXCEPT ![p] = code]
    BY <1>2 DEF Exit
  <2>2. Within({})
    BY <1>2, <2>1 DEF Exit, Within, MapsWithin, RowsWithin, Ending, memory, store, TypeOK
  <2> QED  BY <2>2, Elsewhere
<1>3. ASSUME NEW m \in Msgs, Age(m) PROVE SerialInv'
  <2>1. message' = [message EXCEPT ![m] = [message[m] EXCEPT !.stale = TRUE]]
        /\ UNCHANGED <<memory, fiber, sessionState, dbPid, issueState, proc>>
    BY <1>3 DEF Age
  <2>2. message'[m].key = message[m].key /\ message'[m].status = message[m].status
        /\ \A q \in Msgs : q # m => message'[q] = message[q]
    BY <2>1 DEF TypeOK, Row
  <2>3. RowsWithin({})
    BY <2>2 DEF RowsWithin
  <2>4. Within({})
    BY <2>1, <2>3 DEF Within, MapsWithin, Ending, memory
  <2> QED  BY <2>4, Elsewhere
<1> QED  BY <1>1, <1>2, <1>3

\* A message is delivered to a session at rest.
LEMMA DeliverKeeps ==
  ASSUME SchedulerAssumption, Serial, TypeOK, TypeOK', SerialInv, NEW k \in Keys, Deliver(k)
  PROVE  SerialInv'
<1>1. PICK r \in Fibers : r = Oldest(Free) /\ fiber[r].pc = "idle"
  BY OldestOf DEF Deliver, Free
<1>2. /\ ~closed(k) /\ ~Busy(k) /\ Pending(k) = {}
      /\ UNCHANGED <<memory, store, proc>>
  BY DEF Deliver, Serial, closed
<1> DEFINE a == [fiber[r] EXCEPT !.pc = "ack", !.key = k]
<1>3. fiber'[r] = a /\ \A q \in Fibers : q # r => fiber'[q] = fiber[q]
  BY <1>1, Each DEF Deliver
<1>4. a.pc = "ack" /\ a.key = k
  BY FieldTypes DEF Activation
<1> HIDE DEF a
<1>5. KeyInv(k) /\ KeyRows(k)
  BY DEF SerialInv, KeyInv
<1>6. \A q \in Fibers : ~On(q, k, Runners) /\ ~On(q, k, Stoppers)
  BY <1>2 DEF Busy, On, Runners, Early, Late, Stoppers
<1>7. k \notin running /\ k \notin stopping /\ dbPid[k] = NoProc /\ currentMessage[k] = NoMsg
  BY <1>5, <1>6, AloneIsEmpty
<1>8. Goes(r, k)
  BY <1>1, <1>2, <1>3, <1>4, <1>6 DEF Goes, On, Off, Runners, Early, store
<1>9. Unhindered(k)
  BY <1>2, <1>6 DEF Unhindered
<1>10. Pending(k)' = {} /\ \A q : RowOf(k, q)' <=> RowOf(k, q)
  BY <1>2 DEF Pending, RowOf, store
<1>11. RunnerRows(k, r)' /\ RunnerLive(k, r)'
  BY <1>3, <1>4, <1>10 DEF RunnerRows, RunnerLive, Carriers, Settled
<1>12. RunnerSlot(k, r)'
  <2>1. Unhindered(k)'
    BY <1>5, <1>8, <1>9, OthersStay
  <2> QED  BY <1>3, <1>4, <2>1 DEF RunnerSlot
<1>13. currentMessage'[k] = NoMsg
  BY <1>2, <1>7 DEF memory
<1>14. \A q \in Msgs : RowOf(k, q)' /\ message'[q].status = "running" =>
           RowOf(k, q) /\ message[q].status = "running" /\ ~Carries(r, k, q)
  BY <1>1, <1>2, <1>10 DEF Carries, On, Carriers, store
<1>15. KeyInv(k)'
  BY <1>2, <1>5, <1>7, <1>8, <1>9, <1>10, <1>11, <1>12, <1>13, <1>14, RunnerGoes
     DEF memory, store
<1>16. MapsWithin({k}) /\ RowsWithin({k}) /\ Ending
  BY <1>2 DEF MapsWithin, RowsWithin, Ending, memory, store
<1> QED  BY <1>8, <1>15, <1>16, SessionGoes

\* The row of a session without a slot is set to idle.
LEMMA ObserverFixesKeeps ==
  ASSUME SchedulerAssumption, TypeOK, TypeOK', HandleInv, SerialInv, NEW k \in Keys,
         ObserverFixes(k)
  PROVE  SerialInv'
<1>1. /\ k \notin running /\ processes[k] = NoProc
      /\ sessionState' = [sessionState EXCEPT ![k] = "idle"]
      /\ UNCHANGED <<memory, fiber, message, dbPid, issueState, proc>>
  BY DEF ObserverFixes
<1>2. KeyInv(k) /\ KeyAlone(k) /\ KeyRuns(k) /\ KeyStops(k) /\ KeyRows(k) /\ KeyHolds(k)
  BY DEF SerialInv, KeyInv
<1>3. Pending(k)' = Pending(k)
  BY <1>1 DEF Pending
<1>4. KeyRuns(k)'
  <2> SUFFICES ASSUME NEW r \in Fibers, On(r, k, Runners)'
               PROVE  (RunnerRows(k, r) /\ RunnerSlot(k, r) /\ RunnerLive(k, r))'
    BY DEF KeyRuns
  <2>1. On(r, k, Runners) /\ RunnerRows(k, r) /\ RunnerSlot(k, r) /\ RunnerLive(k, r)
    BY <1>1, <1>2 DEF KeyRuns, On
  <2>2. RunnerRows(k, r)'
    BY <1>1, <1>3, <2>1 DEF RunnerRows, RowOf, closed
  <2>3. RunnerSlot(k, r)'
    BY <1>1, <2>1 DEF RunnerSlot, Unhindered, closed, On, memory
  <2>4. RunnerLive(k, r)'
    BY <1>1, <2>1 DEF RunnerLive, Registered, On, memory
  <2> QED  BY <2>2, <2>3, <2>4
<1>5. KeyAlone(k)' /\ KeyStops(k)'
  BY <1>1, <1>2 DEF KeyAlone, KeyStops, On, closed, memory
<1>6. KeyRows(k)'
  <2>1. /\ \A r, S : On(r, k, S)' <=> On(r, k, S)
        /\ \A m : (RowOf(k, m)' <=> RowOf(k, m)) /\ (Doomed(k, m)' <=> Doomed(k, m))
        /\ \A r, m : Carries(r, k, m)' <=> Carries(r, k, m)
    BY <1>1 DEF On, RowOf, Doomed, Carries, Registered, memory
  <2> QED  BY <1>1, <1>2, <1>3, <2>1 DEF KeyRows, closed, memory
<1>7. KeyHolds(k)'
  BY <1>1, <1>2 DEF KeyHolds, On, Registered, memory
<1>8. KeyInv(k)'
  BY <1>4, <1>5, <1>6, <1>7 DEF KeyInv
<1>9. Within({k})
  BY <1>1 DEF Within, MapsWithin, RowsWithin, Ending, memory, TypeOK
<1>10. ASSUME NEW j \in Keys PROVE KeyInv(j)'
  BY <1>8, <1>9, <1>10, Apart DEF SerialInv
<1>11. KnownPCs'
  BY <1>1 DEF SerialInv, KnownPCs
<1> QED  BY <1>10, <1>11 DEF SerialInv

-----------------------------------------------------------------------------
(* A step of the activation that stops the session                         *)

\* s stops session k, or begins to, and goes on stopping it or ends.
Halts(s, k) ==
  /\ On(s, k, Stoppers) \/ (fiber[s].pc \in Off /\ \A q \in Fibers : ~On(q, k, Stoppers))
  /\ On(s, k, Stoppers)' \/ fiber'[s].pc \in Off
  /\ \A q \in Fibers : q # s => fiber'[q] = fiber[q]

LEMMA RunnersStay ==
  ASSUME NEW k \in Keys, KeyInv(k), NEW s \in Fibers, Halts(s, k)
  PROVE  /\ \A q \in Fibers : On(q, k, Stoppers)' => q = s
         /\ \A q \in Fibers : On(q, k, Stoppers) => q = s
         /\ \A S : S \subseteq Runners =>
              \A q \in Fibers : /\ On(q, k, S)' <=> On(q, k, S)
                                /\ On(q, k, S) => q # s /\ fiber'[q] = fiber[q]
         /\ KeyAlone(k)'
<1>1. Off \cap Runners = {} /\ Off \cap Stoppers = {} /\ Runners \cap Stoppers = {}
  BY DEF Off, Runners, Early, Late, Stoppers
<1>2. KeyAlone(k)
  BY DEF KeyInv
<1>3. ASSUME NEW q \in Fibers, On(q, k, Stoppers) PROVE q = s
  BY <1>2, <1>3 DEF Halts, KeyAlone
<1>4. ASSUME NEW q \in Fibers, On(q, k, Stoppers)' PROVE q = s
  <2> SUFFICES ASSUME q # s PROVE FALSE
    OBVIOUS
  <2>1. On(q, k, Stoppers)
    BY <1>4 DEF Halts, On
  <2> QED  BY <1>3, <2>1
<1>5. ASSUME NEW S, S \subseteq Runners, NEW q \in Fibers
      PROVE  /\ On(q, k, S)' <=> On(q, k, S)
             /\ On(q, k, S) => q # s /\ fiber'[q] = fiber[q]
  <2>1. CASE q = s
    BY <1>1, <1>5, <2>1 DEF Halts, On
  <2>2. CASE q # s
    BY <1>1, <1>5, <2>2 DEF Halts, On
  <2> QED  BY <2>1, <2>2
<1>6. KeyAlone(k)'
  BY <1>2, <1>4, <1>5 DEF KeyAlone
<1> QED  BY <1>3, <1>4, <1>5, <1>6

\* What the runner holds, it still holds.
LEMMA CurrentStays ==
  ASSUME NEW k \in Keys, KeyInv(k), NEW s \in Fibers, Halts(s, k),
         currentMessage' = currentMessage, currentMessage[k] # NoMsg
  PROVE  \E r \in Fibers : On(r, k, Holders)' /\ fiber'[r].msg = currentMessage'[k]
<1>1. PICK r \in Fibers : On(r, k, Holders) /\ fiber[r].msg = currentMessage[k]
  BY DEF KeyInv, KeyRows
<1>2. Holders \subseteq Runners
  BY DEF Holders, Runners, Early, Late
<1> QED  BY <1>1, <1>2, RunnersStay

LEMMA SessionHalts ==
  ASSUME TypeOK, TypeOK', SerialInv, NEW k \in Keys, NEW s \in Fibers, Halts(s, k), KeyInv(k)',
         MapsWithin({k}), RowsWithin({k}), Ending
  PROVE  SerialInv'
<1>1. Within({k})
  BY DEF Within, Halts, Aside, On
<1>2. ASSUME NEW j \in Keys PROVE KeyInv(j)'
  BY <1>1, <1>2, Apart DEF SerialInv
<1>3. KnownPCs'
  BY DEF SerialInv, KnownPCs, Halts, On
<1> QED  BY <1>2, <1>3 DEF SerialInv

\* A session that waits for its process, or for nothing
LEMMA Calm ==
  ASSUME TypeOK, HandleInv, SerialInv, NEW k \in Keys, AtRest(k) \/ AtWork(k)
  PROVE  /\ \A q \in Fibers : ~On(q, k, Stoppers)
         /\ \A q \in Fibers : On(q, k, Runners) => On(q, k, {"live"}) /\ Registered(q)
         /\ AtWork(k) => ~closed(k) /\ \E q \in Fibers : On(q, k, {"live"})
<1>1. Off \cap Runners = {} /\ Off \cap Stoppers = {} /\ "live" \notin Stoppers /\ "live" \in Runners
  BY DEF Off, Runners, Early, Late, Stoppers
<1>2. CASE AtRest(k)
  <2>1. \A q \in Fibers : fiber[q].key = k => fiber[q].pc \in Off
    BY <1>2 DEF AtRest, Busy, Off
  <2>2. ~AtWork(k)
    BY <2>1 DEF AtWork, HandleInv, RegisteredHandle, RunsProcess, Off
  <2> QED  BY <1>1, <2>1, <2>2 DEF On
<1>3. CASE AtWork(k)
  <2>1. \A q \in Fibers : fiber[q].key = k => fiber[q].pc \in Off \cup {"live"}
    BY <1>3 DEF AtWork, Off
  <2>2. processes[k] # NoProc
    BY <1>3 DEF AtWork
  <2>3. PICK r \in Fibers : On(r, k, {"live"}) /\ Registered(r)
    BY <2>2 DEF HandleInv, RegisteredHandle, RunsProcess, On, Registered
  <2>4. \A q \in Fibers : On(q, k, Runners) => q = r
    BY <1>1, <2>3 DEF SerialInv, KeyInv, KeyAlone, On
  <2>5. \A q \in Fibers : ~On(q, k, Stoppers)
    BY <1>1, <2>1 DEF On
  <2>6. ~closed(k)
    <3>1. \A q \in Fibers : ~On(q, k, {"kill"})
      BY <2>5 DEF On, Stoppers
    <3> QED  BY <2>2, <3>1 DEF SerialInv, KeyInv, KeyStops
  <2> QED  BY <2>3, <2>4, <2>5, <2>6
<1> QED  BY <1>2, <1>3

LEMMA Begun ==
  ASSUME SchedulerAssumption, TypeOK, NEW k \in Keys, NEW p \in Stoppers, Begin(k, p),
         \A q \in Fibers : ~On(q, k, Stoppers)
  PROVE  \E s \in Fibers : /\ Halts(s, k) /\ fiber[s].pc = "idle"
                           /\ fiber'[s].pc = p /\ fiber'[s].key = k
<1>1. PICK s \in Fibers : s = Oldest(Free) /\ fiber[s].pc = "idle"
  BY OldestOf DEF Begin, Free
<1>2. fiber'[s] = At(p, k, NoMsg) /\ \A q \in Fibers : q # s => fiber'[q] = fiber[q]
  BY <1>1, Each DEF Begin
<1>3. At(p, k, NoMsg).pc = p /\ At(p, k, NoMsg).key = k
  BY DEF At, NoFiber
<1>4. Halts(s, k)
  BY <1>1, <1>2, <1>3 DEF Halts, On, Off
<1> QED  BY <1>1, <1>2, <1>3, <1>4

LEMMA CloseKeeps ==
  ASSUME SchedulerAssumption, Serial, TypeOK, TypeOK', HandleInv, SerialInv, NEW k \in Keys,
         Close(k)
  PROVE  SerialInv'
<1>1. /\ "close" \in Env /\ (AtRest(k) \/ AtWork(k)) /\ Begin(k, "kill")
      /\ issueState' = [issueState EXCEPT ![k] = "closed"]
      /\ UNCHANGED <<memory, message, sessionState, dbPid, proc>>
  BY DEF Close, Serial
<1>2. /\ \A q \in Fibers : ~On(q, k, Stoppers)
      /\ \A q \in Fibers : On(q, k, Runners) => On(q, k, {"live"}) /\ Registered(q)
  BY <1>1, Calm
<1>3. PICK s \in Fibers : Halts(s, k) /\ fiber'[s].pc = "kill" /\ fiber'[s].key = k
  <2>1. "kill" \in Stoppers /\ Begin(k, "kill")
    BY <1>1 DEF Stoppers
  <2>2. \A q \in Fibers : ~On(q, k, Stoppers)
    BY <1>2
  <2>3. \E s \in Fibers : /\ Halts(s, k) /\ fiber[s].pc = "idle"
                          /\ fiber'[s].pc = "kill" /\ fiber'[s].key = k
    BY <2>1, <2>2, Begun, Zenon
  <2> QED  BY <2>3
<1>4. KeyInv(k) /\ KeyRuns(k) /\ KeyRows(k) /\ KeyHolds(k)
  BY DEF SerialInv, KeyInv
<1>5. /\ \A q \in Fibers : On(q, k, Stoppers)' => q = s
      /\ \A S : S \subseteq Runners =>
           \A q \in Fibers : /\ On(q, k, S)' <=> On(q, k, S)
                             /\ On(q, k, S) => q # s /\ fiber'[q] = fiber[q]
      /\ KeyAlone(k)'
  <2>1. Halts(s, k) /\ KeyInv(k)
    BY <1>3, <1>4
  <2> QED  BY <2>1, RunnersStay
<1>6. Pending(k)' = Pending(k) /\ \A m : RowOf(k, m)' <=> RowOf(k, m)
  BY <1>1 DEF Pending, RowOf
<1>7. closed(k)' /\ On(s, k, {"kill"})'
  BY <1>1, <1>3 DEF closed, On, TypeOK
<1>8. KeyRuns(k)'
  <2> SUFFICES ASSUME NEW r \in Fibers, On(r, k, Runners)'
               PROVE  (RunnerRows(k, r) /\ RunnerSlot(k, r) /\ RunnerLive(k, r))'
    BY DEF KeyRuns
  <2>1. On(r, k, Runners) /\ fiber'[r] = fiber[r]
    BY <1>5
  <2>2. On(r, k, {"live"}) /\ Registered(r)
    BY <1>2, <2>1
  <2>3. RunnerRows(k, r) /\ RunnerSlot(k, r) /\ RunnerLive(k, r)
    BY <1>4, <2>1 DEF KeyRuns
  <2>4. RunnerRows(k, r)'
    BY <1>1, <1>6, <1>7, <2>1, <2>3 DEF RunnerRows
  <2>5. RunnerSlot(k, r)'
    BY <1>1, <2>1, <2>2, <2>3 DEF RunnerSlot, On, Early, memory
  <2>6. Registered(r)'
    BY <1>1, <2>1, <2>2 DEF Registered, memory
  <2>7. RunnerLive(k, r)'
    BY <1>1, <2>1, <2>2, <2>3, <2>6 DEF RunnerLive, memory
  <2> QED  BY <2>4, <2>5, <2>7
<1>9. KeyStops(k)'
  <2>1. ASSUME NEW q \in Fibers, On(q, k, Stoppers)' PROVE fiber'[q].pc = "kill"
    BY <1>3, <1>5, <2>1
  <2>2. \A q \in Fibers : ~On(q, k, Stoppers \ {"kill"})' /\ ~On(q, k, {"force", "failing"})'
    BY <2>1 DEF On, Stoppers
  <2> QED  BY <1>1, <1>7, <2>2 DEF KeyStops
<1>10. KeyRows(k)'
  <2>1. \A q \in Fibers : ~On(q, k, {"interrupt", "failing"})'
    BY <1>3, <1>5 DEF On, Stoppers
  <2>2. \A m \in Msgs : ~Doomed(k, m)
    BY <1>2 DEF Doomed, On, Stoppers
  <2>3. ASSUME NEW m \in Msgs, NEW r \in Fibers, Carries(r, k, m) PROVE Carries(r, k, m)'
    <3>1. On(r, k, Runners)
      BY <2>3 DEF Carries, On, Runners, Early, Late, Carriers
    <3>2. fiber'[r] = fiber[r]
      BY <1>5, <3>1
    <3> QED  BY <1>1, <2>3, <3>2 DEF Carries, On, Registered, memory
  <2>4. ASSUME NEW m \in Msgs, RowOf(k, m)', message'[m].status = "running"
        PROVE  \E r \in Fibers : Carries(r, k, m)'
    BY <1>1, <1>4, <1>6, <2>2, <2>3, <2>4 DEF KeyRows
  <2>5. currentMessage'[k] # NoMsg =>
          \E r \in Fibers : On(r, k, Holders)' /\ fiber'[r].msg = currentMessage'[k]
    BY <1>1, <1>3, <1>4, CurrentStays DEF memory
  <2>6. \A m, q \in Pending(k)' : m = q
    BY <1>4, <1>6 DEF KeyRows
  <2> QED  BY <1>7, <2>1, <2>4, <2>5, <2>6 DEF KeyRows
<1>11. KeyHolds(k)'
  <2>1. RunPCs \subseteq Runners /\ {"live"} \subseteq Runners
    BY DEF RunPCs, Runners, Early, Late
  <2> QED  BY <1>1, <1>4, <1>5, <2>1 DEF KeyHolds, Registered, memory
<1>12. KeyInv(k)'
  BY <1>5, <1>8, <1>9, <1>10, <1>11 DEF KeyInv
<1>13. MapsWithin({k}) /\ RowsWithin({k}) /\ Ending
  BY <1>1 DEF MapsWithin, RowsWithin, Ending, memory, TypeOK
<1> QED  BY <1>3, <1>12, <1>13, SessionHalts

LEMMA ForceStopKeeps ==
  ASSUME SchedulerAssumption, Serial, TypeOK, TypeOK', HandleInv, SerialInv, NEW k \in Keys,
         ForceStop(k)
  PROVE  SerialInv'
<1>1. /\ "force" \in Env /\ AtWork(k) /\ Begin(k, "force")
      /\ stopping' = stopping \cup {k} /\ proc' = Kill(processes[k])
      /\ processes' = [processes EXCEPT ![k] = NoProc] /\ running' = running \ {k}
      /\ currentMessage' = [currentMessage EXCEPT ![k] = NoMsg]
      /\ generation' = [generation EXCEPT ![k] = 0]
      /\ UNCHANGED <<message, sessionState, dbPid, issueState>>
  BY DEF ForceStop, forceStop, Serial, AtWork, store
<1>2. /\ \A q \in Fibers : ~On(q, k, Stoppers)
      /\ \A q \in Fibers : On(q, k, Runners) => On(q, k, {"live"}) /\ Registered(q)
      /\ ~closed(k) /\ \E q \in Fibers : On(q, k, {"live"})
  BY <1>1, Calm
<1>3. PICK s \in Fibers : Halts(s, k) /\ fiber'[s].pc = "force" /\ fiber'[s].key = k
  <2>1. "force" \in Stoppers /\ Begin(k, "force")
    BY <1>1 DEF Stoppers
  <2>2. \A q \in Fibers : ~On(q, k, Stoppers)
    BY <1>2
  <2>3. \E s \in Fibers : /\ Halts(s, k) /\ fiber[s].pc = "idle"
                          /\ fiber'[s].pc = "force" /\ fiber'[s].key = k
    BY <2>1, <2>2, Begun, Zenon
  <2> QED  BY <2>3
<1>4. KeyInv(k) /\ KeyRuns(k) /\ KeyRows(k) /\ KeyHolds(k)
  BY DEF SerialInv, KeyInv
<1>5. /\ \A q \in Fibers : On(q, k, Stoppers)' => q = s
      /\ \A S : S \subseteq Runners =>
           \A q \in Fibers : /\ On(q, k, S)' <=> On(q, k, S)
                             /\ On(q, k, S) => q # s /\ fiber'[q] = fiber[q]
      /\ KeyAlone(k)'
  <2>1. Halts(s, k) /\ KeyInv(k)
    BY <1>3, <1>4
  <2> QED  BY <2>1, RunnersStay
<1>6. Pending(k)' = {} /\ \A m : RowOf(k, m)' <=> RowOf(k, m)
  <2>1. PICK q \in Fibers : On(q, k, {"live"})
    BY <1>2
  <2>2. On(q, k, Runners) /\ fiber[q].pc = "live"
    BY <2>1 DEF On, Runners, Late
  <2>3. Pending(k) = {}
    BY <2>2, Running DEF RunnerRows
  <2> QED  BY <1>1, <2>3 DEF Pending, RowOf
<1>7. /\ ~closed(k)' /\ k \notin running' /\ processes'[k] = NoProc /\ currentMessage'[k] = NoMsg
      /\ On(s, k, {"force"})'
  BY <1>1, <1>2, <1>3 DEF closed, On, TypeOK
<1>8. ASSUME NEW r \in Fibers, On(r, k, {"live"})'
      PROVE  On(r, k, {"live"}) /\ fiber'[r] = fiber[r] /\ ~Registered(r)'
             /\ proc'[fiber'[r].proc] # "live"
  <2>1. On(r, k, {"live"}) /\ fiber'[r] = fiber[r] /\ On(r, k, Runners)
    <3>1. {"live"} \subseteq Runners
      BY DEF Runners, Late
    <3>2. On(r, k, {"live"}) /\ fiber'[r] = fiber[r]
      BY <1>5, <1>8, <3>1
    <3> QED  BY <3>1, <3>2 DEF On
  <2>2. fiber[r].proc \in Procs /\ fiber[r].proc # NoProc /\ Registered(r)
    BY <1>2, <2>1 DEF HandleInv, HoldersKnown, On, SchedulerAssumption, NoProc
  <2>3. fiber[r].proc = processes[k] /\ fiber[r].key = k
    BY <2>1, <2>2 DEF Registered, On
  <2>4. proc'[fiber[r].proc] # "live"
    BY <1>1, <2>2, <2>3 DEF Kill
  <2> QED  BY <1>7, <2>1, <2>2, <2>3, <2>4 DEF Registered
<1>9. \A q \in Fibers : ~On(q, k, Stoppers \ {"force"})'
  BY <1>3, <1>5 DEF On
<1>10. KeyRuns(k)'
  <2> SUFFICES ASSUME NEW r \in Fibers, On(r, k, Runners)'
               PROVE  (RunnerRows(k, r) /\ RunnerSlot(k, r) /\ RunnerLive(k, r))'
    BY DEF KeyRuns
  <2>1. On(r, k, Runners) /\ fiber'[r] = fiber[r]
    BY <1>5
  <2>2. fiber[r].pc = "live" /\ On(r, k, {"live"})'
    BY <1>2, <2>1 DEF On
  <2>3. RunnerRows(k, r)
    BY <1>4, <2>1 DEF KeyRuns
  <2>4. RunnerRows(k, r)'
    BY <1>6, <2>1, <2>2, <2>3 DEF RunnerRows, Carriers, Settled
  <2>5. RunnerSlot(k, r)'
    BY <1>7, <2>1, <2>2 DEF RunnerSlot, Early
  <2>6. RunnerLive(k, r)'
    BY <1>7, <1>8, <1>9, <2>2 DEF RunnerLive, On, Stoppers
  <2> QED  BY <2>4, <2>5, <2>6
<1>11. KeyStops(k)'
  BY <1>1, <1>7, <1>9 DEF KeyStops, On, Stoppers
<1>12. KeyRows(k)'
  <2>1. \A q \in Fibers : ~On(q, k, {"interrupt", "failing"})'
    BY <1>9 DEF On, Stoppers
  <2>2. \A m \in Msgs : Doomed(k, m)'
    BY <1>7 DEF Doomed
  <2> QED  BY <1>6, <1>7, <2>1, <2>2 DEF KeyRows
<1>13. KeyHolds(k)'
  <2>1. {"live"} \subseteq Runners
    BY DEF Runners, Late
  <2>2. PICK q \in Fibers : On(q, k, {"live"})
    BY <1>2
  <2>3. On(q, k, {"live"})' /\ ~Registered(q)'
    BY <1>5, <1>8, <2>1, <2>2
  <2>4. dbPid'[k] # NoProc => \E r \in Fibers : On(r, k, {"live"})' /\ fiber'[r].proc = dbPid'[k]
    BY <1>1, <1>4, <1>5, <2>1 DEF KeyHolds
  <2> QED  BY <1>7, <2>3, <2>4 DEF KeyHolds
<1>14. KeyInv(k)'
  BY <1>5, <1>10, <1>11, <1>12, <1>13 DEF KeyInv
<1>15. MapsWithin({k}) /\ RowsWithin({k})
  BY <1>1 DEF MapsWithin, RowsWithin, TypeOK
<1>16. Ending
  BY <1>1 DEF Ending, HandleInv, HoldersKnown, Kill
<1> QED  BY <1>3, <1>14, <1>15, <1>16, SessionHalts

\* A stopped session whose handle is gone: its runner, if any, is past its process
\* or awaits one that is dead or dying.
LEMMA KillKeeps ==
  ASSUME SchedulerAssumption, TypeOK, TypeOK', HandleInv, SerialInv, NEW s \in Fibers,
         KillSession(s)
  PROVE  SerialInv'
<1>1. PICK k \in Keys : k = fiber[s].key
  BY FieldTypes
<1>2. On(s, k, {"kill"}) /\ On(s, k, Stoppers) /\ fiber[s] \in Activation
  BY <1>1, FieldTypes DEF KillSession, On, Stoppers
<1>3. KeyInv(k) /\ KeyAlone(k) /\ KeyRuns(k) /\ KeyStops(k) /\ KeyRows(k) /\ KeyHolds(k)
  BY DEF SerialInv, KeyInv
<1>4. closed(k) /\ "close" \in Env
  BY <1>2, <1>3 DEF KeyStops, On
<1>5. ASSUME NEW r \in Fibers, On(r, k, {"live"}) PROVE Registered(r)
  <2>1. On(r, k, Runners)
    BY <1>5 DEF On, Runners, Late
  <2> QED  BY <1>2, <1>3, <1>5, <2>1 DEF KeyRuns, RunnerLive, On
<1>6. ~(processes[k] = NoProc /\ dbPid[k] # NoProc)
  BY <1>3, <1>5 DEF KeyHolds, Registered, On
<1>7. /\ proc' = IF processes[k] = NoProc THEN proc ELSE Kill(processes[k])
      /\ processes' = [processes EXCEPT ![k] = NoProc] /\ running' = running \ {k}
      /\ stopping' = stopping \ {k} /\ currentMessage' = [currentMessage EXCEPT ![k] = NoMsg]
      /\ generation' = [generation EXCEPT ![k] = 0]
      /\ UNCHANGED <<message, sessionState, dbPid, issueState>>
      /\ Becomes(s, [fiber[s] EXCEPT !.pc = "interrupt", !.todo = Unsettled(k)])
  BY <1>1, <1>6 DEF KillSession, forget, clearRuntimeState, store
<1> DEFINE a == [fiber[s] EXCEPT !.pc = "interrupt", !.todo = Unsettled(k)]
<1>8. a.pc = "interrupt" /\ a.key = k /\ a.todo = Unsettled(k)
  BY <1>1, <1>2 DEF Activation
<1>9. fiber'[s] = a /\ \A q \in Fibers : q # s => fiber'[q] = fiber[q]
  BY <1>7, Each
<1> HIDE DEF a
<1>10. Halts(s, k)
  BY <1>2, <1>8, <1>9 DEF Halts, On, Stoppers
<1>11. /\ \A q \in Fibers : On(q, k, Stoppers)' => q = s
       /\ \A S : S \subseteq Runners =>
            \A q \in Fibers : /\ On(q, k, S)' <=> On(q, k, S)
                              /\ On(q, k, S) => q # s /\ fiber'[q] = fiber[q]
       /\ KeyAlone(k)'
  BY <1>3, <1>10, RunnersStay
<1>12. \A q \in Fibers : ~On(q, k, Stoppers \ {"interrupt"})'
  BY <1>8, <1>9, <1>11 DEF On
<1>13. Pending(k)' = Pending(k) /\ \A m : RowOf(k, m)' <=> RowOf(k, m)
  BY <1>7 DEF Pending, RowOf
<1>14. closed(k)' /\ k \notin running' /\ k \notin stopping' /\ processes'[k] = NoProc
       /\ currentMessage'[k] = NoMsg
  BY <1>4, <1>7 DEF closed, TypeOK
<1>15. ASSUME NEW r \in Fibers, On(r, k, {"live"})'
       PROVE  ~Registered(r)' /\ proc'[fiber'[r].proc] # "live"
  <2>1. {"live"} \subseteq Runners
    BY DEF Runners, Late
  <2>2. On(r, k, {"live"}) /\ fiber'[r] = fiber[r]
    BY <1>11, <1>15, <2>1
  <2>3. fiber[r].proc \in Procs /\ fiber[r].proc # NoProc /\ Registered(r)
    BY <1>5, <2>2 DEF HandleInv, HoldersKnown, On, SchedulerAssumption, NoProc
  <2>4. fiber[r].proc = processes[k] /\ fiber[r].key = k
    BY <2>2, <2>3 DEF Registered, On
  <2>5. proc'[fiber[r].proc] # "live"
    BY <1>7, <2>3, <2>4 DEF Kill
  <2> QED  BY <1>14, <2>2, <2>3, <2>4, <2>5 DEF Registered
<1>16. KeyRuns(k)'
  <2> SUFFICES ASSUME NEW r \in Fibers, On(r, k, Runners)'
               PROVE  (RunnerRows(k, r) /\ RunnerSlot(k, r) /\ RunnerLive(k, r))'
    BY DEF KeyRuns
  <2>1. On(r, k, Runners) /\ fiber'[r] = fiber[r]
    BY <1>11
  <2>2. RunnerRows(k, r) /\ RunnerSlot(k, r)
    BY <1>3, <2>1 DEF KeyRuns
  <2>3. fiber[r].pc \notin Early
    BY <1>4, <2>2 DEF RunnerSlot, Unhindered
  <2>4. RunnerRows(k, r)'
    BY <1>7, <1>13, <1>14, <2>1, <2>2 DEF RunnerRows
  <2>5. RunnerSlot(k, r)'
    BY <1>14, <2>1, <2>3 DEF RunnerSlot, Early
  <2>6. fiber'[r].pc = "live" => On(r, k, {"live"})'
    BY <2>1 DEF On
  <2>7. RunnerLive(k, r)'
    BY <1>12, <1>14, <1>15, <2>6 DEF RunnerLive, On, Stoppers
  <2> QED  BY <2>4, <2>5, <2>7
<1>17. KeyStops(k)'
  <2>1. \A q \in Fibers : ~On(q, k, {"force", "failing"})'
    BY <1>12 DEF On, Stoppers
  <2> QED  BY <1>4, <1>14, <2>1 DEF KeyStops
<1>18. KeyRows(k)'
  <2>1. On(s, k, {"interrupt", "failing"})' /\ fiber'[s].todo = Unsettled(k)
    BY <1>8, <1>9 DEF On
  <2>2. ASSUME NEW q \in Fibers, On(q, k, {"interrupt", "failing"})', NEW m \in fiber'[q].todo
        PROVE  RowOf(k, m)'
    <3>1. q = s
      BY <1>11, <2>2 DEF On, Stoppers
    <3>2. RowOf(k, m)
      BY <2>1, <2>2, <3>1 DEF Unsettled, RowOf
    <3> QED  BY <1>13, <3>2
  <2>3. ASSUME NEW m \in Msgs, RowOf(k, m)', message'[m].status = "running"
        PROVE  Doomed(k, m)'
    <3>1. m \in fiber'[s].todo
      BY <1>7, <2>1, <2>3 DEF RowOf, Unsettled
    <3> QED  BY <2>1, <3>1 DEF Doomed
  <2>4. \A m, q \in Pending(k)' : m = q
    BY <1>3, <1>13 DEF KeyRows
  <2> QED  BY <1>14, <2>2, <2>3, <2>4 DEF KeyRows
<1>19. KeyHolds(k)'
  <2>1. {"live"} \subseteq Runners
    BY DEF Runners, Late
  <2> QED  BY <1>3, <1>7, <1>11, <1>14, <2>1 DEF KeyHolds
<1>20. KeyInv(k)'
  BY <1>11, <1>16, <1>17, <1>18, <1>19 DEF KeyInv
<1>21. MapsWithin({k}) /\ RowsWithin({k})
  BY <1>7 DEF MapsWithin, RowsWithin, TypeOK
<1>22. Ending
  BY <1>7 DEF Ending, HandleInv, HoldersKnown, Kill
<1> QED  BY <1>10, <1>20, <1>21, <1>22, SessionHalts

\* Message m stays as it is, or session k ends it.
RowEnds(k, m) ==
  /\ message'[m].key = message[m].key
  /\ \/ message'[m].status = message[m].status
     \/ RowOf(k, m) /\ message'[m].status \in {"failed", "interrupted"}

\* Once the handle is gone, what a stop still does is to its session's rows: it
\* reads those to end, and ends them.
LEMMA AfterStop ==
  ASSUME SchedulerAssumption, TypeOK, TypeOK', SerialInv, NEW k \in Keys, NEW s \in Fibers,
         On(s, k, {"force", "interrupt", "failing"}), Halts(s, k), fiber'[s].pc # "kill",
         fiber'[s].pc = "interrupt" => fiber[s].pc = "interrupt",
         fiber'[s].pc \in {"force", "failing"} => fiber[s].pc = "force",
         UNCHANGED <<memory, dbPid, issueState, proc>>,
         \A j \in Keys \ {k} : sessionState'[j] = sessionState[j],
         \A m \in Msgs : RowEnds(k, m),
         On(s, k, {"interrupt", "failing"})' => \A m \in fiber'[s].todo : RowOf(k, m),
         Pending(k)' # {} /\ On(s, k, Stoppers)' => closed(k),
         \A m \in Msgs : message'[m].status = "running" /\ Doomed(k, m) /\ RowOf(k, m)
                         => Doomed(k, m)'
  PROVE  SerialInv'
<1> USE DEF RowEnds
<1>1. On(s, k, Stoppers \ {"kill"}) /\ On(s, k, Stoppers)
  BY DEF On, Stoppers
<1>2. KeyInv(k) /\ KeyAlone(k) /\ KeyRuns(k) /\ KeyStops(k) /\ KeyRows(k) /\ KeyHolds(k)
  BY DEF SerialInv, KeyInv
<1>3. k \notin running /\ processes[k] = NoProc
  BY <1>1, <1>2 DEF KeyStops
<1>4. /\ \A q \in Fibers : On(q, k, Stoppers)' => q = s
      /\ \A S : S \subseteq Runners =>
           \A q \in Fibers : /\ On(q, k, S)' <=> On(q, k, S)
                             /\ On(q, k, S) => q # s /\ fiber'[q] = fiber[q]
      /\ KeyAlone(k)'
  BY <1>2, RunnersStay
<1>5. \A q \in Fibers : ~On(q, k, {"kill"})'
  BY <1>4 DEF On, Stoppers
<1>6. Pending(k)' \subseteq Pending(k) /\ \A m : RowOf(k, m)' <=> RowOf(k, m)
  BY DEF Pending, RowOf
<1>7. closed(k)' <=> closed(k)
  BY DEF closed
<1>8. KeyRuns(k)'
  <2> SUFFICES ASSUME NEW r \in Fibers, On(r, k, Runners)'
               PROVE  (RunnerRows(k, r) /\ RunnerSlot(k, r) /\ RunnerLive(k, r))'
    BY DEF KeyRuns
  <2>1. On(r, k, Runners) /\ fiber'[r] = fiber[r]
    BY <1>4
  <2>2. RunnerRows(k, r) /\ RunnerSlot(k, r) /\ RunnerLive(k, r)
    BY <1>2, <2>1 DEF KeyRuns
  <2>3. fiber[r].pc \notin Early /\ fiber[r].pc \notin Carriers /\ fiber[r].pc # "requeue"
    BY <1>1, <2>2 DEF RunnerSlot, Unhindered, Early, Carriers
  <2>4. RunnerRows(k, r)'
    <3>1. fiber[r].pc \in Settled \cup {"exited"} => closed(k)
      BY <1>3, <2>2, <2>3 DEF RunnerSlot, Settled, Early
    <3> QED  BY <1>6, <1>7, <2>1, <2>2, <2>3, <3>1 DEF RunnerRows
  <2>5. RunnerSlot(k, r)'
    BY <1>3, <1>7, <2>1, <2>2, <2>3 DEF RunnerSlot, Early, memory
  <2>6. RunnerLive(k, r)'
    BY <1>3, <1>5, <2>1, <2>2 DEF RunnerLive, Registered, On, memory
  <2> QED  BY <2>4, <2>5, <2>6
<1>9. KeyStops(k)'
  <2>1. ASSUME NEW q \in Fibers, On(q, k, {"kill", "interrupt"})' PROVE closed(k)
    <3>1. q = s
      BY <1>4, <2>1 DEF On, Stoppers
    <3>2. On(s, k, {"kill", "interrupt"})
      BY <2>1, <3>1 DEF On
    <3> QED  BY <1>2, <3>2 DEF KeyStops
  <2>2. ASSUME NEW q \in Fibers, On(q, k, {"force", "failing"})' PROVE "force" \in Env
    <3>1. q = s
      BY <1>4, <2>2 DEF On, Stoppers
    <3>2. On(s, k, {"force", "failing"})
      BY <2>2, <3>1 DEF On
    <3> QED  BY <1>2, <3>2 DEF KeyStops
  <2> QED  BY <1>2, <1>3, <1>7, <2>1, <2>2 DEF KeyStops, memory
<1>10. KeyRows(k)'
  <2>1. currentMessage'[k] # NoMsg =>
          \E r \in Fibers : On(r, k, Holders)' /\ fiber'[r].msg = currentMessage'[k]
    BY <1>2, CurrentStays DEF memory
  <2>2. ASSUME NEW q \in Fibers, On(q, k, {"interrupt", "failing"})', NEW m \in fiber'[q].todo
        PROVE  RowOf(k, m)'
    <3>1. q = s
      BY <1>4, <2>2 DEF On, Stoppers
    <3> QED  BY <1>6, <2>2, <3>1
  <2>3. \A m, q \in Pending(k)' : m = q
    BY <1>2, <1>6 DEF KeyRows
  <2>4. Pending(k)' # {} => closed(k)' \/ \A q \in Fibers : ~On(q, k, Stoppers)'
    BY <1>4, <1>7
  <2>5. ASSUME NEW m \in Msgs, RowOf(k, m)', message'[m].status = "running"
        PROVE  Doomed(k, m)' \/ \E r \in Fibers : Carries(r, k, m)'
    <3>1. RowOf(k, m) /\ message[m].status = "running"
      BY <1>6, <2>5
    <3>2. CASE Doomed(k, m)
      BY <2>5, <3>1, <3>2
    <3>3. ASSUME NEW r \in Fibers, Carries(r, k, m) PROVE Carries(r, k, m)'
      <4>1. On(r, k, Runners)
        BY <3>3 DEF Carries, On, Runners, Early, Late, Carriers
      <4>2. fiber'[r] = fiber[r]
        BY <1>4, <4>1
      <4> QED  BY <3>3, <4>2 DEF Carries, On, Registered, memory
    <3> QED  BY <1>2, <3>1, <3>2, <3>3 DEF KeyRows
  <2> QED  BY <2>1, <2>2, <2>3, <2>4, <2>5 DEF KeyRows
<1>11. KeyHolds(k)'
  <2>1. {"live"} \subseteq Runners
    BY DEF Runners, Late
  <2> QED  BY <1>2, <1>3, <1>4, <2>1 DEF KeyHolds, Registered, memory
<1>12. KeyInv(k)'
  BY <1>4, <1>8, <1>9, <1>10, <1>11 DEF KeyInv
<1>13. MapsWithin({k}) /\ RowsWithin({k}) /\ Ending
  BY DEF MapsWithin, RowsWithin, Ending, RowOf, memory
<1> QED  BY <1>12, <1>13, SessionHalts

LEMMA ForceReadKeeps ==
  ASSUME SchedulerAssumption, TypeOK, TypeOK', SerialInv, NEW s \in Fibers, ForceRead(s)
  PROVE  SerialInv'
<1>1. PICK k \in Keys : k = fiber[s].key
  BY FieldTypes
<1>2. On(s, k, {"force", "interrupt", "failing"}) /\ On(s, k, Stoppers) /\ fiber[s] \in Activation
  BY <1>1, FieldTypes DEF ForceRead, On, Stoppers
<1> DEFINE a == [fiber[s] EXCEPT !.pc = "failing", !.todo = Unsettled(k)]
<1>3. Becomes(s, a) /\ UNCHANGED <<memory, store, proc>>
  BY <1>1 DEF ForceRead
<1>4. a.pc = "failing" /\ a.key = k /\ a.todo = Unsettled(k)
  BY <1>1, <1>2 DEF Activation
<1> HIDE DEF a
<1>5. fiber'[s] = a /\ \A q \in Fibers : q # s => fiber'[q] = fiber[q]
  BY <1>3, Each
<1>6. Halts(s, k)
  BY <1>2, <1>4, <1>5 DEF Halts, On, Stoppers
<1>7. \A m \in fiber'[s].todo : RowOf(k, m)
  BY <1>4, <1>5 DEF Unsettled, RowOf
<1>8. Pending(k)' # {} => closed(k)
  <2>1. Pending(k)' = Pending(k)
    BY <1>3 DEF Pending, store
  <2>2. KeyRows(k)
    BY DEF SerialInv, KeyInv
  <2> QED  BY <1>2, <2>1, <2>2 DEF KeyRows
<1>9. ASSUME NEW m \in Msgs, message'[m].status = "running", RowOf(k, m) PROVE Doomed(k, m)'
  <2>1. m \in fiber'[s].todo
    BY <1>3, <1>4, <1>5, <1>9 DEF Unsettled, RowOf, store
  <2> QED  BY <1>4, <1>5, <2>1 DEF Doomed, On
<1>10. fiber'[s].pc \notin {"kill", "interrupt"} /\ fiber[s].pc = "force"
  BY <1>4, <1>5 DEF ForceRead
<1>11. \A m \in Msgs : RowEnds(k, m)
  BY <1>3 DEF RowEnds, store
<1> QED  BY <1>2, <1>3, <1>6, <1>7, <1>8, <1>9, <1>10, <1>11, AfterStop DEF store

LEMMA EndKeeps ==
  ASSUME SchedulerAssumption, TypeOK, TypeOK', SerialInv, NEW s \in Fibers,
         Interrupt(s) \/ ForceFail(s)
  PROVE  SerialInv'
<1>1. PICK k \in Keys, todo \in SUBSET Msgs : k = fiber[s].key /\ todo = fiber[s].todo
  BY FieldTypes
<1>2. /\ On(s, k, {"force", "interrupt", "failing"}) /\ On(s, k, {"interrupt", "failing"})
      /\ On(s, k, Stoppers)
  BY <1>1 DEF Interrupt, ForceFail, On, Stoppers
<1>3. PICK st \in {"failed", "interrupted"} : endMessages(s, st)
  BY DEF Interrupt, ForceFail
<1>4. KeyAlone(k) /\ KeyRows(k)
  BY DEF SerialInv, KeyInv
<1>5. todo \subseteq Msgs /\ \A m \in todo : RowOf(k, m)
  BY <1>1, <1>2, <1>4 DEF KeyRows, RowOf
<1>6. Return(s) /\ UNCHANGED <<memory, dbPid, issueState, proc>>
      /\ sessionState' = [sessionState EXCEPT ![k] = "idle"]
      /\ message' = [m \in Msgs |-> IF m \in todo THEN SetStatus(message, m, st)[m] ELSE message[m]]
  BY <1>1, <1>3 DEF endMessages
<1>7. ASSUME NEW m \in Msgs
      PROVE  /\ message'[m].key = message[m].key
             /\ m \in todo => message'[m].status = st
             /\ m \notin todo => message'[m].status = message[m].status
  <2>1. CASE m \in todo
    <3> DEFINE n == message[m].attempts
               b == IF st = "failed" /\ n < MaxAttempts THEN n + 1 ELSE n
    <3>0. message'[m] = SetStatus(message, m, st)[m] /\ message \in [Msgs -> Row]
      BY <1>6, <2>1 DEF TypeOK
    <3>1. message'[m] = [message[m] EXCEPT !.status = st, !.attempts = b]
      BY <3>0 DEF SetStatus
    <3> HIDE DEF b
    <3>2. message[m] \in Row
      BY DEF TypeOK
    <3> QED  BY <2>1, <3>1, <3>2 DEF Row
  <2>2. CASE m \notin todo
    BY <1>6, <2>2
  <2> QED  BY <2>1, <2>2
<1>8. NoFiber.pc = "idle"
  BY NoFiberType
<1>9. fiber'[s] = NoFiber /\ \A q \in Fibers : q # s => fiber'[q] = fiber[q]
  BY <1>6, Each DEF Return
<1>10. Halts(s, k) /\ ~On(s, k, Stoppers)' /\ ~On(s, k, {"interrupt", "failing"})'
  BY <1>2, <1>8, <1>9 DEF Halts, On, Off, Stoppers
<1>11. ASSUME NEW m \in Msgs, message'[m].status = "running", Doomed(k, m) PROVE FALSE
  <2>1. m \in todo
    <3>1. \A q \in Fibers : On(q, k, Stoppers) => q = s
      BY <1>2, <1>4 DEF KeyAlone
    <3>2. \A q \in Fibers : On(q, k, {"force"}) \/ On(q, k, {"interrupt", "failing"}) => q = s
      BY <3>1 DEF On, Stoppers
    <3> QED  BY <1>1, <1>2, <1>11, <3>2 DEF Doomed, On
  <2> QED  BY <1>7, <1>11, <2>1
<1>12. \A m \in Msgs : RowEnds(k, m)
  BY <1>5, <1>7 DEF RowEnds
<1>13. \A j \in Keys \ {k} : sessionState'[j] = sessionState[j]
  BY <1>6 DEF TypeOK
<1>14. fiber'[s].pc \notin {"kill", "interrupt", "force", "failing"}
  BY <1>8, <1>9
<1> QED  BY <1>2, <1>6, <1>10, <1>11, <1>12, <1>13, <1>14, AfterStop

-----------------------------------------------------------------------------
(* Every step of the engine                                                *)

LEMMA ResumeKeeps ==
  ASSUME SchedulerAssumption, Serial, TypeOK, TypeOK', HandleInv, SerialInv, NEW r \in Fibers,
         Turn(r), Resume(r)
  PROVE  SerialInv'
<1>1. fiber[r].key \in Keys
  BY FieldTypes
<1>2. CASE EnqueueStep(r)
  BY <1>2, EnqueueKeeps, TakeSlotKeeps DEF EnqueueStep
<1>3. CASE ExecStep(r)
  <2>1. CASE GateAllows(r) \/ GateDenies(r) \/ ReleaseDenied(r) \/ DequeueAfterGate(r)
    BY <2>1, GateKeeps
  <2>2. CASE Spawn(r)
    BY <2>2, SpawnRuns
  <2>3. CASE SpawnFails(r)
    BY <1>1, <2>3, OutcomeKeeps DEF SpawnFails, On
  <2>4. CASE SpawnThrows(r)
    BY <2>4 DEF SpawnThrows, Serial
  <2>5. CASE ObserveExit(r)
    BY <2>5, ExitRuns
  <2>6. CASE StoreOutcome(r)
    <3>1. PICK st \in {"done", "failed"} : message' = SetStatus(message, fiber[r].msg, st)
      BY <2>6 DEF StoreOutcome
    <3> QED  BY <1>1, <2>6, <3>1, OutcomeKeeps DEF StoreOutcome, On
  <2> QED  BY <1>3, <2>1, <2>2, <2>3, <2>4, <2>5, <2>6 DEF ExecStep
<1>4. CASE FinishStep(r)
  <2>1. CASE Requeue(r)
    <3>1. On(r, fiber[r].key, {"requeue", "drained"})
      BY <2>1 DEF Requeue, On
    <3> QED  BY <1>1, <2>1, <3>1, dequeueKeeps DEF Requeue
  <2> QED  BY <1>4, <2>1, FinishMoves, NudgeKeeps, SettleKeeps DEF FinishStep
<1>5. CASE DrainStep(r)
  BY <1>5, DrainKeeps
<1> QED  BY <1>2, <1>3, <1>4, <1>5 DEF Resume

LEMMA StepKeeps ==
  ASSUME SchedulerAssumption, Serial, TypeOK, TypeOK', HandleInv, SerialInv, EngineNext
  PROVE  SerialInv'
<1>1. ASSUME NEW k \in Keys, Deliver(k) \/ ObserverFixes(k) PROVE SerialInv'
  BY <1>1, DeliverKeeps, ObserverFixesKeeps
<1>2. ASSUME NEW k \in Keys, Stimulus(k) PROVE SerialInv'
  <2>1. Close(k) \/ ForceStop(k)
    BY <1>2 DEF Stimulus, Serial, Halt, HaltAll, Reopen, Burst, FindDead, FindStuck, FindOvertime
  <2> QED  BY <2>1, CloseKeeps, ForceStopKeeps
<1>3. ASSUME NEW r \in Fibers, Turn(r), EngineResume(r) PROVE SerialInv'
  <2>1. CASE Resume(r)
    BY <1>3, <2>1, ResumeKeeps
  <2>2. CASE ControlStep(r)
    <3>1. KillSession(r) \/ Interrupt(r) \/ ForceRead(r) \/ ForceFail(r)
      BY <2>2 DEF ControlStep, SerialInv, KnownPCs, Runners, Early, Late, Stoppers, Off,
                  Reaped, RetryRun, FailDead, RestartDead, BuryDead, RestartStuck,
                  GiveUpStuck, StopOvertime
    <3> QED  BY <3>1, KillKeeps, EndKeeps, ForceReadKeeps
  <2> QED  BY <1>3, <2>1, <2>2 DEF EngineResume
<1>4. ASSUME NEW m \in Msgs, Retry(m) PROVE SerialInv'
  BY <1>4 DEF Retry, Serial
<1> QED  BY <1>1, <1>2, <1>3, <1>4, AroundKeeps DEF EngineNext

LEMMA InitKeeps ==
  ASSUME SchedulerAssumption, Init
  PROVE  SerialInv
<1>1. \A r \in Fibers : fiber[r].pc = "idle"
  BY NoFiberType DEF Init
<1>2. \A r \in Fibers, k \in Keys : ~On(r, k, Runners) /\ ~On(r, k, Stoppers)
  BY <1>1 DEF On, Runners, Early, Late, Stoppers
<1>3. KnownPCs
  BY <1>1 DEF KnownPCs, Off
<1> SUFFICES ASSUME NEW k \in Keys PROVE KeyInv(k)
  BY <1>3 DEF SerialInv
<1>4. /\ running = {} /\ stopping = {} /\ processes[k] = NoProc /\ currentMessage[k] = NoMsg
      /\ dbPid[k] = NoProc /\ ~closed(k)
      /\ \A m \in Msgs : message[m].status = "none"
  BY DEF Init, closed
<1>5. Pending(k) = {}
  BY <1>4 DEF Pending
<1>6. \A r \in Fibers : ~On(r, k, Runners) /\ ~On(r, k, Stoppers)
  BY <1>2
<1>7. KeyAlone(k) /\ KeyRuns(k) /\ KeyHolds(k)
  BY <1>4, <1>6 DEF KeyAlone, KeyRuns, KeyHolds
<1>8. \A r \in Fibers : /\ ~On(r, k, {"kill", "interrupt"}) /\ ~On(r, k, Stoppers \ {"kill"})
                        /\ ~On(r, k, {"interrupt", "failing"}) /\ ~On(r, k, {"force", "failing"})
  BY <1>1 DEF On, Stoppers
<1>9. KeyStops(k) /\ KeyRows(k)
  BY <1>4, <1>5, <1>8 DEF KeyStops, KeyRows, RowOf
<1> QED  BY <1>7, <1>9 DEF KeyInv

-----------------------------------------------------------------------------
(* The results                                                             *)

\* What a session holds agrees with what its activations do, at all times.
LEMMA SerialInvariant ==
  Serial /\ EngineSpec => [](TypeOK /\ HandleInv /\ SerialInv)
<1> SUFFICES ASSUME Serial PROVE EngineSpec => [](TypeOK /\ HandleInv /\ SerialInv)
  OBVIOUS
<1>1. Init => SerialInv
  BY InitKeeps, SchedulerAssumption
<1>2. TypeOK /\ TypeOK' /\ HandleInv /\ SerialInv /\ [EngineNext]_vars => SerialInv'
  <2>1. ASSUME TypeOK, TypeOK', HandleInv, SerialInv, EngineNext PROVE SerialInv'
    BY <2>1, StepKeeps, SchedulerAssumption
  <2>2. ASSUME TypeOK, TypeOK', SerialInv, UNCHANGED vars PROVE SerialInv'
    <3>1. UNCHANGED <<memory, fiber, store, proc>>
      BY <2>2 DEF vars
    <3>2. Within({})
      BY <3>1 DEF Within, MapsWithin, RowsWithin, Ending, memory, store
    <3> QED  BY <2>2, <3>2, Elsewhere
  <2> QED  BY <2>1, <2>2
<1> QED  BY <1>1, <1>2, HandleInvariant, PTL DEF EngineSpec

\* A live process has a registered handle, a slot and a running message.
LEMMA Managed ==
  ASSUME TypeOK, SerialInv
  PROVE  LiveIsManaged
<1> SUFFICES ASSUME NEW r \in Fibers, fiber[r].pc = "live", proc[fiber[r].proc] = "live"
             PROVE  /\ fiber[r].key \in running
                    /\ processes[fiber[r].key] = fiber[r].proc
                    /\ message[fiber[r].msg].status = "running"
  BY DEF LiveIsManaged
<1>1. PICK k \in Keys : k = fiber[r].key
  BY FieldTypes
<1>2. On(r, k, Runners)
  BY <1>1 DEF On, Runners, Late
<1>3. RunnerLive(k, r)
  BY <1>2, Running
<1> QED  BY <1>1, <1>3 DEF RunnerLive, Registered

LEMMA SlotRuns ==
  ASSUME TypeOK, SerialInv
  PROVE  SlotHasRun
BY DEF TypeOK, SerialInv, KeyInv, KeyHolds, SlotHasRun, On

LEMMA Attended ==
  ASSUME TypeOK, SerialInv
  PROVE  RunningIsAttended
<1> SUFFICES ASSUME NEW m \in Msgs, message[m].status = "running"
             PROVE  \E r \in Fibers :
                      \/ fiber[r].msg = m \/ m \in fiber[r].todo
                      \/ fiber[r].key = message[m].key /\ fiber[r].pc \in {"force", "dead"}
  BY DEF RunningIsAttended
<1>1. PICK k \in Keys : k = message[m].key
  BY DEF TypeOK, Row
<1>2. RowOf(k, m)
  BY <1>1 DEF RowOf
<1>3. Doomed(k, m) \/ \E r \in Fibers : Carries(r, k, m)
  BY <1>2 DEF SerialInv, KeyInv, KeyRows
<1> QED  BY <1>1, <1>3 DEF Doomed, Carries, On

LEMMA Watched ==
  ASSUME TypeOK, HandleInv, SerialInv
  PROVE  WatchedRun
<1> SUFFICES ASSUME NEW k \in Keys, processes[k] # NoProc PROVE sessionState[k] = "running"
  BY DEF WatchedRun
<1>1. PICK r \in Fibers : RunsProcess(r, processes[k]) /\ fiber[r].key = k
  BY DEF HandleInv, RegisteredHandle
<1>2. On(r, k, Runners) /\ fiber[r].pc = "live" /\ Registered(r)
  BY <1>1 DEF RunsProcess, On, Runners, Late, Registered
<1> QED  BY <1>2, Running DEF RunnerLive

LEMMA AtMostOne ==
  ASSUME NEW S, \A p, q \in S : p = q
  PROVE  Cardinality(S) <= 1
<1>1. CASE S = {}
  BY <1>1, FS_EmptySet
<1>2. CASE S # {}
  <2>1. PICK p : S = {p}
    BY <1>2
  <2>2. Cardinality({p}) = 1
    BY FS_Singleton
  <2> QED  BY <2>1, <2>2
<1> QED  BY <1>1, <1>2

LEMMA Single ==
  ASSUME TypeOK, SerialInv
  PROVE  OneProcess
<1> SUFFICES ASSUME NEW k \in Keys PROVE Cardinality(LiveOf(k)) <= 1
  BY DEF OneProcess
<1>1. \A r, q \in Fibers : On(r, k, {"live"}) /\ On(q, k, {"live"}) => r = q
  BY DEF SerialInv, KeyInv, KeyAlone, On, Runners, Late
<1>2. \A p, q \in LiveOf(k) : p = q
  BY <1>1 DEF LiveOf, RunsProcess, On
<1> QED  BY <1>2, AtMostOne

LEMMA Quiet ==
  ASSUME TypeOK, SerialInv
  PROVE  ClosedIsQuiet
<1> SUFFICES ASSUME NEW k \in Keys, issueState[k] = "closed",
                    \A r \in Fibers : fiber[r].key = k => fiber[r].pc \notin ClosePCs
             PROVE  LiveOf(k) = {}
  BY DEF ClosedIsQuiet
<1>1. \A s \in Fibers : ~On(s, k, {"kill"})
  BY DEF On, ClosePCs
<1>2. k \notin running
  BY <1>1 DEF SerialInv, KeyInv, KeyStops, closed
<1>3. LiveIsManaged
  BY Managed
<1> QED  BY <1>2, <1>3 DEF LiveIsManaged, LiveOf, RunsProcess

\* Every live process is under control, whatever the gate, the spawn, the model
\* and the clock do: its session holds a slot, its handle is registered, and its
\* message runs (enqueueOrRun, execProcess, finishRun, drainGlobalPending).
THEOREM LiveIsManagedHolds ==
  Serial /\ Spec => []LiveIsManaged
BY SerialInvariant, SchedulerIsEngine, Managed, PTL

\* No session ever has two live processes.
THEOREM OneProcessHolds ==
  Serial /\ Spec => []OneProcess
BY SerialInvariant, SchedulerIsEngine, Single, PTL

\* No slot is lost: each one has an activation on its way to give it back.
THEOREM SlotHasRunHolds ==
  Serial /\ Spec => []SlotHasRun
BY SerialInvariant, SchedulerIsEngine, SlotRuns, PTL

\* No message is left running that nobody will end.
THEOREM RunningIsAttendedHolds ==
  Serial /\ Spec => []RunningIsAttended
BY SerialInvariant, SchedulerIsEngine, Attended, PTL

\* A process the engine has registered is one that observeIssue looks at: its
\* session row says running.
THEOREM WatchedRunHolds ==
  Serial /\ Spec => []WatchedRun
BY SerialInvariant, SchedulerIsEngine, Watched, PTL

\* A closing or a force-stop that hits a session at rest or at work leaves no
\* process, no slot and no running row behind.
THEOREM StopsLeaveNothingHolds ==
  Serial /\ EngineSpec => []StopsLeaveNothing
<1>1. TypeOK /\ SerialInv => StopsLeaveNothing
  BY Managed, SlotRuns, Attended DEF StopsLeaveNothing
<1> QED  BY <1>1, SerialInvariant, PTL

\* Once handleClosed is through, no process works for the closed issue, now or
\* later: no drain, nudge or queued message brings one back.
THEOREM ClosedIsQuietHolds ==
  Serial /\ EngineSpec => []ClosedIsQuiet
BY SerialInvariant, Quiet, PTL

-----------------------------------------------------------------------------
(* Every step of the scheduler is one of the lifecycle of its rows, or none *)

\* Besides, no issue is closed and no session is stopped by force.
Undisturbed == Serial /\ Env \cap {"close", "force"} = {}

\* the rows of module MessageLifecycle
rows == [m \in Msgs |-> rowOf(m)]

LEMMA RowsStay ==
  ASSUME \A m \in Msgs : /\ message'[m].key = message[m].key
                         /\ message'[m].status = message[m].status
                         /\ message'[m].attempts = message[m].attempts
  PROVE  UNCHANGED rows
<1>1. ASSUME NEW m \in Msgs PROVE rowOf(m)' = rowOf(m)
  BY DEF rowOf
<1> QED  BY <1>1 DEF rows

LEMMA RowWritten ==
  ASSUME NEW m \in Msgs, \A q \in Msgs : q # m => message'[q] = message[q]
  PROVE  rows' = [rows EXCEPT ![m] = rowOf(m)']
<1>1. ASSUME NEW q \in Msgs, q # m PROVE rowOf(q)' = rowOf(q)
  BY <1>1 DEF rowOf
<1> QED  BY <1>1 DEF rows

LEMMA AttemptsSet ==
  ASSUME TypeOK, NEW m \in Msgs, NEW st, message' = SetStatus(message, m, st)
  PROVE  LET n == message[m].attempts
         IN  message'[m].attempts = IF st = "failed" /\ n < MaxAttempts THEN n + 1 ELSE n
<1> DEFINE n == message[m].attempts
           b == IF st = "failed" /\ n < MaxAttempts THEN n + 1 ELSE n
<1>1. message' = [message EXCEPT ![m] = [message[m] EXCEPT !.status = st, !.attempts = b]]
  BY DEF SetStatus
<1> HIDE DEF b
<1>2. message \in [Msgs -> Row] /\ message[m] \in Row
  BY DEF TypeOK
<1>3. message'[m].attempts = b
  BY <1>1, <1>2 DEF Row
<1> QED  BY <1>3 DEF b

RowType == [key : Keys \cup {NoKey}, status : Status, attempts : Nat]

\* What an updated row holds
LEMMA RowUpdate ==
  ASSUME NEW x \in RowType, NEW st \in Status, NEW n \in Nat
  PROVE  /\ [x EXCEPT !.status = st] = [key |-> x.key, status |-> st, attempts |-> x.attempts]
         /\ [x EXCEPT !.status = st, !.attempts = n] = [key |-> x.key, status |-> st, attempts |-> n]
<1> DEFINE a == [x EXCEPT !.status = st]
           b == [x EXCEPT !.status = st, !.attempts = n]
<1>1. a \in RowType /\ a.key = x.key /\ a.status = st /\ a.attempts = x.attempts
  BY DEF RowType
<1>2. b \in RowType /\ b.key = x.key /\ b.status = st /\ b.attempts = n
  BY DEF RowType
<1> HIDE DEF a, b
<1>3. a = [key |-> x.key, status |-> st, attempts |-> x.attempts]
  BY <1>1 DEF RowType
<1>4. b = [key |-> x.key, status |-> st, attempts |-> n]
  BY <1>2 DEF RowType
<1> QED  BY <1>3, <1>4 DEF a, b

LEMMA RowFilled ==
  ASSUME NEW x \in RowType, NEW k \in Keys
  PROVE  [x EXCEPT !.key = k, !.status = "pending"]
           = [key |-> k, status |-> "pending", attempts |-> x.attempts]
<1> DEFINE c == [x EXCEPT !.key = k, !.status = "pending"]
<1>1. c \in RowType /\ c.key = k /\ c.status = "pending" /\ c.attempts = x.attempts
  BY DEF RowType, Status
<1> HIDE DEF c
<1>2. c = [key |-> k, status |-> "pending", attempts |-> x.attempts]
  BY <1>1 DEF RowType
<1> QED  BY <1>2 DEF c

LEMMA RowTypes ==
  ASSUME TypeOK
  PROVE  rows \in [Msgs -> RowType]
<1>1. ASSUME NEW m \in Msgs PROVE rowOf(m) \in RowType
  <2>1. /\ message[m].key \in Keys /\ message[m].status \in Status
        /\ message[m].attempts \in Nat
    BY SchedulerAssumption DEF TypeOK, Row, SchedulerAssumption
  <2> QED  BY <2>1 DEF rowOf, RowType
<1> QED  BY <1>1 DEF rows

\* A status that updateMessageStatus writes is one step of the row.
LEMMA RowSet ==
  ASSUME TypeOK, NEW m \in Msgs, message[m].status # "none",
         NEW st \in Status \ {"none"}, message' = SetStatus(message, m, st)
  PROVE  LET n == rows[m].attempts
         IN  /\ rows' = [rows EXCEPT ![m] = [rows[m] EXCEPT
                           !.status = st,
                           !.attempts = IF st = "failed" /\ n < MaxAttempts THEN n + 1 ELSE n]]
             /\ st # "failed" => rows' = [rows EXCEPT ![m] = [rows[m] EXCEPT !.status = st]]
<1> DEFINE n == message[m].attempts
           b == IF st = "failed" /\ n < MaxAttempts THEN n + 1 ELSE n
<1>1. /\ message'[m].status = st /\ message'[m].key = message[m].key
      /\ \A q \in Msgs : q # m => message'[q] = message[q]
  BY StatusSet
<1>2. message'[m].attempts = b
  BY AttemptsSet
<1>3. rows' = [rows EXCEPT ![m] = rowOf(m)']
  BY <1>1, RowWritten
<1>4. rows[m] = rowOf(m) /\ rows[m].attempts = n
  BY DEF rows, rowOf
<1>5. (st # "failed" => b = n) /\ b \in Nat
  BY RowTypes, <1>4 DEF RowType
<1> HIDE DEF b
<1>6. rowOf(m)' = [key |-> rows[m].key, status |-> st, attempts |-> b]
  BY <1>1, <1>2 DEF rowOf, rows
<1>7. /\ rowOf(m)' = [rows[m] EXCEPT !.status = st, !.attempts = b]
      /\ b = n => rowOf(m)' = [rows[m] EXCEPT !.status = st]
  <2>1. PICK x \in RowType : x = rows[m]
    BY RowTypes
  <2>2. /\ [x EXCEPT !.status = st] = [key |-> x.key, status |-> st, attempts |-> x.attempts]
        /\ [x EXCEPT !.status = st, !.attempts = b] = [key |-> x.key, status |-> st, attempts |-> b]
    BY <1>5, <2>1, RowUpdate
  <2> QED  BY <1>4, <1>5, <1>6, <2>1, <2>2
<1> QED  BY <1>3, <1>4, <1>5, <1>7 DEF b

LEMMA RowFails ==
  ASSUME TypeOK, NEW m \in Msgs, message[m].status \in {"pending", "running"},
         message' = SetStatus(message, m, "failed")
  PROVE  Lifecycle!LifecycleNext
<1>1. Lifecycle!Fail(m)
  BY RowSet DEF Lifecycle!Fail, Status, rows, rowOf
<1> QED  BY <1>1 DEF Lifecycle!LifecycleNext

LEMMA RowAnswered ==
  ASSUME TypeOK, NEW m \in Msgs, message[m].status = "running",
         message' = SetStatus(message, m, "done")
  PROVE  Lifecycle!LifecycleNext
<1>1. rows' = [rows EXCEPT ![m] = [rows[m] EXCEPT !.status = "done"]]
  BY RowSet DEF Status
<1>2. Lifecycle!Answer(m)
  BY <1>1 DEF Lifecycle!Answer, Lifecycle!Become, rows, rowOf
<1> QED  BY <1>2 DEF Lifecycle!LifecycleNext

LEMMA RowStarted ==
  ASSUME TypeOK, NEW m \in Msgs, message[m].status = "pending",
         \A q \in Msgs : message[q].key = message[m].key => message[q].status # "running",
         message' = SetStatus(message, m, "running")
  PROVE  Lifecycle!LifecycleNext
<1>1. rows' = [rows EXCEPT ![m] = [rows[m] EXCEPT !.status = "running"]]
  BY RowSet DEF Status
<1>2. ASSUME NEW q \in Msgs, rows[q].key = rows[m].key PROVE rows[q].status # "running"
  BY <1>2 DEF rows, rowOf
<1>3. rows[m].status = "pending"
  BY DEF rows, rowOf
<1>4. Lifecycle!Start(m)
  BY <1>1, <1>2, <1>3 DEF Lifecycle!Start, Lifecycle!Become, rows
<1> QED  BY <1>4 DEF Lifecycle!LifecycleNext

\* A row that is not stored yet counts no attempts.
Blank == \A m \in Msgs : rows[m].status = "none" => rows[m].attempts = 0

LEMMA BlankStays ==
  ASSUME Blank, Lifecycle!LifecycleNext \/ UNCHANGED rows
  PROVE  Blank'
<1>1. rows = [m \in Msgs |-> rows[m]] /\ rows' = [m \in Msgs |-> rows'[m]]
  BY DEF rows
<1>2. ASSUME NEW m \in Msgs, NEW st, NEW n, st # "none",
             rows' = [rows EXCEPT ![m] = [rows[m] EXCEPT !.status = st, !.attempts = n]]
      PROVE  Blank'
  <2>1. rows[m] = [key |-> rows[m].key, status |-> rows[m].status, attempts |-> rows[m].attempts]
    BY DEF rows, rowOf
  <2>2. rows'[m].status = st /\ \A q \in Msgs : q # m => rows'[q] = rows[q]
    BY <1>1, <1>2, <2>1
  <2> QED  BY <1>2, <2>2 DEF Blank
<1>3. CASE UNCHANGED rows
  BY <1>3 DEF Blank
<1>4. ASSUME NEW m \in Msgs, Lifecycle!Fail(m) PROVE Blank'
  <2>1. PICK n : n = IF rows[m].attempts < MaxAttempts THEN rows[m].attempts + 1
                                                       ELSE rows[m].attempts
    OBVIOUS
  <2>2. rows' = [rows EXCEPT ![m] = [rows[m] EXCEPT !.status = "failed", !.attempts = n]]
    BY <1>4, <2>1 DEF Lifecycle!Fail, rows
  <2> QED  BY <1>2, <2>2
<1>5. ASSUME NEW m \in Msgs, Lifecycle!FallBack(m) PROVE Blank'
  <2>1. rows' = [rows EXCEPT ![m] = [rows[m] EXCEPT !.status = "pending", !.attempts = 1]]
    BY <1>5 DEF Lifecycle!FallBack, rows
  <2> QED  BY <1>2, <2>1
<1>6. ASSUME NEW m \in Msgs, NEW st, Lifecycle!Become(m, st), st # "none" PROVE Blank'
  <2>1. rows[m] = [key |-> rows[m].key, status |-> rows[m].status, attempts |-> rows[m].attempts]
    BY DEF rows, rowOf
  <2>2. rows' = [rows EXCEPT ![m] = [rows[m] EXCEPT !.status = st]]
    BY <1>6 DEF Lifecycle!Become, rows
  <2>3. rows'[m].status = st /\ \A q \in Msgs : q # m => rows'[q] = rows[q]
    BY <1>1, <2>1, <2>2
  <2> QED  BY <1>6, <2>3 DEF Blank
<1>7. ASSUME NEW m \in Msgs, Lifecycle!Start(m) \/ Lifecycle!Answer(m) PROVE Blank'
  BY <1>6, <1>7 DEF Lifecycle!Start, Lifecycle!Answer
<1>8. ASSUME NEW m \in Msgs, NEW k \in Keys, Lifecycle!Create(m, k) PROVE Blank'
  <2>1. rows[m] = [key |-> rows[m].key, status |-> rows[m].status, attempts |-> rows[m].attempts]
    BY DEF rows, rowOf
  <2>2. rows' = [rows EXCEPT ![m] = [rows[m] EXCEPT !.key = k, !.status = "pending"]]
    BY <1>8 DEF Lifecycle!Create, rows
  <2>3. rows'[m].status = "pending" /\ \A q \in Msgs : q # m => rows'[q] = rows[q]
    BY <1>1, <2>1, <2>2
  <2> QED  BY <2>3 DEF Blank
<1>9. ASSUME NEW S, Lifecycle!Interrupt(S) PROVE Blank'
  <2>1. \A m \in Msgs : rows'[m] = IF m \in S THEN [rows[m] EXCEPT !.status = "interrupted"]
                                               ELSE rows[m]
    BY <1>9 DEF Lifecycle!Interrupt, rows
  <2>2. ASSUME NEW m \in Msgs, m \in S PROVE rows'[m].status = "interrupted"
    <3>1. rows[m] = [key |-> rows[m].key, status |-> rows[m].status, attempts |-> rows[m].attempts]
      BY DEF rows, rowOf
    <3> QED  BY <2>1, <2>2, <3>1
  <2> QED  BY <2>1, <2>2 DEF Blank
<1> QED  BY <1>3, <1>4, <1>5, <1>7, <1>8, <1>9 DEF Lifecycle!LifecycleNext

\* A new message is a new row.
LEMMA RowCreated ==
  ASSUME TypeOK, Blank, NEW m \in Fresh, NEW k \in Keys, NEW isUser,
         message' = [message EXCEPT ![m] = NewRow(k, isUser)]
  PROVE  Lifecycle!LifecycleNext
<1>1. m \in Msgs /\ message[m].status = "none"
  BY DEF Fresh
<1>2. /\ message'[m] = NewRow(k, isUser)
      /\ \A q \in Msgs : q # m => message'[q] = message[q]
  BY <1>1 DEF TypeOK
<1>3. rows' = [rows EXCEPT ![m] = rowOf(m)']
  BY <1>1, <1>2, RowWritten
<1>4. rowOf(m)' = [key |-> k, status |-> "pending", attempts |-> 0]
  BY <1>2 DEF rowOf, NewRow
<1>5. rows[m] = [key |-> NoKey, status |-> "none", attempts |-> 0]
  BY <1>1 DEF rows, rowOf, Blank
<1>6. rowOf(m)' = [rows[m] EXCEPT !.key = k, !.status = "pending"]
  <2>1. rows[m] \in RowType /\ rows[m].attempts = 0
    BY <1>1, <1>5, RowTypes
  <2> QED  BY <1>4, <2>1, RowFilled
<1>7. Lifecycle!Create(m, k)
  BY <1>1, <1>3, <1>5, <1>6 DEF Lifecycle!Create, rows
<1> QED  BY <1>1, <1>7 DEF Lifecycle!LifecycleNext

\* With no stop about, a message runs in the hands of the activation that runs its
\* session.
LEMMA NoneRuns ==
  ASSUME TypeOK, SerialInv, Undisturbed, NEW k \in Keys,
         \A r \in Fibers : On(r, k, Runners) => fiber[r].pc \notin Carriers \cup {"live", "exited"}
  PROVE  \A q \in Msgs : message[q].key = k => message[q].status # "running"
<1>1. KeyRows(k) /\ KeyStops(k)
  BY DEF SerialInv, KeyInv
<1>2. SUFFICES ASSUME NEW q \in Msgs, message[q].key = k, message[q].status = "running"
               PROVE  FALSE
  OBVIOUS
<1>3. ~Doomed(k, q)
  <2>1. \A s \in Fibers : ~On(s, k, {"kill", "interrupt"}) /\ ~On(s, k, {"force", "failing"})
    BY <1>1 DEF KeyStops, Undisturbed
  <2> QED  BY <2>1 DEF Doomed, On
<1>4. \A r \in Fibers : ~Carries(r, k, q)
  BY DEF Carries, On, Runners, Early, Late, Carriers
<1> QED  BY <1>1, <1>2, <1>3, <1>4 DEF KeyRows, RowOf

\* The same, seen from that activation.
LEMMA NoneRunsBut ==
  ASSUME TypeOK, SerialInv, Undisturbed, NEW k \in Keys, NEW r \in Fibers, On(r, k, Runners),
         fiber[r].pc \notin Carriers \cup {"live", "exited"}
  PROVE  \A q \in Msgs : message[q].key = k => message[q].status # "running"
<1>1. \A q \in Fibers : On(q, k, Runners) => q = r
  BY DEF SerialInv, KeyInv, KeyAlone
<1> QED  BY <1>1, NoneRuns

\* Steps that leave the rows alone
LEMMA Unwritten ==
  ASSUME message' = message
  PROVE  UNCHANGED rows
BY RowsStay

LEMMA EnqueueImplements ==
  ASSUME SchedulerAssumption, TypeOK, SerialInv, Undisturbed, Blank, NEW r \in Fibers,
         EnqueueStep(r)
  PROVE  Lifecycle!LifecycleNext \/ UNCHANGED rows
<1>1. PICK k \in Keys : k = fiber[r].key
  BY FieldTypes
<1>2. fiber[r].pc # "preempt"
  BY DEF SerialInv, KnownPCs, Runners, Early, Late, Stoppers, Off
<1>3. CASE CreateMessage(r)
  BY <1>1, <1>3, RowCreated DEF CreateMessage
<1>4. CASE Preempt(r)
  <2>1. On(r, k, Runners) /\ fiber[r].pc = "enqueue"
    BY <1>1, <1>4 DEF On, Runners, Early, Preempt
  <2>2. k \notin running
    BY <2>1, NoSlot DEF RunPCs
  <2> QED  BY <1>1, <1>4, <2>2 DEF Preempt
<1>5. CASE Queue(r) \/ TakeSlot(r)
  BY <1>5, Unwritten DEF Queue, TakeSlot, store
<1>6. CASE Execute(r)
  <2>1. PICK m : m = fiber[r].msg
    OBVIOUS
  <2>2. On(r, k, Runners) /\ fiber[r].pc = "enqueue" /\ claimAndRun(r, k, m)
    BY <1>1, <1>6, <2>1 DEF On, Runners, Early, Execute
  <2>3. m \in Msgs /\ message[m].key = k
    BY <2>1, <2>2, Running DEF RunnerRows, RowOf
  <2>4. \A q \in Msgs : message[q].key = k => message[q].status # "running"
    BY <2>2, NoneRunsBut DEF Carriers
  <2> QED  BY <2>2, <2>3, <2>4, RowStarted, Unwritten DEF claimAndRun
<1> QED  BY <1>2, <1>3, <1>4, <1>5, <1>6 DEF EnqueueStep, PreemptKill

LEMMA ExecImplements ==
  ASSUME SchedulerAssumption, TypeOK, SerialInv, Undisturbed, NEW r \in Fibers, ExecStep(r)
  PROVE  Lifecycle!LifecycleNext \/ UNCHANGED rows
<1>1. PICK k \in Keys, m \in Msgs \cup {NoMsg} : k = fiber[r].key /\ m = fiber[r].msg
  BY FieldTypes
<1>2. fiber[r].pc # "next"
  BY DEF SerialInv, KnownPCs, Runners, Early, Late, Stoppers, Off
<1>3. ASSUME fiber[r].pc \in {"gate", "spawn", "exited"}
      PROVE  m \in Msgs /\ message[m].status = "running"
  <2>1. On(r, k, Runners)
    BY <1>1, <1>3 DEF On, Runners, Early, Late
  <2>2. RunnerRows(k, r) /\ KeyStops(k)
    BY <2>1, Running
  <2>3. ~closed(k)
    BY <2>2 DEF KeyStops, Undisturbed
  <2> QED  BY <1>1, <1>3, <2>2, <2>3 DEF RunnerRows, RowOf, Carriers
<1>4. CASE GateAllows(r) \/ ReleaseDenied(r) \/ Spawn(r) \/ SpawnThrows(r) \/ ObserveExit(r)
  BY <1>4, Unwritten DEF GateAllows, ReleaseDenied, Spawn, SpawnThrows, ObserveExit, store
<1>5. CASE GateDenies(r) \/ SpawnFails(r)
  BY <1>1, <1>3, <1>5, RowFails DEF GateDenies, SpawnFails
<1>6. CASE StoreOutcome(r)
  BY <1>1, <1>3, <1>6, RowFails, RowAnswered DEF StoreOutcome
<1> QED  BY <1>2, <1>4, <1>5, <1>6 DEF ExecStep, DequeueAfterGate

\* A dequeued message is started, unless it has expired or a drain has claimed it.
LEMMA dequeueImplements ==
  ASSUME SchedulerAssumption, TypeOK, SerialInv, Undisturbed, NEW r \in Fibers, NEW k \in Keys,
         On(r, k, {"requeue", "drained"}), NEW m, m = fiber[r].msg, dequeueOrIdle(r, k, m)
  PROVE  Lifecycle!LifecycleNext \/ UNCHANGED rows
<1>1. On(r, k, Runners)
  BY DEF On, Runners, Early
<1>2. /\ m \in Msgs /\ message[m].key = k
      /\ \/ fiber[r].pc = "requeue" /\ message[m].status = "pending"
         \/ fiber[r].pc = "drained" /\ message[m].status = "running"
  <2>1. RunnerRows(k, r)
    BY <1>1, Running
  <2>2. CASE fiber[r].pc = "requeue"
    <3>1. fiber[r].pc # "ack" /\ fiber[r].msg # NoMsg
      BY <2>1, <2>2 DEF RunnerRows
    <3>2. RowOf(k, fiber[r].msg) /\ message[fiber[r].msg].status = "pending"
      BY <2>1, <2>2, <3>1 DEF RunnerRows
    <3> QED  BY <2>2, <3>2 DEF RowOf
  <2>3. CASE fiber[r].pc = "drained"
    BY <2>1, <2>3 DEF RunnerRows, RowOf, Carriers
  <2> QED  BY <2>2, <2>3 DEF On
<1>3. CASE message[m].stale
  BY <1>2, <1>3, RowFails DEF dequeueOrIdle
<1>4. CASE ~message[m].stale /\ fiber[r].pc = "requeue"
  <2>1. \A q \in Msgs : message[q].key = k => message[q].status # "running"
    BY <1>1, <1>4, NoneRunsBut DEF Carriers
  <2> QED  BY <1>2, <1>4, <2>1, RowStarted DEF dequeueOrIdle
<1>5. CASE ~message[m].stale /\ fiber[r].pc = "drained"
  <2>1. message' = SetStatus(message, m, "running") /\ message[m].status = "running"
    BY <1>2, <1>5 DEF dequeueOrIdle
  <2>2. /\ message'[m].status = "running" /\ message'[m].key = message[m].key
        /\ \A q \in Msgs : q # m => message'[q] = message[q]
    BY <1>2, <2>1, StatusSet
  <2>3. message'[m].attempts = message[m].attempts
    BY <1>2, <2>1, AttemptsSet
  <2> QED  BY <2>1, <2>2, <2>3, RowsStay
<1> QED  BY <1>2, <1>3, <1>4, <1>5

LEMMA FallBackImplements ==
  ASSUME SchedulerAssumption, TypeOK, SerialInv, Undisturbed, NEW r \in Fibers, ModelFallback(r)
  PROVE  Lifecycle!LifecycleNext
<1>1. PICK k \in Keys, m \in Msgs \cup {NoMsg} : k = fiber[r].key /\ m = fiber[r].msg
  BY FieldTypes
<1>2. /\ On(r, k, Runners) /\ fiber[r].pc = "output" /\ m # NoMsg /\ message[m].attempts = 0
      /\ message' = [message EXCEPT ![m] = [message[m] EXCEPT !.status = "pending", !.attempts = 1]]
  BY <1>1 DEF On, Runners, Early, ModelFallback, CanFallBack
<1>3. RunnerRows(k, r) /\ ~closed(k)
  BY <1>2, Running DEF KeyStops, Undisturbed
<1>4. m \in Msgs /\ message[m].status \in {"done", "failed"}
  BY <1>1, <1>2, <1>3 DEF RunnerRows, Settled
<1>5. /\ message'[m].status = "pending" /\ message'[m].key = message[m].key
      /\ message'[m].attempts = 1 /\ \A q \in Msgs : q # m => message'[q] = message[q]
  <2>1. message \in [Msgs -> Row] /\ message[m] \in Row
    BY <1>4 DEF TypeOK
  <2> QED  BY <1>2, <1>4, <2>1 DEF Row
<1>6. rows' = [rows EXCEPT ![m] = rowOf(m)']
  BY <1>4, <1>5, RowWritten
<1>7. PICK x \in RowType : x = rows[m]
  BY <1>4, RowTypes
<1>8. rowOf(m)' = [key |-> x.key, status |-> "pending", attempts |-> 1]
  BY <1>4, <1>5, <1>7 DEF rowOf, rows
<1>9. [x EXCEPT !.status = "pending", !.attempts = 1]
        = [key |-> x.key, status |-> "pending", attempts |-> 1]
  BY RowUpdate DEF Status
<1>10. rows' = [rows EXCEPT ![m] = [rows[m] EXCEPT !.status = "pending", !.attempts = 1]]
  BY <1>6, <1>7, <1>8, <1>9
<1>11. rows[m].status \in {"done", "failed"} /\ rows[m].attempts = 0
  BY <1>2, <1>4 DEF rows, rowOf
<1>12. Lifecycle!FallBack(m)
  BY <1>4, <1>10, <1>11 DEF Lifecycle!FallBack, rows
<1> QED  BY <1>4, <1>12 DEF Lifecycle!LifecycleNext

LEMMA FinishImplements ==
  ASSUME SchedulerAssumption, TypeOK, SerialInv, Undisturbed, Blank, NEW r \in Fibers,
         FinishStep(r)
  PROVE  Lifecycle!LifecycleNext \/ UNCHANGED rows
<1>1. PICK k \in Keys : k = fiber[r].key
  BY FieldTypes
<1>2. CASE \/ FinishSkipped(r) \/ FinishRun(r) \/ ForgetCurrent(r) \/ Superseded(r)
           \/ SpawnFailed(r) \/ Replied(r) \/ NoReply(r) \/ EmptyReport(r) \/ GiveUp(r)
           \/ Deactivate(r)
  <2>1. message' = message
    BY <1>2 DEF FinishSkipped, FinishRun, ForgetCurrent, Superseded, SpawnFailed, Replied,
                NoReply, EmptyReport, GiveUp, Deactivate, store
  <2> QED  BY <2>1, Unwritten
<1>3. CASE ModelFallback(r)
  BY <1>3, FallBackImplements
<1>4. CASE EmptyRetry(r) \/ Nudge(r)
  BY <1>1, <1>4, RowCreated DEF EmptyRetry, Nudge, nudge
<1>5. CASE Requeue(r)
  BY <1>1, <1>5, dequeueImplements DEF Requeue, On
<1>6. CASE DeactivateIfIdle(r) \/ AfterExpiry(r)
  <2>1. On(r, k, Runners) /\ fiber[r].pc \in {"deact", "expire"}
    BY <1>1, <1>6 DEF On, Runners, Early, Late, DeactivateIfIdle, AfterExpiry
  <2>2. fiber[r].msg = NoMsg
    BY <2>1, Running DEF RunnerRows
  <2>3. settleIdle(r, k)
    BY <1>1, <1>6, <2>2 DEF DeactivateIfIdle, AfterExpiry
  <2> QED  BY <2>3, Unwritten DEF settleIdle
<1> QED  BY <1>2, <1>3, <1>4, <1>5, <1>6 DEF FinishStep

LEMMA DrainImplements ==
  ASSUME SchedulerAssumption, TypeOK, SerialInv, Undisturbed, NEW r \in Fibers, Turn(r),
         DrainStep(r)
  PROVE  Lifecycle!LifecycleNext \/ UNCHANGED rows
<1>1. CASE DrainSkip(r)
  BY <1>1, Unwritten DEF DrainSkip, store
<1>2. CASE DrainClaim(r)
  <2>1. PICK m \in Msgs : m = Oldest(fiber[r].todo)
    BY <1>2, OldestOf, FieldTypes DEF DrainClaim, Activation
  <2>2. PICK k \in Keys : k = message[m].key
    BY DEF TypeOK, Row
  <2>3. /\ fiber[r].pc = "drain" /\ k \notin running /\ message[m].status = "pending"
        /\ message' = SetStatus(message, m, "running")
    BY <1>2, <2>1, <2>2 DEF DrainClaim
  <2>4. m \in Pending(k)
    BY <2>2, <2>3 DEF Pending
  <2>5. \A q \in Fibers : ~On(q, k, Runners)
    BY <2>3, <2>4, DrainAlone DEF Undisturbed
  <2>6. \A q \in Msgs : message[q].key = k => message[q].status # "running"
    BY <2>5, NoneRuns
  <2> QED  BY <2>2, <2>3, <2>6, RowStarted
<1>3. CASE DrainRun(r)
  <2>1. PICK k \in Keys, m \in Msgs \cup {NoMsg} : k = fiber[r].key /\ m = fiber[r].msg
    BY FieldTypes
  <2> QED  BY <1>3, <2>1, dequeueImplements DEF DrainRun, On
<1> QED  BY <1>1, <1>2, <1>3 DEF DrainStep

LEMMA StepImplements ==
  ASSUME SchedulerAssumption, TypeOK, SerialInv, Undisturbed, Blank, [Next]_vars
  PROVE  Lifecycle!LifecycleNext \/ UNCHANGED rows
<1>1. ASSUME NEW r \in Fibers, Turn(r), Resume(r)
      PROVE  Lifecycle!LifecycleNext \/ UNCHANGED rows
  BY <1>1, EnqueueImplements, ExecImplements, FinishImplements, DrainImplements DEF Resume
<1>2. ASSUME NEW k \in Keys, Deliver(k) \/ ObserverFixes(k) PROVE UNCHANGED rows
  BY <1>2, Unwritten DEF Deliver, ObserverFixes, store
<1>3. ASSUME NEW p \in Procs, Exit(p) PROVE UNCHANGED rows
  BY <1>3, Unwritten DEF Exit, store
<1>4. CASE ObserverDrains
  BY <1>4, Unwritten DEF ObserverDrains, store
<1>5. ASSUME NEW m \in Msgs, Age(m) PROVE UNCHANGED rows
  <2>1. message' = [message EXCEPT ![m] = [message[m] EXCEPT !.stale = TRUE]]
    BY <1>5 DEF Age
  <2>2. /\ message'[m].key = message[m].key /\ message'[m].status = message[m].status
        /\ message'[m].attempts = message[m].attempts
        /\ \A q \in Msgs : q # m => message'[q] = message[q]
    BY <2>1 DEF TypeOK, Row
  <2> QED  BY <2>2, RowsStay
<1>6. CASE UNCHANGED vars
  BY <1>6, Unwritten DEF vars, store
<1> QED  BY <1>1, <1>2, <1>3, <1>4, <1>5, <1>6 DEF Next

\* Every run of the scheduler is a run of the lifecycle of its rows: whatever the
\* gate, the model and the clock do, a message is created pending, is started only
\* from pending and only when its session runs no other, is answered or failed once
\* per start, and comes back only by the one model fallback.
THEOREM LifecycleIsImplemented ==
  Undisturbed /\ Spec => ImplementsLifecycle
<1> SUFFICES ASSUME Undisturbed PROVE Spec => ImplementsLifecycle
  OBVIOUS
<1>1. Serial
  BY DEF Undisturbed
<1>2. Spec => [](TypeOK /\ SerialInv)
  BY <1>1, SerialInvariant, SchedulerIsEngine, PTL
<1>3. Init => Lifecycle!LifecycleInit /\ Blank
  BY DEF Init, Lifecycle!LifecycleInit, Blank, rows, rowOf
<1>4. TypeOK /\ SerialInv /\ Blank /\ [Next]_vars =>
        (Lifecycle!LifecycleNext \/ UNCHANGED rows) /\ Blank'
  BY StepImplements, BlankStays, SchedulerAssumption
<1> QED  BY <1>2, <1>3, <1>4, PTL DEF Spec, ImplementsLifecycle, Lifecycle!LifecycleSpec, rows
-----------------------------------------------------------------------------
(* What the engine prompts on its own                                      *)

\* A run at these points may still prompt its session again.
Prompting == {"enqueue", "claimed", "drained", "dequeued", "gate", "spawn", "live", "exited",
              "finish", "current", "report", "output", "requeue"}

\* What a user asked of session k is queued or under way.
Unended(k) == Pending(k) # {} \/ \E r \in Fibers : On(r, k, Prompting)

Users(k)   == {m \in Msgs : message[m].key = k /\ message[m].user}
Prompts(k) == {m \in Msgs : message[m].key = k /\ message[m].status # "none" /\ ~message[m].user}

\* Two prompts for each message of a user; those that the last message may still
\* cause are the rounds that are left.
Budgeted(k) ==
  /\ IsFiniteSet(Users(k)) /\ IsFiniteSet(Prompts(k))
  /\ Cardinality(Prompts(k)) <= 2 * Cardinality(Users(k))
  /\ Unended(k) => Cardinality(Prompts(k)) + 2
                     <= 2 * Cardinality(Users(k)) + nudgeRounds[k] + emptyRounds[k]

BudgetInv ==
  /\ \A m \in Msgs : message[m].status = "none" => ~message[m].user
  /\ \A k \in Keys : Budgeted(k)

\* No row is created, moved or queued again.
RowsGo ==
  \A m \in Msgs : /\ message'[m].key = message[m].key /\ message'[m].user = message[m].user
                  /\ message'[m].status = "none" <=> message[m].status = "none"
                  /\ message'[m].status = "pending" => message[m].status = "pending"

LEMMA Counts ==
  ASSUME TypeOK, NEW k \in Keys
  PROVE  /\ nudgeRounds[k] \in 0 .. 1 /\ emptyRounds[k] \in 0 .. 1
         /\ IsFiniteSet(Users(k)) => Cardinality(Users(k)) \in Nat
         /\ IsFiniteSet(Prompts(k)) => Cardinality(Prompts(k)) \in Nat
BY FS_CardinalityType DEF TypeOK, MaxNudgeRounds, MaxEmptyRounds

\* A session of which nobody counts anything anew stays within its budget.
LEMMA BudgetStays ==
  ASSUME BudgetInv, RowsGo, NEW k \in Keys,
         \/ /\ nudgeRounds'[k] = nudgeRounds[k] /\ emptyRounds'[k] = emptyRounds[k]
            /\ Unended(k)' => Unended(k)
         \/ ~Unended(k)'
  PROVE  Budgeted(k)'
<1>1. Users(k)' = Users(k) /\ Prompts(k)' = Prompts(k)
  BY DEF Users, Prompts, RowsGo
<1>2. Budgeted(k)
  BY DEF BudgetInv
<1> QED  BY <1>1, <1>2 DEF Budgeted

\* A step that prompts nobody and resets no round.
Costless ==
  /\ \A q \in Fibers : \/ fiber'[q] = fiber[q] \/ fiber'[q].pc \notin Prompting
                       \/ \E k \in Keys : fiber'[q].key = k /\ Unended(k)
  /\ RowsGo
  /\ UNCHANGED <<nudgeRounds, emptyRounds>>

LEMMA CostlessKeeps ==
  ASSUME BudgetInv, Costless
  PROVE  BudgetInv'
<1>1. ASSUME NEW k \in Keys, Unended(k)' PROVE Unended(k)
  <2>1. CASE Pending(k)' # {}
    <3>1. Pending(k)' \subseteq Pending(k)
      BY DEF Pending, Costless, RowsGo
    <3> QED  BY <2>1, <3>1 DEF Unended
  <2>2. CASE \E q \in Fibers : On(q, k, Prompting)'
    <3>1. PICK q \in Fibers : On(q, k, Prompting)'
      BY <2>2
    <3>2. On(q, k, Prompting) \/ Unended(k)
      BY <3>1 DEF Costless, On
    <3> QED  BY <3>2 DEF Unended
  <2> QED  BY <1>1, <2>1, <2>2 DEF Unended
<1>2. \A k \in Keys : Budgeted(k)'
  <2> SUFFICES ASSUME NEW k \in Keys PROVE Budgeted(k)'
    OBVIOUS
  <2>1. RowsGo /\ nudgeRounds'[k] = nudgeRounds[k] /\ emptyRounds'[k] = emptyRounds[k]
    BY DEF Costless
  <2>2. Unended(k)' => Unended(k)
    BY <1>1
  <2> QED  BY <2>1, <2>2, BudgetStays
<1> QED  BY <1>2 DEF BudgetInv, Costless, RowsGo

\* Activation r goes on without a prompt.
LEMMA GoesOn ==
  ASSUME TypeOK, BudgetInv, NEW r \in Fibers, RowsGo, UNCHANGED <<nudgeRounds, emptyRounds>>,
         NEW a, Becomes(r, a),
         \/ a.pc \notin Prompting
         \/ a.key = fiber[r].key /\ fiber[r].pc \in Prompting
  PROVE  BudgetInv'
<1>1. PICK k \in Keys : k = fiber[r].key
  BY FieldTypes
<1>2. fiber'[r] = a /\ \A q \in Fibers : q # r => fiber'[q] = fiber[q]
  BY Each
<1>3. a.pc \in Prompting => Unended(k) /\ a.key = k
  BY <1>1 DEF Unended, On
<1> QED  BY <1>2, <1>3, CostlessKeeps DEF Costless

LEMMA UserSet ==
  ASSUME TypeOK, NEW m \in Msgs, NEW st, message' = SetStatus(message, m, st)
  PROVE  message'[m].user = message[m].user
<1> DEFINE n == message[m].attempts
           b == IF st = "failed" /\ n < MaxAttempts THEN n + 1 ELSE n
<1>1. message' = [message EXCEPT ![m] = [message[m] EXCEPT !.status = st, !.attempts = b]]
  BY DEF SetStatus
<1> HIDE DEF b
<1>2. message \in [Msgs -> Row] /\ message[m] \in Row
  BY DEF TypeOK
<1> QED  BY <1>1, <1>2 DEF Row

LEMMA RowGoes ==
  ASSUME TypeOK, NEW m \in Msgs, NEW st \in {"running", "done", "failed"},
         message' = SetStatus(message, m, st), message[m].status # "none"
  PROVE  RowsGo
<1>1. /\ message'[m].status = st /\ message'[m].key = message[m].key
      /\ \A q \in Msgs : q # m => message'[q] = message[q]
  BY StatusSet
<1>2. message'[m].user = message[m].user
  BY UserSet
<1> QED  BY <1>1, <1>2 DEF RowsGo

LEMMA RowsRest ==
  ASSUME message' = message
  PROVE  RowsGo
BY DEF RowsGo

\* A new row is the first of its number.
LEMMA RowAdded ==
  ASSUME TypeOK, NEW m \in Fresh, NEW k \in Keys, NEW u \in BOOLEAN,
         message' = [message EXCEPT ![m] = NewRow(k, u)]
  PROVE  /\ m \in Msgs /\ message[m].status = "none"
         /\ message'[m].key = k /\ message'[m].user = u /\ message'[m].status = "pending"
         /\ \A q \in Msgs : q # m => message'[q] = message[q]
BY DEF Fresh, TypeOK, NewRow

\* It is a row of its session only.
LEMMA RowElsewhere ==
  ASSUME NEW m \in Msgs, message[m].status = "none", ~message[m].user,
         \A q \in Msgs : q # m => message'[q] = message[q],
         NEW k \in Keys, message'[m].key = k, NEW j \in Keys, j # k
  PROVE  Users(j)' = Users(j) /\ Prompts(j)' = Prompts(j) /\ Pending(j)' = Pending(j)
<1>1. Users(j)' = Users(j)
  BY DEF Users
<1>2. Prompts(j)' = Prompts(j)
  BY DEF Prompts
<1>3. Pending(j)' = Pending(j)
  BY DEF Pending
<1> QED  BY <1>1, <1>2, <1>3

\* The budget of a session grows with the message of a user.
LEMMA UserCounts ==
  ASSUME TypeOK, TypeOK', BudgetInv, NEW r \in Fibers, NEW k \in Keys, NEW m \in Fresh,
         message' = [message EXCEPT ![m] = NewRow(k, TRUE)],
         NEW a, Becomes(r, a), a.key = k, UNCHANGED <<nudgeRounds, emptyRounds>>
  PROVE  BudgetInv'
<1>1. /\ m \in Msgs /\ message[m].status = "none" /\ ~message[m].user
      /\ message'[m].key = k /\ message'[m].user /\ message'[m].status = "pending"
      /\ \A q \in Msgs : q # m => message'[q] = message[q]
  BY RowAdded DEF BudgetInv
<1>2. fiber'[r] = a /\ \A q \in Fibers : q # r => fiber'[q] = fiber[q]
  BY Each
<1>3. Budgeted(k)'
  <2>1. Users(k)' = Users(k) \cup {m} /\ m \notin Users(k) /\ Prompts(k)' = Prompts(k)
    <3>1. Users(k)' = Users(k) \cup {m} /\ m \notin Users(k)
      BY <1>1 DEF Users
    <3>2. Prompts(k)' = Prompts(k)
      BY <1>1 DEF Prompts
    <3> QED  BY <3>1, <3>2
  <2>2. Budgeted(k)
    BY DEF BudgetInv
  <2>3. IsFiniteSet(Users(k)') /\ Cardinality(Users(k)') = Cardinality(Users(k)) + 1
    BY <2>1, <2>2, FS_AddElement DEF Budgeted
  <2>4. /\ nudgeRounds'[k] \in 0 .. 1 /\ emptyRounds'[k] \in 0 .. 1
        /\ Cardinality(Users(k)) \in Nat /\ Cardinality(Prompts(k)) \in Nat
        /\ Cardinality(Prompts(k)) <= 2 * Cardinality(Users(k)) /\ IsFiniteSet(Prompts(k))
    BY <2>2, Counts DEF Budgeted
  <2> QED  BY <2>1, <2>3, <2>4 DEF Budgeted
<1>4. ASSUME NEW j \in Keys, j # k PROVE Budgeted(j)'
  <2>1. Users(j)' = Users(j) /\ Prompts(j)' = Prompts(j) /\ Pending(j)' = Pending(j)
    BY <1>1, <1>4, RowElsewhere
  <2>2. Unended(j)' => Unended(j)
    BY <1>2, <1>4, <2>1 DEF Unended, On
  <2>3. Budgeted(j)
    BY DEF BudgetInv
  <2> QED  BY <2>1, <2>2, <2>3 DEF Budgeted
<1>5. \A q \in Msgs : message'[q].status = "none" => ~message'[q].user
  BY <1>1 DEF BudgetInv
<1> QED  BY <1>3, <1>4, <1>5 DEF BudgetInv

\* A prompt of the engine takes a round of its session.
LEMMA PromptCounts ==
  ASSUME TypeOK, TypeOK', BudgetInv, NEW r \in Fibers, NEW k \in Keys, On(r, k, Prompting),
         NEW m \in Fresh, message' = [message EXCEPT ![m] = NewRow(k, FALSE)],
         NEW a, Becomes(r, a), a.key = k,
         nudgeRounds'[k] + emptyRounds'[k] = nudgeRounds[k] + emptyRounds[k] + 1,
         \A j \in Keys : j # k => /\ nudgeRounds'[j] = nudgeRounds[j]
                                  /\ emptyRounds'[j] = emptyRounds[j]
  PROVE  BudgetInv'
<1>1. /\ m \in Msgs /\ message[m].status = "none" /\ ~message[m].user
      /\ message'[m].key = k /\ ~message'[m].user /\ message'[m].status = "pending"
      /\ \A q \in Msgs : q # m => message'[q] = message[q]
  BY RowAdded DEF BudgetInv
<1>2. fiber'[r] = a /\ \A q \in Fibers : q # r => fiber'[q] = fiber[q]
  BY Each
<1>3. Budgeted(k)'
  <2>1. Prompts(k)' = Prompts(k) \cup {m} /\ m \notin Prompts(k) /\ Users(k)' = Users(k)
    <3>1. Prompts(k)' = Prompts(k) \cup {m} /\ m \notin Prompts(k)
      BY <1>1 DEF Prompts
    <3>2. Users(k)' = Users(k)
      BY <1>1 DEF Users
    <3> QED  BY <3>1, <3>2
  <2>2. Budgeted(k) /\ Unended(k)
    BY DEF BudgetInv, Unended
  <2>3. IsFiniteSet(Prompts(k)') /\ Cardinality(Prompts(k)') = Cardinality(Prompts(k)) + 1
    BY <2>1, <2>2, FS_AddElement DEF Budgeted
  <2>4. /\ nudgeRounds[k] \in 0 .. 1 /\ emptyRounds[k] \in 0 .. 1
        /\ Cardinality(Users(k)) \in Nat /\ Cardinality(Prompts(k)) \in Nat
    BY <2>2, Counts DEF Budgeted
  <2>5. nudgeRounds'[k] \in 0 .. 1 /\ emptyRounds'[k] \in 0 .. 1
    BY DEF TypeOK, MaxNudgeRounds, MaxEmptyRounds
  <2>6. /\ Cardinality(Prompts(k)) + 2
             <= 2 * Cardinality(Users(k)) + nudgeRounds[k] + emptyRounds[k]
        /\ IsFiniteSet(Users(k))
    BY <2>2 DEF Budgeted
  <2> QED  BY <2>1, <2>3, <2>4, <2>5, <2>6 DEF Budgeted
<1>4. ASSUME NEW j \in Keys, j # k PROVE Budgeted(j)'
  <2>1. Users(j)' = Users(j) /\ Prompts(j)' = Prompts(j) /\ Pending(j)' = Pending(j)
    BY <1>1, <1>4, RowElsewhere
  <2>2. Unended(j)' => Unended(j)
    BY <1>2, <1>4, <2>1 DEF Unended, On
  <2>3. Budgeted(j) /\ nudgeRounds'[j] = nudgeRounds[j] /\ emptyRounds'[j] = emptyRounds[j]
    BY <1>4 DEF BudgetInv
  <2> QED  BY <2>1, <2>2, <2>3 DEF Budgeted
<1>5. \A q \in Msgs : message'[q].status = "none" => ~message'[q].user
  BY <1>1 DEF BudgetInv
<1> QED  BY <1>3, <1>4, <1>5 DEF BudgetInv

\* A run that is through may reset the rounds of its session.
LEMMA EndCounts ==
  ASSUME TypeOK, SerialInv, BudgetInv, NEW r \in Fibers, NEW k \in Keys,
         On(r, k, {"report", "output", "deact", "expire"}), message' = message,
         fiber'[r].pc \notin Prompting, \A q \in Fibers : q # r => fiber'[q] = fiber[q],
         \A j \in Keys : j # k => /\ nudgeRounds'[j] = nudgeRounds[j]
                                  /\ emptyRounds'[j] = emptyRounds[j]
  PROVE  BudgetInv'
<1>1. On(r, k, Runners)
  BY DEF On, Runners, Early, Late
<1>2. RowsGo
  BY RowsRest
<1>3. ~Unended(k)'
  <2>1. Pending(k)' = {}
    <3>1. RunnerRows(k, r)
      BY <1>1, Running
    <3>2. Pending(k) = {}
      BY <3>1 DEF RunnerRows, On
    <3> QED  BY <3>2 DEF Pending
  <2>2. ASSUME NEW q \in Fibers, On(q, k, Prompting)' PROVE FALSE
    <3>1. q # r /\ On(q, k, Prompting)
      BY <2>2 DEF On
    <3>2. Prompting \subseteq Runners
      BY DEF Prompting, Runners, Early, Late
    <3>3. On(q, k, Runners)
      BY <3>1, <3>2 DEF On
    <3> QED  BY <1>1, <3>1, <3>3 DEF SerialInv, KeyInv, KeyAlone
  <2> QED  BY <2>1, <2>2 DEF Unended
<1>4. ASSUME NEW j \in Keys PROVE Budgeted(j)'
  <2>1. CASE j = k
    BY <1>2, <1>3, <2>1, BudgetStays
  <2>2. CASE j # k
    <3>1. Unended(j)' => Unended(j)
      <4>1. Pending(j)' = Pending(j)
        BY DEF Pending
      <4>2. \A q \in Fibers : On(q, j, Prompting)' => On(q, j, Prompting)
        BY <2>2 DEF On
      <4> QED  BY <4>1, <4>2 DEF Unended
    <3> QED  BY <1>2, <2>2, <3>1, BudgetStays
  <2> QED  BY <2>1, <2>2
<1> QED  BY <1>4 DEF BudgetInv

LEMMA EnqueueBudget ==
  ASSUME SchedulerAssumption, TypeOK, TypeOK', SerialInv, BudgetInv, NEW r \in Fibers,
         EnqueueStep(r)
  PROVE  BudgetInv'
<1>1. PICK k \in Keys : k = fiber[r].key
  BY FieldTypes
<1>2. fiber[r].pc # "preempt"
  BY DEF SerialInv, KnownPCs, Runners, Early, Late, Stoppers, Off
<1>3. CASE CreateMessage(r)
  <2>1. PICK m \in Fresh :
          /\ message' = [message EXCEPT ![m] = NewRow(k, TRUE)]
          /\ Becomes(r, [fiber[r] EXCEPT !.pc = "enqueue", !.msg = m])
    BY <1>1, <1>3 DEF CreateMessage
  <2> DEFINE a == [fiber[r] EXCEPT !.pc = "enqueue", !.msg = m]
  <2>2. a.key = k
    BY <1>1, FieldTypes DEF Activation
  <2> HIDE DEF a
  <2>3. Becomes(r, a) /\ UNCHANGED <<nudgeRounds, emptyRounds>>
    BY <1>3, <2>1 DEF CreateMessage, a
  <2> QED  BY <2>1, <2>2, <2>3, UserCounts
<1>4. CASE Preempt(r)
  <2>1. On(r, k, Runners) /\ fiber[r].pc = "enqueue"
    BY <1>1, <1>4 DEF On, Runners, Early, Preempt
  <2>2. k \notin running
    BY <2>1, NoSlot DEF RunPCs
  <2> QED  BY <1>1, <1>4, <2>2 DEF Preempt
<1>5. CASE Queue(r)
  <2>1. Becomes(r, NoFiber) /\ NoFiber.pc \notin Prompting
    BY <1>5 DEF Queue, Return, NoFiber, Prompting
  <2>2. RowsGo /\ UNCHANGED <<nudgeRounds, emptyRounds>>
    BY <1>5, RowsRest DEF Queue, memory, store
  <2> QED  BY <2>1, <2>2, GoesOn
<1>6. CASE Execute(r)
  <2>1. PICK m : m = fiber[r].msg
    OBVIOUS
  <2>2. On(r, k, Runners) /\ fiber[r].pc = "enqueue" /\ claimAndRun(r, k, m)
        /\ UNCHANGED <<nudgeRounds, emptyRounds>>
    BY <1>1, <1>6, <2>1 DEF On, Runners, Early, Execute, memory
  <2>3. m \in Msgs /\ message[m].status # "none"
    BY <2>1, <2>2, Running DEF RunnerRows, RowOf
  <2>4. CASE message[m].status = "pending"
    <3>1. message' = SetStatus(message, m, "running") /\ Becomes(r, At("claimed", k, m))
      BY <2>2, <2>4 DEF claimAndRun
    <3>2. RowsGo
      BY <2>3, <3>1, RowGoes
    <3>3. At("claimed", k, m).key = fiber[r].key /\ fiber[r].pc \in Prompting
      BY <1>1, <2>2 DEF At, NoFiber, Prompting
    <3> QED  BY <2>2, <3>1, <3>2, <3>3, GoesOn
  <2>5. CASE message[m].status # "pending"
    <3>1. Becomes(r, NoFiber) /\ message' = message
      BY <2>2, <2>5 DEF claimAndRun, Return
    <3>2. NoFiber.pc \notin Prompting
      BY DEF NoFiber, Prompting
    <3> QED  BY <2>2, <3>1, <3>2, RowsRest, GoesOn
  <2> QED  BY <2>4, <2>5
<1>7. CASE TakeSlot(r)
  <2>1. PICK m : m = fiber[r].msg
    OBVIOUS
  <2> DEFINE a == At("gate", k, m)
  <2>2. a.pc = "gate" /\ a.key = k
    BY DEF At, NoFiber
  <2> HIDE DEF a
  <2>3. /\ fiber' = Fork([fiber EXCEPT ![r] = a], fiber[r].todo) /\ CanFork(fiber[r].todo)
        /\ fiber[r].pc \in {"claimed", "dequeued"} /\ message' = message
        /\ UNCHANGED <<nudgeRounds, emptyRounds>>
    BY <1>1, <1>7, <2>1 DEF TakeSlot, a, rounds
  <2>4. fiber[r].pc \notin Off
    BY <2>3 DEF Off
  <2>5. /\ fiber'[r] = a
        /\ \A q \in Fibers : \/ q = r \/ fiber'[q] = fiber[q]
                             \/ fiber[q].pc \in Off /\ fiber'[q].pc \in Off
    BY <2>2, <2>3, <2>4, Forked
  <2>6. Unended(k) /\ Off \cap Prompting = {}
    BY <1>1, <2>3 DEF Unended, On, Prompting, Off
  <2>7. RowsGo
    BY <2>3, RowsRest
  <2> QED  BY <2>2, <2>3, <2>5, <2>6, <2>7, CostlessKeeps DEF Costless
<1> QED  BY <1>2, <1>3, <1>4, <1>5, <1>6, <1>7 DEF EnqueueStep, PreemptKill

\* A stored outcome ends no budget.
LEMMA OutcomeBudget ==
  ASSUME SchedulerAssumption, TypeOK, SerialInv, BudgetInv, NEW r \in Fibers,
         fiber[r].pc \in {"gate", "spawn", "exited"}, NEW st \in {"done", "failed"},
         message' = SetStatus(message, fiber[r].msg, st), NEW p, Goto(r, p),
         UNCHANGED <<nudgeRounds, emptyRounds>>
  PROVE  BudgetInv'
<1>1. PICK k \in Keys, m \in Msgs \cup {NoMsg} : k = fiber[r].key /\ m = fiber[r].msg
  BY FieldTypes
<1>2. On(r, k, Runners)
  BY <1>1 DEF On, Runners, Early, Late
<1>3. m \in Msgs /\ message[m].status # "none"
  <2>1. RunnerRows(k, r)
    BY <1>2, Running
  <2>2. fiber[r].pc # "ack" /\ fiber[r].msg # NoMsg
    BY <2>1 DEF RunnerRows, Carriers
  <2> QED  BY <1>1, <2>1, <2>2 DEF RunnerRows, RowOf
<1>4. RowsGo
  BY <1>1, <1>3, RowGoes
<1> DEFINE a == [fiber[r] EXCEPT !.pc = p]
<1>5. a.key = fiber[r].key /\ Becomes(r, a) /\ fiber[r].pc \in Prompting
  BY FieldTypes DEF Goto, Activation, Prompting
<1> HIDE DEF a
<1> QED  BY <1>4, <1>5, GoesOn

LEMMA ExecBudget ==
  ASSUME SchedulerAssumption, Serial, TypeOK, TypeOK', SerialInv, BudgetInv, NEW r \in Fibers,
         ExecStep(r)
  PROVE  BudgetInv'
<1>1. fiber[r].pc # "next"
  BY DEF SerialInv, KnownPCs, Runners, Early, Late, Stoppers, Off
<1>2. NoFiber.pc \notin Prompting
  BY DEF NoFiber, Prompting
<1>3. CASE GateAllows(r)
  <2> DEFINE a == [fiber[r] EXCEPT !.pc = "spawn", !.gen = generation[fiber[r].key] + 1]
  <2>1. a.key = fiber[r].key /\ Becomes(r, a) /\ fiber[r].pc \in Prompting
    BY <1>3, FieldTypes DEF GateAllows, Activation, Prompting
  <2> HIDE DEF a
  <2>2. RowsGo /\ UNCHANGED <<nudgeRounds, emptyRounds>>
    BY <1>3, RowsRest DEF GateAllows, rounds, store
  <2> QED  BY <2>1, <2>2, GoesOn
<1>4. CASE ReleaseDenied(r)
  <2> DEFINE m == NextOf(Pending(fiber[r].key))
             a == IF m = NoMsg THEN NoFiber ELSE At("next", fiber[r].key, m)
  <2>1. Becomes(r, a)
    BY <1>4 DEF ReleaseDenied
  <2> HIDE DEF m
  <2>2. a.pc \notin Prompting
    BY <1>2 DEF At, NoFiber, Prompting
  <2> HIDE DEF a
  <2>3. RowsGo /\ UNCHANGED <<nudgeRounds, emptyRounds>>
    BY <1>4, RowsRest DEF ReleaseDenied, rounds, store
  <2> QED  BY <2>1, <2>2, <2>3, GoesOn
<1>5. CASE Spawn(r)
  <2>1. RowsGo /\ UNCHANGED <<nudgeRounds, emptyRounds>>
    BY <1>5, RowsRest DEF Spawn, rounds
  <2>2. CASE Return(r)
    BY <1>2, <2>1, <2>2, GoesOn DEF Return
  <2>3. CASE ~Return(r)
    <3>1. PICK p : Becomes(r, [fiber[r] EXCEPT !.pc = "live", !.proc = p])
      BY <1>5, <2>3 DEF Spawn
    <3> DEFINE a == [fiber[r] EXCEPT !.pc = "live", !.proc = p]
    <3>2. a.key = fiber[r].key /\ Becomes(r, a) /\ fiber[r].pc \in Prompting
      BY <1>5, <3>1, FieldTypes DEF Spawn, Activation, Prompting
    <3> HIDE DEF a
    <3> QED  BY <2>1, <3>2, GoesOn
  <2> QED  BY <2>2, <2>3
<1>6. CASE ObserveExit(r)
  <2>1. RowsGo /\ UNCHANGED <<nudgeRounds, emptyRounds>>
    BY <1>6, RowsRest DEF ObserveExit, rounds
  <2>2. CASE Return(r)
    BY <1>2, <2>1, <2>2, GoesOn DEF Return
  <2>3. CASE ~Return(r)
    <3>1. PICK x : Becomes(r, [fiber[r] EXCEPT !.pc = "exited", !.proc = NoProc, !.exit = x])
      BY <1>6, <2>3 DEF ObserveExit
    <3> DEFINE a == [fiber[r] EXCEPT !.pc = "exited", !.proc = NoProc, !.exit = x]
    <3>2. a.key = fiber[r].key /\ Becomes(r, a) /\ fiber[r].pc \in Prompting
      BY <1>6, <3>1, FieldTypes DEF ObserveExit, Activation, Prompting
    <3> HIDE DEF a
    <3> QED  BY <2>1, <3>2, GoesOn
  <2> QED  BY <2>2, <2>3
<1>7. CASE GateDenies(r) \/ SpawnFails(r)
  BY <1>7, OutcomeBudget DEF GateDenies, SpawnFails, memory
<1>8. CASE StoreOutcome(r)
  BY <1>8, OutcomeBudget DEF StoreOutcome, memory
<1>9. CASE SpawnThrows(r)
  BY <1>9 DEF SpawnThrows, Serial
<1> QED  BY <1>1, <1>3, <1>4, <1>5, <1>6, <1>7, <1>8, <1>9 DEF ExecStep, DequeueAfterGate

\* A message that is dequeued costs nothing.
LEMMA DequeueBudget ==
  ASSUME SchedulerAssumption, TypeOK, SerialInv, BudgetInv, NEW r \in Fibers, NEW k \in Keys,
         On(r, k, {"requeue", "drained"}), NEW m, m = fiber[r].msg, dequeueOrIdle(r, k, m)
  PROVE  BudgetInv'
<1>1. On(r, k, Runners) /\ fiber[r].pc \in Prompting /\ fiber[r].key = k
  BY DEF On, Runners, Early, Prompting
<1>2. m \in Msgs /\ message[m].status # "none"
  BY <1>1, Running DEF RunnerRows, RowOf, On, Carriers
<1>3. UNCHANGED <<nudgeRounds, emptyRounds>>
  BY DEF dequeueOrIdle, memory
<1>4. CASE message[m].stale
  <2> DEFINE n == NextOf(Pending(k) \ {m})
             a == [fiber[r] EXCEPT !.pc = "expire", !.key = k, !.msg = n]
  <2>1. message' = SetStatus(message, m, "failed") /\ Becomes(r, a)
    BY <1>4 DEF dequeueOrIdle
  <2> HIDE DEF n
  <2>2. a.pc \notin Prompting
    BY FieldTypes DEF Activation, Prompting
  <2> HIDE DEF a
  <2>3. RowsGo
    BY <1>2, <2>1, RowGoes
  <2> QED  BY <1>3, <2>1, <2>2, <2>3, GoesOn
<1>5. CASE ~message[m].stale
  <2> DEFINE a == [fiber[r] EXCEPT !.pc = "dequeued", !.key = k, !.msg = m]
  <2>1. message' = SetStatus(message, m, "running") /\ Becomes(r, a)
    BY <1>5 DEF dequeueOrIdle
  <2>2. a.key = fiber[r].key
    BY <1>1, FieldTypes DEF Activation
  <2> HIDE DEF a
  <2>3. RowsGo
    BY <1>2, <2>1, RowGoes
  <2> QED  BY <1>1, <1>3, <2>1, <2>2, <2>3, GoesOn
<1> QED  BY <1>4, <1>5

\* finishRun up to its decision
LEMMA FinishGoesOn ==
  ASSUME TypeOK, BudgetInv, NEW r \in Fibers,
         \/ FinishSkipped(r) \/ FinishRun(r) \/ ForgetCurrent(r) \/ Superseded(r)
         \/ SpawnFailed(r) \/ NoReply(r) \/ Deactivate(r)
  PROVE  BudgetInv'
<1>1. RowsGo /\ UNCHANGED <<nudgeRounds, emptyRounds>>
  BY RowsRest DEF FinishSkipped, FinishRun, ForgetCurrent, Superseded, SpawnFailed, NoReply,
                  Deactivate, memory, rounds, store
<1>2. CASE FinishSkipped(r) \/ Superseded(r)
  <2>1. Becomes(r, NoFiber) /\ NoFiber.pc \notin Prompting
    BY <1>2 DEF FinishSkipped, Superseded, Return, NoFiber, Prompting
  <2> QED  BY <1>1, <2>1, GoesOn
<1>3. CASE FinishRun(r)
  <2>1. PICK cur, p : /\ p \in {"report", "current"}
                      /\ Becomes(r, [fiber[r] EXCEPT !.msg = cur, !.pc = p])
    BY <1>3 DEF FinishRun
  <2> DEFINE a == [fiber[r] EXCEPT !.msg = cur, !.pc = p]
  <2>2. a.key = fiber[r].key /\ fiber[r].pc \in Prompting /\ Becomes(r, a)
    BY <1>3, <2>1, FieldTypes DEF FinishRun, Activation, Prompting
  <2> HIDE DEF a
  <2> QED  BY <1>1, <2>2, GoesOn
<1>4. CASE ForgetCurrent(r) \/ SpawnFailed(r) \/ NoReply(r)
  <2>1. PICK p : Goto(r, p)
    BY <1>4 DEF ForgetCurrent, SpawnFailed, NoReply
  <2> DEFINE a == [fiber[r] EXCEPT !.pc = p]
  <2>2. a.key = fiber[r].key /\ fiber[r].pc \in Prompting /\ Becomes(r, a)
    BY <1>4, <2>1, FieldTypes
       DEF ForgetCurrent, SpawnFailed, NoReply, Goto, Activation, Prompting
  <2> HIDE DEF a
  <2> QED  BY <1>1, <2>2, GoesOn
<1>5. CASE Deactivate(r)
  <2>1. PICK m : Becomes(r, [fiber[r] EXCEPT !.pc = "deact", !.msg = m])
    BY <1>5 DEF Deactivate
  <2> DEFINE a == [fiber[r] EXCEPT !.pc = "deact", !.msg = m]
  <2>2. a.pc \notin Prompting /\ Becomes(r, a)
    BY <2>1, FieldTypes DEF Activation, Prompting
  <2> HIDE DEF a
  <2> QED  BY <1>1, <2>2, GoesOn
<1> QED  BY <1>2, <1>3, <1>4, <1>5

\* A run that ends with a reply, a report or nothing, and a session left idle
LEMMA FinishEnds ==
  ASSUME SchedulerAssumption, TypeOK, SerialInv, BudgetInv, NEW r \in Fibers,
         \/ Replied(r) \/ EmptyReport(r) \/ GiveUp(r)
         \/ DeactivateIfIdle(r) \/ AfterExpiry(r)
  PROVE  BudgetInv'
<1>1. PICK k \in Keys : k = fiber[r].key
  BY FieldTypes
<1>2. CASE Replied(r) \/ EmptyReport(r) \/ GiveUp(r)
  <2> DEFINE a == [fiber[r] EXCEPT !.pc = "settle"]
  <2>1. Becomes(r, a) /\ On(r, k, {"report", "output", "deact", "expire"}) /\ message' = message
    BY <1>1, <1>2 DEF Replied, EmptyReport, GiveUp, Goto, On, store
  <2>2. a.pc \notin Prompting
    BY FieldTypes DEF Activation, Prompting
  <2> HIDE DEF a
  <2>3. fiber'[r].pc \notin Prompting /\ \A q \in Fibers : q # r => fiber'[q] = fiber[q]
    BY <2>1, <2>2, Each
  <2>4. \A j \in Keys : j # k => /\ nudgeRounds'[j] = nudgeRounds[j]
                                 /\ emptyRounds'[j] = emptyRounds[j]
    BY <1>1, <1>2 DEF Replied, EmptyReport, GiveUp, TypeOK
  <2> QED  BY <2>1, <2>3, <2>4, EndCounts
<1>3. CASE DeactivateIfIdle(r) \/ AfterExpiry(r)
  <2>1. On(r, k, {"deact", "expire"}) /\ On(r, k, Runners)
    BY <1>1, <1>3 DEF On, Runners, Early, Late, DeactivateIfIdle, AfterExpiry
  <2>2. fiber[r].msg = NoMsg
    BY <2>1, Running DEF RunnerRows, On
  <2>3. settleIdle(r, k)
    BY <1>1, <1>3, <2>2 DEF DeactivateIfIdle, AfterExpiry
  <2>4. fiber'[r].pc \notin Prompting /\ \A q \in Fibers : q # r => fiber'[q] = fiber[q]
    <3> DEFINE limit == IF Cardinality(running \ {k}) >= MaxConcurrent THEN 0
                        ELSE MaxConcurrent - Cardinality(running \ {k})
               list  == GlobalPending(limit) \cup fiber[r].todo
               a     == IF list = {} THEN NoFiber
                        ELSE [NoFiber EXCEPT !.pc = "drain", !.todo = list]
    <3>1. Becomes(r, a)
      BY <2>3 DEF settleIdle, startDrain
    <3> HIDE DEF list
    <3>2. a.pc \notin Prompting
      BY DEF NoFiber, Prompting
    <3> HIDE DEF a
    <3> QED  BY <3>1, <3>2, Each
  <2>5. /\ message' = message
        /\ nudgeRounds' = [nudgeRounds EXCEPT ![k] = 0] /\ emptyRounds' = emptyRounds
    BY <2>3 DEF settleIdle, clearRuntimeState
  <2>6. \A j \in Keys : j # k => /\ nudgeRounds'[j] = nudgeRounds[j]
                                 /\ emptyRounds'[j] = emptyRounds[j]
    BY <2>5 DEF TypeOK
  <2>7. On(r, k, {"report", "output", "deact", "expire"})
    BY <2>1 DEF On
  <2> QED  BY <2>4, <2>5, <2>6, <2>7, EndCounts
<1> QED  BY <1>2, <1>3

\* A retry after an empty response and a nudge each take a round.
LEMMA NudgeBudgeted ==
  ASSUME TypeOK, TypeOK', BudgetInv, NEW r \in Fibers, EmptyRetry(r) \/ Nudge(r)
  PROVE  BudgetInv'
<1>1. PICK k \in Keys : k = fiber[r].key
  BY FieldTypes
<1>2. On(r, k, Prompting) /\ nudge(r)
  BY <1>1 DEF On, Prompting, EmptyRetry, Nudge
<1>3. PICK m \in Fresh : /\ message' = [message EXCEPT ![m] = NewRow(k, FALSE)]
                         /\ Becomes(r, [fiber[r] EXCEPT !.pc = "requeue", !.msg = m])
  BY <1>1, <1>2 DEF nudge
<1> DEFINE a == [fiber[r] EXCEPT !.pc = "requeue", !.msg = m]
<1>4. Becomes(r, a) /\ a.key = k
  BY <1>1, <1>3, FieldTypes DEF Activation
<1> HIDE DEF a
<1>5. nudgeRounds[k] \in 0 .. 1 /\ emptyRounds[k] \in 0 .. 1
  BY DEF TypeOK, MaxNudgeRounds, MaxEmptyRounds
<1>6. /\ nudgeRounds'[k] + emptyRounds'[k] = nudgeRounds[k] + emptyRounds[k] + 1
      /\ \A j \in Keys : j # k => /\ nudgeRounds'[j] = nudgeRounds[j]
                                  /\ emptyRounds'[j] = emptyRounds[j]
  <2>1. CASE EmptyRetry(r)
    <3>1. emptyRounds' = [emptyRounds EXCEPT ![k] = @ + 1] /\ nudgeRounds' = nudgeRounds
      BY <1>1, <2>1 DEF EmptyRetry
    <3> QED  BY <1>5, <3>1 DEF TypeOK
  <2>2. CASE Nudge(r)
    <3>1. nudgeRounds' = [nudgeRounds EXCEPT ![k] = @ + 1] /\ emptyRounds' = emptyRounds
      BY <1>1, <2>2 DEF Nudge
    <3> QED  BY <1>5, <3>1 DEF TypeOK
  <2> QED  BY <2>1, <2>2
<1> QED  BY <1>2, <1>3, <1>4, <1>6, PromptCounts

LEMMA FinishBudget ==
  ASSUME SchedulerAssumption, ~HasPool, TypeOK, TypeOK', SerialInv, BudgetInv, NEW r \in Fibers,
         FinishStep(r)
  PROVE  BudgetInv'
<1>1. ~ModelFallback(r)
  BY DEF ModelFallback, CanFallBack
<1>2. CASE Requeue(r)
  <2>1. PICK k \in Keys, m \in Msgs \cup {NoMsg} : k = fiber[r].key /\ m = fiber[r].msg
    BY FieldTypes
  <2> QED  BY <1>2, <2>1, DequeueBudget DEF Requeue, On
<1> QED  BY <1>1, <1>2, FinishGoesOn, FinishEnds, NudgeBudgeted DEF FinishStep

LEMMA DrainBudget ==
  ASSUME SchedulerAssumption, TypeOK, SerialInv, BudgetInv, NEW r \in Fibers, DrainStep(r)
  PROVE  BudgetInv'
<1>1. CASE DrainSkip(r)
  <2> DEFINE b == [fiber[r] EXCEPT !.todo = fiber[r].todo \ {Oldest(fiber[r].todo)}]
  <2>1. fiber[r].pc = "drain" /\ (Becomes(r, NoFiber) \/ Becomes(r, b))
        /\ UNCHANGED <<memory, store, proc>>
    BY <1>1 DEF DrainSkip, Return
  <2>2. b.pc \notin Prompting /\ NoFiber.pc \notin Prompting
    BY <2>1, FieldTypes DEF Activation, NoFiber, Prompting
  <2> HIDE DEF b
  <2>3. RowsGo /\ UNCHANGED <<nudgeRounds, emptyRounds>>
    BY <2>1, RowsRest DEF memory, store
  <2> QED  BY <2>1, <2>2, <2>3, GoesOn
<1>2. CASE DrainClaim(r)
  <2>1. PICK m \in Msgs : m = Oldest(fiber[r].todo)
    BY <1>2, OldestOf, FieldTypes DEF DrainClaim, Activation
  <2>2. PICK k \in Keys : k = message[m].key
    BY DEF TypeOK, Row
  <2> DEFINE a == [fiber[r] EXCEPT !.pc = "drained", !.key = k, !.msg = m, !.todo = @ \ {m}]
  <2>3. /\ message[m].status = "pending" /\ message' = SetStatus(message, m, "running")
        /\ Becomes(r, a) /\ UNCHANGED <<nudgeRounds, emptyRounds>>
    BY <1>2, <2>1, <2>2 DEF DrainClaim, memory
  <2>4. a.key = k
    BY FieldTypes DEF Activation
  <2> HIDE DEF a
  <2>5. fiber'[r] = a /\ \A q \in Fibers : q # r => fiber'[q] = fiber[q]
    BY <2>3, Each
  <2>6. RowsGo
    BY <2>3, RowGoes
  <2>7. Unended(k)
    BY <2>2, <2>3 DEF Unended, Pending
  <2>8. Costless
    BY <2>3, <2>4, <2>5, <2>6, <2>7 DEF Costless
  <2> QED  BY <2>8, CostlessKeeps
<1>3. CASE DrainRun(r)
  <2>1. PICK k \in Keys, m \in Msgs \cup {NoMsg} : k = fiber[r].key /\ m = fiber[r].msg
    BY FieldTypes
  <2> QED  BY <1>3, <2>1, DequeueBudget DEF DrainRun, On
<1> QED  BY <1>1, <1>2, <1>3 DEF DrainStep

\* Deliveries, the observer, the processes and time
LEMMA AroundBudget ==
  ASSUME SchedulerAssumption, TypeOK, BudgetInv,
         \/ \E k \in Keys : Deliver(k) \/ ObserverFixes(k)
         \/ \E p \in Procs : Exit(p)
         \/ ObserverDrains
         \/ \E m \in Msgs : Age(m)
         \/ UNCHANGED vars
  PROVE  BudgetInv'
<1>1. ASSUME NEW k \in Keys, Deliver(k) PROVE BudgetInv'
  <2>1. PICK r \in Fibers : r = Oldest(Free)
    BY <1>1, OldestOf DEF Deliver, Free
  <2> DEFINE a == [fiber[r] EXCEPT !.pc = "ack", !.key = k]
  <2>2. Becomes(r, a)
    BY <1>1, <2>1 DEF Deliver
  <2>3. a.pc \notin Prompting
    BY FieldTypes DEF Activation, Prompting
  <2> HIDE DEF a
  <2>4. RowsGo /\ UNCHANGED <<nudgeRounds, emptyRounds>>
    BY <1>1, RowsRest DEF Deliver, memory, store
  <2> QED  BY <2>2, <2>3, <2>4, GoesOn
<1>2. CASE ObserverDrains
  <2>1. PICK r \in Fibers : r = Oldest(Free)
    BY <1>2, OldestOf DEF ObserverDrains, Free
  <2> DEFINE limit == IF Cardinality(running) >= MaxConcurrent THEN 0
                      ELSE MaxConcurrent - Cardinality(running)
             list  == GlobalPending(limit) \cup fiber[r].todo
             a     == IF list = {} THEN NoFiber
                      ELSE [NoFiber EXCEPT !.pc = "drain", !.todo = list]
  <2>2. Becomes(r, a)
    BY <1>2, <2>1 DEF ObserverDrains, startDrain
  <2> HIDE DEF list
  <2>3. a.pc \notin Prompting
    BY DEF NoFiber, Prompting
  <2> HIDE DEF a
  <2>4. RowsGo /\ UNCHANGED <<nudgeRounds, emptyRounds>>
    BY <1>2, RowsRest DEF ObserverDrains, memory, store
  <2> QED  BY <2>2, <2>3, <2>4, GoesOn
<1>3. CASE \/ \E k \in Keys : ObserverFixes(k)
           \/ \E p \in Procs : Exit(p)
           \/ UNCHANGED vars
  <2>1. /\ fiber' = fiber /\ message' = message
        /\ UNCHANGED <<nudgeRounds, emptyRounds>>
    BY <1>3 DEF ObserverFixes, Exit, vars, memory, store
  <2>2. RowsGo
    BY <2>1, RowsRest
  <2> QED  BY <2>1, <2>2, CostlessKeeps DEF Costless
<1>4. ASSUME NEW m \in Msgs, Age(m) PROVE BudgetInv'
  <2>1. /\ message' = [message EXCEPT ![m] = [message[m] EXCEPT !.stale = TRUE]]
        /\ fiber' = fiber /\ UNCHANGED <<nudgeRounds, emptyRounds>>
    BY <1>4 DEF Age, memory
  <2>2. /\ message'[m].key = message[m].key /\ message'[m].status = message[m].status
        /\ message'[m].user = message[m].user
        /\ \A q \in Msgs : q # m => message'[q] = message[q]
    BY <2>1 DEF TypeOK, Row
  <2>3. RowsGo
    BY <2>2 DEF RowsGo
  <2> QED  BY <2>1, <2>3, CostlessKeeps DEF Costless
<1> QED  BY <1>1, <1>2, <1>3, <1>4

LEMMA StepBudget ==
  ASSUME SchedulerAssumption, Serial, ~HasPool, TypeOK, TypeOK', SerialInv, BudgetInv,
         [Next]_vars
  PROVE  BudgetInv'
<1>1. ASSUME NEW r \in Fibers, Resume(r) PROVE BudgetInv'
  BY <1>1, EnqueueBudget, ExecBudget, FinishBudget, DrainBudget DEF Resume
<1> QED  BY <1>1, AroundBudget DEF Next

LEMMA InitBudget ==
  ASSUME Init
  PROVE  BudgetInv
<1>1. \A m \in Msgs : message[m].status = "none" /\ ~message[m].user
  BY DEF Init
<1> SUFFICES ASSUME NEW k \in Keys PROVE Budgeted(k)
  BY <1>1 DEF BudgetInv
<1>2. Users(k) = {} /\ Prompts(k) = {}
  BY <1>1 DEF Users, Prompts
<1>3. IsFiniteSet({}) /\ Cardinality({}) = 0
  BY FS_EmptySet
<1>4. ~Unended(k)
  <2>1. Pending(k) = {}
    BY <1>1 DEF Pending
  <2>2. \A r \in Fibers : ~On(r, k, Prompting)
    BY DEF Init, NoFiber, On, Prompting
  <2> QED  BY <2>1, <2>2 DEF Unended
<1> QED  BY <1>2, <1>3, <1>4 DEF Budgeted

LEMMA WithinBudget ==
  ASSUME BudgetInv
  PROVE  NudgeBudget
<1> SUFFICES ASSUME NEW k \in Keys
             PROVE  Cardinality(Prompts(k)) <= (1 + 1) * Cardinality(Users(k))
  BY DEF NudgeBudget, Prompts, Users, MaxNudgeRounds, MaxEmptyRounds
<1>1. Budgeted(k)
  BY DEF BudgetInv
<1> QED  BY <1>1 DEF Budgeted

\* The engine never prompts a model forever: with no second model in the pool, a
\* session gets at most one retry of an empty response and one nudge for each
\* message that a user sent (finishRun, applyEmptyRetry, nudge; a fallback to
\* another model would clear the rounds).
THEOREM NudgeBudgetHolds ==
  Serial /\ ~HasPool /\ Spec => []NudgeBudget
<1> SUFFICES ASSUME Serial, ~HasPool PROVE Spec => []NudgeBudget
  OBVIOUS
<1>1. Spec => [](TypeOK /\ SerialInv)
  BY SerialInvariant, SchedulerIsEngine, PTL
<1>2. Init => BudgetInv
  BY InitBudget
<1>3. TypeOK /\ TypeOK' /\ SerialInv /\ BudgetInv /\ [Next]_vars => BudgetInv'
  BY StepBudget, SchedulerAssumption
<1>4. BudgetInv => NudgeBudget
  BY WithinBudget
<1> QED  BY <1>1, <1>2, <1>3, <1>4, PTL DEF Spec
=============================================================================
