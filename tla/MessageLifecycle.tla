-------------------------- MODULE MessageLifecycle --------------------------
(***************************************************************************)
(* What the engine promises about the rows of the messages table, whatever *)
(* processes, slots and awaits lie behind them: a message is created       *)
(* pending, is started at most once per time it became pending, at most    *)
(* one message of a session runs at a time, and a message that was         *)
(* answered or interrupted stays so, save for the one model fallback.      *)
(***************************************************************************)
EXTENDS Naturals

CONSTANTS
  Keys,         \* sessions
  Msgs,         \* rows
  NoKey,        \* the session of a row that is not stored yet
  MaxAttempts   \* bound: attempts is counted up to this value

\* what the constants have to be
LifecycleConstants == NoKey \notin Keys /\ MaxAttempts \in Nat \ {0}

VARIABLE row

RowStatus == {"none", "pending", "running", "done", "failed", "interrupted"}

Rows == [Msgs -> [key : Keys \cup {NoKey}, status : RowStatus, attempts : 0 .. MaxAttempts]]

LifecycleInit == row = [m \in Msgs |-> [key |-> NoKey, status |-> "none", attempts |-> 0]]

Become(m, st) == row' = [row EXCEPT ![m] = [row[m] EXCEPT !.status = st]]

\* A user, a nudge or an empty-response retry adds a message to a session.
Create(m, k) ==
  /\ row[m].status = "none"
  /\ row' = [row EXCEPT ![m] = [row[m] EXCEPT !.key = k, !.status = "pending"]]

\* Mutant: a second message of the session may be started.
StartBeside(m) ==
  /\ row[m].status = "pending"
  /\ Become(m, "running")

\* A claim: only a pending message, and only in a session that runs nothing.
Start(m) ==
  /\ row[m].status = "pending"
  /\ \A q \in Msgs : row[q].key = row[m].key => row[q].status # "running"
  /\ Become(m, "running")

Answer(m) == row[m].status = "running" /\ Become(m, "done")

\* Failing, expiring and refusing a message count an attempt.
Fail(m) ==
  LET n == row[m].attempts
  IN  /\ row[m].status \in {"pending", "running"}
      /\ row' = [row EXCEPT ![m] = [row[m] EXCEPT
                   !.status = "failed", !.attempts = IF n < MaxAttempts THEN n + 1 ELSE n]]

\* The issue was closed or halted: every message that is left is interrupted.
Interrupt(S) ==
  /\ S # {}
  /\ \A m \in S : row[m].status \in {"pending", "running"}
  /\ row' = [m \in Msgs |-> IF m \in S THEN [row[m] EXCEPT !.status = "interrupted"]
                                       ELSE row[m]]

\* A message that produced no output is run once more, on the default model.
FallBack(m) ==
  /\ row[m].status \in {"done", "failed"}
  /\ row[m].attempts = 0
  /\ row' = [row EXCEPT ![m] = [row[m] EXCEPT !.status = "pending", !.attempts = 1]]

LifecycleNext ==
  \/ \E m \in Msgs : \/ \E k \in Keys : Create(m, k)
                     \/ Start(m) \/ Answer(m) \/ Fail(m) \/ FallBack(m)
  \/ \E S \in SUBSET Msgs : Interrupt(S)

LifecycleSpec == LifecycleInit /\ [][LifecycleNext]_row

-----------------------------------------------------------------------------
\* At most one message of a session runs at any time, which is what claims and
\* slots are for.
OneRunning ==
  \A m, q \in Msgs :
    /\ row[m].status = "running" /\ row[q].status = "running"
    /\ row[m].key = row[q].key
    => m = q
=============================================================================
