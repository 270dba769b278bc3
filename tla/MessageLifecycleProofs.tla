----------------------- MODULE MessageLifecycleProofs -----------------------
(***************************************************************************)
(* The lifecycle of the message rows runs one message of a session at a    *)
(* time, for any sessions and any messages.                                *)
(***************************************************************************)
EXTENDS MessageLifecycle, TLAPS

LifecycleInv == row \in Rows /\ OneRunning

LEMMA LifecycleInit_Inv ==
  ASSUME LifecycleConstants
  PROVE  LifecycleInit => LifecycleInv
BY DEF LifecycleConstants, LifecycleInit, LifecycleInv, Rows, RowStatus, OneRunning

\* One row changes to a record r of the right type; unless r runs beside another
\* message of its session, one still runs at a time.
LEMMA ChangeKeeps ==
  ASSUME LifecycleInv, NEW m \in Msgs,
         NEW r \in [key : Keys \cup {NoKey}, status : RowStatus, attempts : 0 .. MaxAttempts],
         row' = [row EXCEPT ![m] = r],
         r.status = "running"
         => \A q \in Msgs \ {m} : row[q].key = r.key => row[q].status # "running"
  PROVE  LifecycleInv'
<1>1. row' \in Rows
  BY DEF LifecycleInv, Rows
<1>2. /\ row'[m] = r
      /\ \A q \in Msgs : q # m => row'[q] = row[q]
  BY DEF LifecycleInv, Rows
<1>3. OneRunning'
  BY <1>2 DEF LifecycleInv, OneRunning
<1>4. QED
  BY <1>1, <1>3 DEF LifecycleInv

LEMMA LifecycleStep ==
  ASSUME LifecycleConstants, LifecycleInv, [LifecycleNext]_row
  PROVE  LifecycleInv'
<1> DEFINE R == [key : Keys \cup {NoKey}, status : RowStatus, attempts : 0 .. MaxAttempts]
<1>1. ASSUME NEW m \in Msgs PROVE row[m] \in R
  BY DEF LifecycleInv, Rows
<1>2. ASSUME NEW m \in Msgs, NEW k \in Keys, Create(m, k) PROVE LifecycleInv'
  <2> DEFINE r == [row[m] EXCEPT !.key = k, !.status = "pending"]
  <2>1. r \in R /\ r.status = "pending"
    BY <1>1 DEF RowStatus
  <2>2. row' = [row EXCEPT ![m] = r]
    BY <1>2 DEF Create
  <2> HIDE DEF r
  <2>3. QED
    BY <2>1, <2>2, ChangeKeeps
<1>3. ASSUME NEW m \in Msgs, Start(m) PROVE LifecycleInv'
  <2> DEFINE r == [row[m] EXCEPT !.status = "running"]
  <2>1. r \in R /\ r.key = row[m].key
    BY <1>1 DEF RowStatus
  <2>2. /\ row' = [row EXCEPT ![m] = r]
        /\ \A q \in Msgs : row[q].key = row[m].key => row[q].status # "running"
    BY <1>3 DEF Start, Become
  <2> HIDE DEF r
  <2>3. QED
    BY <2>1, <2>2, ChangeKeeps
<1>4. ASSUME NEW m \in Msgs, Answer(m) PROVE LifecycleInv'
  <2> DEFINE r == [row[m] EXCEPT !.status = "done"]
  <2>1. r \in R /\ r.status = "done"
    BY <1>1 DEF RowStatus
  <2>2. row' = [row EXCEPT ![m] = r]
    BY <1>4 DEF Answer, Become
  <2> HIDE DEF r
  <2>3. QED
    BY <2>1, <2>2, ChangeKeeps
<1>5. ASSUME NEW m \in Msgs, Fail(m) PROVE LifecycleInv'
  <2> DEFINE n == row[m].attempts
             a == IF n < MaxAttempts THEN n + 1 ELSE n
             r == [row[m] EXCEPT !.status = "failed", !.attempts = a]
  <2>1. a \in 0 .. MaxAttempts
    BY <1>1 DEF LifecycleConstants
  <2>2. row' = [row EXCEPT ![m] = r]
    BY <1>5 DEF Fail
  <2> HIDE DEF a
  <2>3. r \in R /\ r.status = "failed"
    BY <1>1, <2>1 DEF RowStatus
  <2> HIDE DEF r
  <2>4. QED
    BY <2>2, <2>3, ChangeKeeps
<1>6. ASSUME NEW m \in Msgs, FallBack(m) PROVE LifecycleInv'
  <2> DEFINE r == [row[m] EXCEPT !.status = "pending", !.attempts = 1]
  <2>0. 1 \in 0 .. MaxAttempts
    BY DEF LifecycleConstants
  <2>1. r \in R /\ r.status = "pending"
    BY <1>1, <2>0 DEF RowStatus
  <2>2. row' = [row EXCEPT ![m] = r]
    BY <1>6 DEF FallBack
  <2> HIDE DEF r
  <2>3. QED
    BY <2>1, <2>2, ChangeKeeps
<1>7. ASSUME NEW S \in SUBSET Msgs, Interrupt(S) PROVE LifecycleInv'
  <2>1. row' = [m \in Msgs |-> IF m \in S THEN [row[m] EXCEPT !.status = "interrupted"]
                                          ELSE row[m]]
    BY <1>7 DEF Interrupt
  <2>2. ASSUME NEW m \in Msgs
        PROVE  /\ [row[m] EXCEPT !.status = "interrupted"] \in R
               /\ [row[m] EXCEPT !.status = "interrupted"].status = "interrupted"
    BY <1>1 DEF RowStatus
  <2>3. row' \in Rows
    BY <1>1, <2>1, <2>2 DEF Rows
  <2>4. \A m \in Msgs : row'[m].status = "running" => row'[m] = row[m]
    BY <2>1, <2>2
  <2>5. QED
    BY <2>3, <2>4 DEF LifecycleInv, OneRunning
<1>8. CASE UNCHANGED row
  BY <1>8 DEF LifecycleInv, Rows, OneRunning
<1>9. QED
  BY <1>2, <1>3, <1>4, <1>5, <1>6, <1>7, <1>8 DEF LifecycleNext

\* At most one message of a session runs at a time: claims start a message only
\* in a session that runs nothing, and no other step sets a row running.
THEOREM LifecycleOneRunning ==
  ASSUME LifecycleConstants
  PROVE  LifecycleSpec => []OneRunning
<1>1. LifecycleInv => OneRunning
  BY DEF LifecycleInv
<1>2. QED
  BY <1>1, LifecycleInit_Inv, LifecycleStep, PTL DEF LifecycleSpec
=============================================================================
