------------------------------- MODULE Intake -------------------------------
(***************************************************************************)
(* What becomes of the webhooks of one issue inside one daemon             *)
(* (handleEvent, handleOpened, handleCommented and handleClosed of         *)
(* src/opencode.ts, up to the stored message): pausing, the healing of a   *)
(* stale closed row, the wake policy with the project whitelist and the    *)
(* daily quota of outsiders, thread trust, and the deduplication of        *)
(* comments.                                                               *)
(*                                                                         *)
(* The server answers a webhook at once and lets handleEvent run, so       *)
(* several handlers are under way at a time, each suspended at an await    *)
(* named by its pc.  What a handler has read before an await is in `seen`. *)
(* The comments here have a human author other than the bot and no AI      *)
(* marker: the others are dropped before any await.                        *)
(***************************************************************************)
EXTENDS Naturals, FiniteSets, Sequences

CONSTANTS
  Comments,    \* comments that users may post on the issue
  Author,      \* the author of each
  Opener,      \* the author of the issue
  Wakers,      \* authors in cfg.daemon.wakeLogins
  Listed,      \* the project whitelist that the web's admin has set up
  Hooks,       \* handlers that may be under way
  Limit,       \* cfg.daemon.externalWakeLimit
  MaxToggles,  \* bound: closings and reopenings of the issue
  Env          \* what may go wrong; a subset of EnvEvents

EnvEvents == { "redeliver",    \* the web sends a webhook twice
               "race",         \* two lookups of a comment, or a closing and a
                               \* reopening, are under way at the same time
               "unreachable",  \* the web does not answer
               "fail" }        \* a comment cannot be posted: the handler throws

Authors == {Author[c] : c \in Comments} \cup {Opener}

ASSUME IntakeAssumption ==
  /\ Comments \subseteq Nat \ {0} /\ IsFiniteSet(Comments)
  /\ IsFiniteSet(Hooks)
  /\ Limit \in Nat
  /\ MaxToggles \in Nat
  /\ DOMAIN Author = Comments
  /\ Wakers # {}   \* with no wakeLogins at all everybody wakes

VARIABLES
  \* the web
  issue,       \* whether the issue is open there
  posted,      \* the comments posted so far
  toggles,     \* how often it was closed or reopened
  inbox,       \* webhooks on their way, in order
  whitelist,   \* the project's wake logins
  \* the daemon
  paused,
  rowState,    \* issues.state; "active" includes "created"
  processing,  \* processingComments
  cache,       \* wakeWhitelistCache of the project
  admitting,   \* an admitWakeLogin for the opener is under way
  stamps,      \* externalWakeStamps: how many of today each author has
  made,        \* how many messages each comment made; NoComment: the openings
  hook         \* the handlers under way

NoComment == 0

vars == <<issue, posted, toggles, inbox, whitelist, paused, rowState, processing,
          cache, admitting, stamps, made, hook>>
web  == <<issue, posted, toggles, whitelist>>

\* a webhook, with the state of the issue when it was sent
Event == [type : {"opened", "comment", "closed"}, comment : Comments \cup {NoComment},
          open : BOOLEAN]
Opened(open) == [type |-> "opened", comment |-> NoComment, open |-> open]
Closed == [type |-> "closed", comment |-> NoComment, open |-> FALSE]
Posted(c) == [type |-> "comment", comment |-> c, open |-> issue = "open"]

PCs == { "idle",
         "heal",    \* issue_opened looks the issue up
         "ask",     \* projectWakeConfig asks the web
         "wake",    \* its answer is on its way
         "stored",  \* handleOpened looks the issue up
         "lookup",  \* findMessageByCommentId
         "issue",   \* handleCommented looks the issue up
         "ack",     \* the acknowledgement is posted
         "enqueue", \* createMessage and what follows it
         "close" }  \* handleClosed looks the issue up

\* what projectWakeConfig returns, and whether the web said so just now
NoAnswer == [logins |-> {}, community |-> FALSE, fetched |-> FALSE]
NoHook  == [pc |-> "idle", ev |-> Closed, row |-> "none", known |-> FALSE,
            answer |-> NoAnswer]
NoCache == [fresh |-> FALSE, held |-> FALSE, logins |-> {}]

By(e) == IF e.type = "comment" THEN Author[e.comment] ELSE Opener

TypeOK ==
  /\ issue \in {"open", "closed"} /\ posted \subseteq Comments /\ toggles \in 0 .. MaxToggles
  /\ inbox \in Seq(Event) /\ whitelist \subseteq Authors \cup Listed
  /\ paused \in BOOLEAN /\ rowState \in {"none", "active", "closed"}
  /\ processing \subseteq Comments
  /\ cache \in [fresh : BOOLEAN, held : BOOLEAN, logins : SUBSET (Authors \cup Listed)]
  /\ admitting \in BOOLEAN
  /\ stamps \in [Authors -> 0 .. Limit]
  /\ made \in [Comments \cup {NoComment} -> Nat]
  /\ hook \in [Hooks -> [pc : PCs, ev : Event, row : {"none", "active", "closed"},
                         known : BOOLEAN,
                         answer : [logins : SUBSET (Authors \cup Listed),
                                   community : BOOLEAN, fetched : BOOLEAN]]]

Init ==
  /\ issue = "open" /\ posted = {} /\ toggles = 0
  /\ inbox = <<Opened(TRUE)>>
  /\ whitelist = Listed
  /\ paused = FALSE
  /\ rowState = "none"
  /\ processing = {}
  /\ cache = NoCache /\ admitting = FALSE
  /\ stamps = [a \in Authors |-> 0]
  /\ made = [c \in Comments \cup {NoComment} |-> 0]
  /\ hook = [r \in Hooks |-> NoHook]

-----------------------------------------------------------------------------
(* The web *)

Post(c) ==
  /\ c \notin posted
  /\ posted' = posted \cup {c}
  /\ inbox' = Append(inbox, Posted(c))
  /\ UNCHANGED <<issue, toggles, whitelist, paused, rowState, processing, cache, admitting, stamps,
                 made, hook>>

\* a reopening reaches the daemon as issue_opened
Toggle ==
  /\ toggles < MaxToggles
  /\ toggles' = toggles + 1
  /\ issue' = IF issue = "open" THEN "closed" ELSE "open"
  /\ inbox' = Append(inbox, IF issue = "open" THEN Closed ELSE Opened(TRUE))
  /\ UNCHANGED <<posted, whitelist, paused, rowState, processing, cache, admitting, stamps, made, hook>>

\* pause() and resume()
Pause ==
  /\ paused' = ~paused
  /\ UNCHANGED <<web, inbox, rowState, processing, cache, admitting, stamps, made, hook>>

\* 60 seconds pass since the whitelist was fetched
Expire ==
  /\ cache.fresh
  /\ cache' = [cache EXCEPT !.fresh = FALSE]
  /\ UNCHANGED <<web, inbox, paused, rowState, processing, admitting, stamps, made, hook>>

-----------------------------------------------------------------------------
(* handleEvent *)

Step(r, h) == hook' = [hook EXCEPT ![r] = h]
Goto(r, p) == Step(r, [NoHook EXCEPT !.pc = p, !.ev = hook[r].ev])
Return(r)  == Step(r, NoHook)

findMessageByCommentId(c) == made[c] > 0

\* wakePolicySkips of an author for whom `extra` extends the whitelist
wakePolicySkips(a, extra) == a \notin Wakers \cup extra

\* The row after findOrCreateIssue, which found it as `found`, and
\* updateIssueState: one that is created or closed becomes active.
Activated(found) == IF found = "active" THEN rowState ELSE "active"

\* handleOpened and handleCommented up to their first await for a webhook e;
\* row is what they read of the issue
Dispatched(e, row) ==
  LET c == e.comment
  IN  IF e.type = "opened" THEN [NoHook EXCEPT !.pc = "stored", !.ev = e, !.row = row]
      ELSE IF e.open /\ c \notin processing
           THEN [NoHook EXCEPT !.pc = "lookup", !.ev = e, !.known = findMessageByCommentId(c)]
           ELSE NoHook

\* The gates and the wake policy up to the first await
Gated(e, row) ==
  IF paused THEN NoHook
  ELSE IF wakePolicySkips(By(e), {}) THEN [NoHook EXCEPT !.pc = "ask", !.ev = e]
  ELSE Dispatched(e, row)

Under(p) == {r \in Hooks : hook[r].pc \in p}

\* Mutant: the row is healed only behind the gates.
BeginGated(r, e) ==
  LET h == [NoHook EXCEPT !.ev = e]
  IN  Step(r, IF e.type = "closed" THEN [h EXCEPT !.pc = "close", !.row = rowState]
              ELSE IF e.type = "opened" /\ ~paused
                   THEN [h EXCEPT !.pc = "heal", !.row = rowState]
                   ELSE Gated(e, rowState))

Begin(r, e) ==
  LET h == [NoHook EXCEPT !.ev = e]
  IN  Step(r, IF e.type = "closed" THEN [h EXCEPT !.pc = "close", !.row = rowState]
              ELSE IF e.type = "opened" THEN [h EXCEPT !.pc = "heal", !.row = rowState]
              ELSE Gated(e, rowState))

\* What holds without races: a comment is not looked up twice at a time, and an
\* issue is not reopened while its closing is looked up.
Alone(e) ==
  IF e.type = "comment"
  THEN \A q \in Under({"ask", "wake", "lookup"}) : hook[q].ev.comment # e.comment
  ELSE \A q \in Under(PCs \ {"idle"}) : hook[q].ev.type = "comment"

\* A webhook arrives.
Receive(r) ==
  /\ hook[r].pc = "idle" /\ \A q \in Hooks : hook[q].pc = "idle" => r <= q
  /\ inbox # <<>>
  /\ LET e == Head(inbox)
     IN  /\ "race" \notin Env => Alone(e)
         /\ Begin(r, e)
         /\ \/ inbox' = Tail(inbox)
            \/ "redeliver" \in Env /\ e.type = "comment" /\ UNCHANGED inbox
  /\ UNCHANGED <<web, paused, rowState, processing, cache, admitting, stamps, made>>

\* "issue_opened" clears a closed row before any gate.
Heal(r) ==
  /\ hook[r].pc = "heal"
  /\ rowState' = IF hook[r].row = "closed" THEN "active" ELSE rowState
  /\ Step(r, Gated(hook[r].ev, rowState'))
  /\ UNCHANGED <<web, inbox, paused, processing, cache, admitting, stamps, made>>

\* Mutant: a web that cannot be reached counts as a community project.
AskOpen(r) ==
  /\ hook[r].pc = "ask"
  /\ \/ Step(r, [hook[r] EXCEPT !.pc = "wake",
                !.answer = [logins |-> whitelist, community |-> TRUE, fetched |-> TRUE]])
     \/ /\ "unreachable" \in Env
        /\ Step(r, [hook[r] EXCEPT !.pc = "wake",
                !.answer = [logins |-> Authors, community |-> TRUE, fetched |-> FALSE]])
  /\ UNCHANGED <<web, inbox, paused, rowState, processing, cache, admitting, stamps, made>>

\* projectWakeConfig: a fresh cache answers, else the web does, or the stale
\* cache when the web cannot be reached; without a cache nobody is listed.
Ask(r) ==
  LET Answered(l, community, fetched) ==
        Step(r, [hook[r] EXCEPT !.pc = "wake",
                   !.answer = [logins |-> l, community |-> community, fetched |-> fetched]])
  IN  /\ hook[r].pc = "ask"
      /\ \/ cache.fresh /\ Answered(cache.logins, TRUE, FALSE)
         \/ ~cache.fresh /\ Answered(whitelist, TRUE, TRUE)
         \/ /\ "unreachable" \in Env /\ ~cache.fresh
            /\ Answered(cache.logins, cache.held, FALSE)
      /\ UNCHANGED <<web, inbox, paused, rowState, processing, cache, admitting, stamps, made>>

\* Mutant: what is admitted is not counted.
QuotaUncounted(a) == stamps[a] < Limit /\ UNCHANGED stamps

\* externalWakeAllotment admits and counts in one go
Quota(a) == stamps[a] < Limit /\ stamps' = [stamps EXCEPT ![a] = @ + 1]

\* The decision: listed authors pass and endorse the opener they engage with;
\* on a community project the opener passes within the quota; others do not.
Wake(r) ==
  LET h == hook[r]
      a == By(h.ev)
      trusted == ~wakePolicySkips(a, h.answer.logins)
      owns == h.answer.community /\ a = Opener
  IN  /\ h.pc = "wake"
      /\ cache' = IF h.answer.fetched
                  THEN [fresh |-> TRUE, held |-> TRUE, logins |-> h.answer.logins] ELSE cache
      /\ \/ /\ trusted
            /\ admitting' = (admitting \/ (/\ h.ev.type = "comment"
                                         /\ Opener \notin h.answer.logins \cup Wakers))
            /\ Step(r, Dispatched(h.ev, rowState))
            /\ UNCHANGED stamps
         \/ ~trusted /\ owns /\ Quota(a) /\ Step(r, Dispatched(h.ev, rowState)) /\ UNCHANGED admitting
         \/ /\ ~trusted /\ (owns => stamps[a] >= Limit)
            /\ Return(r) /\ UNCHANGED <<admitting, stamps>>
      /\ UNCHANGED <<web, inbox, paused, rowState, processing, made>>

\* admitWakeLogin, which nobody awaits, adds the opener at the web and to what
\* the cache holds when the web has answered.
Admit ==
  /\ admitting
  /\ admitting' = FALSE
  /\ \/ /\ whitelist' = whitelist \cup {Opener}
        /\ cache' = IF cache.held THEN [cache EXCEPT !.logins = @ \cup {Opener}] ELSE cache
     \/ "unreachable" \in Env /\ UNCHANGED <<whitelist, cache>>
  /\ UNCHANGED <<issue, posted, toggles, inbox, paused, rowState, processing, stamps, made, hook>>

-----------------------------------------------------------------------------
(* handleOpened, handleClosed, handleCommented *)

\* An opening makes a message, unless the session that an earlier message left
\* is running.
Stored(r) ==
  /\ hook[r].pc = "stored"
  /\ rowState' = Activated(hook[r].row)
  /\ \/ made' = [made EXCEPT ![NoComment] = @ + 1]
     \/ (\E c \in DOMAIN made : findMessageByCommentId(c)) /\ UNCHANGED made
  /\ Return(r)
  /\ UNCHANGED <<web, inbox, paused, processing, cache, admitting, stamps>>

Close(r) ==
  /\ hook[r].pc = "close"
  /\ rowState' = IF hook[r].row = "active" THEN "closed" ELSE rowState
  /\ Return(r)
  /\ UNCHANGED <<web, inbox, paused, processing, cache, admitting, stamps, made>>

Lookup(r) ==
  LET c == hook[r].ev.comment
  IN  /\ hook[r].pc = "lookup"
      /\ IF hook[r].known
         THEN Return(r) /\ UNCHANGED processing
         ELSE /\ processing' = processing \cup {c}
              /\ Step(r, [hook[r] EXCEPT !.pc = "issue", !.row = rowState])
      /\ UNCHANGED <<web, inbox, paused, rowState, cache, admitting, stamps, made>>

\* finally { processingComments.delete(comment.id) }
Finally(r) == processing' = processing \ {hook[r].ev.comment} /\ Return(r)

\* Mutant: a comment on a closed issue leaves the handler past the finally.
TrackForgets(r) ==
  /\ hook[r].pc = "issue"
  /\ \/ hook[r].row = "closed" /\ Return(r) /\ UNCHANGED <<processing, rowState>>
     \/ /\ hook[r].row \in {"none", "active"}
        /\ rowState' = Activated(hook[r].row)
        /\ Goto(r, "ack") /\ UNCHANGED processing
  /\ UNCHANGED <<web, inbox, paused, cache, admitting, stamps, made>>

\* an unknown issue is tracked, a closed one is skipped
Track(r) ==
  /\ hook[r].pc = "issue"
  /\ \/ hook[r].row = "closed" /\ Finally(r) /\ UNCHANGED rowState
     \/ /\ hook[r].row \in {"none", "active"}
        /\ rowState' = Activated(hook[r].row)
        /\ Goto(r, "ack") /\ UNCHANGED processing
  /\ UNCHANGED <<web, inbox, paused, cache, admitting, stamps, made>>

\* Mutant: the comment is released once it has been acknowledged.
AcknowledgeReleases(r) ==
  /\ hook[r].pc = "ack"
  /\ processing' = processing \ {hook[r].ev.comment}
  /\ \/ Goto(r, "enqueue")
     \/ "fail" \in Env /\ Return(r)
  /\ UNCHANGED <<web, inbox, paused, rowState, cache, admitting, stamps, made>>

Acknowledge(r) ==
  /\ hook[r].pc = "ack"
  /\ \/ Goto(r, "enqueue") /\ UNCHANGED processing
     \/ "fail" \in Env /\ Finally(r)
  /\ UNCHANGED <<web, inbox, paused, rowState, cache, admitting, stamps, made>>

\* enqueueOrRun stores the message
Enqueue(r) ==
  /\ hook[r].pc = "enqueue"
  /\ made' = [made EXCEPT ![hook[r].ev.comment] = @ + 1]
  /\ Finally(r)
  /\ UNCHANGED <<web, inbox, paused, rowState, cache, admitting, stamps>>

-----------------------------------------------------------------------------
Handle(r) ==
  Heal(r) \/ Ask(r) \/ Wake(r) \/ Stored(r) \/ Close(r) \/ Lookup(r)
  \/ Track(r) \/ Acknowledge(r) \/ Enqueue(r)

Next ==
  \/ \E c \in Comments : Post(c)
  \/ Toggle \/ Pause \/ Expire \/ Admit
  \/ \E r \in Hooks : Receive(r) \/ Handle(r)

Spec == Init /\ [][Next]_vars

-----------------------------------------------------------------------------
(* Properties *)

\* A comment becomes one message, however often its webhook is delivered
\* (processingComments while it is handled, findMessageByCommentId afterwards).
CommentOnce == \A c \in Comments : made[c] <= 1

\* A comment is held in processingComments only while a handler works on it,
\* so that no early return or exception locks out a redelivery.
ProcessingIsHeld ==
  \A c \in processing :
    \E r \in Under({"issue", "ack", "enqueue"}) : hook[r].ev.comment = c

\* On a project open to the community an opener who is on no whitelist gets at
\* most externalWakeLimit messages, whatever handlers run beside each other.
QuotaHolds ==
  Opener \notin Wakers \cup whitelist =>
    made[NoComment] + Cardinality({c \in Comments : Author[c] = Opener /\ made[c] > 0}) <= Limit

\* An author who neither is listed nor opened the issue never wakes the agent,
\* also while the web is unreachable or its answer is outdated (fail-closed).
StrangersDoNotWake ==
  \A c \in Comments : made[c] > 0 => Author[c] \in Wakers \cup whitelist \cup {Opener}

\* Once every webhook was handled, a row that says closed belongs to an issue
\* that is closed: a reopening heals the row whatever gate drops it.
ClosedIsClosed ==
  inbox = <<>> /\ Under(PCs \ {"idle"}) = {} /\ rowState = "closed" => issue = "closed"
=============================================================================
