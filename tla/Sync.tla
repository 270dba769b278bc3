-------------------------------- MODULE Sync --------------------------------
(***************************************************************************)
(* The mirroring of an external issue tracker into the web by polling      *)
(* (src/sync/engine.ts, run by scripts/sync-poll.ts): pollOnce loads its   *)
(* cursors, copies the issues and the comments behind them, and saves the  *)
(* cursors at its end.  A timer starts it again, also while an earlier     *)
(* poll is still under way.                                                *)
(*                                                                         *)
(* The adapter of the external tracker is external.  It numbers changes    *)
(* and comments in the order in which they happen, lists what lies behind  *)
(* a cursor, and returns null for the next cursor when there is nothing.   *)
(***************************************************************************)
EXTENDS Naturals, FiniteSets, Sequences

CONSTANTS
  Issues,       \* issues of the external tracker, named by their numbers
  Comments,     \* comments there, numbered in the order of posting
  On,           \* the issue of each comment
  Bots,         \* comments whose author tracker.isBotUser accepts
  Own,          \* how many issues the web had before
  Polls,        \* calls of pollOnce that may be under way
  MaxChanges,   \* bound: openings and closings of external issues
  MaxCuts,      \* bound: polls that end without having saved their cursors
  MaxOverlaps,  \* bound: polls that start while another one is under way
  Env           \* what may go wrong; a subset of EnvEvents

EnvEvents == { "refuse",  \* the web answers a POST with an error status
               "throw",   \* a request is rejected, also after it took effect
               "torn" }   \* the cursor file cannot be written, or was left torn

ASSUME SyncAssumption ==
  /\ Issues \subseteq Nat \ {0} /\ IsFiniteSet(Issues)
  /\ Comments \subseteq Nat \ {0}
  /\ On \in [Comments -> Issues]
  /\ Own \in Nat /\ MaxCuts \in Nat /\ MaxOverlaps \in Nat

VARIABLES
  state,     \* the external issues: "none", "open" or "closed"
  changed,   \* when each changed last
  changes,   \* how many changes there were
  said,      \* how many comments were posted
  local,     \* the issues copied into the web, in the order of their numbers
  copies,    \* how often each comment was copied to each number
  refused,   \* issues and comments whose POST the web refused
  file,      \* the cursor file
  poll,      \* the polls under way
  cuts,      \* polls that ended without having saved
  overlaps   \* polls that started while another one was under way

vars  == <<state, changed, changes, said, local, copies, refused, file, poll,
           cuts, overlaps>>
there == <<state, changed, changes, said>>
here  == <<local, copies, refused>>

NoIssue == 0
Numbers == Own + 1 .. Own + Cardinality(Issues) * (1 + MaxCuts + MaxOverlaps)

\* CursorState: null cursors are 0, and so is the number of an unmapped issue
NoCursors == [issues   |-> 0,
              comments |-> [e \in Issues |-> 0],
              map      |-> [e \in Issues |-> NoIssue]]

\* What a poll remembers: the loaded cursors, what is left to copy of a listing
\* and its next cursor, the mapped issues left, and the one being copied.
NoPoll == [pc |-> "idle", cursors |-> NoCursors, todo |-> {}, next |-> 0,
           left |-> {}, at |-> NoIssue]

Init ==
  /\ state = [e \in Issues |-> "none"]
  /\ changed = [e \in Issues |-> 0]
  /\ changes = 0
  /\ said = 0
  /\ local = <<>>
  /\ copies = [c \in Comments |-> [n \in Numbers |-> 0]]
  /\ refused = [issues |-> {}, comments |-> {}]
  /\ file = NoCursors
  /\ poll = [p \in Polls |-> NoPoll]
  /\ cuts = 0
  /\ overlaps = 0

-----------------------------------------------------------------------------
(* The external tracker and the web *)

\* An issue is opened, closed or reopened.
Change(e) ==
  /\ changes < MaxChanges
  /\ changes' = changes + 1
  /\ changed' = [changed EXCEPT ![e] = changes']
  /\ state' = [state EXCEPT ![e] = IF @ = "open" THEN "closed" ELSE "open"]
  /\ UNCHANGED <<said, here, file, poll, cuts, overlaps>>

Comment ==
  /\ said + 1 \in Comments
  /\ state[On[said + 1]] # "none"
  /\ said' = said + 1
  /\ UNCHANGED <<state, changed, changes, here, file, poll, cuts, overlaps>>

-----------------------------------------------------------------------------
(* pollOnce *)

\* The cursor moves behind the listed issues when the last was copied, and the
\* comments of those that are mapped come next.
IssuesCopied(r) ==
  [r EXCEPT !.pc = "comments", !.cursors.issues = r.next,
            !.left = {e \in Issues : r.cursors.map[e] # NoIssue}]

\* Mutant: the cursor of the comments stays where it was.
CommentsCopiedAgain(r) == [r EXCEPT !.pc = "comments", !.left = @ \ {r.at}, !.at = NoIssue]

CommentsCopied(r) ==
  [r EXCEPT !.pc = "comments", !.left = @ \ {r.at}, !.at = NoIssue,
            !.cursors.comments[r.at] = r.next]

\* A poll goes on at r, without an await when nothing is left of a listing.
Poll(p, r) ==
  poll' = [poll EXCEPT ![p] =
             CASE r.pc = "issues" /\ r.todo = {} -> IssuesCopied(r)
               [] r.pc = "copy" /\ r.todo = {} -> CommentsCopied(r)
               [] OTHER -> r]

Busy == {p \in Polls : poll[p].pc # "idle"}

\* The timer starts a poll, which reads the file.
Start(p) ==
  /\ poll[p].pc = "idle" /\ \A q \in Polls \ Busy : p <= q
  /\ \/ Busy = {} /\ UNCHANGED overlaps
     \/ Busy # {} /\ overlaps < MaxOverlaps /\ overlaps' = overlaps + 1
  /\ Poll(p, [NoPoll EXCEPT !.pc = "list", !.cursors = file])
  /\ UNCHANGED <<there, here, file, cuts>>

ChangedAfter(cursor) == {e \in Issues : changed[e] > cursor}

\* Mutant: the next cursor is one too far.
ListIssuesPast(p) ==
  LET cursor == poll[p].cursors.issues
  IN  /\ poll[p].pc = "list"
      /\ Poll(p, [poll[p] EXCEPT !.pc = "issues", !.next = changes + 1,
                    !.todo = {e \in ChangedAfter(cursor) : state[e] = "open"}])
      /\ UNCHANGED <<there, here, file, cuts, overlaps>>

\* Mutant: the cursor is saved as soon as the listing is there.
ListIssuesSaves(p) ==
  LET cursor == poll[p].cursors.issues
  IN  /\ poll[p].pc = "list"
      /\ Poll(p, [poll[p] EXCEPT !.pc = "issues", !.next = changes,
                    !.todo = {e \in ChangedAfter(cursor) : state[e] = "open"}])
      /\ file' = [file EXCEPT !.issues = changes]
      /\ UNCHANGED <<there, here, cuts, overlaps>>

\* listChangedIssues; closed issues are passed over
ListIssues(p) ==
  LET cursor == poll[p].cursors.issues
  IN  /\ poll[p].pc = "list"
      /\ Poll(p, [poll[p] EXCEPT !.pc = "issues",
                    !.next = IF ChangedAfter(cursor) = {} THEN cursor ELSE changes,
                    !.todo = {e \in ChangedAfter(cursor) : state[e] = "open"}])
      /\ UNCHANGED <<there, here, file, cuts, overlaps>>

\* An issue that has a copy already is passed over; else the answer to the POST
\* maps it to the number of its copy.
CopyIssue(p) ==
  /\ poll[p].pc = "issues"
  /\ \E e \in poll[p].todo :
       LET rest == [poll[p] EXCEPT !.todo = @ \ {e}]
       IN  IF poll[p].cursors.map[e] # NoIssue
           THEN Poll(p, rest) /\ UNCHANGED <<local, refused>>
           ELSE \/ /\ local' = Append(local, e)
                   /\ Poll(p, [rest EXCEPT !.cursors.map[e] = Own + Len(local')])
                   /\ UNCHANGED refused
                \/ /\ "refuse" \in Env
                   /\ refused' = [refused EXCEPT !.issues = @ \cup {e}]
                   /\ Poll(p, rest)
                   /\ UNCHANGED local
  /\ UNCHANGED <<there, copies, file, cuts, overlaps>>

\* listChangedComments: the adapter is asked by the number of the copy
ListComments(p) ==
  /\ poll[p].pc = "comments"
  /\ \E e \in poll[p].left :
       LET cursor == poll[p].cursors.comments[e]
           listed == {c \in 1 .. said : On[c] = poll[p].cursors.map[e] /\ c > cursor}
       IN  Poll(p, [poll[p] EXCEPT !.pc = "copy", !.at = e, !.todo = listed \ Bots,
                      !.next = IF listed = {} THEN cursor ELSE said])
  /\ UNCHANGED <<there, here, file, cuts, overlaps>>

CopyComment(p) ==
  LET n == poll[p].cursors.map[poll[p].at]
  IN  /\ poll[p].pc = "copy"
      /\ \E c \in poll[p].todo :
           /\ Poll(p, [poll[p] EXCEPT !.todo = @ \ {c}])
           /\ \/ copies' = [copies EXCEPT ![c][n] = @ + 1] /\ UNCHANGED refused
              \/ /\ "refuse" \in Env
                 /\ refused' = [refused EXCEPT !.comments = @ \cup {c}]
                 /\ UNCHANGED copies
      /\ UNCHANGED <<there, local, file, cuts, overlaps>>

\* saveCursors swallows its failure: the file stays as it was, or a torn one
\* reads as none at all from then on (loadCursors).
Save(p) ==
  /\ poll[p].pc = "comments" /\ poll[p].left = {}
  /\ Poll(p, NoPoll)
  /\ \/ file' = poll[p].cursors /\ UNCHANGED cuts
     \/ /\ "torn" \in Env /\ cuts < MaxCuts
        /\ cuts' = cuts + 1
        /\ file' \in {file, NoCursors}
  /\ UNCHANGED <<there, here, overlaps>>

\* A rejected request ends the poll; start() logs it and lives on.
Abort(p) ==
  /\ "throw" \in Env /\ cuts < MaxCuts
  /\ poll[p].pc # "idle"
  /\ cuts' = cuts + 1
  /\ Poll(p, NoPoll)
  /\ UNCHANGED <<there, here, file, overlaps>>

-----------------------------------------------------------------------------
Work(p) == ListIssues(p) \/ CopyIssue(p) \/ ListComments(p) \/ CopyComment(p)
           \/ Save(p)

Next ==
  \/ \E e \in Issues : Change(e)
  \/ Comment
  \/ \E p \in Polls : Start(p) \/ Work(p) \/ Abort(p)

Spec == Init /\ [][Next]_vars

-----------------------------------------------------------------------------
(* Properties *)

\* Whatever lies behind the saved cursors has reached the web or was refused by
\* it: no poll that fails or overlaps another one makes the next one skip work.
NothingSkipped ==
  /\ \A e \in Issues :
       state[e] = "open" /\ changed[e] <= file.issues
       => file.map[e] # NoIssue \/ e \in refused.issues
  /\ \A e \in Issues, c \in Comments \ Bots :
       c <= said /\ c <= file.comments[e] /\ On[c] = file.map[e]
       => copies[c][file.map[e]] > 0 \/ c \in refused.comments

\* Nothing is copied twice but for a reason: every further copy is owed to a
\* poll that was cut short of saving its cursors, or that overlapped another.
CopiesAreAccounted ==
  /\ \A e \in Issues :
       Cardinality({n \in DOMAIN local : local[n] = e}) <= 1 + cuts + overlaps
  /\ \A c \in Comments, n \in Numbers : copies[c][n] <= 1 + cuts + overlaps
=============================================================================
