----------------------------- MODULE SyncProofs -----------------------------
(***************************************************************************)
(* What the polls of the external tracker lose and what they copy twice,   *)
(* for any number of issues, comments and polls, whatever they skip,       *)
(* repeat or leave undone.                                                 *)
(***************************************************************************)
EXTENDS Sync, TLAPS, FiniteSetTheorems, FunctionTheorems, SequenceTheorems

\* Everything that a poll shares with the others but the file.
World == [state |-> state, changed |-> changed, changes |-> changes, said |-> said,
          local |-> local, copies |-> copies, refused |-> refused]

Worlds == [state : [Issues -> {"none", "open", "closed"}], changed : [Issues -> Nat],
           changes : Nat, said : Nat, local : Seq(Issues),
           copies : [Comments -> [Numbers -> Nat]],
           refused : [issues : SUBSET Issues, comments : SUBSET Comments]]

Cursors == [issues : Nat, comments : [Issues -> Nat], map : [Issues -> Nat]]

Rows == [pc : {"idle", "list", "issues", "comments", "copy"}, cursors : Cursors,
         todo : SUBSET Nat, next : Nat, left : SUBSET Issues, at : Nat]

Types ==
  /\ World \in Worlds
  /\ file \in Cursors
  /\ poll \in [Polls -> Rows] /\ IsFiniteSet(Busy)
  /\ cuts \in 0 .. MaxCuts /\ overlaps \in 0 .. MaxOverlaps
  /\ 1 .. said \subseteq Comments

-----------------------------------------------------------------------------
(* What cursors say of a world                                             *)

\* They name copies that are there, and nothing that is still to come.
Named(w, k) ==
  /\ k.issues <= w.changes
  /\ \A e \in Issues :
       /\ k.map[e] # NoIssue =>
            k.map[e] - Own \in 1 .. Len(w.local) /\ w.local[k.map[e] - Own] = e
       /\ k.map[e] = NoIssue => k.comments[e] = 0
       /\ k.comments[e] <= w.said

\* What happened up to `end` has been dealt with, but for what is in todo.
IssuesBehind(w, k, end, todo) ==
  \A e \in Issues : w.state[e] = "open" /\ w.changed[e] <= end
    => k.map[e] # NoIssue \/ e \in w.refused.issues \/ e \in todo

CommentsBehind(w, k, e, end, todo) ==
  \A c \in Comments \ Bots : c <= w.said /\ c <= end /\ On[c] = k.map[e]
    => w.copies[c][k.map[e]] > 0 \/ c \in w.refused.comments \/ c \in todo

Sound(w, k) ==
  /\ Named(w, k)
  /\ IssuesBehind(w, k, k.issues, {})
  /\ \A e \in Issues : CommentsBehind(w, k, e, k.comments[e], {})

\* The cursors of a poll, and the one that it is about to move.
Listing(w, r) ==
  r.pc = "issues" =>
    /\ r.todo \subseteq Issues
    /\ r.cursors.issues <= r.next /\ r.next <= w.changes
    /\ IssuesBehind(w, r.cursors, r.next, r.todo)

Visiting(w, r) ==
  r.pc \in {"comments", "copy"} => \A e \in r.left : r.cursors.map[e] # NoIssue

Copying(w, r) ==
  r.pc = "copy" =>
    /\ r.at \in Issues /\ r.cursors.map[r.at] # NoIssue
    /\ r.cursors.comments[r.at] <= r.next /\ r.next <= w.said
    /\ \A c \in r.todo : c \in Comments /\ r.cursors.comments[r.at] < c /\ c <= r.next
    /\ CommentsBehind(w, r.cursors, r.at, r.next, r.todo)

PollInv(w, r) ==
  Sound(w, r.cursors) /\ Listing(w, r) /\ Visiting(w, r) /\ Copying(w, r)

Sounds ==
  /\ Sound(World, NoCursors)
  /\ Sound(World, file)
  /\ \A p \in Polls : PollInv(World, poll[p])

-----------------------------------------------------------------------------
(* What is still to be copied                                              *)

\* The cursors that will be saved: those of the polls, or else the file's.
Holders == IF Busy = {} THEN {0} ELSE Busy
Held(h) == IF Busy = {} THEN [NoPoll EXCEPT !.pc = "list", !.cursors = file] ELSE poll[h]

IssueDue(r, e) == r.cursors.map[e] = NoIssue

CommentDue(r, c, n) ==
  \E e \in Issues :
    /\ r.cursors.map[e] = n /\ r.cursors.comments[e] < c
    /\ ~ (r.pc = "copy" /\ r.at = e /\ c \notin r.todo /\ c <= r.next)

CopiesOf(e) == {n \in DOMAIN local : local[n] = e}

IssueDues(e) == {h \in Holders : IssueDue(Held(h), e)}
CommentDues(c, n) == {h \in Holders : CommentDue(Held(h), c, n)}

IssuesAccounted ==
  \A e \in Issues : Cardinality(CopiesOf(e)) + Cardinality(IssueDues(e)) <= 1 + cuts + overlaps

CommentsAccounted ==
  \A c \in Comments, n \in Numbers :
    copies[c][n] + Cardinality(CommentDues(c, n)) <= 1 + cuts + overlaps

\* No comment is copied to a number that was not given yet.
Unused == \A c \in Comments, n \in Numbers : n > Own + Len(local) => copies[c][n] = 0

SyncInv == Types /\ Sounds /\ IssuesAccounted /\ CommentsAccounted /\ Unused

-----------------------------------------------------------------------------
(* A poll goes on                                                          *)

Settled(r) == CASE r.pc = "issues" /\ r.todo = {} -> IssuesCopied(r)
                [] r.pc = "copy" /\ r.todo = {} -> CommentsCopied(r)
                [] OTHER -> r

LEMMA CursorFields ==
  ASSUME NEW k \in Cursors
  PROVE  /\ k.issues \in Nat
         /\ \A e \in Issues : k.comments[e] \in Nat /\ k.map[e] \in Nat
BY DEF Cursors

LEMMA RowFields ==
  ASSUME NEW r \in Rows
  PROVE  /\ r.pc \in {"idle", "list", "issues", "comments", "copy"}
         /\ r.cursors \in Cursors /\ r.todo \subseteq Nat /\ r.next \in Nat
         /\ r.left \subseteq Issues /\ r.at \in Nat
BY DEF Rows

LEMMA WorldFields ==
  ASSUME NEW w \in Worlds
  PROVE  /\ w.changes \in Nat /\ w.said \in Nat /\ w.local \in Seq(Issues)
         /\ w.state \in [Issues -> {"none", "open", "closed"}]
         /\ w.changed \in [Issues -> Nat]
         /\ w.copies \in [Comments -> [Numbers -> Nat]]
         /\ w.refused.issues \subseteq Issues /\ w.refused.comments \subseteq Comments
BY DEF Worlds

LEMMA NothingKnown == NoCursors \in Cursors /\ NoPoll \in Rows
BY DEF NoCursors, NoIssue, Cursors, NoPoll, Rows

\* What a listing leaves behind when the last of it was copied.
LEMMA IssuesCopiedRow ==
  ASSUME NEW r \in Rows
  PROVE  /\ IssuesCopied(r) \in Rows
         /\ IssuesCopied(r).pc = "comments"
         /\ IssuesCopied(r).cursors.issues = r.next
         /\ IssuesCopied(r).cursors.comments = r.cursors.comments
         /\ IssuesCopied(r).cursors.map = r.cursors.map
         /\ IssuesCopied(r).left = {e \in Issues : r.cursors.map[e] # NoIssue}
BY SyncAssumption DEF IssuesCopied, Rows, Cursors

LEMMA CommentsCopiedRow ==
  ASSUME NEW r \in Rows, r.at \in Issues
  PROVE  /\ CommentsCopied(r) \in Rows
         /\ CommentsCopied(r).pc = "comments"
         /\ CommentsCopied(r).cursors.issues = r.cursors.issues
         /\ CommentsCopied(r).cursors.comments = [r.cursors.comments EXCEPT ![r.at] = r.next]
         /\ CommentsCopied(r).cursors.map = r.cursors.map
         /\ CommentsCopied(r).left = r.left \ {r.at}
<1> DEFINE k == [r.cursors EXCEPT !.comments[r.at] = r.next]
<1>1. /\ k \in Cursors /\ k.issues = r.cursors.issues /\ k.map = r.cursors.map
      /\ k.comments = [r.cursors.comments EXCEPT ![r.at] = r.next]
  BY RowFields DEF Cursors
<1> DEFINE rest == r.left \ {r.at}
<1>2. /\ CommentsCopied(r) = [r EXCEPT !.pc = "comments", !.left = rest, !.at = NoIssue,
                                !.cursors = k]
      /\ rest \subseteq Issues
  BY RowFields DEF CommentsCopied
<1> HIDE DEF k, rest
<1>3. rest \in SUBSET Issues /\ NoIssue \in Nat
  BY <1>2 DEF NoIssue
<1>4. CommentsCopied(r) \in Rows
  BY <1>1, <1>2, <1>3 DEF Rows
<1>5. /\ CommentsCopied(r).pc = "comments" /\ CommentsCopied(r).cursors = k
      /\ CommentsCopied(r).left = r.left \ {r.at}
  BY <1>2 DEF Rows, rest
<1> QED  BY <1>1, <1>4, <1>5

\* A poll that goes on knows as much of the world, and owes it no more.
LEMMA Settles ==
  ASSUME NEW w \in Worlds, NEW r \in Rows, PollInv(w, r)
  PROVE  /\ Settled(r) \in Rows /\ PollInv(w, Settled(r))
         /\ r.pc # "idle" => Settled(r).pc # "idle"
         /\ \A e \in Issues : IssueDue(Settled(r), e) => IssueDue(r, e)
         /\ \A c \in Comments, n \in Numbers : CommentDue(Settled(r), c, n) => CommentDue(r, c, n)
<1> USE RowFields, CursorFields, WorldFields
<1>1. CASE r.pc = "issues" /\ r.todo = {}
  <2>1. Settled(r) = IssuesCopied(r)
    BY <1>1 DEF Settled
  <2> DEFINE t == IssuesCopied(r)
  <2>2. /\ t \in Rows /\ t.pc = "comments"
        /\ t.cursors.issues = r.next /\ t.cursors.comments = r.cursors.comments
        /\ t.cursors.map = r.cursors.map
        /\ t.left = {e \in Issues : r.cursors.map[e] # NoIssue}
    BY IssuesCopiedRow
  <2> HIDE DEF t
  <2>3. Sound(w, t.cursors)
    BY <1>1, <2>2 DEF PollInv, Sound, Named, Listing, IssuesBehind, CommentsBehind
  <2>4. PollInv(w, t)
    BY <2>2, <2>3 DEF PollInv, Listing, Visiting, Copying
  <2>5. /\ \A e \in Issues : IssueDue(t, e) => IssueDue(r, e)
        /\ \A c \in Comments, n \in Numbers : CommentDue(t, c, n) => CommentDue(r, c, n)
    BY <1>1, <2>2 DEF IssueDue, CommentDue
  <2> QED  BY <2>1, <2>2, <2>4, <2>5 DEF t
<1>2. CASE r.pc = "copy" /\ r.todo = {}
  <2>1. Settled(r) = CommentsCopied(r)
    BY <1>2 DEF Settled
  <2>2. /\ r.at \in Issues /\ r.cursors.map[r.at] # NoIssue
        /\ r.cursors.comments[r.at] <= r.next /\ r.next <= w.said
        /\ CommentsBehind(w, r.cursors, r.at, r.next, {})
    BY <1>2 DEF PollInv, Copying
  <2> DEFINE t == CommentsCopied(r)
  <2>3. /\ t \in Rows /\ t.pc = "comments"
        /\ t.cursors.issues = r.cursors.issues
        /\ t.cursors.comments = [r.cursors.comments EXCEPT ![r.at] = r.next]
        /\ t.cursors.map = r.cursors.map /\ t.left = r.left \ {r.at}
    BY <2>2, CommentsCopiedRow
  <2>4. \A e \in Issues : t.cursors.comments[e]
                          = IF e = r.at THEN r.next ELSE r.cursors.comments[e]
    BY <2>2, <2>3 DEF Cursors
  <2> HIDE DEF t
  <2>5. Named(w, t.cursors) /\ IssuesBehind(w, t.cursors, t.cursors.issues, {})
    BY <2>2, <2>3, <2>4 DEF PollInv, Sound, Named, IssuesBehind
  <2>6. ASSUME NEW e \in Issues
        PROVE  CommentsBehind(w, t.cursors, e, t.cursors.comments[e], {})
    BY <2>2, <2>3, <2>4 DEF PollInv, Sound, CommentsBehind
  <2>7. Sound(w, t.cursors)
    BY <2>5, <2>6 DEF Sound
  <2>8. PollInv(w, t)
    BY <1>2, <2>3, <2>7 DEF PollInv, Listing, Visiting, Copying
  <2>9. \A e \in Issues : IssueDue(t, e) => IssueDue(r, e)
    BY <2>3 DEF IssueDue
  <2>10. ASSUME NEW c \in Comments, NEW n \in Numbers, CommentDue(t, c, n)
         PROVE  CommentDue(r, c, n)
    <3>1. PICK e \in Issues : t.cursors.map[e] = n /\ t.cursors.comments[e] < c
      BY <2>10 DEF CommentDue
    <3>2. c \in Nat
      BY SyncAssumption
    <3>3. CASE e = r.at
      BY <2>2, <2>3, <2>4, <3>1, <3>2, <3>3 DEF CommentDue
    <3>4. CASE e # r.at
      BY <2>3, <2>4, <3>1, <3>4 DEF CommentDue
    <3> QED  BY <3>3, <3>4
  <2> QED  BY <2>1, <2>3, <2>8, <2>9, <2>10 DEF t
<1>3. CASE ~ (r.pc = "issues" /\ r.todo = {}) /\ ~ (r.pc = "copy" /\ r.todo = {})
  BY <1>3 DEF Settled
<1> QED  BY <1>1, <1>2, <1>3

\* The world moves on: nothing is forgotten, and a change is later than all.
Grows(w, v) ==
  /\ w.changes <= v.changes /\ w.said <= v.said
  /\ \A e \in Issues : \/ v.changed[e] = w.changed[e] /\ v.state[e] = w.state[e]
                       \/ v.changed[e] > w.changes
  /\ Len(w.local) <= Len(v.local)
  /\ \A i \in 1 .. Len(w.local) : v.local[i] = w.local[i]
  /\ \A c \in Comments, n \in Numbers : w.copies[c][n] <= v.copies[c][n]
  /\ w.refused.issues \subseteq v.refused.issues
  /\ w.refused.comments \subseteq v.refused.comments

\* The bound on numbers is never met.
Numbered(w) == Len(w.local) <= Cardinality(Issues) * (1 + MaxCuts + MaxOverlaps)

LEMMA NumbersOf ==
  ASSUME NEW w \in Worlds, Numbered(w), NEW n \in Nat, n - Own \in 1 .. Len(w.local)
  PROVE  n \in Numbers
<1>1. Cardinality(Issues) \in Nat
  BY SyncAssumption, FS_CardinalityType
<1> DEFINE b == Cardinality(Issues) * (1 + MaxCuts + MaxOverlaps)
<1>2. b \in Nat
  BY <1>1, SyncAssumption
<1>3. Len(w.local) <= b /\ Len(w.local) \in Nat
  BY WorldFields DEF Numbered
<1> HIDE DEF b
<1>4. n \in Own + 1 .. Own + b
  BY <1>2, <1>3, SyncAssumption
<1> QED  BY <1>4 DEF Numbers, b

LEMMA SoundGrows ==
  ASSUME NEW w \in Worlds, NEW v \in Worlds, Grows(w, v), Numbered(w),
         NEW k \in Cursors, Sound(w, k)
  PROVE  Sound(v, k)
<1> USE CursorFields, WorldFields
<1>1. Named(v, k)
  <2>1. Len(w.local) \in Nat /\ Len(v.local) \in Nat
    BY WorldFields
  <2>2. ASSUME NEW e \in Issues, k.map[e] # NoIssue
        PROVE  k.map[e] - Own \in 1 .. Len(v.local) /\ v.local[k.map[e] - Own] = e
    <3>1. k.map[e] - Own \in 1 .. Len(w.local) /\ w.local[k.map[e] - Own] = e
      BY <2>2 DEF Sound, Named
    <3> QED  BY <2>1, <3>1 DEF Grows
  <2> QED  BY <2>2 DEF Sound, Named, Grows
<1>2. ASSUME NEW e \in Issues, v.state[e] = "open", v.changed[e] <= k.issues
      PROVE  k.map[e] # NoIssue \/ e \in v.refused.issues
  <2>1. /\ v.changed[e] \in Nat /\ k.issues \in Nat /\ w.changes \in Nat
        /\ k.issues <= w.changes
    BY DEF Sound, Named
  <2>2. v.changed[e] = w.changed[e] /\ v.state[e] = w.state[e]
    BY <1>2, <2>1 DEF Grows
  <2> QED  BY <1>2, <2>2 DEF Sound, IssuesBehind, Grows
<1>3. ASSUME NEW e \in Issues PROVE CommentsBehind(v, k, e, k.comments[e], {})
  <2> SUFFICES ASSUME NEW c \in Comments \ Bots, c <= k.comments[e], On[c] = k.map[e]
               PROVE  v.copies[c][k.map[e]] > 0 \/ c \in v.refused.comments
    BY DEF CommentsBehind
  <2>1. k.map[e] # NoIssue /\ c \in Nat /\ k.comments[e] <= w.said
    BY SyncAssumption DEF NoIssue, Sound, Named
  <2>2. k.map[e] \in Numbers
    BY <2>1, NumbersOf DEF Sound, Named
  <2>3. w.copies[c][k.map[e]] > 0 \/ c \in w.refused.comments
    BY <2>1 DEF Sound, CommentsBehind
  <2>4. w.copies[c][k.map[e]] \in Nat /\ v.copies[c][k.map[e]] \in Nat
    BY <2>2
  <2> QED  BY <2>2, <2>3, <2>4 DEF Grows
<1> QED  BY <1>1, <1>2, <1>3 DEF Sound, IssuesBehind

LEMMA PollGrows ==
  ASSUME NEW w \in Worlds, NEW v \in Worlds, Grows(w, v), Numbered(w),
         NEW r \in Rows, PollInv(w, r)
  PROVE  PollInv(v, r)
<1> USE RowFields, CursorFields, WorldFields
<1>1. Sound(v, r.cursors)
  BY SoundGrows DEF PollInv
<1>2. Listing(v, r)
  <2> SUFFICES ASSUME r.pc = "issues" PROVE Listing(v, r)
    BY DEF Listing
  <2>1. /\ r.todo \subseteq Issues
        /\ r.cursors.issues <= r.next /\ r.next <= w.changes
        /\ IssuesBehind(w, r.cursors, r.next, r.todo)
    BY DEF PollInv, Listing
  <2>2. ASSUME NEW e \in Issues, v.state[e] = "open", v.changed[e] <= r.next
        PROVE  r.cursors.map[e] # NoIssue \/ e \in v.refused.issues \/ e \in r.todo
    <3>1. /\ v.changed[e] \in Nat /\ w.changed[e] \in Nat
          /\ r.next \in Nat /\ w.changes \in Nat
      OBVIOUS
    <3>2. v.changed[e] = w.changed[e] /\ v.state[e] = w.state[e]
      BY <2>1, <2>2, <3>1 DEF Grows
    <3> QED  BY <2>1, <2>2, <3>2 DEF IssuesBehind, Grows
  <2> QED  BY <2>1, <2>2 DEF Listing, Grows, IssuesBehind
<1>3. Visiting(v, r)
  BY DEF PollInv, Visiting
<1>4. Copying(v, r)
  <2> SUFFICES ASSUME r.pc = "copy" PROVE Copying(v, r)
    BY DEF Copying
  <2>1. /\ r.at \in Issues /\ r.cursors.map[r.at] # NoIssue
        /\ r.cursors.comments[r.at] <= r.next /\ r.next <= w.said
        /\ \A c \in r.todo : c \in Comments /\ r.cursors.comments[r.at] < c /\ c <= r.next
        /\ CommentsBehind(w, r.cursors, r.at, r.next, r.todo)
    BY DEF PollInv, Copying
  <2>2. r.cursors.map[r.at] \in Numbers
    BY <2>1, NumbersOf DEF PollInv, Sound, Named
  <2>3. ASSUME NEW c \in Comments \ Bots, c <= r.next, On[c] = r.cursors.map[r.at]
        PROVE  v.copies[c][r.cursors.map[r.at]] > 0 \/ c \in v.refused.comments \/ c \in r.todo
    <3>1. c \in Nat
      BY SyncAssumption
    <3>2. \/ w.copies[c][r.cursors.map[r.at]] > 0
          \/ c \in w.refused.comments \/ c \in r.todo
      BY <2>1, <2>3, <3>1 DEF CommentsBehind
    <3>3. /\ w.copies[c][r.cursors.map[r.at]] \in Nat
          /\ v.copies[c][r.cursors.map[r.at]] \in Nat
      BY <2>2
    <3> QED  BY <2>2, <3>2, <3>3 DEF Grows
  <2>4. r.next <= v.said
    BY <2>1 DEF Grows
  <2> QED  BY <2>1, <2>3, <2>4 DEF Copying, CommentsBehind
<1> QED  BY <1>1, <1>2, <1>3, <1>4 DEF PollInv

-----------------------------------------------------------------------------
(* Counting                                                                *)

LEMMA Fewer ==
  ASSUME NEW D, IsFiniteSet(D), NEW E, E \subseteq D
  PROVE  /\ IsFiniteSet(E) /\ Cardinality(D) \in Nat /\ Cardinality(E) \in Nat
         /\ Cardinality(E) <= Cardinality(D)
BY FS_Subset, FS_CardinalityType

LEMMA OneMore ==
  ASSUME NEW D, IsFiniteSet(D), NEW x, NEW E, E \subseteq D \cup {x}
  PROVE  Cardinality(E) <= Cardinality(D) + 1
<1>1. /\ IsFiniteSet(D \cup {x})
      /\ Cardinality(D \cup {x}) = IF x \in D THEN Cardinality(D) ELSE Cardinality(D) + 1
  BY FS_AddElement
<1>2. Cardinality(D) \in Nat /\ Cardinality(E) \in Nat
  BY <1>1, FS_CardinalityType, Fewer
<1>3. Cardinality(E) <= Cardinality(D \cup {x})
  BY <1>1, Fewer
<1> QED  BY <1>1, <1>2, <1>3

LEMMA OneLess ==
  ASSUME NEW D, IsFiniteSet(D), NEW x \in D, NEW E, E \subseteq D \ {x}
  PROVE  Cardinality(E) + 1 <= Cardinality(D)
<1>1. IsFiniteSet(D \ {x}) /\ Cardinality(D \ {x}) = Cardinality(D) - 1
  BY FS_RemoveElement
<1>2. Cardinality(E) <= Cardinality(D \ {x}) /\ Cardinality(E) \in Nat /\ Cardinality(D) \in Nat
  BY <1>1, Fewer
<1> QED  BY <1>1, <1>2

LEMMA AtMostOne ==
  ASSUME NEW x, NEW E, E \subseteq {x}
  PROVE  Cardinality(E) = IF E = {} THEN 0 ELSE 1
<1>1. CASE E = {}
  BY <1>1, FS_EmptySet
<1>2. CASE E = {x}
  BY <1>2, FS_Singleton
<1> QED  BY <1>1, <1>2

LEMMA WorldIs ==
  /\ World.state = state /\ World.changed = changed /\ World.changes = changes
  /\ World.said = said /\ World.local = local /\ World.copies = copies
  /\ World.refused = refused
BY DEF World

LEMMA TypesOf ==
  ASSUME Types
  PROVE  /\ state \in [Issues -> {"none", "open", "closed"}] /\ changed \in [Issues -> Nat]
         /\ changes \in Nat /\ said \in Nat /\ local \in Seq(Issues)
         /\ copies \in [Comments -> [Numbers -> Nat]]
         /\ refused.issues \subseteq Issues /\ refused.comments \subseteq Comments
         /\ file \in Cursors /\ poll \in [Polls -> Rows] /\ IsFiniteSet(Busy)
         /\ cuts \in Nat /\ overlaps \in Nat
         /\ cuts <= MaxCuts /\ overlaps <= MaxOverlaps
         /\ 1 .. said \subseteq Comments
BY WorldIs, WorldFields, SyncAssumption DEF Types

LEMMA CopiesFinite ==
  ASSUME Types, NEW e \in Issues
  PROVE  /\ IsFiniteSet(CopiesOf(e)) /\ Cardinality(CopiesOf(e)) \in Nat
         /\ CopiesOf(e) \subseteq 1 .. Len(local)
<1>1. DOMAIN local = 1 .. Len(local) /\ Len(local) \in Nat
  BY TypesOf
<1>2. IsFiniteSet(1 .. Len(local)) /\ CopiesOf(e) \subseteq 1 .. Len(local)
  BY <1>1, FS_Interval DEF CopiesOf
<1> QED  BY <1>2, Fewer

LEMMA DuesFinite ==
  ASSUME Types
  PROVE  /\ IsFiniteSet(Holders)
         /\ \A e \in Issues : IsFiniteSet(IssueDues(e)) /\ Cardinality(IssueDues(e)) \in Nat
         /\ \A c \in Comments, n \in Numbers :
              IsFiniteSet(CommentDues(c, n)) /\ Cardinality(CommentDues(c, n)) \in Nat
<1>1. IsFiniteSet(Holders)
  BY TypesOf, FS_Singleton DEF Holders
<1>2. ASSUME NEW e \in Issues
      PROVE  IsFiniteSet(IssueDues(e)) /\ Cardinality(IssueDues(e)) \in Nat
  <2>1. IssueDues(e) \subseteq Holders
    BY DEF IssueDues
  <2> QED  BY <1>1, <2>1, Fewer
<1>3. ASSUME NEW c \in Comments, NEW n \in Numbers
      PROVE  IsFiniteSet(CommentDues(c, n)) /\ Cardinality(CommentDues(c, n)) \in Nat
  <2>1. CommentDues(c, n) \subseteq Holders
    BY DEF CommentDues
  <2> QED  BY <1>1, <2>1, Fewer
<1> QED  BY <1>1, <1>2, <1>3

LEMMA DuesFiniteNext ==
  ASSUME Types'
  PROVE  /\ \A e \in Issues : Cardinality(IssueDues(e)') \in Nat
         /\ \A c \in Comments, n \in Numbers : Cardinality(CommentDues(c, n)') \in Nat
<1>1. IsFiniteSet(Holders')
  BY FS_Singleton DEF Types, Holders
<1>2. ASSUME NEW e \in Issues PROVE Cardinality(IssueDues(e)') \in Nat
  <2>1. IssueDues(e)' \subseteq Holders'
    BY DEF IssueDues
  <2> QED  BY <1>1, <2>1, Fewer
<1>3. ASSUME NEW c \in Comments, NEW n \in Numbers PROVE Cardinality(CommentDues(c, n)') \in Nat
  <2>1. CommentDues(c, n)' \subseteq Holders'
    BY DEF CommentDues
  <2> QED  BY <1>1, <2>1, Fewer
<1> QED  BY <1>2, <1>3

\* A step that copies nothing may owe more only for a cut or an overlap.
LEMMA AccountsKept ==
  ASSUME Types, Types', IssuesAccounted, CommentsAccounted, UNCHANGED <<local, copies>>,
         \A e \in Issues :
           Cardinality(IssueDues(e)') + cuts + overlaps
           <= Cardinality(IssueDues(e)) + cuts' + overlaps',
         \A c \in Comments, n \in Numbers :
           Cardinality(CommentDues(c, n)') + cuts + overlaps
           <= Cardinality(CommentDues(c, n)) + cuts' + overlaps'
  PROVE  IssuesAccounted' /\ CommentsAccounted'
<1>1. /\ cuts \in Nat /\ overlaps \in Nat /\ cuts' \in Nat /\ overlaps' \in Nat
      /\ copies \in [Comments -> [Numbers -> Nat]]
  BY TypesOf, SyncAssumption DEF Types
<1>2. ASSUME NEW e \in Issues
      PROVE  Cardinality(CopiesOf(e)') + Cardinality(IssueDues(e)') <= 1 + cuts' + overlaps'
  <2>1. CopiesOf(e)' = CopiesOf(e)
    BY DEF CopiesOf
  <2>2. /\ Cardinality(CopiesOf(e)) \in Nat /\ Cardinality(IssueDues(e)) \in Nat
        /\ Cardinality(IssueDues(e)') \in Nat
    BY CopiesFinite, DuesFinite, DuesFiniteNext
  <2>3. /\ Cardinality(CopiesOf(e)) + Cardinality(IssueDues(e)) <= 1 + cuts + overlaps
        /\ Cardinality(IssueDues(e)') + cuts + overlaps
           <= Cardinality(IssueDues(e)) + cuts' + overlaps'
    BY DEF IssuesAccounted
  <2> QED  BY <1>1, <2>1, <2>2, <2>3
<1>3. ASSUME NEW c \in Comments, NEW n \in Numbers
      PROVE  copies[c][n] + Cardinality(CommentDues(c, n)') <= 1 + cuts' + overlaps'
  <2>1. /\ copies[c][n] \in Nat /\ Cardinality(CommentDues(c, n)) \in Nat
        /\ Cardinality(CommentDues(c, n)') \in Nat
    BY <1>1, DuesFinite, DuesFiniteNext
  <2>2. /\ copies[c][n] + Cardinality(CommentDues(c, n)) <= 1 + cuts + overlaps
        /\ Cardinality(CommentDues(c, n)') + cuts + overlaps
           <= Cardinality(CommentDues(c, n)) + cuts' + overlaps'
    BY DEF CommentsAccounted
  <2> QED  BY <1>1, <2>1, <2>2
<1> QED  BY <1>2, <1>3 DEF IssuesAccounted, CommentsAccounted

\* Numbers suffice: the copies of the web are told apart by their issue and by
\* how many copies of it came before.
LEMMA AllNumbered ==
  ASSUME Types, IssuesAccounted
  PROVE  Numbered(World)
<1> DEFINE K == 1 + MaxCuts + MaxOverlaps
           rank(i) == {j \in CopiesOf(local[i]) : j <= i}
           f == [i \in 1 .. Len(local) |-> <<local[i], Cardinality(rank(i))>>]
<1>1. K \in Nat /\ Len(local) \in Nat /\ \A i \in 1 .. Len(local) : local[i] \in Issues
  BY TypesOf, SyncAssumption
<1>2. ASSUME NEW i \in 1 .. Len(local)
      PROVE  /\ i \in rank(i) /\ IsFiniteSet(rank(i))
             /\ Cardinality(rank(i)) \in 1 .. K
  <2>1. local[i] \in Issues
    BY <1>1
  <2>2. /\ IsFiniteSet(CopiesOf(local[i])) /\ Cardinality(CopiesOf(local[i])) \in Nat
        /\ Cardinality(CopiesOf(local[i])) <= K
    <3>1. /\ Cardinality(CopiesOf(local[i])) + Cardinality(IssueDues(local[i]))
             <= 1 + cuts + overlaps
          /\ Cardinality(IssueDues(local[i])) \in Nat
      BY <2>1, DuesFinite DEF IssuesAccounted
    <3>2. IsFiniteSet(CopiesOf(local[i])) /\ Cardinality(CopiesOf(local[i])) \in Nat
      BY <2>1, CopiesFinite
    <3>3. cuts \in Nat /\ overlaps \in Nat /\ cuts <= MaxCuts /\ overlaps <= MaxOverlaps
      BY TypesOf
    <3> QED  BY <3>1, <3>2, <3>3, SyncAssumption
  <2>3. rank(i) \subseteq CopiesOf(local[i]) /\ i \in rank(i)
    BY <1>1, TypesOf DEF CopiesOf
  <2>4. /\ IsFiniteSet(rank(i)) /\ Cardinality(rank(i)) \in Nat
        /\ Cardinality(rank(i)) <= Cardinality(CopiesOf(local[i]))
    BY <2>2, <2>3, Fewer
  <2>5. Cardinality({i}) = 1 /\ Cardinality({i}) <= Cardinality(rank(i))
    BY <2>3, <2>4, Fewer, FS_Singleton
  <2> QED  BY <1>1, <2>2, <2>3, <2>4, <2>5
<1>3. ASSUME NEW i \in 1 .. Len(local), NEW j \in 1 .. Len(local), i < j, f[i] = f[j]
      PROVE  FALSE
  <2>1. local[i] = local[j] /\ Cardinality(rank(i)) = Cardinality(rank(j))
    BY <1>3
  <2>2. rank(i) \subseteq rank(j) /\ j \notin rank(i) /\ j \in rank(j)
    <3>1. \A k \in CopiesOf(local[i]) : k <= i => k <= j
      BY <1>1, <1>3, CopiesFinite
    <3>2. rank(i) \subseteq rank(j)
      BY <2>1, <3>1
    <3>3. j \in rank(j)
      BY <1>2
    <3>4. ~ (j <= i)
      BY <1>1, <1>3
    <3> QED  BY <3>2, <3>3, <3>4
  <2>3. IsFiniteSet(rank(j))
    BY <1>2
  <2> HIDE DEF rank
  <2> QED  BY <2>1, <2>2, <2>3, FS_Subset
<1>4. f \in Injection(1 .. Len(local), Issues \X (1 .. K))
  <2>1. f \in [1 .. Len(local) -> Issues \X (1 .. K)]
    BY <1>1, <1>2
  <2>2. ASSUME NEW i \in 1 .. Len(local), NEW j \in 1 .. Len(local), f[i] = f[j]
        PROVE  i = j
    <3>1. i < j \/ j < i \/ i = j
      OBVIOUS
    <3> HIDE DEF f
    <3> QED  BY <1>3, <2>2, <3>1
  <2> HIDE DEF f
  <2> QED  BY <2>1, <2>2 DEF Injection, IsInjective
<1> HIDE DEF f
<1>5. IsFiniteSet(1 .. K) /\ Cardinality(1 .. K) = K
  BY <1>1, FS_Interval
<1>6. /\ IsFiniteSet(Issues \X (1 .. K))
      /\ Cardinality(Issues \X (1 .. K)) = Cardinality(Issues) * K
  BY <1>5, SyncAssumption, FS_Product
<1>7. Cardinality(1 .. Len(local)) <= Cardinality(Issues \X (1 .. K))
  BY <1>4, <1>6, FS_Injection
<1>8. Cardinality(1 .. Len(local)) = Len(local)
  <2>1. ASSUME NEW n \in Nat PROVE Cardinality(1 .. n) = n
    BY FS_Interval
  <2> QED  BY <1>1, <2>1
<1> QED  BY <1>6, <1>7, <1>8, WorldIs DEF Numbered

-----------------------------------------------------------------------------
(* The steps                                                               *)

LEMMA GrowsSelf == ASSUME NEW w \in Worlds PROVE Grows(w, w)
BY WorldFields DEF Grows

\* What was known of the world stays known.
LEMMA StillSound ==
  ASSUME SyncInv, World' \in Worlds, Grows(World, World')
  PROVE  /\ Sound(World', NoCursors) /\ Sound(World', file)
         /\ \A q \in Polls : PollInv(World', poll[q])
<1>1. World \in Worlds /\ Numbered(World) /\ poll \in [Polls -> Rows] /\ file \in Cursors
  BY AllNumbered DEF SyncInv, Types
<1>2. Sound(World', NoCursors) /\ Sound(World', file)
  BY <1>1, SoundGrows, NothingKnown DEF SyncInv, Sounds
<1>3. ASSUME NEW q \in Polls PROVE PollInv(World', poll[q])
  <2>1. poll[q] \in Rows /\ PollInv(World, poll[q])
    BY <1>1 DEF SyncInv, Sounds
  <2> QED  BY <1>1, <2>1, PollGrows
<1> QED  BY <1>2, <1>3

\* The world moves and no poll does.
LEMMA ElsewhereKeeps ==
  ASSUME SyncInv, World' \in Worlds, Grows(World, World'), 1 .. said' \subseteq Comments,
         UNCHANGED <<local, copies, file, poll, cuts, overlaps>>
  PROVE  SyncInv'
<1>1. Busy' = Busy
  BY DEF Busy
<1>2. Types'
  BY <1>1 DEF SyncInv, Types
<1>3. Sounds'
  BY StillSound DEF Sounds
<1>4. /\ Holders' = Holders
      /\ \A h : Held(h)' = Held(h)
  BY <1>1 DEF Holders, Held
<1>5. /\ \A e \in Issues : IssueDues(e)' = IssueDues(e) /\ CopiesOf(e)' = CopiesOf(e)
      /\ \A c \in Comments, n \in Numbers : CommentDues(c, n)' = CommentDues(c, n)
  BY <1>4 DEF IssueDues, CommentDues, CopiesOf
<1>6. IssuesAccounted' /\ CommentsAccounted' /\ Unused'
  BY <1>5 DEF SyncInv, IssuesAccounted, CommentsAccounted, Unused
<1> QED  BY <1>2, <1>3, <1>6 DEF SyncInv

LEMMA PollSettles ==
  ASSUME NEW p \in Polls, NEW r, Poll(p, r)
  PROVE  poll' = [poll EXCEPT ![p] = Settled(r)]
BY DEF Poll, Settled

\* A poll under way takes a step and owes no more than before.
LEMMA WorkKeeps ==
  ASSUME SyncInv, World' \in Worlds, Grows(World, World'), said' = said,
         UNCHANGED <<file, cuts, overlaps>>,
         NEW p \in Polls, poll[p].pc # "idle",
         NEW r \in Rows, r.pc # "idle", PollInv(World', r), Poll(p, r)
  PROVE  /\ Types' /\ Sounds' /\ p \in Holders
         /\ \A e \in Issues :
              /\ (IssueDue(r, e) => IssueDue(poll[p], e)) => IssueDues(e)' \subseteq IssueDues(e)
              /\ ~ IssueDue(r, e) => IssueDues(e)' \subseteq IssueDues(e) \ {p}
              /\ IssueDue(poll[p], e) => p \in IssueDues(e)
         /\ \A c \in Comments, n \in Numbers :
              /\ (CommentDue(r, c, n) => CommentDue(poll[p], c, n))
                 => CommentDues(c, n)' \subseteq CommentDues(c, n)
              /\ ~ CommentDue(r, c, n) => CommentDues(c, n)' \subseteq CommentDues(c, n) \ {p}
              /\ CommentDue(poll[p], c, n) => p \in CommentDues(c, n)
              /\ \A h \in CommentDues(c, n)' : h = p \/ (h \in Polls /\ CommentDue(poll[h], c, n))
<1> DEFINE t == Settled(r)
<1>1. /\ t \in Rows /\ PollInv(World', t) /\ t.pc # "idle"
      /\ \A e \in Issues : IssueDue(t, e) => IssueDue(r, e)
      /\ \A c \in Comments, n \in Numbers : CommentDue(t, c, n) => CommentDue(r, c, n)
  BY Settles
<1>2. poll' = [poll EXCEPT ![p] = t]
  BY PollSettles
<1> HIDE DEF t
<1>3. poll \in [Polls -> Rows]
  BY DEF SyncInv, Types
<1>4. /\ poll' \in [Polls -> Rows] /\ poll'[p] = t
      /\ \A q \in Polls : q # p => poll'[q] = poll[q]
  BY <1>1, <1>2, <1>3
<1>5. Busy' = Busy /\ p \in Busy
  BY <1>1, <1>4 DEF Busy
<1>6. Types'
  BY <1>4, <1>5 DEF SyncInv, Types
<1>7. /\ Sound(World', NoCursors) /\ Sound(World', file)
      /\ \A q \in Polls : PollInv(World', poll'[q])
  BY <1>1, <1>4, StillSound
<1>8. Sounds'
  BY <1>7 DEF Sounds
<1>9. /\ Holders = Busy /\ Holders' = Busy
      /\ \A h : Held(h) = poll[h] /\ Held(h)' = poll'[h]
  BY <1>5 DEF Holders, Held
<1>10. ASSUME NEW e \in Issues
       PROVE  /\ IssueDues(e) = {h \in Busy : IssueDue(poll[h], e)}
              /\ IssueDues(e)' = {h \in Busy : IssueDue(poll'[h], e)}
  BY <1>9 DEF IssueDues
<1>11. ASSUME NEW c \in Comments, NEW n \in Numbers
       PROVE  /\ CommentDues(c, n) = {h \in Busy : CommentDue(poll[h], c, n)}
              /\ CommentDues(c, n)' = {h \in Busy : CommentDue(poll'[h], c, n)}
  BY <1>9 DEF CommentDues
<1>12. \A h \in Busy : h \in Polls /\ (h # p => poll'[h] = poll[h])
  BY <1>4 DEF Busy
<1> QED  BY <1>1, <1>4, <1>5, <1>6, <1>8, <1>9, <1>10, <1>11, <1>12

\* A poll under way goes on at r, which knows the world and owes nothing new.
Onward(p, r) ==
  /\ poll[p].pc # "idle" /\ r.pc # "idle" /\ r \in Rows
  /\ PollInv(World', r) /\ Poll(p, r)
  /\ \A e \in Issues : IssueDue(r, e) => IssueDue(poll[p], e)
  /\ \A c \in Comments, n \in Numbers : CommentDue(r, c, n) => CommentDue(poll[p], c, n)

\* When nothing is copied the accounts stay as they are.
LEMMA QuietWorkKeeps ==
  ASSUME SyncInv, World' \in Worlds, Grows(World, World'),
         UNCHANGED <<said, local, copies, file, cuts, overlaps>>,
         NEW p \in Polls, NEW r, Onward(p, r)
  PROVE  SyncInv'
<1>1. /\ Types' /\ Sounds'
      /\ \A e \in Issues : IssueDues(e)' \subseteq IssueDues(e)
      /\ \A c \in Comments, n \in Numbers : CommentDues(c, n)' \subseteq CommentDues(c, n)
  BY WorkKeeps DEF Onward
<1>2. Types
  BY DEF SyncInv
<1>3. ASSUME NEW e \in Issues
      PROVE  Cardinality(IssueDues(e)') + cuts + overlaps
             <= Cardinality(IssueDues(e)) + cuts' + overlaps'
  <2>1. /\ Cardinality(IssueDues(e)') <= Cardinality(IssueDues(e))
        /\ Cardinality(IssueDues(e)') \in Nat /\ Cardinality(IssueDues(e)) \in Nat
    BY <1>1, <1>2, DuesFinite, Fewer
  <2> QED  BY <1>2, <2>1, TypesOf
<1>4. ASSUME NEW c \in Comments, NEW n \in Numbers
      PROVE  Cardinality(CommentDues(c, n)') + cuts + overlaps
             <= Cardinality(CommentDues(c, n)) + cuts' + overlaps'
  <2>1. /\ Cardinality(CommentDues(c, n)') <= Cardinality(CommentDues(c, n))
        /\ Cardinality(CommentDues(c, n)') \in Nat /\ Cardinality(CommentDues(c, n)) \in Nat
    BY <1>1, <1>2, DuesFinite, Fewer
  <2> QED  BY <1>2, <2>1, TypesOf
<1> QED  BY <1>1, <1>3, <1>4, AccountsKept DEF SyncInv, Unused

LEMMA HereStays ==
  ASSUME SyncInv, UNCHANGED there, UNCHANGED here
  PROVE  World' = World /\ World \in Worlds /\ Grows(World, World') /\ said' = said
<1>1. World' = World /\ World \in Worlds /\ said' = said
  BY DEF there, here, World, SyncInv, Types
<1> QED  BY <1>1, GrowsSelf

LEMMA PollOf ==
  ASSUME SyncInv, NEW p \in Polls
  PROVE  /\ poll[p] \in Rows /\ PollInv(World, poll[p]) /\ Sound(World, poll[p].cursors)
         /\ poll[p].cursors \in Cursors
         /\ \A e \in Issues : poll[p].cursors.map[e] \in Nat /\ poll[p].cursors.comments[e] \in Nat
BY RowFields, CursorFields DEF SyncInv, Types, Sounds, PollInv

\* One issue is opened, closed or reopened.
LEMMA ChangeKeeps ==
  ASSUME SyncInv, NEW e \in Issues, Change(e)
  PROVE  SyncInv'
<1>1. Types /\ World \in Worlds
  BY DEF SyncInv, Types
<1>2. /\ changes \in Nat /\ changed \in [Issues -> Nat]
      /\ state \in [Issues -> {"none", "open", "closed"}]
  BY <1>1, TypesOf
<1>3. /\ changes' = changes + 1 /\ changed' = [changed EXCEPT ![e] = changes + 1]
      /\ state' = [state EXCEPT ![e] = IF @ = "open" THEN "closed" ELSE "open"]
      /\ UNCHANGED <<said, local, copies, refused, file, poll, cuts, overlaps>>
  BY DEF Change, here
<1>4. World' \in Worlds
  <2>1. /\ changes' \in Nat /\ changed' \in [Issues -> Nat]
        /\ state' \in [Issues -> {"none", "open", "closed"}]
    BY <1>2, <1>3
  <2> QED  BY <1>1, <1>3, <2>1 DEF World, Worlds
<1>5. Grows(World, World')
  <2>1. \A f \in Issues : \/ changed'[f] = changed[f] /\ state'[f] = state[f]
                          \/ changed'[f] > changes
    BY <1>2, <1>3
  <2>2. \A c \in Comments, n \in Numbers : copies[c][n] <= copies[c][n]
    BY <1>1, TypesOf
  <2>3. Len(local) \in Nat /\ said \in Nat
    BY <1>1, TypesOf
  <2> QED  BY <1>2, <1>3, <2>1, <2>2, <2>3 DEF Grows, World
<1>6. 1 .. said' \subseteq Comments
  BY <1>1, <1>3, TypesOf
<1> QED  BY <1>3, <1>4, <1>5, <1>6, ElsewhereKeeps

LEMMA CommentKeeps ==
  ASSUME SyncInv, Comment
  PROVE  SyncInv'
<1>1. Types /\ World \in Worlds
  BY DEF SyncInv, Types
<1>2. /\ said' = said + 1 /\ said + 1 \in Comments
      /\ UNCHANGED <<state, changed, changes, local, copies, refused, file, poll, cuts, overlaps>>
  BY DEF Comment, here
<1>3. said \in Nat /\ 1 .. said \subseteq Comments
  BY <1>1, TypesOf
<1>4. World' \in Worlds
  BY <1>1, <1>2, <1>3 DEF World, Worlds
<1>5. Grows(World, World')
  <2>1. \A c \in Comments, n \in Numbers : copies[c][n] <= copies[c][n]
    BY <1>1, TypesOf
  <2>2. Len(local) \in Nat /\ changes \in Nat
    BY <1>1, TypesOf
  <2> QED  BY <1>2, <1>3, <2>1, <2>2 DEF Grows, World
<1>6. 1 .. said' \subseteq Comments
  BY <1>2, <1>3
<1> QED  BY <1>2, <1>4, <1>5, <1>6, ElsewhereKeeps

LEMMA ListIssuesKeeps ==
  ASSUME SyncInv, NEW p \in Polls, ListIssues(p)
  PROVE  SyncInv'
<1> DEFINE k == poll[p].cursors
           end == IF ChangedAfter(k.issues) = {} THEN k.issues ELSE changes
           open == {e \in ChangedAfter(k.issues) : state[e] = "open"}
           r == [poll[p] EXCEPT !.pc = "issues", !.next = end, !.todo = open]
<1>1. /\ poll[p].pc = "list" /\ Poll(p, r)
      /\ UNCHANGED <<there, here, file, cuts, overlaps>>
  BY DEF ListIssues
<1>2. /\ poll[p] \in Rows /\ k \in Cursors /\ k.issues \in Nat /\ Sound(World, k)
      /\ k.issues <= changes /\ changes \in Nat /\ changed \in [Issues -> Nat]
  <2>1. Types /\ poll[p] \in Rows /\ k \in Cursors /\ Sound(World, k)
    BY PollOf DEF SyncInv
  <2> QED  BY <2>1, CursorFields, TypesOf, WorldIs DEF Sound, Named
<1>3. end \in Nat /\ k.issues <= end /\ end <= changes
  BY <1>2
<1>4. open \subseteq Issues /\ open \subseteq Nat
  BY SyncAssumption DEF ChangedAfter
<1>5. IssuesBehind(World, k, end, open)
  <2> SUFFICES ASSUME NEW e \in Issues, state[e] = "open", changed[e] <= end
               PROVE  k.map[e] # NoIssue \/ e \in refused.issues \/ e \in open
    BY WorldIs DEF IssuesBehind
  <2>1. CASE changed[e] <= k.issues
    BY <1>2, <2>1, WorldIs DEF Sound, IssuesBehind
  <2>2. CASE ~ (changed[e] <= k.issues)
    BY <1>2, <2>2 DEF ChangedAfter
  <2> QED  BY <2>1, <2>2
<1> HIDE DEF end, open
<1>6. /\ r \in Rows /\ r.pc = "issues" /\ r.cursors = k
      /\ r.todo = open /\ r.next = end
  BY <1>2, <1>3, <1>4 DEF Rows
<1> HIDE DEF r
<1>7. PollInv(World, r)
  BY <1>2, <1>3, <1>4, <1>5, <1>6, WorldIs DEF PollInv, Listing, Visiting, Copying
<1>8. /\ \A e \in Issues : IssueDue(r, e) => IssueDue(poll[p], e)
      /\ \A c \in Comments, n \in Numbers : CommentDue(r, c, n) => CommentDue(poll[p], c, n)
  BY <1>1, <1>6 DEF IssueDue, CommentDue
<1> HIDE DEF k
<1>9. World' \in Worlds /\ Grows(World, World') /\ PollInv(World', r)
      /\ UNCHANGED <<said, local, copies, file, cuts, overlaps>>
  BY <1>1, <1>7, HereStays DEF here, there
<1>10. Onward(p, r)
  BY <1>1, <1>6, <1>8, <1>9 DEF Onward
<1> QED  BY <1>9, <1>10, QuietWorkKeeps

LEMMA ListCommentsKeeps ==
  ASSUME SyncInv, NEW p \in Polls, ListComments(p)
  PROVE  SyncInv'
<1> DEFINE k == poll[p].cursors
<1>1. PICK e \in poll[p].left :
        LET listed == {c \in 1 .. said : On[c] = k.map[e] /\ c > k.comments[e]}
        IN  Poll(p, [poll[p] EXCEPT !.pc = "copy", !.at = e, !.todo = listed \ Bots,
                       !.next = IF listed = {} THEN k.comments[e] ELSE said])
  BY DEF ListComments
<1>2. poll[p].pc = "comments" /\ UNCHANGED <<there, here, file, cuts, overlaps>>
  BY DEF ListComments
<1> DEFINE listed == {c \in 1 .. said : On[c] = k.map[e] /\ c > k.comments[e]}
           end == IF listed = {} THEN k.comments[e] ELSE said
           new == listed \ Bots
           r == [poll[p] EXCEPT !.pc = "copy", !.at = e, !.todo = new, !.next = end]
<1>3. Types /\ poll[p] \in Rows /\ k \in Cursors /\ Sound(World, k) /\ PollInv(World, poll[p])
  BY PollOf DEF SyncInv
<1>4. /\ e \in Issues /\ k.map[e] # NoIssue /\ k.comments[e] \in Nat /\ k.map[e] \in Nat
      /\ k.comments[e] <= said /\ said \in Nat /\ 1 .. said \subseteq Comments
  <2>1. e \in Issues /\ k.map[e] # NoIssue
    BY <1>1, <1>2, <1>3, RowFields DEF PollInv, Visiting
  <2> QED  BY <1>3, <2>1, CursorFields, TypesOf, WorldIs DEF Sound, Named
<1>5. Poll(p, r)
  BY <1>1
<1>6. /\ end \in Nat /\ k.comments[e] <= end /\ end <= said
      /\ \A c \in new : c \in Comments /\ k.comments[e] < c /\ c <= end
  BY <1>4
<1>7. CommentsBehind(World, k, e, end, new)
  <2> SUFFICES ASSUME NEW c \in Comments \ Bots, c <= said, c <= end, On[c] = k.map[e]
               PROVE  copies[c][k.map[e]] > 0 \/ c \in refused.comments \/ c \in new
    BY WorldIs DEF CommentsBehind
  <2>1. CASE c <= k.comments[e]
    BY <1>3, <1>4, <2>1, WorldIs DEF Sound, CommentsBehind
  <2>2. CASE ~ (c <= k.comments[e])
    <3> c \in Nat \ {0}
      BY SyncAssumption
    <3>1. c \in 1 .. said
      BY <1>4
    <3>2. c > k.comments[e]
      BY <1>4, <2>2, <3>1
    <3> QED  BY <3>1, <3>2
  <2> QED  BY <2>1, <2>2
<1>8. new \subseteq Nat
  BY <1>4
<1> HIDE DEF end, new
<1>9. /\ r \in Rows /\ r.pc = "copy" /\ r.cursors = k /\ r.at = e /\ r.left = poll[p].left
      /\ r.todo = new /\ r.next = end
  BY <1>3, <1>4, <1>6, <1>8, SyncAssumption DEF Rows
<1> HIDE DEF r
<1>10. PollInv(World, r)
  <2>1. Listing(World, r) /\ Visiting(World, r)
    BY <1>2, <1>3, <1>9 DEF Listing, Visiting, PollInv
  <2>2. Copying(World, r)
    BY <1>4, <1>6, <1>7, <1>9, WorldIs DEF Copying
  <2> QED  BY <1>3, <1>9, <2>1, <2>2 DEF PollInv
<1>11. /\ \A f \in Issues : IssueDue(r, f) => IssueDue(poll[p], f)
       /\ \A c \in Comments, n \in Numbers : CommentDue(r, c, n) => CommentDue(poll[p], c, n)
  BY <1>2, <1>9 DEF IssueDue, CommentDue
<1> HIDE DEF k
<1>12. World' \in Worlds /\ Grows(World, World') /\ PollInv(World', r)
       /\ UNCHANGED <<said, local, copies, file, cuts, overlaps>>
  BY <1>2, <1>10, HereStays DEF here, there
<1>13. Onward(p, r)
  BY <1>2, <1>5, <1>9, <1>11, <1>12 DEF Onward
<1> QED  BY <1>12, <1>13, QuietWorkKeeps

\* An issue that the web refuses, or that has a copy, leaves the accounts alone.
LEMMA PassIssueKeeps ==
  ASSUME SyncInv, NEW p \in Polls, poll[p].pc = "issues", NEW e \in poll[p].todo,
         Poll(p, [poll[p] EXCEPT !.todo = @ \ {e}]),
         UNCHANGED <<there, local, copies, file, cuts, overlaps>>,
         refused' \in [issues : SUBSET Issues, comments : SUBSET Comments],
         refused.issues \subseteq refused'.issues, refused.comments \subseteq refused'.comments,
         e \in refused'.issues \/ poll[p].cursors.map[e] # NoIssue
  PROVE  SyncInv'
<1> DEFINE k == poll[p].cursors
           rest == poll[p].todo \ {e}
           r == [poll[p] EXCEPT !.todo = rest]
<1>1. Types /\ World \in Worlds /\ poll[p] \in Rows /\ k \in Cursors /\ PollInv(World, poll[p])
  BY PollOf DEF SyncInv, Types
<1>2. poll[p].todo \subseteq Issues /\ poll[p].todo \subseteq Nat /\ e \in Issues
  BY <1>1, RowFields DEF PollInv, Listing
<1>3. World' \in Worlds /\ Grows(World, World')
  <2>1. World' \in Worlds
    BY <1>1 DEF World, Worlds, there
  <2>2. UNCHANGED <<state, changed, changes, said, local, copies>>
    BY DEF there
  <2>3. /\ changes \in Nat /\ said \in Nat /\ Len(local) \in Nat
        /\ \A c \in Comments, n \in Numbers : copies[c][n] <= copies[c][n]
    BY <1>1, TypesOf
  <2> QED  BY <2>1, <2>2, <2>3 DEF Grows, World
<1>4. PollInv(World', poll[p])
  BY <1>3, StillSound
<1>5. Poll(p, r)
  OBVIOUS
<1>6. rest \subseteq Nat
  BY <1>2
<1>7. /\ r \in Rows /\ r.pc = "issues" /\ r.cursors = k /\ r.todo = rest
      /\ r.next = poll[p].next
  BY <1>1, <1>6 DEF Rows
<1> HIDE DEF r
<1>8. PollInv(World', r)
  <2>1. World'.refused = refused'
    BY DEF World
  <2>2. Listing(World', r)
    BY <1>2, <1>4, <1>7, <2>1 DEF PollInv, Listing, IssuesBehind
  <2> QED  BY <1>4, <1>7, <2>2 DEF PollInv, Visiting, Copying
<1>9. /\ \A f \in Issues : IssueDue(r, f) => IssueDue(poll[p], f)
      /\ \A c \in Comments, n \in Numbers : CommentDue(r, c, n) => CommentDue(poll[p], c, n)
  BY <1>7 DEF IssueDue, CommentDue
<1> HIDE DEF k, rest
<1>10. UNCHANGED <<said, local, copies, file, cuts, overlaps>>
  BY DEF there
<1>11. Onward(p, r)
  BY <1>5, <1>7, <1>8, <1>9 DEF Onward
<1> QED  BY <1>3, <1>10, <1>11, QuietWorkKeeps

\* The answer to the POST maps the issue to the next number.
LEMMA MapIssueKeeps ==
  ASSUME SyncInv, NEW p \in Polls, poll[p].pc = "issues", NEW e \in poll[p].todo,
         poll[p].cursors.map[e] = NoIssue,
         local' = Append(local, e),
         Poll(p, [poll[p] EXCEPT !.todo = @ \ {e}, !.cursors.map[e] = Own + Len(local')]),
         UNCHANGED <<there, copies, refused, file, cuts, overlaps>>
  PROVE  SyncInv'
<1> DEFINE k == poll[p].cursors
           rest == poll[p].todo \ {e}
           new == Own + Len(local')
           m == [k EXCEPT !.map[e] = new]
           r == [poll[p] EXCEPT !.todo = rest, !.cursors = m]
<1>1. Types /\ World \in Worlds /\ poll[p] \in Rows /\ k \in Cursors /\ PollInv(World, poll[p])
  BY PollOf DEF SyncInv, Types
<1>2. poll[p].todo \subseteq Issues /\ poll[p].todo \subseteq Nat /\ e \in Issues
  BY <1>1, RowFields DEF PollInv, Listing
<1>3. /\ local \in Seq(Issues) /\ local' \in Seq(Issues) /\ Len(local) \in Nat
      /\ Len(local') = Len(local) + 1 /\ local'[Len(local')] = e
      /\ \A i \in 1 .. Len(local) : local'[i] = local[i]
      /\ new \in Nat /\ new > Own + Len(local) /\ new # NoIssue
      /\ new - Own = Len(local')
  <2>1. local \in Seq(Issues) /\ Own \in Nat
    BY <1>1, TypesOf, SyncAssumption
  <2>2. /\ local' \in Seq(Issues) /\ Len(local) \in Nat
        /\ Len(local') = Len(local) + 1 /\ local'[Len(local')] = e
        /\ \A i \in 1 .. Len(local) : local'[i] = local[i]
    BY <1>2, <2>1
  <2> QED  BY <2>1, <2>2 DEF NoIssue
<1>4. World' \in Worlds /\ Grows(World, World')
  <2>1. World' \in Worlds
    BY <1>1, <1>3 DEF World, Worlds, there
  <2>2. UNCHANGED <<state, changed, changes, said, copies, refused>>
    BY DEF there
  <2>3. /\ changes \in Nat /\ said \in Nat
        /\ \A c \in Comments, n \in Numbers : copies[c][n] <= copies[c][n]
    BY <1>1, TypesOf
  <2> QED  BY <1>3, <2>1, <2>2, <2>3 DEF Grows, World
<1>5. PollInv(World', poll[p])
  BY <1>4, StillSound
<1> HIDE DEF new
<1>6. /\ m \in Cursors /\ m.issues = k.issues /\ m.comments = k.comments
      /\ \A f \in Issues : m.map[f] = IF f = e THEN new ELSE k.map[f]
  BY <1>1, <1>2, <1>3 DEF Cursors
<1> HIDE DEF m
<1>7. Poll(p, r)
  BY DEF new, m
<1>8. rest \subseteq Nat
  BY <1>2
<1> HIDE DEF rest
<1>9. /\ r \in Rows /\ r.pc = "issues" /\ r.cursors = m /\ r.todo = rest
      /\ r.next = poll[p].next
  BY <1>1, <1>6, <1>8 DEF Rows
<1> HIDE DEF r
<1>10. PollInv(World', r)
  <2>1. World'.local = local' /\ k.comments[e] = 0
    BY <1>2, <1>5 DEF World, PollInv, Sound, Named
  <2>2. Named(World', m)
    <3>1. Named(World', k)
      BY <1>5 DEF PollInv, Sound
    <3>2. ASSUME NEW f \in Issues, m.map[f] # NoIssue
          PROVE  m.map[f] - Own \in 1 .. Len(local') /\ local'[m.map[f] - Own] = f
      <4>1. CASE f = e
        BY <1>3, <1>6, <4>1
      <4>2. CASE f # e
        BY <1>6, <2>1, <3>1, <3>2, <4>2 DEF Named
      <4> QED  BY <4>1, <4>2
    <3>3. ASSUME NEW f \in Issues, m.map[f] = NoIssue PROVE m.comments[f] = 0
      BY <1>3, <1>6, <3>1, <3>3 DEF Named
    <3> QED  BY <1>6, <2>1, <3>1, <3>2, <3>3 DEF Named
  <2>3. IssuesBehind(World', m, m.issues, {})
    BY <1>3, <1>5, <1>6 DEF PollInv, Sound, IssuesBehind
  <2>4. ASSUME NEW f \in Issues PROVE CommentsBehind(World', m, f, m.comments[f], {})
    <3>1. CASE f = e
      BY <1>6, <2>1, <3>1, SyncAssumption DEF CommentsBehind
    <3>2. CASE f # e
      BY <1>5, <1>6, <3>2 DEF PollInv, Sound, CommentsBehind
    <3> QED  BY <3>1, <3>2
  <2>5. Listing(World', r)
    BY <1>2, <1>3, <1>5, <1>6, <1>9 DEF PollInv, Listing, IssuesBehind, rest
  <2> QED  BY <1>9, <2>2, <2>3, <2>4, <2>5 DEF PollInv, Sound, Visiting, Copying
<1> HIDE DEF k
<1>11. said' = said /\ poll[p].pc # "idle" /\ r.pc # "idle"
  BY <1>9 DEF there
<1>12. /\ Types' /\ Sounds' /\ p \in Holders
       /\ \A f \in Issues :
            /\ (IssueDue(r, f) => IssueDue(poll[p], f)) => IssueDues(f)' \subseteq IssueDues(f)
            /\ ~ IssueDue(r, f) => IssueDues(f)' \subseteq IssueDues(f) \ {p}
            /\ IssueDue(poll[p], f) => p \in IssueDues(f)
       /\ \A c \in Comments, n \in Numbers :
            /\ (CommentDue(r, c, n) => CommentDue(poll[p], c, n))
               => CommentDues(c, n)' \subseteq CommentDues(c, n)
            /\ \A h \in CommentDues(c, n)' : h = p \/ (h \in Polls /\ CommentDue(poll[h], c, n))
  BY <1>4, <1>7, <1>9, <1>10, <1>11, WorkKeeps
<1>13. ASSUME NEW f \in Issues
       PROVE  Cardinality(CopiesOf(f)') + Cardinality(IssueDues(f)') <= 1 + cuts + overlaps
  <2>1. /\ Cardinality(CopiesOf(f)) + Cardinality(IssueDues(f)) <= 1 + cuts + overlaps
        /\ IsFiniteSet(IssueDues(f)) /\ Cardinality(IssueDues(f)) \in Nat
        /\ IsFiniteSet(CopiesOf(f)) /\ Cardinality(CopiesOf(f)) \in Nat
        /\ cuts \in Nat /\ overlaps \in Nat
    BY <1>1, DuesFinite, CopiesFinite, TypesOf DEF SyncInv, IssuesAccounted
  <2>2. CASE f = e
    <3>1. IssueDues(f)' \subseteq IssueDues(f) \ {p} /\ p \in IssueDues(f)
      BY <1>3, <1>6, <1>9, <1>12, <2>2 DEF IssueDue
    <3>2. CopiesOf(f)' \subseteq CopiesOf(f) \cup {Len(local')}
      BY <1>3 DEF CopiesOf
    <3>3. /\ Cardinality(CopiesOf(f)') <= Cardinality(CopiesOf(f)) + 1
          /\ Cardinality(IssueDues(f)') + 1 <= Cardinality(IssueDues(f))
      BY <2>1, <3>1, <3>2, OneMore, OneLess
    <3>4. Cardinality(CopiesOf(f)') \in Nat /\ Cardinality(IssueDues(f)') \in Nat
      <4>1. IsFiniteSet(CopiesOf(f) \cup {Len(local')})
        BY <2>1, FS_AddElement
      <4> QED  BY <2>1, <3>1, <3>2, <4>1, Fewer
    <3> QED  BY <2>1, <3>3, <3>4
  <2>3. CASE f # e
    <3>1. IssueDues(f)' \subseteq IssueDues(f)
      BY <1>6, <1>9, <1>12, <2>3 DEF IssueDue, k
    <3>2. CopiesOf(f)' \subseteq CopiesOf(f)
      BY <1>3, <2>3 DEF CopiesOf
    <3>3. /\ Cardinality(CopiesOf(f)') <= Cardinality(CopiesOf(f))
          /\ Cardinality(IssueDues(f)') <= Cardinality(IssueDues(f))
          /\ Cardinality(CopiesOf(f)') \in Nat /\ Cardinality(IssueDues(f)') \in Nat
      BY <2>1, <3>1, <3>2, Fewer
    <3> QED  BY <2>1, <3>3
  <2> QED  BY <2>2, <2>3
<1>14. ASSUME NEW c \in Comments, NEW n \in Numbers
       PROVE  copies[c][n] + Cardinality(CommentDues(c, n)') <= 1 + cuts + overlaps
  <2>1. /\ copies[c][n] + Cardinality(CommentDues(c, n)) <= 1 + cuts + overlaps
        /\ IsFiniteSet(CommentDues(c, n)) /\ Cardinality(CommentDues(c, n)) \in Nat
        /\ copies[c][n] \in Nat /\ cuts \in Nat /\ overlaps \in Nat
    BY <1>1, DuesFinite, TypesOf DEF SyncInv, CommentsAccounted
  <2>2. CASE n = new
    <3>1. copies[c][n] = 0
      BY <1>3, <2>2 DEF SyncInv, Unused
    <3>2. ASSUME NEW q \in Polls, CommentDue(poll[q], c, n) PROVE FALSE
      <4>1. PICK f \in Issues : poll[q].cursors.map[f] = n
        BY <3>2 DEF CommentDue
      <4>2. n - Own \in 1 .. Len(local)
        BY <1>3, <2>2, <4>1, PollOf, WorldIs DEF Sound, Named
      <4> QED  BY <1>3, <2>2, <4>2, SyncAssumption
    <3>3. CommentDues(c, n)' \subseteq {p}
      BY <1>12, <3>2
    <3>4. Cardinality(CommentDues(c, n)') = 0 \/ Cardinality(CommentDues(c, n)') = 1
      BY <3>3, AtMostOne
    <3> QED  BY <2>1, <3>1, <3>4
  <2>3. CASE n # new
    <3>1. CommentDue(r, c, n) => CommentDue(poll[p], c, n)
      BY <1>6, <1>9, <2>3 DEF CommentDue, k
    <3>2. CommentDues(c, n)' \subseteq CommentDues(c, n)
      BY <1>12, <3>1
    <3>3. /\ Cardinality(CommentDues(c, n)') <= Cardinality(CommentDues(c, n))
          /\ Cardinality(CommentDues(c, n)') \in Nat
      BY <2>1, <3>2, Fewer
    <3> QED  BY <2>1, <3>3
  <2> QED  BY <2>2, <2>3
<1>15. Unused'
  <2> SUFFICES ASSUME NEW c \in Comments, NEW n \in Numbers, n > Own + Len(local')
               PROVE  copies[c][n] = 0
    BY DEF Unused
  <2>1. n \in Nat
    BY SyncAssumption DEF Numbers
  <2> QED  BY <1>3, <2>1, SyncAssumption DEF SyncInv, Unused
<1>16. IssuesAccounted' /\ CommentsAccounted'
  BY <1>13, <1>14 DEF IssuesAccounted, CommentsAccounted
<1> QED  BY <1>12, <1>15, <1>16 DEF SyncInv

LEMMA CopyIssueKeeps ==
  ASSUME SyncInv, NEW p \in Polls, CopyIssue(p)
  PROVE  SyncInv'
<1>1. /\ poll[p].pc = "issues"
      /\ UNCHANGED <<there, copies, file, cuts, overlaps>>
  BY DEF CopyIssue
<1> DEFINE rest(e) == [poll[p] EXCEPT !.todo = @ \ {e}]
           mapped(e) == [rest(e) EXCEPT !.cursors.map[e] = Own + Len(local')]
<1>2. PICK e \in poll[p].todo :
        \/ /\ poll[p].cursors.map[e] # NoIssue
           /\ Poll(p, rest(e)) /\ UNCHANGED <<local, refused>>
        \/ /\ poll[p].cursors.map[e] = NoIssue
           /\ local' = Append(local, e) /\ Poll(p, mapped(e)) /\ UNCHANGED refused
        \/ /\ refused' = [refused EXCEPT !.issues = @ \cup {e}]
           /\ Poll(p, rest(e)) /\ UNCHANGED local
  BY Zenon DEF CopyIssue
<1>3. mapped(e) = [poll[p] EXCEPT !.todo = @ \ {e}, !.cursors.map[e] = Own + Len(local')]
  BY PollOf DEF Rows
<1>4. rest(e) = [poll[p] EXCEPT !.todo = @ \ {e}]
  OBVIOUS
<1> HIDE DEF rest, mapped
<1>5. CASE /\ Poll(p, rest(e)) /\ UNCHANGED local
           /\ \/ refused' = [refused EXCEPT !.issues = @ \cup {e}]
              \/ refused' = refused /\ poll[p].cursors.map[e] # NoIssue
  <2>1. Poll(p, [poll[p] EXCEPT !.todo = @ \ {e}])
    BY <1>4, <1>5
  <2>2. UNCHANGED <<there, local, copies, file, cuts, overlaps>>
    BY <1>1, <1>5
  <2>3. /\ refused' \in [issues : SUBSET Issues, comments : SUBSET Comments]
        /\ refused.issues \subseteq refused'.issues
        /\ refused.comments \subseteq refused'.comments
        /\ e \in refused'.issues \/ poll[p].cursors.map[e] # NoIssue
    <3>1. refused \in [issues : SUBSET Issues, comments : SUBSET Comments]
      BY DEF SyncInv, Types, Worlds, World
    <3>2. e \in Issues
      BY <1>1, PollOf DEF PollInv, Listing
    <3> QED  BY <1>5, <3>1, <3>2
  <2> QED  BY <1>1, <2>1, <2>2, <2>3, PassIssueKeeps
<1>6. CASE /\ poll[p].cursors.map[e] = NoIssue /\ UNCHANGED refused
           /\ local' = Append(local, e) /\ Poll(p, mapped(e))
  BY <1>1, <1>3, <1>6, MapIssueKeeps
<1> QED  BY <1>2, <1>5, <1>6

\* A comment is copied, or refused: its poll is done with it.
LEMMA CopyCommentKeeps ==
  ASSUME SyncInv, NEW p \in Polls, CopyComment(p)
  PROVE  SyncInv'
<1> DEFINE k == poll[p].cursors
<1>a. PICK e : e = poll[p].at
  OBVIOUS
<1>n. PICK n : n = k.map[e]
  OBVIOUS
<1>1. /\ poll[p].pc = "copy" /\ UNCHANGED <<there, local, file, cuts, overlaps>>
  BY DEF CopyComment
<1>2. PICK c \in poll[p].todo :
        /\ Poll(p, [poll[p] EXCEPT !.todo = @ \ {c}])
        /\ \/ copies' = [copies EXCEPT ![c][n] = @ + 1] /\ UNCHANGED refused
           \/ /\ "refuse" \in Env
              /\ refused' = [refused EXCEPT !.comments = @ \cup {c}]
              /\ UNCHANGED copies
  BY <1>a, <1>n DEF CopyComment
<1> DEFINE rest == poll[p].todo \ {c}
           r == [poll[p] EXCEPT !.todo = rest]
<1>3. /\ Types /\ World \in Worlds /\ Numbered(World)
      /\ poll[p] \in Rows /\ k \in Cursors /\ PollInv(World, poll[p]) /\ Sound(World, k)
  BY PollOf, AllNumbered DEF SyncInv, Types
<1>4. /\ e \in Issues /\ n # NoIssue /\ n \in Nat
      /\ c \in Comments /\ k.comments[e] < c /\ c <= poll[p].next
  BY <1>a, <1>n, <1>1, <1>3, PollOf DEF PollInv, Copying
<1>5. n \in Numbers /\ n - Own \in 1 .. Len(local) /\ local[n - Own] = e
  <2>1. n - Own \in 1 .. Len(local) /\ local[n - Own] = e
    BY <1>n, <1>3, <1>4, WorldIs DEF Sound, Named
  <2> QED  BY <1>3, <1>4, <2>1, NumbersOf, WorldIs
<1>6. /\ copies \in [Comments -> [Numbers -> Nat]]
      /\ refused \in [issues : SUBSET Issues, comments : SUBSET Comments]
      /\ changes \in Nat /\ said \in Nat /\ Len(local) \in Nat
  BY <1>3, TypesOf DEF World, Worlds
<1>7. /\ copies' \in [Comments -> [Numbers -> Nat]]
      /\ refused' \in [issues : SUBSET Issues, comments : SUBSET Comments]
      /\ refused.issues \subseteq refused'.issues
      /\ refused.comments \subseteq refused'.comments
      /\ copies'[c][n] > 0 \/ c \in refused'.comments
      /\ \A d \in Comments, i \in Numbers :
           copies'[d][i] = copies[d][i] \/ (d = c /\ i = n /\ copies'[d][i] = copies[d][i] + 1)
  <2>1. CASE copies' = [copies EXCEPT ![c][n] = @ + 1] /\ UNCHANGED refused
    BY <1>4, <1>5, <1>6, <2>1
  <2>2. CASE refused' = [refused EXCEPT !.comments = @ \cup {c}] /\ UNCHANGED copies
    BY <1>4, <1>6, <2>2
  <2> QED  BY <1>2, <2>1, <2>2
<1>8. World' \in Worlds /\ Grows(World, World')
  <2>1. World' \in Worlds
    BY <1>1, <1>3, <1>7 DEF World, Worlds, there
  <2>2. \A d \in Comments, i \in Numbers : copies[d][i] <= copies'[d][i]
    <3>1. \A d \in Comments, i \in Numbers : copies[d][i] \in Nat
      BY <1>6
    <3> QED  BY <1>7, <3>1
  <2>3. UNCHANGED <<state, changed, changes, said, local>>
    BY <1>1 DEF there
  <2> QED  BY <1>6, <1>7, <2>1, <2>2, <2>3 DEF Grows, World
<1>9. PollInv(World', poll[p])
  BY <1>8, StillSound
<1>10. Poll(p, r) /\ rest \subseteq Nat /\ rest \subseteq poll[p].todo
  BY <1>2, <1>3, RowFields
<1>11. /\ r \in Rows /\ r.pc = "copy" /\ r.cursors = k /\ r.at = e /\ r.left = poll[p].left
       /\ r.todo = rest /\ r.next = poll[p].next
  BY <1>a, <1>1, <1>3, <1>10 DEF Rows
<1> HIDE DEF r
<1>12. PollInv(World', r)
  <2>1. Listing(World', r) /\ Visiting(World', r)
    BY <1>1, <1>9, <1>11 DEF Listing, Visiting, PollInv
  <2>2. /\ poll[p].at \in Issues /\ k.map[poll[p].at] # NoIssue
        /\ k.comments[e] <= poll[p].next /\ poll[p].next <= World'.said
        /\ \A d \in poll[p].todo : d \in Comments /\ k.comments[e] < d /\ d <= poll[p].next
        /\ CommentsBehind(World', k, e, poll[p].next, poll[p].todo)
    BY <1>a, <1>1, <1>9 DEF PollInv, Copying
  <2>3. CommentsBehind(World', k, e, poll[p].next, rest)
    <3>1. World'.copies = copies' /\ World'.refused = refused'
      BY DEF World
    <3> QED  BY <1>n, <1>7, <2>2, <3>1 DEF CommentsBehind
  <2>4. Copying(World', r)
    BY <1>a, <1>10, <1>11, <2>2, <2>3 DEF Copying
  <2> QED  BY <1>9, <1>11, <2>1, <2>4 DEF PollInv
<1>13. /\ \A f \in Issues : IssueDue(r, f) => IssueDue(poll[p], f)
       /\ \A d \in Comments, i \in Numbers : CommentDue(r, d, i) => CommentDue(poll[p], d, i)
  BY <1>a, <1>1, <1>10, <1>11 DEF IssueDue, CommentDue
<1>14. ~ CommentDue(r, c, n) /\ CommentDue(poll[p], c, n)
  <2>1. CommentDue(poll[p], c, n)
    BY <1>a, <1>n, <1>4 DEF CommentDue
  <2>2. ASSUME NEW f \in Issues, k.map[f] = n PROVE f = e
    BY <1>3, <1>4, <1>5, <2>2, WorldIs DEF Sound, Named
  <2> QED  BY <1>4, <1>11, <2>1, <2>2 DEF CommentDue
<1>15. said' = said /\ UNCHANGED <<local, file, cuts, overlaps>> /\ poll[p].pc # "idle" /\ r.pc # "idle"
  BY <1>1, <1>11 DEF there
<1> HIDE DEF k
<1>16. /\ Types' /\ Sounds'
       /\ \A f \in Issues : IssueDues(f)' \subseteq IssueDues(f)
       /\ \A d \in Comments, i \in Numbers : CommentDues(d, i)' \subseteq CommentDues(d, i)
       /\ CommentDues(c, n)' \subseteq CommentDues(c, n) \ {p} /\ p \in CommentDues(c, n)
  BY <1>4, <1>5, <1>8, <1>10, <1>11, <1>12, <1>13, <1>14, <1>15, WorkKeeps
<1>17. ASSUME NEW f \in Issues
       PROVE  Cardinality(CopiesOf(f)') + Cardinality(IssueDues(f)') <= 1 + cuts + overlaps
  <2>1. CopiesOf(f)' = CopiesOf(f)
    BY <1>15 DEF CopiesOf
  <2>2. /\ Cardinality(IssueDues(f)') <= Cardinality(IssueDues(f))
        /\ Cardinality(IssueDues(f)') \in Nat /\ Cardinality(IssueDues(f)) \in Nat
    BY <1>3, <1>16, DuesFinite, Fewer
  <2>3. Cardinality(CopiesOf(f)) \in Nat /\ cuts \in Nat /\ overlaps \in Nat
    BY <1>3, CopiesFinite, TypesOf
  <2>4. Cardinality(CopiesOf(f)) + Cardinality(IssueDues(f)) <= 1 + cuts + overlaps
    BY DEF SyncInv, IssuesAccounted
  <2> QED  BY <2>1, <2>2, <2>3, <2>4
<1>18. ASSUME NEW d \in Comments, NEW i \in Numbers
       PROVE  copies'[d][i] + Cardinality(CommentDues(d, i)') <= 1 + cuts + overlaps
  <2>1. /\ copies[d][i] + Cardinality(CommentDues(d, i)) <= 1 + cuts + overlaps
        /\ IsFiniteSet(CommentDues(d, i)) /\ Cardinality(CommentDues(d, i)) \in Nat
        /\ copies[d][i] \in Nat /\ cuts \in Nat /\ overlaps \in Nat
    BY <1>3, DuesFinite, TypesOf DEF SyncInv, CommentsAccounted
  <2>2. /\ Cardinality(CommentDues(d, i)') <= Cardinality(CommentDues(d, i))
        /\ Cardinality(CommentDues(d, i)') \in Nat
    BY <1>16, <2>1, Fewer
  <2>3. CASE copies'[d][i] = copies[d][i]
    BY <2>1, <2>2, <2>3
  <2>4. CASE d = c /\ i = n /\ copies'[d][i] = copies[d][i] + 1
    <3>1. CommentDues(d, i)' \subseteq CommentDues(d, i) \ {p} /\ p \in CommentDues(d, i)
      BY <1>16, <2>4
    <3>2. Cardinality(CommentDues(d, i)') + 1 <= Cardinality(CommentDues(d, i))
      BY <2>1, <3>1, OneLess
    <3> QED  BY <2>1, <2>2, <2>4, <3>2
  <2> QED  BY <1>7, <2>3, <2>4
<1>19. Unused'
  <2> SUFFICES ASSUME NEW d \in Comments, NEW i \in Numbers, i > Own + Len(local)
               PROVE  copies'[d][i] = 0
    BY <1>15 DEF Unused
  <2>1. i # n
    BY <1>4, <1>5, <1>6, SyncAssumption
  <2>2. copies'[d][i] = copies[d][i]
    BY <1>7, <2>1
  <2> QED  BY <2>2 DEF SyncInv, Unused
<1>20. IssuesAccounted' /\ CommentsAccounted'
  BY <1>15, <1>17, <1>18 DEF IssuesAccounted, CommentsAccounted
<1> QED  BY <1>16, <1>19, <1>20 DEF SyncInv

LEMMA StartKeeps ==
  ASSUME SyncInv, NEW p \in Polls, Start(p)
  PROVE  SyncInv'
<1> DEFINE r == [NoPoll EXCEPT !.pc = "list", !.cursors = file]
<1>1. /\ poll[p].pc = "idle" /\ Poll(p, r)
      /\ UNCHANGED <<there, here, file, cuts>>
      /\ \/ Busy = {} /\ overlaps' = overlaps
         \/ Busy # {} /\ overlaps < MaxOverlaps /\ overlaps' = overlaps + 1
  BY DEF Start
<1>2. /\ Types /\ file \in Cursors /\ poll \in [Polls -> Rows] /\ IsFiniteSet(Busy)
      /\ cuts \in Nat /\ overlaps \in Nat
  BY TypesOf DEF SyncInv
<1>3. r \in Rows /\ r.pc = "list" /\ r.cursors = file
  BY <1>2, NothingKnown DEF Rows
<1>4. PollInv(World, r)
  BY <1>3 DEF SyncInv, Sounds, PollInv, Listing, Visiting, Copying
<1> HIDE DEF r
<1>5. Settled(r) = r
  BY <1>3 DEF Settled
<1>6. /\ poll' \in [Polls -> Rows] /\ poll'[p] = r
      /\ \A q \in Polls : q # p => poll'[q] = poll[q]
  BY <1>1, <1>2, <1>3, <1>5, PollSettles
<1>7. Busy' = Busy \cup {p} /\ p \notin Busy
  BY <1>1, <1>3, <1>6 DEF Busy
<1>8. World' = World /\ UNCHANGED <<said, local, copies, file, cuts>>
  BY <1>1 DEF World, there, here
<1>9. Types'
  <2>1. IsFiniteSet(Busy')
    BY <1>2, <1>7, FS_AddElement
  <2>2. overlaps' \in 0 .. MaxOverlaps
    BY <1>1, <1>2, SyncAssumption DEF Types
  <2> QED  BY <1>2, <1>6, <1>8, <2>1, <2>2 DEF Types
<1>10. Sounds'
  <2>1. \A q \in Polls : PollInv(World', poll'[q])
    BY <1>4, <1>6, <1>8 DEF SyncInv, Sounds
  <2> QED  BY <1>8, <2>1 DEF SyncInv, Sounds
<1>11. Holders' = Busy \cup {p} /\ \A h : Held(h)' = poll'[h]
  BY <1>7 DEF Holders, Held
<1>12. ASSUME NEW e \in Issues
       PROVE  Cardinality(IssueDues(e)') + cuts + overlaps
              <= Cardinality(IssueDues(e)) + cuts' + overlaps'
  <2>1. /\ IsFiniteSet(IssueDues(e)) /\ Cardinality(IssueDues(e)) \in Nat
    BY <1>2, DuesFinite
  <2>2. CASE Busy = {}
    <3>1. IssueDues(e)' = {h \in {p} : IssueDue(r, e)}
      BY <1>6, <1>11, <2>2 DEF IssueDues
    <3>2. IssueDues(e) = {h \in {0} : IssueDue(r, e)}
      BY <2>2 DEF IssueDues, Holders, Held, r
    <3>3. Cardinality(IssueDues(e)') = Cardinality(IssueDues(e))
      BY <3>1, <3>2, AtMostOne
    <3> QED  BY <1>1, <1>2, <2>1, <2>2, <3>3
  <2>3. CASE Busy # {}
    <3>1. IssueDues(e)' \subseteq IssueDues(e) \cup {p}
      BY <1>6, <1>7, <1>11, <2>3 DEF IssueDues, Holders, Held, Busy
    <3>2. Cardinality(IssueDues(e)') <= Cardinality(IssueDues(e)) + 1
      BY <2>1, <3>1, OneMore
    <3>3. Cardinality(IssueDues(e)') \in Nat
      BY <2>1, <3>1, FS_AddElement, Fewer
    <3> QED  BY <1>1, <1>2, <2>1, <2>3, <3>2, <3>3
  <2> QED  BY <2>2, <2>3
<1>13. ASSUME NEW c \in Comments, NEW n \in Numbers
       PROVE  Cardinality(CommentDues(c, n)') + cuts + overlaps
              <= Cardinality(CommentDues(c, n)) + cuts' + overlaps'
  <2>1. /\ IsFiniteSet(CommentDues(c, n)) /\ Cardinality(CommentDues(c, n)) \in Nat
    BY <1>2, DuesFinite
  <2>2. CASE Busy = {}
    <3>1. CommentDues(c, n)' = {h \in {p} : CommentDue(r, c, n)}
      BY <1>6, <1>11, <2>2 DEF CommentDues
    <3>2. CommentDues(c, n) = {h \in {0} : CommentDue(r, c, n)}
      BY <2>2 DEF CommentDues, Holders, Held, r
    <3>3. Cardinality(CommentDues(c, n)') = Cardinality(CommentDues(c, n))
      BY <3>1, <3>2, AtMostOne
    <3> QED  BY <1>1, <1>2, <2>1, <2>2, <3>3
  <2>3. CASE Busy # {}
    <3>1. CommentDues(c, n)' \subseteq CommentDues(c, n) \cup {p}
      BY <1>6, <1>7, <1>11, <2>3 DEF CommentDues, Holders, Held, Busy
    <3>2. Cardinality(CommentDues(c, n)') <= Cardinality(CommentDues(c, n)) + 1
      BY <2>1, <3>1, OneMore
    <3>3. Cardinality(CommentDues(c, n)') \in Nat
      BY <2>1, <3>1, FS_AddElement, Fewer
    <3> QED  BY <1>1, <1>2, <2>1, <2>3, <3>2, <3>3
  <2> QED  BY <2>2, <2>3
<1> QED  BY <1>1, <1>8, <1>9, <1>10, <1>12, <1>13, AccountsKept DEF SyncInv, Unused

\* A poll ends: by saving all it knows, or at the price of a cut.
LEMMA EndKeeps ==
  ASSUME SyncInv, NEW p \in Polls, poll[p].pc # "idle", Poll(p, NoPoll),
         UNCHANGED <<there, here, overlaps>>,
         file' \in Cursors, Sound(World, file'),
         \/ cuts < MaxCuts /\ cuts' = cuts + 1
         \/ cuts' = cuts /\ file' = poll[p].cursors /\ poll[p].pc = "comments"
  PROVE  SyncInv'
<1> DEFINE s == [NoPoll EXCEPT !.pc = "list", !.cursors = file']
<1>1. /\ Types /\ poll \in [Polls -> Rows] /\ IsFiniteSet(Busy)
      /\ cuts \in Nat /\ overlaps \in Nat
  BY TypesOf DEF SyncInv
<1>2. NoPoll \in Rows /\ NoPoll.pc = "idle" /\ NoPoll.cursors = NoCursors
  BY NothingKnown DEF NoPoll
<1>3. Settled(NoPoll) = NoPoll
  BY <1>2 DEF Settled
<1>4. /\ poll' \in [Polls -> Rows] /\ poll'[p] = NoPoll
      /\ \A q \in Polls : q # p => poll'[q] = poll[q]
  BY <1>1, <1>2, <1>3, PollSettles
<1>5. Busy' = Busy \ {p} /\ p \in Busy
  BY <1>2, <1>4 DEF Busy
<1>6. World' = World /\ UNCHANGED <<said, local, copies, overlaps>>
  BY DEF World, there, here
<1>7. Types'
  <2>1. IsFiniteSet(Busy')
    BY <1>1, <1>5, FS_RemoveElement
  <2>2. cuts' \in 0 .. MaxCuts
    BY <1>1, SyncAssumption DEF SyncInv, Types
  <2> QED  BY <1>1, <1>4, <1>6, <2>1, <2>2 DEF SyncInv, Types
<1>8. Sounds'
  <2>1. PollInv(World, NoPoll)
    BY <1>2 DEF SyncInv, Sounds, PollInv, Listing, Visiting, Copying
  <2>2. \A q \in Polls : PollInv(World', poll'[q])
    BY <1>4, <1>6, <2>1 DEF SyncInv, Sounds
  <2> QED  BY <1>6, <2>2 DEF SyncInv, Sounds
<1>9. /\ Holders = Busy /\ \A h : Held(h) = poll[h]
      /\ Busy' # {} => Holders' = Busy' /\ \A h : Held(h)' = poll'[h]
      /\ Busy' = {} => Holders' = {0} /\ \A h : Held(h)' = s
  BY <1>5 DEF Holders, Held
<1>10. s.pc = "list" /\ s.cursors = file'
  BY DEF NoPoll
<1>11. \/ cuts' = cuts + 1
       \/ /\ cuts' = cuts
          /\ \A e \in Issues : IssueDue(s, e) => IssueDue(poll[p], e)
          /\ \A c \in Comments, n \in Numbers : CommentDue(s, c, n) => CommentDue(poll[p], c, n)
  BY <1>10 DEF IssueDue, CommentDue
<1> HIDE DEF s
<1>12. ASSUME NEW e \in Issues
       PROVE  Cardinality(IssueDues(e)') + cuts + overlaps
              <= Cardinality(IssueDues(e)) + cuts' + overlaps'
  <2>1. IsFiniteSet(IssueDues(e)) /\ Cardinality(IssueDues(e)) \in Nat
    BY <1>1, DuesFinite
  <2>2. CASE Busy' = {}
    <3>1. IssueDues(e)' \subseteq {0} /\ (IssueDues(e)' # {} => IssueDue(s, e))
      BY <1>9, <2>2 DEF IssueDues
    <3>2. Cardinality(IssueDues(e)') = IF IssueDues(e)' = {} THEN 0 ELSE 1
      BY <3>1, AtMostOne
    <3>3. IssueDue(poll[p], e) => IssueDues(e) # {}
      BY <1>5, <1>9 DEF IssueDues
    <3>4. IssueDues(e) # {} => Cardinality(IssueDues(e)) # 0
      BY <2>1, FS_EmptySet
    <3> QED  BY <1>1, <1>6, <1>11, <2>1, <3>1, <3>2, <3>3, <3>4
  <2>3. CASE Busy' # {}
    <3>1. IssueDues(e)' \subseteq IssueDues(e)
      BY <1>4, <1>5, <1>9, <2>3 DEF IssueDues, Busy
    <3>2. /\ Cardinality(IssueDues(e)') <= Cardinality(IssueDues(e))
          /\ Cardinality(IssueDues(e)') \in Nat
      BY <2>1, <3>1, Fewer
    <3> QED  BY <1>1, <1>6, <2>1, <3>2
  <2> QED  BY <2>2, <2>3
<1>13. ASSUME NEW c \in Comments, NEW n \in Numbers
       PROVE  Cardinality(CommentDues(c, n)') + cuts + overlaps
              <= Cardinality(CommentDues(c, n)) + cuts' + overlaps'
  <2>1. IsFiniteSet(CommentDues(c, n)) /\ Cardinality(CommentDues(c, n)) \in Nat
    BY <1>1, DuesFinite
  <2>2. CASE Busy' = {}
    <3>1. CommentDues(c, n)' \subseteq {0} /\ (CommentDues(c, n)' # {} => CommentDue(s, c, n))
      BY <1>9, <2>2 DEF CommentDues
    <3>2. Cardinality(CommentDues(c, n)') = IF CommentDues(c, n)' = {} THEN 0 ELSE 1
      BY <3>1, AtMostOne
    <3>3. CommentDue(poll[p], c, n) => CommentDues(c, n) # {}
      BY <1>5, <1>9 DEF CommentDues
    <3>4. CommentDues(c, n) # {} => Cardinality(CommentDues(c, n)) # 0
      BY <2>1, FS_EmptySet
    <3> QED  BY <1>1, <1>6, <1>11, <2>1, <3>1, <3>2, <3>3, <3>4
  <2>3. CASE Busy' # {}
    <3>1. CommentDues(c, n)' \subseteq CommentDues(c, n)
      BY <1>4, <1>5, <1>9, <2>3 DEF CommentDues, Busy
    <3>2. /\ Cardinality(CommentDues(c, n)') <= Cardinality(CommentDues(c, n))
          /\ Cardinality(CommentDues(c, n)') \in Nat
      BY <2>1, <3>1, Fewer
    <3> QED  BY <1>1, <1>6, <2>1, <3>2
  <2> QED  BY <2>2, <2>3
<1> QED  BY <1>6, <1>7, <1>8, <1>12, <1>13, AccountsKept DEF SyncInv, Unused

LEMMA SaveKeeps ==
  ASSUME SyncInv, NEW p \in Polls, Save(p)
  PROVE  SyncInv'
<1>1. /\ poll[p].pc = "comments" /\ Poll(p, NoPoll) /\ UNCHANGED <<there, here, overlaps>>
      /\ \/ file' = poll[p].cursors /\ cuts' = cuts
         \/ cuts < MaxCuts /\ cuts' = cuts + 1 /\ file' \in {file, NoCursors}
  BY DEF Save
<1>2. /\ file \in Cursors /\ Sound(World, file) /\ Sound(World, NoCursors)
      /\ NoCursors \in Cursors
  BY NothingKnown DEF SyncInv, Types, Sounds
<1>3. file' \in Cursors /\ Sound(World, file')
  BY <1>1, <1>2, PollOf
<1> QED  BY <1>1, <1>3, EndKeeps

LEMMA AbortKeeps ==
  ASSUME SyncInv, NEW p \in Polls, Abort(p)
  PROVE  SyncInv'
<1>1. /\ poll[p].pc # "idle" /\ Poll(p, NoPoll) /\ UNCHANGED <<there, here, overlaps>>
      /\ cuts < MaxCuts /\ cuts' = cuts + 1 /\ file' = file
  BY DEF Abort
<1>2. file' \in Cursors /\ Sound(World, file')
  BY <1>1 DEF SyncInv, Types, Sounds
<1> QED  BY <1>1, <1>2, EndKeeps

LEMMA InitSync == Init => SyncInv
<1> SUFFICES ASSUME Init PROVE SyncInv
  OBVIOUS
<1> USE DEF Init
<1>1. NoCursors \in Cursors /\ NoPoll \in Rows /\ NoPoll.pc = "idle" /\ NoPoll.cursors = NoCursors
  BY NothingKnown DEF NoPoll
<1>2. Busy = {}
  BY <1>1 DEF Busy
<1>3. Types
  <2>1. World \in Worlds
    BY DEF World, Worlds
  <2>2. IsFiniteSet(Busy) /\ 1 .. said = {}
    BY <1>2, FS_EmptySet
  <2> QED  BY <1>1, <2>1, <2>2, SyncAssumption DEF Types
<1>4. Sound(World, NoCursors)
  BY WorldIs, SyncAssumption
     DEF Sound, Named, IssuesBehind, CommentsBehind, NoCursors, NoIssue
<1>5. Sounds
  BY <1>1, <1>4 DEF Sounds, PollInv, Listing, Visiting, Copying
<1>6. Holders = {0}
  BY <1>2 DEF Holders
<1>7. IssuesAccounted
  <2> SUFFICES ASSUME NEW e \in Issues
               PROVE  Cardinality(CopiesOf(e)) + Cardinality(IssueDues(e)) <= 1 + cuts + overlaps
    BY DEF IssuesAccounted
  <2>1. CopiesOf(e) = {} /\ IssueDues(e) \subseteq {0}
    BY <1>6 DEF CopiesOf, IssueDues
  <2>2. Cardinality(IssueDues(e)) = 0 \/ Cardinality(IssueDues(e)) = 1
    BY <2>1, AtMostOne
  <2>3. Cardinality(CopiesOf(e)) = 0
    BY <2>1, FS_EmptySet
  <2> QED  BY <2>2, <2>3
<1>8. CommentsAccounted
  <2> SUFFICES ASSUME NEW c \in Comments, NEW n \in Numbers
               PROVE  copies[c][n] + Cardinality(CommentDues(c, n)) <= 1 + cuts + overlaps
    BY DEF CommentsAccounted
  <2>1. copies[c][n] = 0 /\ CommentDues(c, n) \subseteq {0}
    BY <1>6 DEF CommentDues
  <2>2. Cardinality(CommentDues(c, n)) = 0 \/ Cardinality(CommentDues(c, n)) = 1
    BY <2>1, AtMostOne
  <2> QED  BY <2>1, <2>2
<1>9. Unused
  BY DEF Unused
<1> QED  BY <1>3, <1>5, <1>7, <1>8, <1>9 DEF SyncInv

\* What the cursors claim and what the copies cost, in every state.
THEOREM SyncInvariant == Spec => []SyncInv
<1>1. SyncInv /\ [Next]_vars => SyncInv'
  <2> SUFFICES ASSUME SyncInv, [Next]_vars PROVE SyncInv'
    OBVIOUS
  <2>1. CASE UNCHANGED vars
    <3>1. World' = World /\ Types /\ World \in Worlds
      BY <2>1 DEF vars, World, SyncInv, Types
    <3>2. /\ UNCHANGED <<local, copies, file, poll, cuts, overlaps>>
          /\ 1 .. said' \subseteq Comments
      BY <2>1, <3>1, TypesOf DEF vars
    <3> QED  BY <3>1, <3>2, GrowsSelf, ElsewhereKeeps
  <2>2. ASSUME NEW e \in Issues, Change(e) PROVE SyncInv'
    BY <2>2, ChangeKeeps
  <2>3. CASE Comment
    BY <2>3, CommentKeeps
  <2>4. ASSUME NEW p \in Polls, Start(p) PROVE SyncInv'
    BY <2>4, StartKeeps
  <2>5. ASSUME NEW p \in Polls, Work(p) PROVE SyncInv'
    BY <2>5, ListIssuesKeeps, CopyIssueKeeps, ListCommentsKeeps, CopyCommentKeeps, SaveKeeps
       DEF Work
  <2>6. ASSUME NEW p \in Polls, Abort(p) PROVE SyncInv'
    BY <2>6, AbortKeeps
  <2> QED  BY <2>1, <2>2, <2>3, <2>4, <2>5, <2>6 DEF Next
<1> QED  BY <1>1, InitSync, PTL DEF Spec

\* Whatever lies behind the saved cursors has reached the web or was refused by
\* it, however polls fail and overlap (pollOnce, saveCursors).
THEOREM NothingSkippedHolds == Spec => []NothingSkipped
<1>1. SyncInv => NothingSkipped
  BY WorldIs DEF SyncInv, Sounds, Sound, IssuesBehind, CommentsBehind, NothingSkipped
<1> QED  BY <1>1, SyncInvariant, PTL

\* Every copy but the first of an issue, and of a comment under one number, is
\* owed to a poll that did not save its cursors or that overlapped another.
THEOREM CopiesAreAccountedHolds == Spec => []CopiesAreAccounted
<1>1. SyncInv => CopiesAreAccounted
  <2> SUFFICES ASSUME SyncInv PROVE CopiesAreAccounted
    OBVIOUS
  <2>1. Types /\ cuts \in Nat /\ overlaps \in Nat /\ copies \in [Comments -> [Numbers -> Nat]]
    BY TypesOf DEF SyncInv
  <2>2. ASSUME NEW e \in Issues
        PROVE  Cardinality({n \in DOMAIN local : local[n] = e}) <= 1 + cuts + overlaps
    <3>1. Cardinality(CopiesOf(e)) <= 1 + cuts + overlaps
      BY <2>1, CopiesFinite, DuesFinite DEF SyncInv, IssuesAccounted
    <3> QED  BY <3>1 DEF CopiesOf
  <2>3. ASSUME NEW c \in Comments, NEW n \in Numbers
        PROVE  copies[c][n] <= 1 + cuts + overlaps
    <3>1. copies[c][n] \in Nat /\ Cardinality(CommentDues(c, n)) \in Nat
      BY <2>1, DuesFinite
    <3>2. copies[c][n] + Cardinality(CommentDues(c, n)) <= 1 + cuts + overlaps
      BY DEF SyncInv, CommentsAccounted
    <3> QED  BY <2>1, <3>1, <3>2
  <2> QED  BY <2>2, <2>3 DEF CopiesAreAccounted
<1> QED  BY <1>1, SyncInvariant, PTL
=============================================================================
