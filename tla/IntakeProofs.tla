----------------------------- MODULE IntakeProofs -----------------------------
(***************************************************************************)
(* What becomes of the webhooks of an issue, for any number of comments,   *)
(* authors and handlers and any quota.  That a comment becomes one message *)
(* is proved for handlers that do not race (Env); the wake policy holds    *)
(* whatever they do.                                                       *)
(***************************************************************************)
EXTENDS Intake, FiniteSetTheorems, TLAPS

RowStates  == {"none", "active", "closed"}
Logins     == SUBSET (Authors \cup Listed)
AnswerType == [logins : Logins, community : BOOLEAN, fetched : BOOLEAN]
HookType   == [pc : PCs, ev : Event, row : RowStates, known : BOOLEAN, answer : AnswerType]
Asking     == {"ask", "wake", "lookup"}
Working    == {"issue", "ack", "enqueue"}

\* an event that the web sends
Sound(e) == e \in Event /\ (e.type = "comment" <=> e.comment # NoComment)

Admitted(c) == Author[c] \in Wakers \cup whitelist \cup {Opener}

\* What a handler in the state h relies on.
HookOK(h) ==
  /\ Sound(h.ev)
  /\ h.pc \in {"lookup"} \cup Working => h.ev.type = "comment" /\ Admitted(h.ev.comment)
  /\ h.pc \in {"heal", "stored"} => h.ev.type = "opened"
  /\ h.pc \in {"ask", "wake"} => h.ev.type \in {"opened", "comment"}
  /\ h.answer.logins \subseteq whitelist

\* Without races a comment that is worked on, or about to be, has no message.
Unmade(h) ==
  /\ h.pc = "lookup" /\ ~h.known => h.ev.comment \notin processing /\ made[h.ev.comment] = 0
  /\ h.pc \in Working => h.ev.comment \in processing /\ made[h.ev.comment] = 0

\* handlers of the same comment
Apart(g, h) ==
  g.ev.comment = h.ev.comment /\ g.ev.comment # NoComment =>
    ~(g.pc \in Asking /\ h.pc \in Asking) /\ ~(g.pc \in Working /\ h.pc \in Working)

\* what the quota of the opener has been spent on
Paid(h) == h.pc \in {"stored", "lookup"} \cup Working /\ By(h.ev) = Opener
Flight  == {r \in Hooks : Paid(hook[r])}
Spent   == {c \in Comments : Author[c] = Opener /\ made[c] > 0}
QuotaInv ==
  Opener \notin Wakers \cup whitelist =>
    made[NoComment] + Cardinality(Spent) + Cardinality(Flight) <= stamps[Opener]

IntakeInv ==
  /\ TypeOK
  /\ \A i \in DOMAIN inbox : Sound(inbox[i])
  /\ cache.logins \subseteq whitelist
  /\ \A r \in Hooks : HookOK(hook[r])
  /\ ProcessingIsHeld
  /\ \A c \in Comments : made[c] > 0 => Admitted(c)
  /\ QuotaInv

ApartInv ==
  /\ \A r \in Hooks : Unmade(hook[r])
  /\ \A r, q \in Hooks : r # q => Apart(hook[r], hook[q])
  /\ CommentOnce

-----------------------------------------------------------------------------
(* Types                                                                   *)

\* the sorts of the constants
LEMMA Sorts ==
  /\ NoComment \notin Comments /\ Comments \subseteq Nat /\ Limit \in Nat
  /\ Opener \in Authors /\ \A c \in Comments : Author[c] \in Authors
  /\ NoHook \in HookType /\ NoHook.pc = "idle" /\ NoHook.answer.logins = {} /\ Sound(NoHook.ev)
  /\ \A o \in BOOLEAN : Sound(Opened(o)) /\ Opened(o).type = "opened"
<1>1. NoComment \notin Comments /\ Comments \subseteq Nat /\ Limit \in Nat
  BY IntakeAssumption DEF NoComment
<1>2. Opener \in Authors /\ \A c \in Comments : Author[c] \in Authors
  BY DEF Authors
<1>3. Closed \in Event /\ Sound(Closed)
  BY <1>1 DEF Closed, Event, Sound
<1>4. NoHook \in HookType /\ NoHook.pc = "idle" /\ NoHook.answer.logins = {} /\ Sound(NoHook.ev)
  BY <1>3 DEF NoHook, HookType, NoAnswer, AnswerType, Logins, PCs, RowStates
<1>5. \A o \in BOOLEAN : Sound(Opened(o)) /\ Opened(o).type = "opened"
  BY <1>1 DEF Opened, Event, Sound
<1> QED  BY <1>1, <1>2, <1>4, <1>5

\* TypeOK with the sets named
LEMMA Types ==
  TypeOK <=>
    /\ issue \in {"open", "closed"} /\ posted \subseteq Comments /\ toggles \in 0 .. MaxToggles
    /\ inbox \in Seq(Event) /\ whitelist \in Logins
    /\ paused \in BOOLEAN /\ rowState \in RowStates /\ processing \subseteq Comments
    /\ cache \in [fresh : BOOLEAN, held : BOOLEAN, logins : Logins] /\ admitting \in BOOLEAN
    /\ stamps \in [Authors -> 0 .. Limit] /\ made \in [Comments \cup {NoComment} -> Nat]
    /\ hook \in [Hooks -> HookType]
BY DEF TypeOK, Logins, RowStates, HookType, AnswerType

\* Where the gates, the policy and the duplicate check lead a webhook that may wake.
LEMMA DispatchedOK ==
  ASSUME TypeOK, NEW e, Sound(e), e.type \in {"opened", "comment"}, NEW row \in RowStates,
         e.type = "comment" => Admitted(e.comment), NEW h, h = Dispatched(e, row)
  PROVE  /\ h \in HookType /\ HookOK(h) /\ Unmade(h) /\ h.pc \in {"idle", "stored", "lookup"}
         /\ h.pc # "idle" => h.ev = e
<1> USE Sorts
<1>1. CASE e.type = "opened"
  <2>1. h = [NoHook EXCEPT !.pc = "stored", !.ev = e, !.row = row]
    BY <1>1 DEF Dispatched
  <2>2. /\ h \in HookType /\ h.pc = "stored" /\ h.ev = e /\ h.answer.logins = {}
    BY <2>1 DEF HookType, PCs, Sound
  <2> QED  BY <1>1, <2>2 DEF HookOK, Unmade, Working
<1>2. CASE e.type = "comment"
  <2>1. CASE e.open /\ e.comment \notin processing
    <3>1. PICK known \in BOOLEAN : known <=> findMessageByCommentId(e.comment)
      OBVIOUS
    <3>2. known = findMessageByCommentId(e.comment)
      BY <3>1 DEF findMessageByCommentId
    <3>3. h = [NoHook EXCEPT !.pc = "lookup", !.ev = e, !.known = known]
      BY <1>2, <2>1, <3>2 DEF Dispatched
    <3>4. /\ h \in HookType /\ h.pc = "lookup" /\ h.ev = e /\ h.answer.logins = {} /\ h.known = known
      BY <3>3 DEF HookType, PCs, Sound
    <3>5. ~known => made[e.comment] = 0
      BY <1>2, <3>1, Types DEF findMessageByCommentId, Sound, Event
    <3> QED  BY <1>2, <2>1, <3>4, <3>5 DEF HookOK, Unmade, Working
  <2>2. CASE ~(e.open /\ e.comment \notin processing)
    <3>1. h = NoHook
      BY <1>2, <2>2 DEF Dispatched
    <3> QED  BY <3>1 DEF HookOK, Unmade, Working
  <2> QED  BY <2>1, <2>2
<1> QED  BY <1>1, <1>2

\* The same before the policy: a handler that asks the web holds nothing.
LEMMA GatedOK ==
  ASSUME TypeOK, NEW e, Sound(e), e.type \in {"opened", "comment"}, NEW row \in RowStates,
         NEW h, h = Gated(e, row)
  PROVE  /\ h \in HookType /\ HookOK(h) /\ Unmade(h)
         /\ h.pc \in {"idle", "ask", "stored", "lookup"} /\ (h.pc # "idle" => h.ev = e)
         /\ Paid(h) => Opener \in Wakers
<1> USE Sorts
<1>1. CASE paused
  <2>1. h = NoHook
    BY <1>1 DEF Gated
  <2> QED  BY <2>1 DEF HookOK, Unmade, Working, Paid
<1>2. CASE ~paused /\ wakePolicySkips(By(e), {})
  <2>1. h = [NoHook EXCEPT !.pc = "ask", !.ev = e]
    BY <1>2 DEF Gated
  <2>2. h \in HookType /\ h.pc = "ask" /\ h.ev = e /\ h.answer.logins = {}
    BY <2>1 DEF HookType, PCs, Sound
  <2> QED  BY <2>2 DEF HookOK, Unmade, Working, Paid
<1>3. CASE ~paused /\ ~wakePolicySkips(By(e), {})
  <2>1. By(e) \in Wakers
    BY <1>3 DEF wakePolicySkips
  <2>2. e.type = "comment" => Admitted(e.comment)
    BY <2>1 DEF Admitted, By
  <2>3. h = Dispatched(e, row)
    BY <1>3 DEF Gated
  <2> QED  BY <2>1, <2>2, <2>3, DispatchedOK DEF Paid, Working
<1> QED  BY <1>1, <1>2, <1>3

-----------------------------------------------------------------------------
(* The quota                                                               *)

\* One more element is one more at most.
LEMMA OneMore ==
  ASSUME NEW S, IsFiniteSet(S), NEW x
  PROVE  /\ IsFiniteSet(S \cup {x}) /\ Cardinality(S \cup {x}) \in Nat
         /\ Cardinality(S \cup {x}) <= Cardinality(S) + 1
<1>1. Cardinality(S) \in Nat
  BY FS_CardinalityType
<1>2. /\ IsFiniteSet(S \cup {x})
      /\ Cardinality(S \cup {x}) = Cardinality(S) \/ Cardinality(S \cup {x}) = Cardinality(S) + 1
  <2>1. CASE x \in S
    <3>1. S \cup {x} = S
      BY <2>1
    <3> QED  BY <3>1
  <2>2. CASE x \notin S
    BY <2>2, FS_AddElement
  <2> QED  BY <2>1, <2>2
<1> QED  BY <1>1, <1>2

\* The sets that are counted are finite.
LEMMA Counted ==
  /\ IsFiniteSet(Spent) /\ IsFiniteSet(Flight)
  /\ Cardinality(Spent) \in Nat /\ Cardinality(Flight) \in Nat
<1>1. Spent \subseteq Comments /\ Flight \subseteq Hooks
  BY DEF Spent, Flight
<1> QED  BY <1>1, FS_Subset, FS_CardinalityType, IntakeAssumption

\* A step that sends nobody past the quota and makes no message.
LEMMA QuotaSame ==
  ASSUME IntakeInv, NEW r \in Hooks, NEW h \in HookType, hook' = [hook EXCEPT ![r] = h],
         UNCHANGED <<whitelist, made, stamps>>,
         Opener \notin Wakers \cup whitelist => (Paid(h) => Paid(hook[r]))
  PROVE  QuotaInv'
<1> SUFFICES ASSUME Opener \notin Wakers \cup whitelist
             PROVE  made[NoComment] + Cardinality(Spent') + Cardinality(Flight') <= stamps[Opener]
  BY DEF QuotaInv
<1>1. Spent' = Spent
  BY DEF Spent
<1>2. Flight' \subseteq Flight
  <2>1. ASSUME NEW q \in Hooks, Paid(hook'[q]) PROVE Paid(hook[q])
    BY <2>1, Types DEF IntakeInv
  <2> QED  BY <2>1 DEF Flight, Paid, By
<1>3. Cardinality(Flight') <= Cardinality(Flight) /\ Cardinality(Flight') \in Nat
  BY <1>2, Counted, FS_Subset, FS_CardinalityType
<1>4. made[NoComment] \in Nat /\ stamps[Opener] \in Nat
  BY Types, Sorts DEF IntakeInv
<1>5. made[NoComment] + Cardinality(Spent) + Cardinality(Flight) <= stamps[Opener]
  BY DEF IntakeInv, QuotaInv
<1> QED  BY <1>1, <1>3, <1>4, <1>5, Counted

\* A message takes the place of the handler that made it.
LEMMA QuotaMade ==
  ASSUME IntakeInv, NEW r \in Hooks, hook' = [hook EXCEPT ![r] = NoHook],
         UNCHANGED <<whitelist, stamps>>, NEW c \in Comments \cup {NoComment},
         made' = [made EXCEPT ![c] = @ + 1],
         c = NoComment \/ Author[c] = Opener => Paid(hook[r])
  PROVE  QuotaInv'
<1> SUFFICES ASSUME Opener \notin Wakers \cup whitelist
             PROVE  made'[NoComment] + Cardinality(Spent') + Cardinality(Flight') <= stamps[Opener]
  BY DEF QuotaInv
<1>1. /\ TypeOK /\ made[NoComment] \in Nat /\ stamps[Opener] \in Nat
      /\ made[NoComment] + Cardinality(Spent) + Cardinality(Flight) <= stamps[Opener]
  BY Types, Sorts DEF IntakeInv, QuotaInv
<1>2. Flight' = Flight \ {r}
  <2>1. ~Paid(NoHook)
    BY Sorts DEF Paid, Working
  <2>2. \A q \in Hooks : q # r => hook'[q] = hook[q]
    BY <1>1, Types
  <2>3. hook'[r] = NoHook
    BY <1>1, Types
  <2> QED  BY <2>1, <2>2, <2>3 DEF Flight, Paid, By
<1>3. Cardinality(Flight') \in Nat /\ Cardinality(Flight') <= Cardinality(Flight)
  BY <1>2, Counted, FS_Subset, FS_CardinalityType
<1>4. Paid(hook[r]) => Cardinality(Flight') = Cardinality(Flight) - 1
  <2>1. Paid(hook[r]) => r \in Flight
    BY DEF Flight
  <2> QED  BY <1>2, <2>1, Counted, FS_RemoveElement
<1>5. CASE c = NoComment
  <2>1. made'[NoComment] = made[NoComment] + 1 /\ \A d \in Comments : made'[d] = made[d]
    BY <1>1, <1>5, Types, Sorts
  <2>2. Spent' = Spent
    BY <2>1 DEF Spent
  <2> QED  BY <1>1, <1>3, <1>4, <1>5, <2>1, <2>2, Counted
<1>6. CASE c # NoComment
  <2>1. made'[NoComment] = made[NoComment] /\ \A d \in Comments : d # c => made'[d] = made[d]
    BY <1>1, <1>6, Types, Sorts
  <2>2. CASE Author[c] = Opener
    <3>1. Spent' \subseteq Spent \cup {c}
      BY <2>1 DEF Spent
    <3>2. /\ IsFiniteSet(Spent \cup {c}) /\ Cardinality(Spent \cup {c}) \in Nat
          /\ Cardinality(Spent \cup {c}) <= Cardinality(Spent) + 1
      BY Counted, OneMore
    <3>3. Cardinality(Spent') <= Cardinality(Spent \cup {c}) /\ Cardinality(Spent') \in Nat
      BY <3>1, <3>2, FS_Subset, FS_CardinalityType
    <3> QED  BY <1>1, <1>3, <1>4, <2>1, <2>2, <3>2, <3>3, Counted
  <2>3. CASE Author[c] # Opener
    <3>1. Spent' = Spent
      BY <2>1, <2>3 DEF Spent
    <3> QED  BY <1>1, <1>3, <2>1, <3>1, Counted
  <2> QED  BY <2>2, <2>3
<1> QED  BY <1>5, <1>6

\* The stamp that lets the opener pass.
LEMMA QuotaTaken ==
  ASSUME IntakeInv, NEW r \in Hooks, NEW h \in HookType, hook' = [hook EXCEPT ![r] = h],
         UNCHANGED <<whitelist, made>>, Quota(Opener)
  PROVE  QuotaInv'
<1> SUFFICES ASSUME Opener \notin Wakers \cup whitelist
             PROVE  made[NoComment] + Cardinality(Spent') + Cardinality(Flight') <= stamps'[Opener]
  BY DEF QuotaInv
<1>1. /\ TypeOK /\ made[NoComment] \in Nat /\ stamps[Opener] \in Nat
      /\ made[NoComment] + Cardinality(Spent) + Cardinality(Flight) <= stamps[Opener]
      /\ stamps'[Opener] = stamps[Opener] + 1
  BY Types, Sorts DEF IntakeInv, QuotaInv, Quota
<1>2. Spent' = Spent
  BY DEF Spent
<1>3. Flight' \subseteq Flight \cup {r}
  BY <1>1, Types DEF Flight, Paid, By
<1>4. /\ IsFiniteSet(Flight \cup {r}) /\ Cardinality(Flight \cup {r}) \in Nat
      /\ Cardinality(Flight \cup {r}) <= Cardinality(Flight) + 1
  BY Counted, OneMore
<1>5. Cardinality(Flight') <= Cardinality(Flight \cup {r}) /\ Cardinality(Flight') \in Nat
  BY <1>3, <1>4, FS_Subset, FS_CardinalityType
<1> QED  BY <1>1, <1>2, <1>4, <1>5, Counted

-----------------------------------------------------------------------------
(* The steps                                                               *)

\* What every step of a handler r has in common that goes on as h.
LEMMA HandlerKeeps ==
  ASSUME IntakeInv, NEW r \in Hooks, NEW h \in HookType, hook' = [hook EXCEPT ![r] = h],
         HookOK(h), UNCHANGED whitelist, TypeOK', \A i \in DOMAIN inbox' : Sound(inbox'[i]),
         cache'.logins \subseteq whitelist,
         \A c \in processing' : \/ c \in processing /\ (hook[r].pc \in Working => c # hook[r].ev.comment)
                                \/ h.pc \in Working /\ c = h.ev.comment,
         \A c \in Comments : made'[c] > 0 => made[c] > 0 \/ Admitted(c),
         QuotaInv'
  PROVE  IntakeInv'
<1>1. hook'[r] = h /\ \A q \in Hooks : q # r => hook'[q] = hook[q]
  BY Types DEF IntakeInv
<1>2. ASSUME NEW q \in Hooks PROVE HookOK(hook[q])'
  <2>1. HookOK(hook'[q])
    <3>1. CASE q = r
      BY <1>1, <3>1
    <3>2. CASE q # r
      <4>1. hook'[q] = hook[q] /\ HookOK(hook[q])
        BY <1>1, <3>2 DEF IntakeInv
      <4> QED  BY <4>1
    <3> QED  BY <3>1, <3>2
  <2> QED  BY <2>1 DEF HookOK, Admitted
<1>3. ProcessingIsHeld'
  <2>1. ASSUME NEW c \in processing'
        PROVE  \E q \in Hooks : hook'[q].pc \in Working /\ hook'[q].ev.comment = c
    <3>1. CASE h.pc \in Working /\ c = h.ev.comment
      BY <1>1, <3>1
    <3>2. CASE c \in processing /\ (hook[r].pc \in Working => c # hook[r].ev.comment)
      <4>1. PICK q \in Hooks : hook[q].pc \in Working /\ hook[q].ev.comment = c
        BY <3>2 DEF IntakeInv, ProcessingIsHeld, Under, Working
      <4> QED  BY <1>1, <3>2, <4>1
    <3> QED  BY <2>1, <3>1, <3>2
  <2> QED  BY <2>1 DEF ProcessingIsHeld, Under, Working
<1>4. \A c \in Comments : made'[c] > 0 => Admitted(c)'
  BY DEF IntakeInv, Admitted
<1> QED  BY <1>2, <1>3, <1>4 DEF IntakeInv

\* The handler that goes on with its webhook stays apart from the others.
LEMMA StaysApart ==
  ASSUME IntakeInv, ApartInv, NEW r \in Hooks, NEW h \in HookType, hook' = [hook EXCEPT ![r] = h],
         CommentOnce', Unmade(h)',
         h.pc = "idle" \/ h.ev.comment = NoComment \/
           /\ h.ev = hook[r].ev /\ (h.pc \in Asking => hook[r].pc \in Asking)
           /\ (h.pc \in Working => hook[r].pc \in Working \/ (hook[r].pc = "lookup" /\ ~hook[r].known))
         \/ /\ h.pc \notin Working
            /\ \A q \in Hooks : hook[q].pc \in Asking => hook[q].ev.comment # h.ev.comment,
         \A c \in Comments : c = hook[r].ev.comment \/ (made'[c] = made[c] /\ (c \in processing' <=> c \in processing)),
         hook[r].pc \notin {"lookup"} \cup Working =>
           UNCHANGED processing /\ (\A c \in Comments : made'[c] = made[c]),
         hook[r].pc = "lookup" => UNCHANGED made /\ (hook[r].known => UNCHANGED processing) /\ processing \subseteq processing',
         hook[r].pc \in Working => processing' \subseteq processing
  PROVE  ApartInv'
<1>1. hook'[r] = h /\ \A q \in Hooks : q # r => hook'[q] = hook[q]
  BY Types DEF IntakeInv
<1>2. ASSUME NEW q \in Hooks, q # r PROVE Unmade(hook[q])'
  <2>1. Unmade(hook[q]) /\ Unmade(hook[r]) /\ Apart(hook[q], hook[r]) /\ HookOK(hook[q]) /\ HookOK(hook[r])
    BY <1>2 DEF ApartInv, IntakeInv
  <2>2. hook[q].pc \in {"lookup"} \cup Working => hook[q].ev.comment \in Comments /\ hook[q].ev.comment # NoComment
    BY <2>1 DEF HookOK, Sound, Event
  <2>4. CASE hook[q].ev.comment # hook[r].ev.comment
    BY <1>1, <1>2, <2>1, <2>2, <2>4 DEF Unmade
  <2>5. CASE hook[q].ev.comment = hook[r].ev.comment
    BY <1>1, <1>2, <2>1, <2>2, <2>5 DEF Unmade, Apart, Asking, Working
  <2> QED  BY <2>4, <2>5
<1>3. ASSUME NEW q \in Hooks, q # r PROVE Apart(h, hook[q]) /\ Apart(hook[q], h)
  <2>1. Unmade(hook[q]) /\ Unmade(hook[r]) /\ Apart(hook[q], hook[r]) /\ HookOK(hook[q]) /\ HookOK(hook[r])
    BY <1>3 DEF ApartInv, IntakeInv
  <2> QED  BY <2>1 DEF Unmade, Apart, Asking, Working
<1>4. Unmade(hook[r])'
  BY <1>1 DEF Unmade
<1>5. ASSUME NEW g \in Hooks, NEW q \in Hooks, g # q PROVE Apart(hook[g], hook[q])'
  <2>1. Apart(hook'[g], hook'[q])
    BY <1>1, <1>3, <1>5 DEF ApartInv
  <2> QED  BY <2>1 DEF Apart
<1> QED  BY <1>2, <1>4, <1>5 DEF ApartInv

NoRace == "race" \notin Env
Kept   == IntakeInv' /\ (NoRace /\ ApartInv => ApartInv')

\* What the web appends, and what a handler leaves, is sound.
LEMMA InboxSound ==
  ASSUME inbox \in Seq(Event), \A i \in DOMAIN inbox : Sound(inbox[i])
  PROVE  /\ \A e : Sound(e) => /\ Append(inbox, e) \in Seq(Event)
                               /\ \A i \in DOMAIN Append(inbox, e) : Sound(Append(inbox, e)[i])
         /\ inbox # <<>> => /\ Sound(Head(inbox)) /\ Tail(inbox) \in Seq(Event)
                            /\ \A i \in DOMAIN Tail(inbox) : Sound(Tail(inbox)[i])
<1>1. ASSUME NEW e, Sound(e)
      PROVE  /\ Append(inbox, e) \in Seq(Event)
             /\ \A i \in DOMAIN Append(inbox, e) : Sound(Append(inbox, e)[i])
  <2>1. e \in Event
    BY <1>1 DEF Sound
  <2>2. \A i \in 1 .. Len(inbox) + 1 : Append(inbox, e)[i] = IF i <= Len(inbox) THEN inbox[i] ELSE e
    BY <2>1
  <2>3. /\ Append(inbox, e) \in Seq(Event) /\ DOMAIN Append(inbox, e) = 1 .. Len(inbox) + 1
        /\ DOMAIN inbox = 1 .. Len(inbox)
    BY <2>1
  <2>4. ASSUME NEW i \in 1 .. Len(inbox) + 1 PROVE Sound(Append(inbox, e)[i])
    <3>1. CASE i <= Len(inbox)
      BY <2>2, <2>3, <3>1
    <3>2. CASE ~(i <= Len(inbox))
      BY <1>1, <2>2, <3>2
    <3> QED  BY <3>1, <3>2
  <2> QED  BY <2>3, <2>4
<1>2. ASSUME inbox # <<>>
      PROVE  /\ Sound(Head(inbox)) /\ Tail(inbox) \in Seq(Event)
             /\ \A i \in DOMAIN Tail(inbox) : Sound(Tail(inbox)[i])
  <2>1. Len(inbox) \in Nat /\ Len(inbox) > 0 /\ DOMAIN inbox = 1 .. Len(inbox) /\ Head(inbox) = inbox[1]
    BY <1>2
  <2>2. Tail(inbox) \in Seq(Event) /\ DOMAIN Tail(inbox) = 1 .. Len(inbox) - 1
    BY <1>2
  <2>3. \A i \in 1 .. Len(inbox) - 1 : Tail(inbox)[i] = inbox[i + 1]
    BY <1>2
  <2>4. ASSUME NEW i \in 1 .. Len(inbox) - 1 PROVE Sound(Tail(inbox)[i])
    <3>1. i + 1 \in DOMAIN inbox
      BY <2>1
    <3>2. Sound(inbox[i + 1])
      BY <3>1
    <3> QED  BY <2>3, <3>2
  <2> QED  BY <2>1, <2>2, <2>4
<1> QED  BY <1>1, <1>2

\* A step of nobody's handler
LEMMA OutsideKeeps ==
  ASSUME IntakeInv, TypeOK', \A i \in DOMAIN inbox' : Sound(inbox'[i]),
         whitelist \subseteq whitelist', cache'.logins \subseteq whitelist',
         UNCHANGED <<processing, stamps, made, hook>>
  PROVE  Kept
<1>1. \A r \in Hooks : HookOK(hook[r])'
  BY DEF IntakeInv, HookOK, Admitted
<1>2. ProcessingIsHeld'
  BY DEF IntakeInv, ProcessingIsHeld, Under
<1>3. \A c \in Comments : made'[c] > 0 => Admitted(c)'
  BY DEF IntakeInv, Admitted
<1>4. QuotaInv'
  <2>1. Spent' = Spent /\ Flight' = Flight
    BY DEF Spent, Flight, Paid, By
  <2> QED  BY <2>1 DEF IntakeInv, QuotaInv
<1>5. ApartInv => ApartInv'
  BY DEF ApartInv, Unmade, Apart, CommentOnce
<1> QED  BY <1>1, <1>2, <1>3, <1>4, <1>5 DEF IntakeInv, Kept

\* The web, the operator and time
LEMMA WorldKeeps ==
  ASSUME IntakeInv, (\E c \in Comments : Post(c)) \/ Toggle \/ Pause \/ Expire \/ Admit
  PROVE  Kept
<1> USE Sorts DEF web
<1>1. TypeOK /\ UNCHANGED <<processing, stamps, made, hook>> /\ cache.logins \subseteq whitelist
  BY DEF IntakeInv, Post, Toggle, Pause, Expire, Admit
<1>2. inbox \in Seq(Event) /\ \A i \in DOMAIN inbox : Sound(inbox[i])
  BY Types DEF IntakeInv
<1>3. ASSUME NEW c \in Comments, Post(c) PROVE Kept
  <2>1. Sound(Posted(c))
    BY <1>1, Types DEF Posted, Sound, Event
  <2>2. inbox' \in Seq(Event) /\ \A i \in DOMAIN inbox' : Sound(inbox'[i])
    BY <1>2, <1>3, <2>1, InboxSound DEF Post
  <2>3. TypeOK'
    BY <1>1, <1>3, <2>2 DEF Post, TypeOK
  <2> QED  BY <1>1, <1>3, <2>2, <2>3, OutsideKeeps DEF Post
<1>4. CASE Toggle
  <2>1. Sound(Closed) /\ Sound(Opened(TRUE))
    BY DEF NoHook
  <2>2. inbox' \in Seq(Event) /\ \A i \in DOMAIN inbox' : Sound(inbox'[i])
    BY <1>2, <1>4, <2>1, InboxSound DEF Toggle
  <2>3. toggles' \in 0 .. MaxToggles
    BY <1>1, <1>4, IntakeAssumption DEF Toggle, TypeOK
  <2>4. TypeOK'
    BY <1>1, <1>4, <2>2, <2>3 DEF Toggle, TypeOK
  <2> QED  BY <1>1, <1>4, <2>2, <2>4, OutsideKeeps DEF Toggle
<1>5. CASE Pause
  <2>1. TypeOK'
    BY <1>1, <1>5 DEF Pause, TypeOK
  <2> QED  BY <1>1, <1>2, <1>5, <2>1, OutsideKeeps DEF Pause
<1>6. CASE Expire
  <2>1. cache' \in [fresh : BOOLEAN, held : BOOLEAN, logins : Logins] /\ cache'.logins = cache.logins
    BY <1>1, <1>6, Types DEF Expire
  <2>2. TypeOK'
    BY <1>1, <1>6, <2>1 DEF Expire, TypeOK, Logins
  <2> QED  BY <1>1, <1>2, <1>6, <2>1, <2>2, OutsideKeeps DEF Expire
<1>7. CASE Admit
  <2>1. whitelist \in Logins /\ whitelist \cup {Opener} \in Logins
    BY <1>1, Types DEF Logins
  <2>2. /\ cache' \in [fresh : BOOLEAN, held : BOOLEAN, logins : Logins]
        /\ whitelist' \in Logins /\ whitelist \subseteq whitelist' /\ cache'.logins \subseteq whitelist'
    <3>1. CASE whitelist' = whitelist \cup {Opener} /\ cache' = [cache EXCEPT !.logins = @ \cup {Opener}]
      <4>1. cache.logins \cup {Opener} \in Logins
        BY <1>1, Types DEF Logins
      <4> QED  BY <1>1, <2>1, <3>1, <4>1, Types
    <3>2. CASE whitelist' \in {whitelist, whitelist \cup {Opener}} /\ cache' = cache
      BY <1>1, <2>1, <3>2, Types
    <3> QED  BY <1>7, <3>1, <3>2 DEF Admit
  <2>3. TypeOK'
    BY <1>1, <1>7, <2>2 DEF Admit, TypeOK, Logins
  <2> QED  BY <1>1, <1>2, <1>7, <2>2, <2>3, OutsideKeeps DEF Admit
<1> QED  BY <1>3, <1>4, <1>5, <1>6, <1>7

\* TypeOK of the next state
LEMMA TypesNext ==
  ASSUME TypeOK, NEW r \in Hooks, NEW h \in HookType, hook' = [hook EXCEPT ![r] = h],
         UNCHANGED web, UNCHANGED paused, inbox' \in Seq(Event), rowState' \in RowStates,
         processing' \subseteq Comments, admitting' \in BOOLEAN,
         cache' \in [fresh : BOOLEAN, held : BOOLEAN, logins : Logins],
         stamps' \in [Authors -> 0 .. Limit], made' \in [Comments \cup {NoComment} -> Nat]
  PROVE  TypeOK'
<1>1. hook' \in [Hooks -> HookType]
  BY Types
<1> QED  BY <1>1 DEF TypeOK, web, Logins, RowStates, HookType, AnswerType

\* A handler that only moves on to h.
LEMMA MoveKeeps ==
  ASSUME IntakeInv, NEW r \in Hooks, NEW h \in HookType, hook' = [hook EXCEPT ![r] = h],
         HookOK(h), UNCHANGED web, UNCHANGED <<paused, processing, cache, admitting, stamps, made>>,
         inbox' \in Seq(Event), \A i \in DOMAIN inbox' : Sound(inbox'[i]), rowState' \in RowStates,
         hook[r].pc \notin Working,
         Opener \notin Wakers \cup whitelist => (Paid(h) => Paid(hook[r])),
         Unmade(h), h.pc \notin Working,
         NoRace => \/ h.pc = "idle" \/ h.ev.comment = NoComment
                   \/ h.ev = hook[r].ev /\ (h.pc \in Asking => hook[r].pc \in Asking)
                   \/ \A q \in Hooks : hook[q].pc \in Asking => hook[q].ev.comment # h.ev.comment
  PROVE  Kept
<1> USE DEF web
<1>1. TypeOK'
  BY Types, TypesNext DEF IntakeInv
<1>2. QuotaInv'
  BY QuotaSame
<1>3. IntakeInv'
  <2>1. /\ UNCHANGED whitelist /\ cache'.logins \subseteq whitelist
        /\ \A c \in processing' : c \in processing /\ (hook[r].pc \in Working => c # hook[r].ev.comment)
        /\ \A c \in Comments : made'[c] > 0 => made[c] > 0
    BY DEF IntakeInv
  <2> QED  BY <1>1, <1>2, <2>1, HandlerKeeps
<1>4. ASSUME NoRace, ApartInv PROVE ApartInv'
  <2>1. Unmade(h)' /\ CommentOnce'
    BY <1>4 DEF Unmade, ApartInv, CommentOnce
  <2> QED  BY <1>4, <2>1, StaysApart
<1> QED  BY <1>3, <1>4 DEF Kept

LEMMA ReceiveKeeps ==
  ASSUME IntakeInv, NEW r \in Hooks, Receive(r) PROVE Kept
<1> USE Sorts
<1>1. TypeOK /\ inbox \in Seq(Event) /\ \A i \in DOMAIN inbox : Sound(inbox[i])
  BY Types DEF IntakeInv
<1> DEFINE e == Head(inbox)
           b == [NoHook EXCEPT !.ev = e]
           g == IF e.type = "closed" THEN [b EXCEPT !.pc = "close", !.row = rowState]
                ELSE IF e.type = "opened" THEN [b EXCEPT !.pc = "heal", !.row = rowState]
                ELSE Gated(e, rowState)
<1>2. /\ hook[r].pc = "idle" /\ Sound(e) /\ hook' = [hook EXCEPT ![r] = g]
      /\ inbox' \in Seq(Event) /\ \A i \in DOMAIN inbox' : Sound(inbox'[i])
      /\ NoRace => Alone(e)
      /\ UNCHANGED <<web, paused, rowState, processing, cache, admitting, stamps, made>>
  <2>1. Sound(e) /\ Tail(inbox) \in Seq(Event) /\ \A i \in DOMAIN Tail(inbox) : Sound(Tail(inbox)[i])
    BY <1>1, InboxSound DEF Receive
  <2> QED  BY <1>1, <2>1 DEF Receive, Begin, Step, NoRace
<1>3. rowState \in RowStates
  BY <1>1, Types
<1>4. /\ g \in HookType /\ HookOK(g) /\ Unmade(g) /\ g.pc \notin Working
      /\ Paid(g) => Opener \in Wakers
      /\ g.pc = "idle" \/ g.ev.comment = NoComment \/ (g.ev = e /\ e.type = "comment")
  <2>1. CASE e.type = "closed"
    <3>1. g = [b EXCEPT !.pc = "close", !.row = rowState]
      BY <2>1
    <3>2. g \in HookType /\ g.pc = "close" /\ g.ev = e /\ g.answer.logins = {}
      BY <1>2, <1>3, <3>1 DEF HookType, PCs, Sound
    <3> QED  BY <1>2, <2>1, <3>2 DEF HookOK, Unmade, Working, Paid, Sound
  <2>2. CASE e.type = "opened"
    <3>1. g = [b EXCEPT !.pc = "heal", !.row = rowState]
      BY <2>2
    <3>2. g \in HookType /\ g.pc = "heal" /\ g.ev = e /\ g.answer.logins = {}
      BY <1>2, <1>3, <3>1 DEF HookType, PCs, Sound
    <3> QED  BY <1>2, <2>2, <3>2 DEF HookOK, Unmade, Working, Paid, Sound
  <2>3. CASE e.type = "comment"
    <3>1. g = Gated(e, rowState)
      BY <2>3
    <3>2. /\ g \in HookType /\ HookOK(g) /\ Unmade(g) /\ g.pc \in {"idle", "ask", "stored", "lookup"}
          /\ (g.pc # "idle" => g.ev = e) /\ (Paid(g) => Opener \in Wakers)
      BY <1>1, <1>2, <1>3, <2>3, <3>1, GatedOK
    <3> QED  BY <2>3, <3>2 DEF Working
  <2> QED  BY <1>2, <2>1, <2>2, <2>3 DEF Sound, Event
<1>5. NoRace /\ e.type = "comment" =>
        \A q \in Hooks : hook[q].pc \in Asking => hook[q].ev.comment # e.comment
  BY <1>2 DEF Alone, Under, Asking
<1> HIDE DEF g, e
<1> QED  BY <1>2, <1>3, <1>4, <1>5, MoveKeeps DEF Working

LEMMA HealKeeps ==
  ASSUME IntakeInv, NEW r \in Hooks, Heal(r) PROVE Kept
<1> USE Sorts
<1>1. /\ TypeOK /\ HookOK(hook[r]) /\ inbox \in Seq(Event) /\ rowState \in RowStates
      /\ \A i \in DOMAIN inbox : Sound(inbox[i])
  BY Types DEF IntakeInv
<1> DEFINE e == hook[r].ev
           g == Gated(e, rowState')
<1>2. /\ hook[r].pc = "heal" /\ e.type = "opened" /\ Sound(e) /\ e.comment = NoComment
      /\ hook' = [hook EXCEPT ![r] = g] /\ rowState' \in RowStates
  BY <1>1 DEF Heal, HookOK, Step, RowStates, Sound
<1>3. /\ g \in HookType /\ HookOK(g) /\ Unmade(g) /\ g.pc \in {"idle", "ask", "stored", "lookup"}
      /\ (g.pc # "idle" => g.ev = e) /\ (Paid(g) => Opener \in Wakers)
  BY <1>1, <1>2, GatedOK
<1> HIDE DEF g, e
<1> QED  BY <1>1, <1>2, <1>3, MoveKeeps DEF Working, Heal

LEMMA AskKeeps ==
  ASSUME IntakeInv, NEW r \in Hooks, Ask(r) PROVE Kept
<1> USE Sorts
<1>1. /\ TypeOK /\ HookOK(hook[r]) /\ inbox \in Seq(Event) /\ rowState \in RowStates
      /\ \A i \in DOMAIN inbox : Sound(inbox[i])
      /\ hook[r] \in HookType /\ whitelist \in Logins /\ cache.logins \in Logins
      /\ cache.held \in BOOLEAN /\ cache.logins \subseteq whitelist
  BY Types DEF IntakeInv
<1>2. PICK l \in Logins, community \in BOOLEAN, fetched \in BOOLEAN :
        /\ l \subseteq whitelist
        /\ hook' = [hook EXCEPT ![r] =
                     [hook[r] EXCEPT !.pc = "wake",
                        !.answer = [logins |-> l, community |-> community, fetched |-> fetched]]]
  BY <1>1 DEF Ask, Step
<1> DEFINE g == [hook[r] EXCEPT !.pc = "wake",
                   !.answer = [logins |-> l, community |-> community, fetched |-> fetched]]
<1>3. g \in HookType /\ g.pc = "wake" /\ g.ev = hook[r].ev /\ g.answer.logins = l
  BY <1>1 DEF HookType, AnswerType, PCs
<1>4. hook' = [hook EXCEPT ![r] = g]
  BY <1>2
<1>5. hook[r].pc = "ask"
  BY DEF Ask
<1> HIDE DEF g
<1>6. HookOK(g) /\ Unmade(g) /\ ~Paid(g)
  BY <1>1, <1>2, <1>3, <1>5 DEF HookOK, Unmade, Working, Paid
<1> QED  BY <1>1, <1>3, <1>4, <1>5, <1>6, MoveKeeps DEF Working, Asking, Ask

LEMMA WakeKeeps ==
  ASSUME IntakeInv, NEW r \in Hooks, Wake(r) PROVE Kept
<1> USE Sorts
<1> DEFINE e == hook[r].ev
           l == hook[r].answer.logins
           d == Dispatched(e, rowState)
<1>1. /\ TypeOK /\ HookOK(hook[r]) /\ inbox \in Seq(Event) /\ rowState \in RowStates
      /\ \A i \in DOMAIN inbox : Sound(inbox[i])
      /\ hook[r] \in HookType /\ processing \subseteq Comments /\ admitting \in BOOLEAN
      /\ cache \in [fresh : BOOLEAN, held : BOOLEAN, logins : Logins]
      /\ stamps \in [Authors -> 0 .. Limit] /\ made \in [Comments \cup {NoComment} -> Nat]
      /\ cache.logins \subseteq whitelist
  BY Types DEF IntakeInv
<1>2. /\ hook[r].pc = "wake" /\ Sound(e) /\ e.type \in {"opened", "comment"} /\ l \subseteq whitelist
      /\ l \in Logins
  BY <1>1 DEF Wake, HookOK, HookType, AnswerType
<1>3. /\ cache' \in [fresh : BOOLEAN, held : BOOLEAN, logins : Logins] /\ cache'.logins \subseteq whitelist
  <2>1. CASE cache' = [fresh |-> TRUE, held |-> TRUE, logins |-> l]
    BY <1>2, <2>1
  <2>2. CASE cache' = cache
    BY <1>1, <2>2
  <2> QED  BY <2>1, <2>2 DEF Wake
<1>4. UNCHANGED web /\ UNCHANGED <<inbox, paused, rowState, processing, made>> /\ UNCHANGED whitelist
  BY DEF Wake, web
<1>5. admitting' \in BOOLEAN
  BY <1>1 DEF Wake
<1>6. stamps' \in [Authors -> 0 .. Limit]
  <2>1. CASE Quota(By(e))
    <3>1. By(e) \in Authors
      BY <1>2 DEF By, Sound, Event
    <3>2. stamps[By(e)] + 1 \in 0 .. Limit /\ stamps' = [stamps EXCEPT ![By(e)] = @ + 1]
      BY <1>1, <2>1, <3>1 DEF Quota
    <3> QED  BY <1>1, <3>1, <3>2
  <2> QED  BY <1>1, <2>1 DEF Wake
\* a handler that ends or goes on as Dispatched, with a quota that is kept
<1>7. ASSUME NEW h \in HookType, hook' = [hook EXCEPT ![r] = h], HookOK(h), Unmade(h),
             h.pc \in {"idle", "stored", "lookup"}, h.pc # "idle" => h.ev = e, QuotaInv'
      PROVE  Kept
  <2>1. TypeOK'
    BY <1>1, <1>3, <1>4, <1>5, <1>6, <1>7, TypesNext
  <2>2. IntakeInv'
    <3>1. /\ \A c \in processing' : c \in processing /\ (hook[r].pc \in Working => c # hook[r].ev.comment)
          /\ \A c \in Comments : made'[c] > 0 => made[c] > 0
      BY <1>2, <1>4 DEF Working
    <3> QED  BY <1>1, <1>3, <1>4, <1>7, <2>1, <3>1, HandlerKeeps
  <2>3. ASSUME NoRace, ApartInv PROVE ApartInv'
    <3>1. Unmade(h)' /\ CommentOnce'
      BY <1>4, <1>7, <2>3 DEF Unmade, ApartInv, CommentOnce
    <3>2. hook[r].pc \in Asking /\ hook[r].pc \notin {"lookup"} \cup Working /\ h.pc \notin Working
      BY <1>2, <1>7 DEF Asking, Working
    <3> QED  BY <1>4, <1>7, <2>3, <3>1, <3>2, StaysApart
  <2> QED  BY <2>2, <2>3 DEF Kept
<1>8. CASE ~wakePolicySkips(By(e), l) /\ hook' = [hook EXCEPT ![r] = d] /\ UNCHANGED stamps
  <2>1. By(e) \in Wakers \cup whitelist
    BY <1>2, <1>8 DEF wakePolicySkips
  <2>2. e.type = "comment" => Admitted(e.comment)
    BY <2>1 DEF Admitted, By
  <2>3. d \in HookType /\ HookOK(d) /\ Unmade(d) /\ d.pc \in {"idle", "stored", "lookup"} /\ (d.pc # "idle" => d.ev = e)
    BY <1>1, <1>2, <2>2, DispatchedOK
  <2>4. Paid(d) => Opener \in Wakers \cup whitelist
    BY <2>1, <2>3 DEF Paid, Working
  <2>5. QuotaInv'
    BY <1>4, <1>8, <2>3, <2>4, QuotaSame
  <2> HIDE DEF d, e
  <2> QED  BY <1>7, <1>8, <2>3, <2>5
<1>9. CASE By(e) = Opener /\ Quota(Opener) /\ hook' = [hook EXCEPT ![r] = d]
  <2>1. e.type = "comment" => Admitted(e.comment)
    BY <1>9 DEF Admitted, By
  <2>2. d \in HookType /\ HookOK(d) /\ Unmade(d) /\ d.pc \in {"idle", "stored", "lookup"} /\ (d.pc # "idle" => d.ev = e)
    BY <1>1, <1>2, <2>1, DispatchedOK
  <2>3. QuotaInv'
    BY <1>4, <1>9, <2>2, QuotaTaken
  <2> HIDE DEF d, e
  <2> QED  BY <1>7, <1>9, <2>2, <2>3
<1>10. CASE hook' = [hook EXCEPT ![r] = NoHook] /\ UNCHANGED stamps
  <2>1. HookOK(NoHook) /\ Unmade(NoHook) /\ ~Paid(NoHook)
    BY DEF HookOK, Unmade, Paid, Working
  <2>2. QuotaInv'
    BY <1>4, <1>10, <2>1, QuotaSame
  <2> QED  BY <1>7, <1>10, <2>1, <2>2
<1> HIDE DEF d
<1> QED  BY <1>8, <1>9, <1>10 DEF Wake, Step, Return, d

\* The handler leaves and takes its comment out of processingComments.
LEMMA FinallyKeeps ==
  ASSUME IntakeInv, NEW r \in Hooks, hook[r].pc \in Working, Finally(r), rowState' \in RowStates,
         UNCHANGED <<web, inbox, paused, cache, admitting, stamps>>,
         \/ UNCHANGED made
         \/ made' = [made EXCEPT ![hook[r].ev.comment] = @ + 1]
  PROVE  Kept
<1> USE Sorts
<1> DEFINE c == hook[r].ev.comment
<1>1. /\ TypeOK /\ HookOK(hook[r]) /\ inbox \in Seq(Event) /\ made \in [Comments \cup {NoComment} -> Nat]
      /\ \A i \in DOMAIN inbox : Sound(inbox[i])
      /\ processing \subseteq Comments /\ cache.logins \subseteq whitelist
      /\ admitting \in BOOLEAN /\ stamps \in [Authors -> 0 .. Limit]
      /\ cache \in [fresh : BOOLEAN, held : BOOLEAN, logins : Logins]
  BY Types DEF IntakeInv
<1>2. c \in Comments /\ c # NoComment /\ Admitted(c) /\ By(hook[r].ev) = Author[c]
  BY <1>1 DEF HookOK, Sound, Event, By
<1>3. hook' = [hook EXCEPT ![r] = NoHook] /\ processing' = processing \ {c}
  BY DEF Finally, Return, Step
<1>4. HookOK(NoHook) /\ ~Paid(NoHook)
  BY DEF HookOK, Paid, Working
<1>5. made' \in [Comments \cup {NoComment} -> Nat] /\ \A d \in Comments : d # c => made'[d] = made[d]
  BY <1>1, <1>2
<1>6. TypeOK'
  BY <1>1, <1>3, <1>5, TypesNext
<1>7. QuotaInv'
  <2>1. CASE UNCHANGED made
    BY <1>3, <1>4, <2>1, QuotaSame DEF web
  <2>2. CASE made' = [made EXCEPT ![c] = @ + 1]
    <3>1. Author[c] = Opener => Paid(hook[r])
      BY <1>2 DEF Paid
    <3> QED  BY <1>2, <1>3, <2>2, <3>1, QuotaMade DEF web
  <2> QED  BY <2>1, <2>2
<1>8. IntakeInv'
  <2>1. /\ UNCHANGED whitelist /\ cache'.logins \subseteq whitelist
        /\ \A d \in processing' : d \in processing /\ (hook[r].pc \in Working => d # hook[r].ev.comment)
        /\ \A d \in Comments : made'[d] > 0 => made[d] > 0 \/ Admitted(d)
        /\ \A i \in DOMAIN inbox' : Sound(inbox'[i])
    BY <1>1, <1>2, <1>3, <1>5 DEF web
  <2> QED  BY <1>3, <1>4, <1>6, <1>7, <2>1, HandlerKeeps
<1>9. ASSUME NoRace, ApartInv PROVE ApartInv'
  <2>1. made[c] = 0
    BY <1>9 DEF ApartInv, Unmade
  <2>2. CommentOnce'
    BY <1>1, <1>2, <1>5, <1>9, <2>1 DEF CommentOnce, ApartInv
  <2>3. Unmade(NoHook)' /\ NoHook.pc = "idle"
    BY DEF Unmade, Working
  <2>4. /\ hook[r].pc # "lookup" /\ processing' \subseteq processing
        /\ \A d \in Comments : d = hook[r].ev.comment \/ (made'[d] = made[d] /\ (d \in processing' <=> d \in processing))
    BY <1>3, <1>5 DEF Working
  <2> QED  BY <1>3, <1>9, <2>2, <2>3, <2>4, StaysApart
<1> QED  BY <1>8, <1>9 DEF Kept

\* The handler goes on with the comment that it holds.
LEMMA WorkGoesOn ==
  ASSUME IntakeInv, NEW r \in Hooks, hook[r].pc \in Working, NEW p, p \in Working, Goto(r, p),
         rowState' \in RowStates,
         UNCHANGED <<web, inbox, paused, processing, cache, admitting, stamps, made>>
  PROVE  Kept
<1> USE Sorts
<1>1. /\ TypeOK /\ HookOK(hook[r]) /\ inbox \in Seq(Event) /\ made \in [Comments \cup {NoComment} -> Nat]
      /\ \A i \in DOMAIN inbox : Sound(inbox[i])
      /\ Sound(hook[r].ev)
      /\ processing \subseteq Comments /\ cache.logins \subseteq whitelist
      /\ admitting \in BOOLEAN /\ stamps \in [Authors -> 0 .. Limit]
      /\ cache \in [fresh : BOOLEAN, held : BOOLEAN, logins : Logins]
  BY Types DEF IntakeInv, HookOK
<1>2. PICK g : g = [NoHook EXCEPT !.pc = p, !.ev = hook[r].ev] /\ hook' = [hook EXCEPT ![r] = g]
  BY DEF Goto, Step
<1>3. g \in HookType /\ g.pc = p /\ g.ev = hook[r].ev /\ g.answer.logins = {}
  <2>1. p \in PCs
    BY DEF PCs, Working
  <2>2. hook[r].ev \in Event
    BY <1>1 DEF Sound
  <2> QED  BY <1>2, <2>1, <2>2 DEF HookType
<1>4. HookOK(g) /\ (Paid(g) => Paid(hook[r]))
  BY <1>1, <1>3 DEF HookOK, Paid, Working
<1>5. TypeOK'
  BY <1>1, <1>2, <1>3, TypesNext
<1>6. QuotaInv'
  BY <1>2, <1>3, <1>4, QuotaSame DEF web
<1>7. IntakeInv'
  <2>1. /\ UNCHANGED whitelist /\ cache'.logins \subseteq whitelist
        /\ \A c \in processing' : \/ c \in processing /\ (hook[r].pc \in Working => c # hook[r].ev.comment)
                                  \/ g.pc \in Working /\ c = g.ev.comment
        /\ \A c \in Comments : made'[c] > 0 => made[c] > 0
        /\ \A i \in DOMAIN inbox' : Sound(inbox'[i])
    BY <1>1, <1>3 DEF web
  <2> QED  BY <1>2, <1>3, <1>4, <1>5, <1>6, <2>1, HandlerKeeps
<1>8. ASSUME NoRace, ApartInv PROVE ApartInv'
  <2>1. CommentOnce' /\ Unmade(g)'
    BY <1>3, <1>8 DEF CommentOnce, ApartInv, Unmade, Working
  <2>2. hook[r].pc # "lookup" /\ g.pc \notin Asking
    BY <1>3 DEF Working, Asking
  <2> QED  BY <1>2, <1>3, <1>8, <2>1, <2>2, StaysApart
<1> QED  BY <1>7, <1>8 DEF Kept

LEMMA StoredKeeps ==
  ASSUME IntakeInv, NEW r \in Hooks, Stored(r) PROVE Kept
<1> USE Sorts
<1>1. /\ TypeOK /\ HookOK(hook[r]) /\ rowState \in RowStates
      /\ inbox \in Seq(Event) /\ processing \subseteq Comments /\ cache.logins \subseteq whitelist
      /\ admitting \in BOOLEAN /\ stamps \in [Authors -> 0 .. Limit]
      /\ cache \in [fresh : BOOLEAN, held : BOOLEAN, logins : Logins]
      /\ made \in [Comments \cup {NoComment} -> Nat]
      /\ \A i \in DOMAIN inbox : Sound(inbox[i])
  BY Types DEF IntakeInv
<1>2. /\ hook[r].pc = "stored" /\ hook' = [hook EXCEPT ![r] = NoHook] /\ rowState' \in RowStates
      /\ UNCHANGED <<web, inbox, paused, processing, cache, admitting, stamps>>
      /\ UNCHANGED made \/ made' = [made EXCEPT ![NoComment] = @ + 1]
  BY <1>1 DEF Stored, Return, Step, Activated, RowStates
<1>3. HookOK(NoHook) /\ ~Paid(NoHook)
  BY DEF HookOK, Paid, Working
<1>4. made' \in [Comments \cup {NoComment} -> Nat] /\ \A c \in Comments : made'[c] = made[c]
  <2>1. CASE UNCHANGED made
    BY <1>1, <2>1
  <2>2. CASE made' = [made EXCEPT ![NoComment] = @ + 1]
    <3>1. made[NoComment] + 1 \in Nat
      BY <1>1
    <3> QED  BY <1>1, <2>2, <3>1
  <2> QED  BY <1>2, <2>1, <2>2
<1>5. TypeOK'
  BY <1>1, <1>2, <1>4, TypesNext
<1>6. QuotaInv'
  <2>1. CASE UNCHANGED made
    BY <1>2, <1>3, <2>1, QuotaSame DEF web
  <2>2. CASE made' = [made EXCEPT ![NoComment] = @ + 1]
    <3>1. Paid(hook[r])
      BY <1>1, <1>2 DEF HookOK, Paid, By
    <3> QED  BY <1>2, <2>2, <3>1, QuotaMade DEF web
  <2> QED  BY <1>2, <2>1, <2>2
<1>7. IntakeInv'
  <2>1. /\ UNCHANGED whitelist /\ cache'.logins \subseteq whitelist
        /\ \A d \in processing' : d \in processing /\ (hook[r].pc \in Working => d # hook[r].ev.comment)
        /\ \A d \in Comments : made'[d] > 0 => made[d] > 0
        /\ \A i \in DOMAIN inbox' : Sound(inbox'[i])
    BY <1>1, <1>2, <1>4 DEF web, Working
  <2> QED  BY <1>2, <1>3, <1>5, <1>6, <2>1, HandlerKeeps
<1>8. ASSUME NoRace, ApartInv PROVE ApartInv'
  <2>1. CommentOnce' /\ Unmade(NoHook)'
    BY <1>4, <1>8 DEF CommentOnce, ApartInv, Unmade, Working
  <2>2. hook[r].pc \notin {"lookup"} \cup Working
    BY <1>2 DEF Working
  <2> QED  BY <1>2, <1>4, <1>8, <2>1, <2>2, StaysApart
<1> QED  BY <1>7, <1>8 DEF Kept

LEMMA CloseKeeps ==
  ASSUME IntakeInv, NEW r \in Hooks, Close(r) PROVE Kept
<1> USE Sorts
<1>1. /\ inbox \in Seq(Event) /\ rowState \in RowStates /\ hook[r].pc = "close"
      /\ \A i \in DOMAIN inbox : Sound(inbox[i])
  BY Types DEF IntakeInv, Close
<1>2. /\ hook' = [hook EXCEPT ![r] = NoHook] /\ rowState' \in RowStates
      /\ UNCHANGED <<web, inbox, paused, processing, cache, admitting, stamps, made>>
  BY <1>1 DEF Close, Return, Step, RowStates
<1>3. HookOK(NoHook) /\ ~Paid(NoHook) /\ Unmade(NoHook) /\ NoHook.pc \notin Working
  BY DEF HookOK, Paid, Unmade, Working
<1>4. hook[r].pc \notin Working
  BY <1>1 DEF Working
<1> QED  BY <1>1, <1>2, <1>3, <1>4, MoveKeeps

LEMMA LookupKeeps ==
  ASSUME IntakeInv, NEW r \in Hooks, Lookup(r) PROVE Kept
<1> USE Sorts
<1> DEFINE c == hook[r].ev.comment
<1>1. /\ TypeOK /\ HookOK(hook[r]) /\ rowState \in RowStates /\ hook[r] \in HookType
      /\ inbox \in Seq(Event) /\ processing \subseteq Comments /\ cache.logins \subseteq whitelist
      /\ admitting \in BOOLEAN /\ stamps \in [Authors -> 0 .. Limit]
      /\ cache \in [fresh : BOOLEAN, held : BOOLEAN, logins : Logins]
      /\ made \in [Comments \cup {NoComment} -> Nat]
      /\ \A i \in DOMAIN inbox : Sound(inbox[i])
  BY Types DEF IntakeInv
<1>2. /\ hook[r].pc = "lookup" /\ c \in Comments /\ c # NoComment
      /\ UNCHANGED <<web, inbox, paused, rowState, cache, admitting, stamps, made>>
  BY <1>1 DEF Lookup, HookOK, Sound, Event
<1>3. CASE hook[r].known
  <2>1. hook' = [hook EXCEPT ![r] = NoHook] /\ UNCHANGED processing
    BY <1>3 DEF Lookup, Return, Step
  <2>2. HookOK(NoHook) /\ ~Paid(NoHook) /\ Unmade(NoHook) /\ NoHook.pc \notin Working
    BY DEF HookOK, Paid, Unmade, Working
  <2>3. hook[r].pc \notin Working
    BY <1>2 DEF Working
  <2> QED  BY <1>1, <1>2, <2>1, <2>2, <2>3, MoveKeeps
<1>4. CASE ~hook[r].known
  <2>1. PICK g : g = [hook[r] EXCEPT !.pc = "issue", !.row = rowState] /\ hook' = [hook EXCEPT ![r] = g]
    BY <1>4 DEF Lookup, Step
  <2>2. processing' = processing \cup {c}
    BY <1>4 DEF Lookup
  <2>3. g \in HookType /\ g.pc = "issue" /\ g.ev = hook[r].ev /\ g.answer = hook[r].answer
    BY <1>1, <2>1 DEF HookType, PCs
  <2>4. HookOK(g) /\ (Paid(g) => Paid(hook[r]))
    BY <1>1, <1>2, <2>3 DEF HookOK, Paid, Working
  <2>5. TypeOK'
    BY <1>1, <1>2, <2>1, <2>2, <2>3, TypesNext
  <2>6. QuotaInv'
    BY <1>2, <2>1, <2>3, <2>4, QuotaSame DEF web
  <2>7. IntakeInv'
    <3>1. /\ UNCHANGED whitelist /\ cache'.logins \subseteq whitelist
          /\ \A d \in processing' : \/ d \in processing /\ (hook[r].pc \in Working => d # hook[r].ev.comment)
                                    \/ g.pc \in Working /\ d = g.ev.comment
          /\ \A d \in Comments : made'[d] > 0 => made[d] > 0
          /\ \A i \in DOMAIN inbox' : Sound(inbox'[i])
      BY <1>1, <1>2, <2>2, <2>3 DEF web, Working
    <3> QED  BY <2>1, <2>3, <2>4, <2>5, <2>6, <3>1, HandlerKeeps
  <2>8. ASSUME NoRace, ApartInv PROVE ApartInv'
    <3>1. made[c] = 0
      BY <1>2, <1>4, <2>8 DEF ApartInv, Unmade
    <3>2. CommentOnce'
      BY <1>2, <2>8 DEF CommentOnce, ApartInv
    <3>3. Unmade(g)'
      BY <1>2, <2>2, <2>3, <3>1 DEF Unmade
    <3>4. /\ g.pc \notin Asking /\ hook[r].pc \notin Working
          /\ \A d \in Comments : d = hook[r].ev.comment \/ (made'[d] = made[d] /\ (d \in processing' <=> d \in processing))
      BY <1>2, <2>2, <2>3 DEF Asking, Working
    <3> QED  BY <1>2, <1>4, <2>1, <2>2, <2>3, <2>8, <3>2, <3>3, <3>4, StaysApart
  <2> QED  BY <2>7, <2>8 DEF Kept
<1> QED  BY <1>3, <1>4

\* the rest of handleCommented
LEMMA WorkKeeps ==
  ASSUME IntakeInv, NEW r \in Hooks, Track(r) \/ Acknowledge(r) \/ Enqueue(r) PROVE Kept
<1>1. rowState \in RowStates
  BY Types DEF IntakeInv
<1>2. CASE Track(r)
  <2>1. hook[r].pc \in Working /\ "ack" \in Working /\ rowState' \in RowStates
    BY <1>1, <1>2 DEF Track, Working, Activated, RowStates
  <2> QED  BY <1>2, <2>1, FinallyKeeps, WorkGoesOn DEF Track
<1>3. CASE Acknowledge(r)
  <2>1. hook[r].pc \in Working /\ "enqueue" \in Working /\ rowState' \in RowStates
    BY <1>1, <1>3 DEF Acknowledge, Working
  <2> QED  BY <1>3, <2>1, FinallyKeeps, WorkGoesOn DEF Acknowledge
<1>4. CASE Enqueue(r)
  <2>1. hook[r].pc \in Working /\ rowState' \in RowStates
    BY <1>1, <1>4 DEF Enqueue, Working
  <2> QED  BY <1>4, <2>1, FinallyKeeps DEF Enqueue
<1> QED  BY <1>2, <1>3, <1>4

-----------------------------------------------------------------------------
(* The invariants                                                          *)

LEMMA IntakeStarts == Init => IntakeInv /\ ApartInv
<1> USE Sorts
<1> SUFFICES ASSUME Init PROVE IntakeInv /\ ApartInv
  OBVIOUS
<1>1. /\ Opened(TRUE) \in Event /\ Sound(Opened(TRUE))
  BY DEF Sound
<1>2. inbox \in Seq(Event) /\ \A i \in DOMAIN inbox : Sound(inbox[i])
  <2> DEFINE o == Opened(TRUE)
  <2> HIDE DEF o
  <2>1. inbox = <<o>> /\ o \in Event /\ Sound(o)
    BY <1>1 DEF Init, o
  <2>2. <<o>> \in Seq(Event) /\ DOMAIN <<o>> = 1 .. 1 /\ <<o>>[1] = o
    BY <2>1
  <2> QED  BY <2>1, <2>2
<1>3. cache \in [fresh : BOOLEAN, held : BOOLEAN, logins : Logins] /\ cache.logins = {}
  BY DEF Init, NoCache, Logins
<1>4. made = [c \in Comments \cup {NoComment} |-> 0] /\ processing = {} /\ \A r \in Hooks : hook[r] = NoHook
  BY DEF Init
<1>5. TypeOK
  <2>1. toggles \in 0 .. MaxToggles /\ stamps \in [Authors -> 0 .. Limit] /\ made \in [Comments \cup {NoComment} -> Nat]
    BY <1>4, IntakeAssumption DEF Init
  <2>2. hook \in [Hooks -> HookType] /\ whitelist \in Logins
    BY DEF Init, Logins
  <2> QED  BY <1>2, <1>3, <1>4, <2>1, <2>2, Types DEF Init, RowStates
<1>6. \A r \in Hooks : HookOK(hook[r]) /\ Unmade(hook[r]) /\ ~Paid(hook[r])
  BY <1>4 DEF HookOK, Unmade, Paid, Working
<1>7. QuotaInv
  <2>1. Spent = {} /\ Flight = {}
    BY <1>4, <1>6 DEF Spent, Flight
  <2> QED  BY <1>4, <2>1, FS_EmptySet DEF QuotaInv, Init
<1>8. \A r, q \in Hooks : Apart(hook[r], hook[q])
  BY <1>4 DEF Apart, Asking, Working
<1> QED  BY <1>2, <1>3, <1>4, <1>5, <1>6, <1>7, <1>8 DEF IntakeInv, ApartInv, ProcessingIsHeld, CommentOnce

LEMMA IntakeKeeps == IntakeInv /\ [Next]_vars => Kept
<1> SUFFICES ASSUME IntakeInv, [Next]_vars PROVE Kept
  OBVIOUS
<1>1. CASE UNCHANGED vars
  <2>1. TypeOK'
    BY <1>1 DEF vars, TypeOK, IntakeInv
  <2> QED  BY <1>1, <2>1, OutsideKeeps DEF vars, IntakeInv
<1>2. CASE Next
  BY <1>2, WorldKeeps, ReceiveKeeps, HealKeeps, AskKeeps, WakeKeeps, StoredKeeps, CloseKeeps, LookupKeeps,
     WorkKeeps DEF Next, Handle
<1> QED  BY <1>1, <1>2

\* In every reachable state of one daemon's handlers, whatever goes wrong:
\* the types, who is admitted, what processingComments holds and the quota.
THEOREM IntakeInvariant == Spec => []IntakeInv
<1>1. Init => IntakeInv
  BY IntakeStarts
<1>2. IntakeInv /\ [Next]_vars => IntakeInv'
  BY IntakeKeeps DEF Kept
<1> QED  BY <1>1, <1>2, PTL DEF Spec

\* Its variables keep their types.
THEOREM IntakeTypes == Spec => []TypeOK
<1>1. IntakeInv => TypeOK
  BY DEF IntakeInv
<1> QED  BY <1>1, IntakeInvariant, PTL

\* processingComments names only comments that a handler works on, so no early
\* return or exception locks out a redelivery (the finally of handleCommented).
THEOREM ProcessingIsHeldHolds == Spec => []ProcessingIsHeld
<1>1. IntakeInv => ProcessingIsHeld
  BY DEF IntakeInv
<1> QED  BY <1>1, IntakeInvariant, PTL

\* An author who neither is listed nor opened the issue never wakes the agent
\* (decideWake and projectWakeConfig), for any authors and any failures.
THEOREM StrangersDoNotWakeHolds == Spec => []StrangersDoNotWake
<1>1. IntakeInv => StrangersDoNotWake
  BY DEF IntakeInv, StrangersDoNotWake, Admitted
<1> QED  BY <1>1, IntakeInvariant, PTL

\* The opener of an issue of a community project who is on no whitelist gets
\* externalWakeLimit messages at most (externalWakeAllotment).
THEOREM QuotaIsKept == Spec => []QuotaHolds
<1>1. ASSUME IntakeInv, Opener \notin Wakers \cup whitelist
      PROVE  made[NoComment] + Cardinality(Spent) <= Limit
  <2>1. /\ made[NoComment] \in Nat /\ stamps[Opener] \in 0 .. Limit
        /\ made[NoComment] + Cardinality(Spent) + Cardinality(Flight) <= stamps[Opener]
    BY <1>1, Types, Sorts DEF IntakeInv, QuotaInv
  <2> QED  BY <2>1, Counted, Sorts
<1>2. IntakeInv => QuotaHolds
  BY <1>1 DEF QuotaHolds, Spent
<1> QED  BY <1>2, IntakeInvariant, PTL

\* Without a race of two lookups a comment makes one message, however often
\* its webhook is delivered (findMessageByCommentId and processingComments).
THEOREM CommentOnceHolds == NoRace /\ Spec => []CommentOnce
<1>1. Init => IntakeInv /\ ApartInv
  BY IntakeStarts
<1>2. NoRace /\ IntakeInv /\ ApartInv /\ [Next]_vars => (IntakeInv /\ ApartInv)'
  BY IntakeKeeps DEF Kept
<1>3. IntakeInv /\ ApartInv => CommentOnce
  BY DEF ApartInv
<1>4. NoRace => NoRace'
  BY DEF NoRace
<1> QED  BY <1>1, <1>2, <1>3, <1>4, PTL DEF Spec

-----------------------------------------------------------------------------
(* Reopened issues                                                         *)

OpenedAhead(i) == \E j \in DOMAIN inbox : j > i /\ inbox[j].type = "opened"

Toggling(h) == h.pc # "idle" /\ h.ev.type # "comment"

\* While the issue is open there is always an opening behind a closing, and one
\* that will heal a row that says closed.
HealInv ==
  /\ issue = "open" =>
       /\ \A i \in DOMAIN inbox : inbox[i].type = "closed" => OpenedAhead(i)
       /\ \A r \in Hooks : hook[r].pc = "close" => OpenedAhead(0)
       /\ rowState = "closed" => OpenedAhead(0) \/ \E r \in Hooks : hook[r].pc = "heal"
  /\ \A r \in Hooks : hook[r].pc = "heal" /\ rowState = "closed" => hook[r].row = "closed"
  /\ \A r \in Hooks : hook[r].pc = "close" => hook[r].ev.type = "closed"
  /\ \A r, q \in Hooks : Toggling(hook[r]) /\ Toggling(hook[q]) => r = q

\* A handler goes on as g: it may close the row only by closing the issue's.
Moves(r, g) ==
  /\ hook' = [hook EXCEPT ![r] = g] /\ hook[r].pc # "idle"
  /\ g.pc \notin {"heal", "close"} /\ (g.pc = "idle" \/ g.ev = hook[r].ev)
  /\ UNCHANGED <<issue, inbox>>
  /\ rowState' = "closed" => hook[r].pc # "heal" /\ (rowState = "closed" \/ hook[r].pc = "close")

LEMMA MovesHeal ==
  ASSUME IntakeInv, HealInv, NEW r \in Hooks, NEW g, Moves(r, g)
  PROVE  HealInv'
<1> USE DEF Moves
<1>1. hook'[r] = g /\ \A q \in Hooks : q # r => hook'[q] = hook[q]
  BY Types DEF IntakeInv
<1>2. \A i : OpenedAhead(i)' <=> OpenedAhead(i)
  BY DEF OpenedAhead
<1>3. ASSUME NEW p \in Hooks, NEW q \in Hooks, Toggling(hook'[p]), Toggling(hook'[q])
      PROVE  p = q
  <2>1. Toggling(hook[p]) /\ Toggling(hook[q])
    BY <1>1, <1>3 DEF Toggling
  <2> QED  BY <2>1 DEF HealInv
<1>4. ASSUME NEW q \in Hooks, hook'[q].pc = "heal", rowState' = "closed"
      PROVE  hook'[q].row = "closed"
  <2>1. q # r /\ hook'[q] = hook[q] /\ hook[q].pc = "heal"
    BY <1>1, <1>4
  <2>2. CASE rowState = "closed"
    BY <2>1, <2>2 DEF HealInv
  <2>3. CASE hook[r].pc = "close"
    <3>1. Toggling(hook[q]) /\ Toggling(hook[r])
      BY <2>1, <2>3 DEF HealInv, IntakeInv, HookOK, Toggling
    <3> QED  BY <2>1, <3>1 DEF HealInv
  <2> QED  BY <1>4, <2>2, <2>3
<1>5. ASSUME issue = "open", rowState' = "closed"
      PROVE  OpenedAhead(0) \/ \E q \in Hooks : hook'[q].pc = "heal"
  <2>1. CASE rowState = "closed"
    <3>1. OpenedAhead(0) \/ \E q \in Hooks : hook[q].pc = "heal"
      BY <1>5, <2>1 DEF HealInv
    <3> QED  BY <1>1, <1>5, <3>1
  <2>2. CASE hook[r].pc = "close"
    BY <1>5, <2>2 DEF HealInv
  <2> QED  BY <1>5, <2>1, <2>2
<1>6. ASSUME NEW q \in Hooks, hook'[q].pc = "close"
      PROVE  hook[q].pc = "close" /\ hook'[q].ev = hook[q].ev
  BY <1>1, <1>6
<1> QED  BY <1>1, <1>2, <1>3, <1>4, <1>5, <1>6 DEF HealInv

LEMMA HandleMoves ==
  ASSUME IntakeInv, HealInv, NEW r \in Hooks, Handle(r)
  PROVE  \E g : Moves(r, g)
<1> USE Sorts
<1>1. /\ TypeOK /\ HookOK(hook[r]) /\ hook[r] \in HookType /\ rowState \in RowStates
  BY Types DEF IntakeInv
<1>2. CASE Heal(r)
  <2> DEFINE g == Gated(hook[r].ev, rowState')
  <2>1. hook[r].pc = "heal" /\ hook' = [hook EXCEPT ![r] = g] /\ UNCHANGED <<issue, inbox>>
    BY <1>2 DEF Heal, Step, web
  <2>2. rowState' # "closed" /\ rowState' \in RowStates
    BY <1>1, <1>2 DEF Heal, HealInv, RowStates
  <2>3. g.pc \in {"idle", "ask", "stored", "lookup"} /\ (g.pc # "idle" => g.ev = hook[r].ev)
    BY <1>1, <2>1, <2>2, GatedOK DEF HookOK
  <2> HIDE DEF g
  <2>4. Moves(r, g)
    BY <2>1, <2>2, <2>3 DEF Moves
  <2> QED  BY <2>4
<1>3. CASE Ask(r)
  <2>1. PICK a : hook' = [hook EXCEPT ![r] = [hook[r] EXCEPT !.pc = "wake", !.answer = a]]
    BY <1>3 DEF Ask, Step
  <2> DEFINE g == [hook[r] EXCEPT !.pc = "wake", !.answer = a]
  <2>2. g.pc = "wake" /\ g.ev = hook[r].ev
    BY <1>1 DEF HookType
  <2>3. hook' = [hook EXCEPT ![r] = g] /\ hook[r].pc = "ask" /\ UNCHANGED <<issue, inbox, rowState>>
    BY <1>3, <2>1 DEF Ask, web
  <2> HIDE DEF g
  <2>4. Moves(r, g)
    BY <2>2, <2>3 DEF Moves
  <2> QED  BY <2>4
<1>4. CASE Wake(r)
  <2>1. hook[r].pc = "wake" /\ UNCHANGED <<issue, inbox, rowState>>
    BY <1>4 DEF Wake, web
  <2>2. \/ hook' = [hook EXCEPT ![r] = NoHook]
        \/ hook' = [hook EXCEPT ![r] = Dispatched(hook[r].ev, rowState)]
    BY <1>4 DEF Wake, Return, Step
  <2>3. /\ Dispatched(hook[r].ev, rowState).pc \in {"idle", "stored", "lookup"}
        /\ Dispatched(hook[r].ev, rowState).pc # "idle"
           => Dispatched(hook[r].ev, rowState).ev = hook[r].ev
    BY DEF Dispatched, NoHook
  <2>4. Moves(r, NoHook) \/ Moves(r, Dispatched(hook[r].ev, rowState))
    BY <2>1, <2>2, <2>3 DEF Moves
  <2> QED  BY <2>4
<1>5. CASE Stored(r) \/ Close(r)
  <2>1. /\ hook' = [hook EXCEPT ![r] = NoHook] /\ UNCHANGED <<issue, inbox>>
        /\ hook[r].pc \in {"stored", "close"}
        /\ rowState' = "closed" => rowState = "closed" \/ hook[r].pc = "close"
    BY <1>5 DEF Stored, Close, Return, Step, web, Activated
  <2>2. Moves(r, NoHook)
    BY <2>1 DEF Moves
  <2> QED  BY <2>2
<1>6. CASE Lookup(r)
  <2>1. PICK g : /\ hook' = [hook EXCEPT ![r] = g]
                 /\ g = NoHook \/ g = [hook[r] EXCEPT !.pc = "issue", !.row = rowState]
    BY <1>6 DEF Lookup, Return, Step
  <2>2. hook[r].pc = "lookup" /\ UNCHANGED <<issue, inbox, rowState>>
    BY <1>6 DEF Lookup, web
  <2>3. g.pc \in {"idle", "issue"} /\ (g.pc = "idle" \/ g.ev = hook[r].ev)
    BY <1>1, <2>1 DEF HookType
  <2>4. Moves(r, g)
    BY <2>1, <2>2, <2>3 DEF Moves
  <2> QED  BY <2>4
<1>7. CASE Track(r) \/ Acknowledge(r) \/ Enqueue(r)
  <2>1. PICK g : /\ hook' = [hook EXCEPT ![r] = g]
                 /\ g = NoHook \/ g = [NoHook EXCEPT !.pc = "ack", !.ev = hook[r].ev]
                    \/ g = [NoHook EXCEPT !.pc = "enqueue", !.ev = hook[r].ev]
    BY <1>7 DEF Track, Acknowledge, Enqueue, Finally, Return, Goto, Step
  <2>2. /\ hook[r].pc \in Working /\ UNCHANGED <<issue, inbox>>
        /\ rowState' = "closed" => rowState = "closed"
    BY <1>7 DEF Track, Acknowledge, Enqueue, Working, web, Activated
  <2>3. g.pc \in {"idle", "ack", "enqueue"} /\ (g.pc = "idle" \/ g.ev = hook[r].ev)
    BY <2>1 DEF NoHook
  <2>4. Moves(r, g)
    BY <2>1, <2>2, <2>3 DEF Moves, Working
  <2> QED  BY <2>4
<1> QED  BY <1>2, <1>3, <1>4, <1>5, <1>6, <1>7 DEF Handle

LEMMA ReceiveHeals ==
  ASSUME NoRace, IntakeInv, HealInv, NEW r \in Hooks, Receive(r)
  PROVE  HealInv'
<1> USE Sorts
<1> DEFINE e == Head(inbox)
           b == [NoHook EXCEPT !.ev = e]
           g == IF e.type = "closed" THEN [b EXCEPT !.pc = "close", !.row = rowState]
                ELSE IF e.type = "opened" THEN [b EXCEPT !.pc = "heal", !.row = rowState]
                ELSE Gated(e, rowState)
<1>1. /\ TypeOK /\ inbox \in Seq(Event) /\ rowState \in RowStates
      /\ \A i \in DOMAIN inbox : Sound(inbox[i])
  BY Types DEF IntakeInv
<1>2. /\ hook' = [hook EXCEPT ![r] = g] /\ hook[r].pc = "idle" /\ inbox # <<>> /\ Alone(e)
      /\ UNCHANGED <<issue, rowState>>
      /\ inbox' = Tail(inbox) \/ (inbox' = inbox /\ e.type = "comment")
  BY DEF Receive, Begin, Step, NoRace, web
<1>3. /\ Len(inbox) \in Nat /\ DOMAIN inbox = 1 .. Len(inbox) /\ 1 \in DOMAIN inbox
      /\ e = inbox[1] /\ Sound(e) /\ e.type \in {"opened", "comment", "closed"}
  <2>1. Len(inbox) \in Nat /\ DOMAIN inbox = 1 .. Len(inbox) /\ 1 \in DOMAIN inbox /\ e = inbox[1]
    BY <1>1, <1>2
  <2> QED  BY <1>1, <2>1 DEF Sound, Event
<1>4. /\ g.pc # "idle" => g.ev = e
      /\ g.pc = "close" => e.type = "closed"
      /\ g.pc = "heal" <=> e.type = "opened"
      /\ g.pc = "heal" => g.row = rowState
  <2>1. CASE e.type = "closed"
    <3>1. g = [b EXCEPT !.pc = "close", !.row = rowState]
      BY <2>1
    <3> QED  BY <2>1, <3>1 DEF NoHook
  <2>2. CASE e.type = "opened"
    <3>1. g = [b EXCEPT !.pc = "heal", !.row = rowState]
      BY <2>2
    <3> QED  BY <2>2, <3>1 DEF NoHook
  <2>3. CASE e.type = "comment"
    <3>1. g = Gated(e, rowState)
      BY <2>3
    <3> QED  BY <1>1, <1>3, <2>3, <3>1, GatedOK
  <2> QED  BY <1>3, <2>1, <2>2, <2>3
<1> HIDE DEF g
<1>5. hook'[r] = g /\ \A q \in Hooks : q # r => hook'[q] = hook[q]
  BY <1>1, <1>2, Types
<1>6. e.type # "comment" => \A q \in Hooks : ~Toggling(hook[q])
  <2>1. ASSUME e.type # "comment", NEW q \in Hooks, hook[q].pc # "idle"
        PROVE  hook[q].ev.type = "comment"
    <3>1. hook[q].pc \in PCs
      BY <1>1, Types DEF HookType
    <3> QED  BY <1>2, <2>1, <3>1 DEF Alone, Under
  <2> QED  BY <2>1 DEF Toggling
<1> HIDE DEF e
<1>7. ASSUME inbox' = Tail(inbox), NEW i \in Nat, NEW j \in DOMAIN inbox,
             j > i + 1, inbox[j].type = "opened"
      PROVE  OpenedAhead(i)'
  <2>1. /\ DOMAIN inbox' = 1 .. Len(inbox) - 1
        /\ \A k \in DOMAIN inbox' : inbox'[k] = inbox[k + 1]
    BY <1>1, <1>2, <1>3, <1>7
  <2>2. j - 1 \in DOMAIN inbox' /\ j - 1 > i /\ (j - 1) + 1 = j
    BY <1>3, <1>7, <2>1
  <2>3. inbox'[j - 1] = inbox[j]
    BY <2>1, <2>2
  <2> QED  BY <1>7, <2>2, <2>3 DEF OpenedAhead
<1>8. ASSUME issue = "open", NEW i \in DOMAIN inbox', inbox'[i].type = "closed"
      PROVE  OpenedAhead(i)'
  <2>1. CASE inbox' = inbox
    BY <1>8, <2>1 DEF HealInv, OpenedAhead
  <2>2. CASE inbox' = Tail(inbox)
    <3>1. i \in Nat /\ i + 1 \in DOMAIN inbox /\ inbox[i + 1].type = "closed"
      BY <1>1, <1>2, <1>3, <1>8, <2>2
    <3>2. PICK j \in DOMAIN inbox : j > i + 1 /\ inbox[j].type = "opened"
      BY <1>8, <3>1 DEF HealInv, OpenedAhead
    <3> QED  BY <1>7, <2>2, <3>1, <3>2
  <2> QED  BY <1>2, <2>1, <2>2
<1>9. OpenedAhead(0) /\ e.type # "opened" => OpenedAhead(0)'
  <2> SUFFICES ASSUME OpenedAhead(0), e.type # "opened" PROVE OpenedAhead(0)'
    OBVIOUS
  <2>1. PICK j \in DOMAIN inbox : j > 0 /\ inbox[j].type = "opened"
    BY DEF OpenedAhead
  <2>2. CASE inbox' = inbox
    BY <2>1, <2>2 DEF OpenedAhead
  <2>3. CASE inbox' = Tail(inbox)
    <3>1. j > 0 + 1
      BY <1>3, <2>1
    <3> QED  BY <1>7, <2>1, <2>3, <3>1
  <2> QED  BY <1>2, <2>2, <2>3
<1>10. issue = "open" /\ e.type = "closed" => OpenedAhead(0)'
  <2> SUFFICES ASSUME issue = "open", e.type = "closed" PROVE OpenedAhead(0)'
    OBVIOUS
  <2>1. OpenedAhead(1)
    BY <1>3 DEF HealInv
  <2>2. OpenedAhead(0)
    BY <1>3, <2>1 DEF OpenedAhead
  <2> QED  BY <1>9, <2>2
<1>11. ASSUME issue = "open", NEW q \in Hooks, hook'[q].pc = "close" PROVE OpenedAhead(0)'
  <2>1. CASE q = r
    BY <1>4, <1>5, <1>10, <1>11, <2>1
  <2>2. CASE q # r
    <3>1. hook[q].pc = "close"
      BY <1>5, <1>11, <2>2
    <3>2. OpenedAhead(0) /\ Toggling(hook[q])
      BY <1>11, <3>1 DEF HealInv, Toggling
    <3> QED  BY <1>6, <1>9, <3>2
  <2> QED  BY <2>1, <2>2
<1>12. ASSUME issue = "open", rowState = "closed"
       PROVE  OpenedAhead(0)' \/ \E q \in Hooks : hook'[q].pc = "heal"
  <2>1. CASE e.type = "opened"
    BY <1>4, <1>5, <2>1
  <2>2. CASE e.type # "opened"
    <3>1. OpenedAhead(0) \/ \E q \in Hooks : hook[q].pc = "heal"
      BY <1>12 DEF HealInv
    <3>2. CASE OpenedAhead(0)
      BY <1>9, <2>2, <3>2
    <3>3. ASSUME NEW q \in Hooks, hook[q].pc = "heal" PROVE hook'[q].pc = "heal"
      BY <1>2, <1>5, <3>3
    <3> QED  BY <3>1, <3>2, <3>3
  <2> QED  BY <2>1, <2>2
<1>13. ASSUME NEW q \in Hooks, hook'[q].pc = "heal", rowState = "closed"
       PROVE  hook'[q].row = "closed"
  BY <1>4, <1>5, <1>13 DEF HealInv
<1>14. ASSUME NEW q \in Hooks, hook'[q].pc = "close" PROVE hook'[q].ev.type = "closed"
  BY <1>4, <1>5, <1>14 DEF HealInv
<1>15. ASSUME NEW p \in Hooks, NEW q \in Hooks, Toggling(hook'[p]), Toggling(hook'[q])
       PROVE  p = q
  <2>1. ASSUME NEW h \in Hooks, Toggling(hook'[h])
        PROVE  IF h = r THEN e.type # "comment" ELSE Toggling(hook[h])
    BY <1>4, <1>5, <2>1 DEF Toggling
  <2>2. IF p = r THEN e.type # "comment" ELSE Toggling(hook[p])
    BY <1>15, <2>1
  <2>3. IF q = r THEN e.type # "comment" ELSE Toggling(hook[q])
    BY <1>15, <2>1
  <2> QED  BY <1>6, <2>2, <2>3 DEF HealInv
<1> QED  BY <1>2, <1>8, <1>11, <1>12, <1>13, <1>14, <1>15 DEF HealInv

LEMMA AppendHeals ==
  ASSUME IntakeInv, HealInv, NEW e \in Event, inbox' = Append(inbox, e),
         UNCHANGED <<rowState, hook>>,
         issue' = "open" => \/ issue = "open" /\ e.type # "closed"
                            \/ e.type = "opened"
  PROVE  HealInv'
<1>1. inbox \in Seq(Event)
  BY Types DEF IntakeInv
<1>2. /\ Len(inbox) \in Nat /\ DOMAIN inbox = 1 .. Len(inbox)
      /\ DOMAIN inbox' = 1 .. Len(inbox) + 1 /\ inbox'[Len(inbox) + 1] = e
      /\ \A i \in DOMAIN inbox : inbox'[i] = inbox[i] /\ i \in DOMAIN inbox'
  BY <1>1
<1>3. \A i : OpenedAhead(i) => OpenedAhead(i)'
  BY <1>2 DEF OpenedAhead
<1>4. e.type = "opened" => \A i \in 0 .. Len(inbox) : OpenedAhead(i)'
  BY <1>2 DEF OpenedAhead
<1>5. ASSUME issue' = "open", NEW i \in DOMAIN inbox', inbox'[i].type = "closed"
      PROVE  OpenedAhead(i)'
  <2>1. i # Len(inbox) + 1
    BY <1>2, <1>5
  <2>2. i \in DOMAIN inbox /\ i \in 0 .. Len(inbox) /\ inbox[i].type = "closed"
    BY <1>2, <1>5, <2>1
  <2> QED  BY <1>3, <1>4, <1>5, <2>2 DEF HealInv
<1>6. 0 \in 0 .. Len(inbox)
  BY <1>2
<1> QED  BY <1>3, <1>4, <1>5, <1>6 DEF HealInv

\* Once every webhook was handled a row that says closed belongs to a closed
\* issue, as long as no opening and closing are handled beside each other.
THEOREM ClosedIsClosedHolds == NoRace /\ Spec => []ClosedIsClosed
<1>1. Init => HealInv
  <2> SUFFICES ASSUME Init PROVE HealInv
    OBVIOUS
  <2>1. rowState = "none" /\ \A r \in Hooks : hook[r].pc = "idle"
    BY DEF Init, NoHook
  <2>2. \A i \in DOMAIN inbox : inbox[i].type = "opened"
    BY DEF Init, Opened
  <2> QED  BY <2>1, <2>2 DEF HealInv, Toggling
<1>2. NoRace /\ IntakeInv /\ HealInv /\ [Next]_vars => HealInv'
  <2> SUFFICES ASSUME NoRace, IntakeInv, HealInv, [Next]_vars PROVE HealInv'
    OBVIOUS
  <2>1. CASE UNCHANGED <<issue, inbox, rowState, hook>>
    BY <2>1 DEF HealInv, OpenedAhead, Toggling
  <2>2. ASSUME NEW c \in Comments, Post(c) PROVE HealInv'
    <3>1. Posted(c) \in Event /\ Posted(c).type = "comment"
      BY DEF Posted, Event
    <3>2. inbox' = Append(inbox, Posted(c)) /\ UNCHANGED <<issue, rowState, hook>>
      BY <2>2 DEF Post
    <3> QED  BY <3>1, <3>2, AppendHeals
  <2>3. CASE Toggle
    <3>1. Closed \in Event /\ Opened(TRUE) \in Event /\ Opened(TRUE).type = "opened"
      BY DEF Closed, Opened, Event
    <3>2. /\ issue' = IF issue = "open" THEN "closed" ELSE "open"
          /\ inbox' = Append(inbox, IF issue = "open" THEN Closed ELSE Opened(TRUE))
          /\ UNCHANGED <<rowState, hook>>
      BY <2>3 DEF Toggle
    <3>3. CASE issue = "open"
      BY <3>1, <3>2, <3>3, AppendHeals
    <3>4. CASE issue # "open"
      BY <3>1, <3>2, <3>4, AppendHeals
    <3> QED  BY <3>3, <3>4
  <2>4. CASE Pause \/ Expire \/ Admit \/ UNCHANGED vars
    BY <2>1, <2>4 DEF Pause, Expire, Admit, vars, web
  <2>5. ASSUME NEW r \in Hooks, Receive(r) PROVE HealInv'
    BY <2>5, ReceiveHeals
  <2>6. ASSUME NEW r \in Hooks, Handle(r) PROVE HealInv'
    BY <2>6, HandleMoves, MovesHeal
  <2> QED  BY <2>2, <2>3, <2>4, <2>5, <2>6 DEF Next
<1>3. IntakeInv /\ HealInv => ClosedIsClosed
  <2> SUFFICES ASSUME IntakeInv, HealInv, inbox = <<>>, Under(PCs \ {"idle"}) = {},
                      rowState = "closed", issue # "closed"
               PROVE  FALSE
    BY DEF ClosedIsClosed
  <2>1. issue = "open" /\ ~OpenedAhead(0)
    BY Types DEF IntakeInv, OpenedAhead
  <2>2. \A r \in Hooks : hook[r].pc = "idle"
    BY Types DEF IntakeInv, HookType, Under
  <2> QED  BY <2>1, <2>2 DEF HealInv
<1>4. NoRace => NoRace'
  BY DEF NoRace
<1> QED  BY <1>1, <1>2, <1>3, <1>4, IntakeInvariant, PTL DEF Spec
=============================================================================
