---------------------------- MODULE RelayProofs ----------------------------
(* Theorems about Relay, for every set of users, devices and sockets and   *)
(* every value of the limits.  First the operators on sequences and on     *)
(* legs, then the type invariant, then the invariants built on it.         *)
EXTENDS Relay, SequenceTheorems, WellFoundedInduction, TLAPS

----------------------------------------------------------------------------
(* Sequences *)

\* A nonempty set of naturals has a least element.
LEMMA NatMin ==
    ASSUME NEW T, T \subseteq Nat, T # {}
    PROVE  \E x \in T : \A y \in T : x <= y
<1> DEFINE R == OpToRel(<, Nat)
<1>1. IsWellFoundedOn(R, Nat)
  BY NatLessThanWellFounded
<1>2. \E x \in T : \A y \in T : ~ (<<y, x>> \in R)
  <2> HIDE DEF R
  <2> QED BY <1>1, WFMin
<1>3. \A x, y \in Nat : <<y, x>> \notin R => x <= y
  BY DEF OpToRel
<1> QED
  BY <1>2, <1>3

\* Replacing one row of a table leaves a table of the same length.
LEMMA ReplaceRow ==
    ASSUME NEW S, NEW q \in Seq(S), NEW i \in DOMAIN q, NEW e \in S
    PROVE  /\ [q EXCEPT ![i] = e] \in Seq(S)
           /\ Len([q EXCEPT ![i] = e]) = Len(q)
           /\ DOMAIN [q EXCEPT ![i] = e] = DOMAIN q
BY ExceptSeq

\* Rewriting every row of a table leaves a table of the same length.
LEMMA RewriteRows ==
    ASSUME NEW S, NEW q \in Seq(S), NEW f,
           DOMAIN f = DOMAIN q, f = [i \in DOMAIN q |-> f[i]],
           \A i \in DOMAIN q : f[i] \in S
    PROVE  f \in Seq(S) /\ Len(f) = Len(q)
<1>1. f \in [1..Len(q) -> S]
  OBVIOUS
<1> QED
  BY <1>1

\* What remains of a sequence after its n-th element.
LEMMA AfterLeg ==
    ASSUME NEW S, NEW q \in Seq(S), NEW n \in DOMAIN q
    PROVE  /\ SubSeq(q, n + 1, Len(q)) \in Seq(S)
           /\ Len(SubSeq(q, n + 1, Len(q))) = Len(q) - n
           /\ \A i \in 1..Len(SubSeq(q, n + 1, Len(q))) :
                  SubSeq(q, n + 1, Len(q))[i] = q[n + i]
<1> DEFINE r == SubSeq(q, n + 1, Len(q))
<1>1. /\ n \in Nat /\ 1 <= n /\ n <= Len(q) /\ Len(q) \in Nat
      /\ \A i \in (n + 1)..Len(q) : q[i] \in S
  OBVIOUS
<1>2. /\ r \in Seq(S)
      /\ Len(r) = IF n + 1 <= Len(q) THEN Len(q) - (n + 1) + 1 ELSE 0
      /\ \A i \in 1..(Len(q) - (n + 1) + 1) : r[i] = q[(n + 1) + i - 1]
  <2>1. n + 1 \in Int /\ Len(q) \in Int
    BY <1>1
  <2> QED
    BY <1>1, <2>1, SubSeqProperties
<1> HIDE DEF r
<1>3. Len(r) = Len(q) - n
  BY <1>1, <1>2
<1>4. ASSUME NEW i \in 1..Len(r)
      PROVE  r[i] = q[n + i]
  <2>1. i \in 1..(Len(q) - (n + 1) + 1) /\ (n + 1) + i - 1 = n + i
    BY <1>1, <1>3
  <2> QED
    BY <1>2, <2>1
<1> QED
  BY <1>2, <1>3, <1>4 DEF r

\* The rows of a table, and its domain.
LEMMA Rows ==
    ASSUME NEW S, NEW q \in Seq(S)
    PROVE  /\ DOMAIN q = 1..Len(q) /\ Len(q) \in Nat
           /\ \A i \in DOMAIN q : q[i] \in S
OBVIOUS

USE OwnerAssumption, DeviceOfAssumption, NamesAssumption, PayloadsAssumption,
    TimersAssumption, ActorsAssumption, LimitsAssumption

----------------------------------------------------------------------------
(* Legs *)

\* Starting a list of legs gives a task that still has to push every event
\* of the list to every socket that now listens to it.
LEMMA BeginCoversLegs ==
    ASSUME NEW legs \in Seq(Leg), connected \subseteq Sid
    PROVE  /\ Begin(legs) \subseteq Task
           /\ \A k \in DOMAIN legs : \A s \in Audience(legs[k].to) :
                  \E t \in Begin(legs) : Waits(t, s, legs[k].event)
<1> DEFINE heard == {k \in DOMAIN legs : Audience(legs[k].to) # {}}
           first == CHOOSE k \in heard : \A j \in heard : k <= j
           rest == SubSeq(legs, first + 1, Len(legs))
           t0 == [event |-> legs[first].event, todo |-> Audience(legs[first].to),
                  rest |-> rest]
<1>1. CASE heard = {}
  <2>1. Begin(legs) = {}
    BY <1>1 DEF Begin
  <2> QED
    BY <1>1, <2>1
<1>2. CASE heard # {}
  <2>1. /\ DOMAIN legs = 1..Len(legs) /\ Len(legs) \in Nat
        /\ \A k \in DOMAIN legs : legs[k] \in Leg
    OBVIOUS
  <2>2. heard \subseteq Nat
    BY <2>1
  <2>3. first \in heard /\ \A j \in heard : first <= j
    <3> HIDE DEF heard
    <3> QED BY <1>2, <2>2, NatMin
  <2>4. /\ rest \in Seq(Leg)
        /\ Len(rest) = Len(legs) - first
        /\ \A i \in 1..Len(rest) : rest[i] = legs[first + i]
    <3>1. first \in DOMAIN legs
      BY <2>3
    <3> HIDE DEF first, heard
    <3> QED
      BY <3>1, AfterLeg
  <2>5. Begin(legs) = {t0}
    BY <1>2 DEF Begin
  <2>6. legs[first] \in Leg
    BY <2>1, <2>3
  <2>7. t0 \in Task
    <3>1. Audience(legs[first].to) \subseteq Sid
      BY <2>6 DEF Audience, SocketsOf, Leg
    <3> QED
      BY <3>1, <2>6, <2>4 DEF Leg, Task
  <2>8. ASSUME NEW k \in DOMAIN legs, NEW s \in Audience(legs[k].to)
        PROVE  Waits(t0, s, legs[k].event)
    <3>1. k \in heard /\ first <= k
      BY <2>3, <2>8
    <3>2. CASE k = first
      BY <3>2, <2>8 DEF Waits
    <3>3. CASE k # first
      <4> DEFINE j == k - first
      <4>1. j \in 1..Len(rest) /\ rest[j] = legs[k]
        <5> HIDE DEF rest, first, heard
        <5>1. k \in Nat /\ first \in Nat /\ first < k /\ k <= Len(legs)
          BY <3>1, <3>3, <2>1, <2>3 DEF heard
        <5>2. j \in Nat /\ 1 <= j /\ j <= Len(legs) - first /\ first + j = k
          BY <5>1, <2>1
        <5>3. j \in 1..Len(rest)
          BY <5>2, <2>4
        <5> HIDE DEF j
        <5>4. rest[j] = legs[first + j]
          BY <5>3, <2>4
        <5> QED
          BY <5>2, <5>3, <5>4
      <4>2. j \in DOMAIN t0.rest /\ t0.rest[j] = legs[k]
        <5> HIDE DEF rest
        <5> QED BY <4>1, <2>4
      <4> QED
        BY <4>2, <2>8 DEF Waits
    <3> QED
      BY <3>2, <3>3
  <2> QED
    BY <2>5, <2>7, <2>8
<1> QED
  BY <1>1, <1>2

----------------------------------------------------------------------------
(* Type correctness *)

LEMMA InitTypeOK == Init => TypeOK
<1>1. At("new") \in Handler
  BY DEF At, Handler
<1> QED
  BY <1>1 DEF Init, TypeOK, Idle

LEMMA UserOfType == \A s \in Sid : UserOf(s) \in User
BY DEF UserOf

LEMMA RowIds ==
    ASSUME TypeOK
    PROVE  /\ DOMAIN msgs \subseteq MsgId
           /\ DOMAIN sessions \subseteq SessionId
           /\ \A m \in DOMAIN msgs : msgs[m] \in MsgRow
           /\ \A j \in DOMAIN sessions : sessions[j] \in SessionRow
           /\ DOMAIN msgs = 1..Len(msgs) /\ Len(msgs) \in Nat
           /\ DOMAIN sessions = 1..Len(sessions) /\ Len(sessions) \in Nat
BY Rows DEF TypeOK, MsgId, SessionId

\* Dispatching well-typed legs keeps tasks and history well typed.
LEMMA DispatchTyped ==
    ASSUME TypeOK, NEW legs \in Seq(Leg), Dispatch(legs)
    PROVE  tasks' \subseteq Task /\ owed' \in [Sid -> SUBSET Pushed]
<1>1. Begin(legs) \subseteq Task
  BY BeginCoversLegs DEF TypeOK
<1>2. \A k \in DOMAIN legs : legs[k] \in Leg
  OBVIOUS
<1>3. \A k \in DOMAIN legs : legs[k].event \in Pushed
  BY <1>2 DEF Leg
<1> QED
  BY <1>1, <1>3 DEF Dispatch, TypeOK

LEMMA PushTyped ==
    ASSUME TypeOK, NEW s \in Sid, NEW e \in Event, Push(s, e)
    PROVE  wire' \in [Sid -> SUBSET Event]
BY DEF Push, TypeOK

LEMMA QueryMissedTyped ==
    ASSUME TypeOK, NEW s \in Sid
    PROVE  QueryMissed(s) \in Handler
<1>1. Missed(UserOf(s)) \subseteq MsgId
  BY RowIds DEF Missed
<1>2. Oldest(Missed(UserOf(s)), REPLAY_LIMIT) \subseteq MsgId
  BY <1>1 DEF Oldest
<1> QED
  BY <1>2 DEF QueryMissed, Handler

LEMMA HandlerUpdates ==
    ASSUME NEW h \in Handler
    PROVE  /\ \A i : [h EXCEPT !.asks = h.asks \ {i}] \in Handler
           /\ \A m : [h EXCEPT !.queue = h.queue \ {m}] \in Handler
           /\ [h EXCEPT !.pc = "done", !.queue = {}] \in Handler
BY DEF Handler

LEMMA MsgRowUpdates ==
    ASSUME NEW r \in MsgRow
    PROVE  /\ Delivered(r) \in MsgRow
           /\ Wiped(r) \in MsgRow
           /\ \A u \in User : [Wiped(r) EXCEPT !.deletedBy = u] \in MsgRow
           /\ \A u \in User : [r EXCEPT !.hiddenFor = r.hiddenFor \cup {u}] \in MsgRow
           /\ [r EXCEPT !.read = TRUE] \in MsgRow
           /\ [r EXCEPT !.timer = "due"] \in MsgRow
BY DEF Delivered, Wiped, MsgRow

LEMMA SessionRowUpdates ==
    ASSUME NEW r \in SessionRow
    PROVE  /\ Retired(r) \in SessionRow
           /\ [r EXCEPT !.count = r.count + 1] \in SessionRow
           /\ [r EXCEPT !.answered = TRUE] \in SessionRow
<1>1. Retired(r) \in SessionRow
  BY DEF Retired, SessionRow
<1>2. [r EXCEPT !.answered = TRUE] \in SessionRow
  BY DEF SessionRow
<1>3. [r EXCEPT !.count = r.count + 1] \in SessionRow
  <2>1. r.count + 1 \in Nat
    BY DEF SessionRow
  <2> QED
    BY <2>1 DEF SessionRow
<1> QED
  BY <1>1, <1>2, <1>3

\* The connect handler, the pushes and the registry.
LEMMA SocketStepsTypeOK ==
    ASSUME TypeOK, NEW s \in Sid,
           Connect(s) \/ ConnectStep(s) \/ Disconnect(s)
    PROVE  TypeOK'
<1> USE RowIds, UserOfType
<1>1. CASE Connect(s)
  <2>1. At("accepted") \in Handler
    BY DEF At, Handler
  <2> QED
    BY <1>1, <2>1 DEF Connect, TypeOK, tables
<1>2. CASE QuerySessions(s)
  <2>1. PendingSessions(UserOf(s)) \subseteq SessionId
    BY DEF PendingSessions
  <2>2. [At("asking") EXCEPT !.asks = PendingSessions(UserOf(s))] \in Handler
    BY <2>1 DEF At, Handler
  <2>3. handler' \in [Sid -> Handler]
    BY <1>2, <2>2, QueryMissedTyped DEF QuerySessions, TypeOK
  <2> QED
    BY <1>2, <2>3 DEF QuerySessions, TypeOK, tables
<1>3. ASSUME NEW i \in DOMAIN sessions, AskPending(s, i)
      PROVE  TypeOK'
  <2>1. <<"request", i>> \in Event
    BY DEF Event, Pushed
  <2>2. wire' \in [Sid -> SUBSET Event]
    BY <1>3, <2>1, PushTyped DEF AskPending
  <2>3. handler[s] \in Handler
    BY DEF TypeOK
  <2>4. handler' \in [Sid -> Handler]
    BY <1>3, <2>3, HandlerUpdates, QueryMissedTyped DEF AskPending, TypeOK
  <2> QED
    BY <1>3, <2>2, <2>4 DEF AskPending, TypeOK, tables
<1>4. ASSUME NEW m \in DOMAIN msgs, PushMissed(s, m)
      PROVE  TypeOK'
  <2>1. <<"replay", m>> \in Event
    BY DEF Event, Pushed
  <2>2. wire' \in [Sid -> SUBSET Event]
    BY <1>4, <2>1, PushTyped DEF PushMissed
  <2>3. handler[s] \in Handler
    BY DEF TypeOK
  <2>4. handler' \in [Sid -> Handler]
    <3>1. /\ [handler[s] EXCEPT !.queue = handler[s].queue \ {m}] \in Handler
          /\ [handler[s] EXCEPT !.pc = "done", !.queue = {}] \in Handler
      BY <2>3, HandlerUpdates
    <3>2. \/ handler' = [handler EXCEPT ![s] = [handler[s] EXCEPT !.queue = handler[s].queue \ {m}]]
          \/ handler' = [handler EXCEPT ![s] = [handler[s] EXCEPT !.pc = "done", !.queue = {}]]
      BY <1>4 DEF PushMissed
    <3>3. PICK h \in Handler : handler' = [handler EXCEPT ![s] = h]
      BY <3>1, <3>2
    <3> QED
      BY <3>3 DEF TypeOK
  <2>5. msgs' \in Seq(MsgRow) /\ Len(msgs') = Len(msgs)
    <3>1. CASE CommitReplay(s)
      <4>1. \A k \in DOMAIN msgs' : msgs'[k] \in MsgRow
        BY <3>1, MsgRowUpdates DEF CommitReplay
      <4>2. /\ DOMAIN msgs' = DOMAIN msgs
            /\ msgs' = [k \in DOMAIN msgs |-> msgs'[k]]
        BY <3>1 DEF CommitReplay
      <4>3. msgs \in Seq(MsgRow)
        BY DEF TypeOK
      <4> QED
        BY <4>1, <4>2, <4>3, RewriteRows
    <3> QED
      BY <1>4, <3>1 DEF PushMissed, TypeOK
  <2> QED
    BY <1>4, <2>2, <2>4, <2>5 DEF PushMissed, TypeOK
<1>5. CASE Disconnect(s)
  BY <1>5 DEF Disconnect, TypeOK, tables
<1> QED
  BY <1>1, <1>2, <1>3, <1>4, <1>5 DEF ConnectStep

LEMMA EmitTypeOK ==
    ASSUME TypeOK, NEW t \in tasks, NEW s \in t.todo, Emit(t, s)
    PROVE  TypeOK'
<1>1. t \in Task /\ s \in Sid
  BY DEF TypeOK, Task
<1>2. wire' \in [Sid -> SUBSET Event]
  BY <1>1, PushTyped DEF Emit, Task, Event
<1>3. Begin(t.rest) \subseteq Task
  BY <1>1, BeginCoversLegs DEF TypeOK, Task
<1>4. [t EXCEPT !.todo = t.todo \ {s}] \in Task
  BY <1>1 DEF Task
<1>5. tasks' \subseteq Task
  BY <1>3, <1>4 DEF Emit, TypeOK
<1> QED
  BY <1>2, <1>5 DEF Emit, TypeOK, tables

(* The handlers that write a table and then push *)

Writes ==
    \/ \E s \in Sid, v \in User, copies \in Payloads, timer \in Timers :
          \E i \in {0} \cup DOMAIN sessions : SendMessage(s, v, i, copies, timer)
    \/ \E m \in DOMAIN msgs, deep \in BOOLEAN :
          \/ \E s \in Sid : DeleteMessage(s, m, deep)
          \/ \E u \in User : RestDelete(u, m, deep)
    \/ \E u \in User, m \in DOMAIN msgs : MarkRead(u, m)
    \/ \E u, v \in User : CreateSession(u, v)
    \/ \E u \in User, i \in DOMAIN sessions : UpdateSession(u, i)

\* Every socket the legs address is in the registry now.
Addressed(legs) == \A k \in DOMAIN legs : Audience(legs[k].to) \subseteq connected

LEMMA AudienceOf ==
    /\ \A u \in User : Audience(u) = SocketsOf(u)
    /\ \A s \in Sid : Audience(s) = {s}
    /\ \A u \in User : SocketsOf(u) \subseteq connected
BY DEF Audience, SocketsOf

LEMMA WritesFrame ==
    ASSUME Writes
    PROVE  UNCHANGED <<connected, announced, handler, sweep, wire, faults>>
<1> DEFINE Same == UNCHANGED <<connected, announced, handler, sweep, wire, faults>>
<1>1. \A s, v, i, copies, timer : SendMessage(s, v, i, copies, timer) => Same
  BY DEF SendMessage
<1>2. \A s, m, deep : DeleteMessage(s, m, deep) => Same
  BY DEF DeleteMessage
<1>3. \A u, m, deep : RestDelete(u, m, deep) => Same
  BY DEF RestDelete
<1>4. \A u, m : MarkRead(u, m) => Same
  BY DEF MarkRead
<1>5. \A u, v : CreateSession(u, v) => Same
  BY DEF CreateSession
<1>6. \A u, i : UpdateSession(u, i) => Same
  BY DEF UpdateSession
<1> HIDE DEF Same
<1>7. Same
  BY <1>1, <1>2, <1>3, <1>4, <1>5, <1>6 DEF Writes
<1> QED
  BY <1>7 DEF Same

\* The recipient of a message is a user, whichever way it was determined.
LEMMA RecipientType ==
    ASSUME TypeOK, NEW u \in User, NEW v \in User,
           NEW i \in {0} \cup DOMAIN sessions
    PROVE  (IF i # 0 /\ sessions[i].active THEN Other(sessions[i], u) ELSE v) \in User
<1>1. CASE i # 0
  <2>1. sessions[i] \in SessionRow
    BY <1>1, RowIds
  <2>2. sessions[i].a \in User /\ sessions[i].b \in User
    BY <2>1 DEF SessionRow
  <2> QED
    BY <2>2 DEF Other
<1>2. CASE i = 0
  BY <1>2
<1> QED
  BY <1>1, <1>2

\* A pair of legs of one event, to a user or a socket that is in the
\* registry and to a user.
LEMMA TwoLegs ==
    ASSUME TypeOK, NEW e \in Pushed, NEW w \in User \cup connected, NEW u \in User
    PROVE  LET legs == << [event |-> e, to |-> w], [event |-> e, to |-> u] >>
           IN  legs \in Seq(Leg) /\ Addressed(legs)
<1> DEFINE legs == << [event |-> e, to |-> w], [event |-> e, to |-> u] >>
<1>1. w \in User \cup Sid
  BY DEF TypeOK
<1>2. legs \in Seq(Leg)
  BY <1>1 DEF Leg
<1>3. Audience(w) \subseteq connected /\ Audience(u) \subseteq connected
  BY AudienceOf DEF TypeOK
<1>4. DOMAIN legs = {1, 2} /\ legs[1].to = w /\ legs[2].to = u
  OBVIOUS
<1>5. Addressed(legs)
  <2> HIDE DEF legs
  <2> QED BY <1>3, <1>4 DEF Addressed
<1> QED
  BY <1>2, <1>5

LEMMA OneLeg ==
    ASSUME TypeOK, NEW e \in Pushed, NEW w \in User \cup connected
    PROVE  LET legs == << [event |-> e, to |-> w] >>
           IN  legs \in Seq(Leg) /\ Addressed(legs)
<1> DEFINE legs == << [event |-> e, to |-> w] >>
<1>1. w \in User \cup Sid
  BY DEF TypeOK
<1>2. legs \in Seq(Leg)
  BY <1>1 DEF Leg
<1>3. Audience(w) \subseteq connected
  BY AudienceOf DEF TypeOK
<1>4. DOMAIN legs = {1} /\ legs[1].to = w
  OBVIOUS
<1>5. Addressed(legs)
  <2> HIDE DEF legs
  <2> QED BY <1>3, <1>4 DEF Addressed
<1> QED
  BY <1>2, <1>5

LEMMA JoinLegs ==
    ASSUME NEW p \in Seq(Leg), NEW q \in Seq(Leg), Addressed(p), Addressed(q)
    PROVE  p \o q \in Seq(Leg) /\ Addressed(p \o q)
<1>1. /\ p \o q \in Seq(Leg) /\ Len(p \o q) = Len(p) + Len(q)
      /\ \A k \in 1..(Len(p) + Len(q)) :
             (p \o q)[k] = IF k <= Len(p) THEN p[k] ELSE q[k - Len(p)]
  BY ConcatProperties
<1>2. ASSUME NEW k \in DOMAIN (p \o q)
      PROVE  \/ \E j \in DOMAIN p : (p \o q)[k] = p[j]
             \/ \E j \in DOMAIN q : (p \o q)[k] = q[j]
  <2>1. k \in 1..(Len(p) + Len(q))
    BY <1>1
  <2>2. CASE k <= Len(p)
    BY <1>1, <2>1, <2>2
  <2>3. CASE k > Len(p)
    <3>1. k - Len(p) \in DOMAIN q
      BY <2>1, <2>3
    <3> QED
      BY <1>1, <2>1, <2>3, <3>1
  <2> QED
    BY <2>1, <2>2, <2>3
<1> QED
  BY <1>1, <1>2 DEF Addressed

LEMMA SendLegs ==
    ASSUME TypeOK, NEW s \in Sid, NEW v \in User, NEW copies \in Payloads,
           NEW timer \in Timers, NEW i \in {0} \cup DOMAIN sessions,
           SendMessage(s, v, i, copies, timer)
    PROVE  \E legs \in Seq(Leg) : Dispatch(legs) /\ Addressed(legs)
<1> DEFINE u == UserOf(s)
           live == i # 0 /\ sessions[i].active
           to == IF live THEN Other(sessions[i], u) ELSE v
           id == Len(msgs) + 1
           rotate == live /\ sessions[i].count + 1 >= KEY_ROTATION_THRESHOLD
           first == << [event |-> <<"live", id>>, to |-> u],
                       [event |-> <<"live", id>>, to |-> to] >>
           rotation == << [event |-> <<"rotate", i>>, to |-> s],
                          [event |-> <<"rotate", i>>, to |-> to] >>
<1>1. u \in User /\ to \in User /\ s \in connected
  BY UserOfType, RecipientType DEF SendMessage, Serving
<1>2. <<"live", id>> \in Pushed
  <2>1. Len(msgs) < MaxMessages
    BY DEF SendMessage
  <2> QED
    BY <2>1, RowIds DEF MsgId, Pushed
<1>3. first \in Seq(Leg) /\ Addressed(first)
  <2> HIDE DEF u, to, id
  <2> QED
    BY <1>1, <1>2, TwoLegs
<1>4. CASE rotate
  <2>1. Dispatch(first \o rotation)
    BY <1>4 DEF SendMessage
  <2>2. <<"rotate", i>> \in Pushed
    BY <1>4, RowIds DEF Pushed
  <2>3. rotation \in Seq(Leg) /\ Addressed(rotation)
    <3> HIDE DEF u, to, id
    <3> QED
      BY <1>1, <2>2, TwoLegs
  <2> HIDE DEF first, rotation
  <2> QED
    BY <1>3, <2>1, <2>3, JoinLegs
<1>5. CASE ~rotate
  <2>1. Dispatch(first \o <<>>)
    BY <1>5 DEF SendMessage
  <2> HIDE DEF first
  <2>2. first \o <<>> = first
    BY <1>3, ConcatEmptySeq
  <2> QED
    BY <1>3, <2>1, <2>2
<1> QED
  BY <1>4, <1>5

\* Every writing handler pushes well-typed legs to sockets of the registry,
\* or, for a REST deletion for oneself, pushes nothing.
LEMMA WritesLegs ==
    ASSUME TypeOK, Writes
    PROVE  \/ \E legs \in Seq(Leg) : Dispatch(legs) /\ Addressed(legs)
           \/ UNCHANGED <<tasks, owed>>
<1>1. ASSUME NEW s \in Sid, NEW v \in User, NEW copies \in Payloads,
             NEW timer \in Timers, NEW i \in {0} \cup DOMAIN sessions,
             SendMessage(s, v, i, copies, timer)
      PROVE  \E legs \in Seq(Leg) : Dispatch(legs) /\ Addressed(legs)
  BY <1>1, SendLegs
<1>2. ASSUME NEW m \in DOMAIN msgs
      PROVE  /\ <<"deleted", m>> \in Pushed /\ <<"read", m>> \in Pushed
             /\ msgs[m].from \in User /\ msgs[m].to \in User
  <2>1. m \in MsgId /\ msgs[m] \in MsgRow
    BY RowIds
  <2> QED
    BY <2>1 DEF Pushed, MsgRow
<1>3. ASSUME NEW m \in DOMAIN msgs, NEW u \in User, WipeBy(u, m)
      PROVE  \E legs \in Seq(Leg) : Dispatch(legs) /\ Addressed(legs)
  BY <1>2, <1>3, TwoLegs DEF WipeBy
<1>4. ASSUME NEW m \in DOMAIN msgs, NEW deep \in BOOLEAN, NEW s \in Sid,
             DeleteMessage(s, m, deep)
      PROVE  \E legs \in Seq(Leg) : Dispatch(legs) /\ Addressed(legs)
  <2>1. CASE deep
    BY <1>3, <1>4, <2>1, UserOfType DEF DeleteMessage
  <2>2. CASE ~deep
    <3>1. /\ Dispatch(<< [event |-> <<"deleted", m>>, to |-> s] >>)
          /\ s \in connected
      BY <1>4, <2>2 DEF DeleteMessage, Serving
    <3> QED
      BY <1>2, <3>1, OneLeg
  <2> QED
    BY <2>1, <2>2
<1>5. ASSUME NEW m \in DOMAIN msgs, NEW deep \in BOOLEAN, NEW u \in User,
             RestDelete(u, m, deep)
      PROVE  \/ \E legs \in Seq(Leg) : Dispatch(legs) /\ Addressed(legs)
             \/ UNCHANGED <<tasks, owed>>
  <2>1. CASE deep
    BY <1>3, <1>5, <2>1 DEF RestDelete
  <2>2. CASE ~deep
    BY <1>5, <2>2 DEF RestDelete
  <2> QED
    BY <2>1, <2>2
<1>6. ASSUME NEW u \in User, NEW m \in DOMAIN msgs, MarkRead(u, m)
      PROVE  \E legs \in Seq(Leg) : Dispatch(legs) /\ Addressed(legs)
  <2>1. Dispatch(<< [event |-> <<"read", m>>, to |-> msgs[m].from] >>)
    BY <1>6 DEF MarkRead
  <2> QED
    BY <1>2, <2>1, OneLeg
<1>7. ASSUME NEW u \in User, NEW v \in User, CreateSession(u, v)
      PROVE  \E legs \in Seq(Leg) : Dispatch(legs) /\ Addressed(legs)
  <2>1. /\ Dispatch(<< [event |-> <<"request", Len(sessions) + 1>>, to |-> v] >>)
        /\ Len(sessions) < MaxSessions
    BY <1>7 DEF CreateSession
  <2>2. <<"request", Len(sessions) + 1>> \in Pushed
    BY <2>1, RowIds DEF Pushed, SessionId
  <2> QED
    BY <2>1, <2>2, OneLeg
<1>8. ASSUME NEW u \in User, NEW i \in DOMAIN sessions, UpdateSession(u, i)
      PROVE  \E legs \in Seq(Leg) : Dispatch(legs) /\ Addressed(legs)
  <2>1. Dispatch(<< [event |-> <<"ready", i>>, to |-> sessions[i].a] >>)
    BY <1>8 DEF UpdateSession
  <2>2. sessions[i] \in SessionRow /\ i \in SessionId
    BY RowIds
  <2>3. sessions[i].a \in User /\ <<"ready", i>> \in Pushed
    BY <2>2 DEF SessionRow, Pushed
  <2> QED
    BY <2>1, <2>3, OneLeg
<1> QED
  BY <1>1, <1>4, <1>5, <1>6, <1>7, <1>8 DEF Writes

LEMMA WritesMsgs ==
    ASSUME TypeOK, Writes
    PROVE  msgs' \in Seq(MsgRow) /\ Len(msgs') <= MaxMessages
<1>1. /\ msgs \in Seq(MsgRow) /\ Len(msgs) <= MaxMessages
      /\ \A m \in DOMAIN msgs : msgs[m] \in MsgRow
  BY RowIds DEF TypeOK
<1>2. ASSUME NEW s \in Sid, NEW v \in User, NEW copies \in Payloads,
             NEW timer \in Timers, NEW i \in {0} \cup DOMAIN sessions,
             SendMessage(s, v, i, copies, timer)
      PROVE  msgs' \in Seq(MsgRow) /\ Len(msgs') <= MaxMessages
  <2> DEFINE to == IF i # 0 /\ sessions[i].active
                   THEN Other(sessions[i], UserOf(s)) ELSE v
             row == [from |-> UserOf(s), to |-> to, copies |-> copies,
                     delivered |-> RecipientIsOnline(to), deep |-> FALSE,
                     deletedBy |-> Nobody, read |-> FALSE, hiddenFor |-> {},
                     timer |-> timer]
  <2>1. UserOf(s) \in User /\ to \in User
    BY UserOfType, RecipientType
  <2>2. row \in MsgRow
    <3> HIDE DEF to
    <3> QED
      BY <2>1 DEF MsgRow, RecipientIsOnline
  <2>3. Len(msgs) < MaxMessages /\ msgs' = Append(msgs, row)
    BY <1>2 DEF SendMessage
  <2> HIDE DEF row
  <2> QED
    BY <1>1, <2>2, <2>3, AppendProperties
<1>3. ASSUME NEW m \in DOMAIN msgs, NEW u \in User,
             WipeBy(u, m) \/ HideFor(u, m) \/ MarkRead(u, m)
      PROVE  msgs' \in Seq(MsgRow) /\ Len(msgs') <= MaxMessages
  <2>1. PICK r \in MsgRow : msgs' = [msgs EXCEPT ![m] = r]
    <3>1. /\ [Wiped(msgs[m]) EXCEPT !.deletedBy = u] \in MsgRow
          /\ [msgs[m] EXCEPT !.hiddenFor = msgs[m].hiddenFor \cup {u}] \in MsgRow
          /\ [msgs[m] EXCEPT !.read = TRUE] \in MsgRow
      BY <1>1, MsgRowUpdates
    <3>2. WipeBy(u, m) => msgs' = [msgs EXCEPT ![m] = [Wiped(msgs[m]) EXCEPT !.deletedBy = u]]
      BY DEF WipeBy
    <3>3. HideFor(u, m) => msgs' = [msgs EXCEPT ![m] =
                  [msgs[m] EXCEPT !.hiddenFor = msgs[m].hiddenFor \cup {u}]]
      BY DEF HideFor
    <3>4. MarkRead(u, m) => msgs' = [msgs EXCEPT ![m] = [msgs[m] EXCEPT !.read = TRUE]]
      BY DEF MarkRead
    <3> QED
      BY <1>3, <3>1, <3>2, <3>3, <3>4
  <2> QED
    BY <1>1, <2>1, ReplaceRow
<1>4. ASSUME NEW m \in DOMAIN msgs, NEW deep \in BOOLEAN,
             \/ \E s \in Sid : DeleteMessage(s, m, deep)
             \/ \E u \in User : RestDelete(u, m, deep)
      PROVE  msgs' \in Seq(MsgRow) /\ Len(msgs') <= MaxMessages
  <2>1. \E u \in User : WipeBy(u, m) \/ HideFor(u, m)
    BY <1>4, UserOfType DEF DeleteMessage, RestDelete
  <2> QED
    BY <1>3, <2>1
<1>5. ASSUME \/ \E u, v \in User : CreateSession(u, v)
             \/ \E u \in User, i \in DOMAIN sessions : UpdateSession(u, i)
      PROVE  msgs' \in Seq(MsgRow) /\ Len(msgs') <= MaxMessages
  BY <1>1, <1>5 DEF CreateSession, UpdateSession
<1> QED
  BY <1>2, <1>3, <1>4, <1>5 DEF Writes

\* A handler leaves the sessions alone, opens one or changes one.
LEMMA WritesSessionsCases ==
    ASSUME Writes
    PROVE  \/ UNCHANGED sessions
           \/ \E u, v \in User : CreateSession(u, v)
           \/ \E i \in DOMAIN sessions : \/ sessions' = Count(i)
                                         \/ \E u \in User : UpdateSession(u, i)
<1>1. \A s, v, i, copies, timer :
          SendMessage(s, v, i, copies, timer)
              => sessions' = sessions \/ (i # 0 /\ sessions' = Count(i))
  BY DEF SendMessage
<1>2. /\ \A s, m, deep : DeleteMessage(s, m, deep) => UNCHANGED sessions
      /\ \A u, m, deep : RestDelete(u, m, deep) => UNCHANGED sessions
      /\ \A u, m : MarkRead(u, m) => UNCHANGED sessions
  BY DEF DeleteMessage, RestDelete, MarkRead
<1> QED
  BY <1>1, <1>2 DEF Writes

LEMMA WritesSessions ==
    ASSUME TypeOK, Writes
    PROVE  sessions' \in Seq(SessionRow) /\ Len(sessions') <= MaxSessions
<1>1. /\ sessions \in Seq(SessionRow) /\ Len(sessions) <= MaxSessions
      /\ \A i \in DOMAIN sessions : sessions[i] \in SessionRow
  BY RowIds DEF TypeOK
<1>2. ASSUME NEW u \in User, NEW v \in User, CreateSession(u, v)
      PROVE  sessions' \in Seq(SessionRow) /\ Len(sessions') <= MaxSessions
  <2> DEFINE new == [a |-> u, b |-> v, active |-> TRUE, answered |-> FALSE, count |-> 0]
             retired == [i \in DOMAIN sessions |-> IF SamePair(sessions[i], u, v)
                                                   THEN Retired(sessions[i])
                                                   ELSE sessions[i]]
  <2>1. Len(sessions) < MaxSessions /\ sessions' = Append(retired, new)
    BY <1>2 DEF CreateSession
  <2>2. new \in SessionRow
    BY DEF SessionRow
  <2>3. retired \in Seq(SessionRow) /\ Len(retired) = Len(sessions)
    <3>1. \A i \in DOMAIN sessions : retired[i] \in SessionRow
      BY <1>1, SessionRowUpdates
    <3>2. DOMAIN retired = DOMAIN sessions /\ retired = [i \in DOMAIN sessions |-> retired[i]]
      OBVIOUS
    <3> HIDE DEF retired
    <3> QED
      BY <1>1, <3>1, <3>2, RewriteRows
  <2> HIDE DEF new, retired
  <2> QED
    BY <1>1, <2>1, <2>2, <2>3, AppendProperties
<1>3. ASSUME NEW i \in DOMAIN sessions,
             \/ sessions' = Count(i)
             \/ \E u \in User : UpdateSession(u, i)
      PROVE  sessions' \in Seq(SessionRow) /\ Len(sessions') <= MaxSessions
  <2>1. PICK r \in SessionRow : sessions' = [sessions EXCEPT ![i] = r]
    <3>1. \/ sessions' = [sessions EXCEPT ![i] =
                  [sessions[i] EXCEPT !.count = sessions[i].count + 1]]
          \/ sessions' = [sessions EXCEPT ![i] = [sessions[i] EXCEPT !.answered = TRUE]]
      BY <1>3 DEF Count, UpdateSession
    <3>2. /\ [sessions[i] EXCEPT !.count = sessions[i].count + 1] \in SessionRow
          /\ [sessions[i] EXCEPT !.answered = TRUE] \in SessionRow
      BY <1>1, SessionRowUpdates
    <3> QED
      BY <3>1, <3>2
  <2> QED
    BY <1>1, <2>1, ReplaceRow
<1>4. CASE UNCHANGED sessions
  BY <1>1, <1>4
<1> QED
  BY <1>2, <1>3, <1>4, WritesSessionsCases

LEMMA WritesTypeOK ==
    ASSUME TypeOK, Writes
    PROVE  TypeOK'
<1>1. tasks' \subseteq Task /\ owed' \in [Sid -> SUBSET Pushed]
  BY WritesLegs, DispatchTyped DEF TypeOK
<1> QED
  BY <1>1, WritesFrame, WritesMsgs, WritesSessions DEF TypeOK

LEMMA SweepTypeOK ==
    ASSUME TypeOK,
           \/ SweepStep \/ SweepAbort \/ Restart
           \/ \E m \in DOMAIN msgs : Expire(m)
    PROVE  TypeOK'
<1> USE RowIds
<1>1. CASE SweepQuery
  <2>1. Expired \subseteq MsgId
    BY DEF Expired
  <2> QED
    BY <1>1, <2>1 DEF SweepQuery, TypeOK, tables
<1>2. ASSUME NEW m \in DOMAIN msgs, SweepNotify(m)
      PROVE  TypeOK'
  <2>1. <<"deleted", m>> \in Event
    BY DEF Event, Pushed
  <2>2. wire' \in [Sid -> SUBSET Event]
    BY <1>2, <2>1 DEF SweepNotify, TypeOK
  <2>3. sweep' \in [running: BOOLEAN, batch: SUBSET MsgId, notified: SUBSET MsgId]
    BY <1>2 DEF SweepNotify, TypeOK
  <2> QED
    BY <1>2, <2>2, <2>3 DEF SweepNotify, TypeOK, tables
<1>3. CASE SweepCommit
  <2>1. msgs' \in Seq(MsgRow) /\ Len(msgs') = Len(msgs)
    <3>1. \A k \in DOMAIN msgs' : msgs'[k] \in MsgRow
      BY <1>3, MsgRowUpdates DEF SweepCommit
    <3>2. DOMAIN msgs' = DOMAIN msgs /\ msgs' = [k \in DOMAIN msgs |-> msgs'[k]]
      BY <1>3 DEF SweepCommit
    <3>3. msgs \in Seq(MsgRow)
      BY DEF TypeOK
    <3> QED
      BY <3>1, <3>2, <3>3, RewriteRows
  <2> QED
    BY <1>3, <2>1 DEF SweepCommit, TypeOK, Idle
<1>4. CASE SweepAbort
  BY <1>4 DEF SweepAbort, TypeOK, Idle, tables
<1>5. ASSUME NEW m \in DOMAIN msgs, Expire(m)
      PROVE  TypeOK'
  <2>1. msgs[m] \in MsgRow
    OBVIOUS
  <2>2. PICK r \in MsgRow : msgs' = [msgs EXCEPT ![m] = r]
    <3>1. msgs' = [msgs EXCEPT ![m] = [msgs[m] EXCEPT !.timer = "due"]]
      BY <1>5 DEF Expire
    <3> QED
      BY <2>1, <3>1, MsgRowUpdates
  <2>3. msgs' \in Seq(MsgRow) /\ Len(msgs') <= MaxMessages
    BY <2>2, ReplaceRow DEF TypeOK
  <2> QED
    BY <1>5, <2>3 DEF Expire, TypeOK
<1>6. CASE Restart
  <2>1. At("done") \in Handler
    BY DEF At, Handler
  <2>2. handler' \in [Sid -> Handler]
    BY <1>6, <2>1 DEF Restart, TypeOK
  <2> QED
    BY <1>6, <2>2 DEF Restart, TypeOK, Idle, tables
<1> QED
  BY <1>1, <1>2, <1>3, <1>4, <1>5, <1>6 DEF SweepStep

LEMMA StepTypeOK == TypeOK /\ [Next]_vars => TypeOK'
<1> SUFFICES ASSUME TypeOK, [Next]_vars
             PROVE  TypeOK'
  OBVIOUS
<1>1. CASE UNCHANGED vars
  BY <1>1 DEF vars, tables, TypeOK
<1>2. CASE Next
  <2>1. CASE \E t \in tasks : \E s \in t.todo : Emit(t, s)
    BY <2>1, EmitTypeOK
  <2>2. CASE \E s \in Sid : Connect(s) \/ ConnectStep(s) \/ Disconnect(s)
    BY <2>2, SocketStepsTypeOK
  <2>3. CASE Writes
    BY <2>3, WritesTypeOK
  <2>4. CASE SweepStep \/ SweepAbort \/ Restart \/ \E m \in DOMAIN msgs : Expire(m)
    BY <2>4, SweepTypeOK
  <2> QED
    BY <1>2, <2>1, <2>2, <2>3, <2>4 DEF Next, Writes
<1> QED
  BY <1>1, <1>2

\* The registry, the connect handlers, the tables, the pushes in flight and
\* the job's batch keep their types in every execution: row ids stay within
\* the tables, an emission addresses a user or a socket that exists.
THEOREM TypeCorrect == Spec => []TypeOK
<1>1. Init => TypeOK
  BY InitTypeOK
<1>2. TypeOK /\ [Next]_vars => TypeOK'
  BY StepTypeOK
<1> QED
  BY <1>1, <1>2, PTL DEF Spec

----------------------------------------------------------------------------
(* No push is lost *)

\* A socket that has not connected is not in the registry and no commit has
\* owed it anything.
Unborn == \A s \in Sid : handler[s].pc = "new" => s \notin connected /\ owed[s] = {}

PushInv == TypeOK /\ Unborn /\ NoPushLost

\* A handler's record never goes back to "new".
LEMMA HandlerAdvances ==
    ASSUME TypeOK, NEW s \in Sid,
           Connect(s) \/ QuerySessions(s)
              \/ (\E i \in DOMAIN sessions : AskPending(s, i))
              \/ (\E m \in DOMAIN msgs : PushMissed(s, m))
    PROVE  /\ handler' \in [Sid -> Handler]
           /\ handler'[s].pc # "new"
           /\ \A r \in Sid \ {s} : handler'[r] = handler[r]
<1>1. TypeOK'
  BY SocketStepsTypeOK DEF ConnectStep
<1>2. handler \in [Sid -> Handler] /\ handler' \in [Sid -> Handler]
  BY <1>1 DEF TypeOK
<1>3. QueryMissed(s).pc # "new"
  BY DEF QueryMissed
<1>4. CASE Connect(s)
  <2>1. handler' = [handler EXCEPT ![s] = At("accepted")] /\ At("accepted").pc # "new"
    BY <1>4 DEF Connect, At
  <2> QED
    BY <1>2, <2>1
<1>5. CASE QuerySessions(s)
  <2>1. [At("asking") EXCEPT !.asks = PendingSessions(UserOf(s))].pc # "new"
    BY DEF At
  <2>2. PICK h : handler' = [handler EXCEPT ![s] = h] /\ h.pc # "new"
    BY <1>3, <1>5, <2>1 DEF QuerySessions
  <2> QED
    BY <1>2, <2>2
<1>6. ASSUME NEW i \in DOMAIN sessions, AskPending(s, i)
      PROVE  handler'[s].pc # "new" /\ \A r \in Sid \ {s} : handler'[r] = handler[r]
  <2>1. [handler[s] EXCEPT !.asks = handler[s].asks \ {i}].pc # "new"
    <3>1. handler[s] \in Handler /\ handler[s].pc = "asking"
      BY <1>2, <1>6 DEF AskPending
    <3> QED
      BY <3>1 DEF Handler
  <2>2. PICK h : handler' = [handler EXCEPT ![s] = h] /\ h.pc # "new"
    BY <1>3, <1>6, <2>1 DEF AskPending
  <2> QED
    BY <1>2, <2>2
<1>7. ASSUME NEW m \in DOMAIN msgs, PushMissed(s, m)
      PROVE  handler'[s].pc # "new" /\ \A r \in Sid \ {s} : handler'[r] = handler[r]
  <2>1. /\ [handler[s] EXCEPT !.queue = handler[s].queue \ {m}].pc # "new"
        /\ [handler[s] EXCEPT !.pc = "done", !.queue = {}].pc # "new"
    <3>1. handler[s] \in Handler /\ handler[s].pc = "pushing"
      BY <1>2, <1>7 DEF PushMissed
    <3> QED
      BY <3>1 DEF Handler
  <2>2. PICK h : handler' = [handler EXCEPT ![s] = h] /\ h.pc # "new"
    BY <1>7, <2>1 DEF PushMissed
  <2> QED
    BY <1>2, <2>2
<1> QED
  BY <1>2, <1>4, <1>5, <1>6, <1>7

\* A commit adds to what is owed exactly to listening sockets, and starts a
\* task that covers it.
LEMMA DispatchKeepsPushes ==
    ASSUME PushInv, NEW legs \in Seq(Leg), Dispatch(legs), Addressed(legs),
           UNCHANGED <<connected, handler, wire>>
    PROVE  Unborn' /\ NoPushLost'
<1>1. /\ tasks' = tasks \cup Begin(legs)
      /\ \A s \in Sid : owed'[s] = owed[s] \cup
            {legs[k].event : k \in {j \in DOMAIN legs : s \in Audience(legs[j].to)}}
  BY DEF Dispatch
<1>2. \A to : Audience(to)' = Audience(to)
  BY DEF Audience, SocketsOf
<1>3. \A t, s, e : Waits(t, s, e)' <=> Waits(t, s, e)
  BY <1>2 DEF Waits
<1>4. \A k \in DOMAIN legs : \A s \in Audience(legs[k].to) :
          \E t \in Begin(legs) : Waits(t, s, legs[k].event)
  BY BeginCoversLegs DEF PushInv, TypeOK
<1>5. Unborn'
  BY <1>1 DEF PushInv, Unborn, Addressed
<1>6. ASSUME NEW s \in connected', NEW e \in owed'[s]
      PROVE  e \in wire'[s] \/ Pending(s, e)'
  <2>1. s \in connected /\ s \in Sid
    BY <1>6 DEF PushInv, TypeOK
  <2>2. CASE e \in owed[s]
    <3>1. e \in wire[s] \/ Pending(s, e)
      BY <2>1, <2>2 DEF PushInv, NoPushLost
    <3> QED
      BY <1>1, <1>3, <3>1 DEF Pending
  <2>3. CASE e \notin owed[s]
    <3>1. PICK k \in DOMAIN legs : s \in Audience(legs[k].to) /\ legs[k].event = e
      BY <1>1, <1>6, <2>1, <2>3
    <3>2. PICK t \in Begin(legs) : Waits(t, s, e)
      BY <1>4, <3>1
    <3> QED
      BY <1>1, <1>3, <3>2 DEF Pending
  <2> QED
    BY <2>2, <2>3
<1> QED
  BY <1>5, <1>6 DEF NoPushLost

LEMMA EmitKeepsPushes ==
    ASSUME PushInv, NEW t \in tasks, NEW s \in t.todo, Emit(t, s)
    PROVE  Unborn' /\ NoPushLost'
<1>1. t \in Task /\ s \in Sid
  BY DEF PushInv, TypeOK, Task
<1>2. \A to : Audience(to)' = Audience(to)
  BY DEF Audience, SocketsOf, Emit
<1>3. \A t1, r, e : Waits(t1, r, e)' <=> Waits(t1, r, e)
  BY <1>2 DEF Waits
<1>4. \A k \in DOMAIN t.rest : \A r \in Audience(t.rest[k].to) :
          \E t1 \in Begin(t.rest) : Waits(t1, r, t.rest[k].event)
  BY <1>1, BeginCoversLegs DEF PushInv, TypeOK, Task
<1>5. /\ \A r \in Sid : wire[r] \subseteq wire'[r]
      /\ s \in connected => t.event \in wire'[s]
  BY <1>1 DEF Emit, Push, PushInv, TypeOK
<1>6. ASSUME NEW r \in connected', NEW e \in owed'[r]
      PROVE  e \in wire'[r] \/ Pending(r, e)'
  <2>1. r \in connected /\ r \in Sid /\ e \in owed[r]
    BY <1>6 DEF PushInv, TypeOK, Emit
  <2>2. CASE e \in wire[r]
    BY <1>5, <2>1, <2>2
  <2>3. ASSUME NEW t1 \in tasks, Waits(t1, r, e), t1 # t
        PROVE  Pending(r, e)'
    <3>1. t1 \in tasks'
      BY <2>3 DEF Emit
    <3> QED
      BY <1>3, <2>3, <3>1 DEF Pending
  <2>4. CASE Waits(t, r, e)
    <3>1. CASE t.event = e /\ r = s
      BY <1>5, <2>1, <3>1
    <3>2. CASE t.todo # {s} /\ ~(t.event = e /\ r = s)
      <4> DEFINE t2 == [t EXCEPT !.todo = t.todo \ {s}]
      <4>1. t2 \in tasks'
        BY <3>2 DEF Emit
      <4>2. t2.event = t.event /\ t2.rest = t.rest /\ t2.todo = t.todo \ {s}
        BY <1>1 DEF Task
      <4> HIDE DEF t2
      <4>3. Waits(t2, r, e)
        BY <2>4, <3>2, <4>2 DEF Waits
      <4> QED
        BY <1>3, <4>1, <4>3 DEF Pending
    <3>3. CASE t.todo = {s} /\ ~(t.event = e /\ r = s)
      <4>1. PICK k \in DOMAIN t.rest : t.rest[k].event = e /\ r \in Audience(t.rest[k].to)
        BY <2>4, <3>3 DEF Waits
      <4>2. PICK t2 \in Begin(t.rest) : Waits(t2, r, e)
        BY <1>4, <4>1
      <4>3. t2 \in tasks'
        BY <3>3, <4>2 DEF Emit
      <4> QED
        BY <1>3, <4>2, <4>3 DEF Pending
    <3> QED
      BY <3>1, <3>2, <3>3
  <2> QED
    BY <2>1, <2>2, <2>3, <2>4 DEF PushInv, NoPushLost, Pending
<1>7. Unborn'
  BY DEF Emit, PushInv, Unborn
<1> QED
  BY <1>6, <1>7 DEF NoPushLost

\* Growing wires and a changing registry lose nothing.
LEMMA OtherStepsKeepPushes ==
    ASSUME PushInv, UNCHANGED <<tasks, owed>>,
           \A r \in Sid : wire[r] \subseteq wire'[r],
           \A r \in connected' : r \in connected \/ owed[r] = {},
           connected' \subseteq Sid
    PROVE  NoPushLost'
<1>1. ASSUME NEW r \in connected', NEW e \in owed'[r]
      PROVE  e \in wire'[r] \/ Pending(r, e)'
  <2>1. r \in connected /\ r \in Sid /\ e \in owed[r]
    BY <1>1
  <2>2. CASE e \in wire[r]
    BY <2>1, <2>2
  <2>3. ASSUME NEW t \in tasks, Waits(t, r, e)
        PROVE  Pending(r, e)'
    <3>1. \A to : r \in Audience(to) => r \in Audience(to)'
      BY <1>1, <2>1 DEF Audience, SocketsOf
    <3>2. Waits(t, r, e)'
      BY <2>3, <3>1 DEF Waits
    <3> QED
      BY <2>3, <3>2 DEF Pending
  <2> QED
    BY <2>1, <2>2, <2>3 DEF PushInv, NoPushLost, Pending
<1> QED
  BY <1>1 DEF NoPushLost

LEMMA StepPushInv == PushInv /\ [Next]_vars => PushInv'
<1> SUFFICES ASSUME PushInv, [Next]_vars
             PROVE  PushInv'
  OBVIOUS
<1>1. TypeOK /\ TypeOK'
  BY StepTypeOK DEF PushInv
<1>2. CASE UNCHANGED vars
  <2>1. UNCHANGED <<connected, handler, tasks, owed, wire>>
    BY <1>2 DEF vars
  <2>2. NoPushLost'
    BY <1>1, <2>1, OtherStepsKeepPushes DEF TypeOK
  <2> QED
    BY <1>1, <2>1, <2>2 DEF PushInv, Unborn
<1>3. ASSUME NEW t \in tasks, NEW s \in t.todo, Emit(t, s)
      PROVE  PushInv'
  BY <1>1, <1>3, EmitKeepsPushes DEF PushInv
<1>4. ASSUME NEW s \in Sid, Connect(s)
      PROVE  PushInv'
  <2>1. /\ connected' = connected \cup {s} /\ handler[s].pc = "new"
        /\ UNCHANGED <<tasks, wire, owed>>
    BY <1>4 DEF Connect
  <2>2. NoPushLost'
    BY <1>1, <2>1, OtherStepsKeepPushes DEF TypeOK, PushInv, Unborn
  <2>3. handler'[s].pc # "new" /\ \A r \in Sid \ {s} : handler'[r] = handler[r]
    BY <1>1, <1>4, HandlerAdvances
  <2>4. Unborn'
    BY <2>1, <2>3 DEF PushInv, Unborn
  <2> QED
    BY <1>1, <2>2, <2>4 DEF PushInv
<1>5. ASSUME NEW s \in Sid, ConnectStep(s)
      PROVE  PushInv'
  <2>1. UNCHANGED <<connected, tasks, owed>>
    BY <1>5 DEF ConnectStep, QuerySessions, AskPending, PushMissed
  <2>2. \A r \in Sid : wire[r] \subseteq wire'[r]
    BY <1>1, <1>5 DEF ConnectStep, QuerySessions, AskPending, PushMissed, Push, TypeOK
  <2>3. NoPushLost'
    BY <1>1, <2>1, <2>2, OtherStepsKeepPushes DEF TypeOK
  <2>4. handler'[s].pc # "new" /\ \A r \in Sid \ {s} : handler'[r] = handler[r]
    BY <1>1, <1>5, HandlerAdvances DEF ConnectStep
  <2>5. Unborn'
    BY <2>1, <2>4 DEF PushInv, Unborn
  <2> QED
    BY <1>1, <2>3, <2>5 DEF PushInv
<1>6. ASSUME NEW s \in Sid, Disconnect(s)
      PROVE  PushInv'
  <2>1. connected' = connected \ {s} /\ UNCHANGED <<handler, tasks, wire, owed>>
    BY <1>6 DEF Disconnect
  <2>2. NoPushLost'
    BY <1>1, <2>1, OtherStepsKeepPushes DEF TypeOK
  <2>3. Unborn'
    BY <2>1 DEF PushInv, Unborn
  <2> QED
    BY <1>1, <2>2, <2>3 DEF PushInv
<1>7. CASE Writes
  <2>1. UNCHANGED <<connected, handler, wire>>
    BY <1>7, WritesFrame
  <2>2. CASE \E legs \in Seq(Leg) : Dispatch(legs) /\ Addressed(legs)
    BY <1>1, <2>1, <2>2, DispatchKeepsPushes DEF PushInv
  <2>3. CASE UNCHANGED <<tasks, owed>>
    <3>1. NoPushLost'
      BY <1>1, <2>1, <2>3, OtherStepsKeepPushes DEF TypeOK
    <3> QED
      BY <1>1, <2>1, <2>3, <3>1 DEF PushInv, Unborn
  <2> QED
    BY <1>1, <1>7, <2>2, <2>3, WritesLegs
<1>8. CASE SweepStep \/ SweepAbort \/ \E m \in DOMAIN msgs : Expire(m)
  <2>1. UNCHANGED <<connected, handler, tasks, owed>>
    BY <1>8 DEF SweepStep, SweepQuery, SweepCommit, SweepNotify, SweepAbort, Expire
  <2>2. \A r \in Sid : wire[r] \subseteq wire'[r]
    BY <1>1, <1>8 DEF SweepStep, SweepQuery, SweepCommit, SweepNotify, SweepAbort,
                      Expire, TypeOK
  <2>3. NoPushLost'
    BY <1>1, <2>1, <2>2, OtherStepsKeepPushes DEF TypeOK
  <2> QED
    BY <1>1, <2>1, <2>3 DEF PushInv, Unborn
<1>9. CASE Restart
  <2>1. connected' = {} /\ UNCHANGED <<wire, owed>>
    BY <1>9 DEF Restart
  <2>2. \A s \in Sid : handler'[s].pc = "new" => handler[s].pc = "new"
    BY <1>9 DEF Restart, At
  <2> QED
    BY <1>1, <2>1, <2>2 DEF PushInv, Unborn, NoPushLost
<1> QED
  BY <1>2, <1>3, <1>4, <1>5, <1>6, <1>7, <1>8, <1>9 DEF Next, Writes

\* Whatever sockets come and go while a handler awaits its pushes, an event
\* its commit owed to a socket reaches that socket or is still on its way, as
\* long as the socket stays in the registry.
THEOREM PushesReachStayingSockets == Spec => []NoPushLost
<1>1. Init => PushInv
  <2>1. Init => TypeOK
    BY InitTypeOK
  <2> QED
    BY <2>1 DEF Init, PushInv, Unborn, NoPushLost
<1>2. PushInv /\ [Next]_vars => PushInv'
  BY StepPushInv
<1>3. PushInv => NoPushLost
  BY DEF PushInv
<1> QED
  BY <1>1, <1>2, <1>3, PTL DEF Spec
=============================================================================
