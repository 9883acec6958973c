---------------------------- MODULE RelayConnect ----------------------------
(* What a connect handler leaves behind: nothing that was stored for its     *)
(* device before it queried, nothing that was sent while it awaited its own *)
(* pushes, and no pending request its socket was not told of.               *)
EXTENDS RelaySafety

----------------------------------------------------------------------------
(* Undelivered messages *)

\* The undelivered messages with a copy for the socket's device.
LeftOver(s) == {m \in Missed(UserOf(s)) : DeviceOf[s] \in msgs[m].copies}

LEMMA SameRows ==
    ASSUME NEW m, NEW r, msgs' = [msgs EXCEPT ![m] = r]
    PROVE  DOMAIN msgs' = DOMAIN msgs
OBVIOUS

\* Only send_message stores a message; the recipient of a new message that is
\* not delivered has no socket in the registry.
LEMMA StoredForOffline ==
    ASSUME TypeOK, [Next]_vars, NEW m \in DOMAIN msgs' \ DOMAIN msgs,
           NEW s \in connected, msgs'[m].to = UserOf(s)
    PROVE  msgs'[m].delivered
<1>1. ASSUME NEW r \in Sid, NEW v \in User, NEW copies \in Payloads,
             NEW timer \in Timers, NEW i \in {0} \cup DOMAIN sessions,
             SendMessage(r, v, i, copies, timer)
      PROVE  msgs'[m].delivered
  <2> DEFINE to == IF i # 0 /\ sessions[i].active
                   THEN Other(sessions[i], UserOf(r)) ELSE v
             row == [from |-> UserOf(r), to |-> to, copies |-> copies,
                     delivered |-> RecipientIsOnline(to), deep |-> FALSE,
                     deletedBy |-> Nobody, read |-> FALSE, hiddenFor |-> {},
                     timer |-> timer]
  <2>1. msgs' = Append(msgs, row)
    BY <1>1 DEF SendMessage
  <2>2. row.to = to /\ row.delivered = RecipientIsOnline(to)
    OBVIOUS
  <2> HIDE DEF row
  <2>3. msgs'[m] = row
    BY <2>1, RowIds DEF TypeOK
  <2> HIDE DEF to
  <2>4. RecipientIsOnline(to)
    BY <2>2, <2>3 DEF RecipientIsOnline, SocketsOf
  <2> QED
    BY <2>2, <2>3, <2>4
<1>2. ASSUME DOMAIN msgs' = DOMAIN msgs
      PROVE  msgs'[m].delivered
  BY <1>2
<1>3. CASE Writes
  <2>1. \A u \in User : \A k \in DOMAIN msgs :
            WipeBy(u, k) \/ HideFor(u, k) \/ MarkRead(u, k) => DOMAIN msgs' = DOMAIN msgs
    BY SameRows DEF WipeBy, HideFor, MarkRead
  <2>2. \A k \in DOMAIN msgs : \A deep \in BOOLEAN :
            /\ \A r \in Sid : DeleteMessage(r, k, deep) =>
                   \E u \in User : WipeBy(u, k) \/ HideFor(u, k)
            /\ \A u \in User : RestDelete(u, k, deep) => WipeBy(u, k) \/ HideFor(u, k)
    BY UserOfType DEF DeleteMessage, RestDelete
  <2>3. /\ \A u, v \in User : CreateSession(u, v) => UNCHANGED msgs
        /\ \A u \in User : \A i \in DOMAIN sessions : UpdateSession(u, i) => UNCHANGED msgs
    BY DEF CreateSession, UpdateSession
  <2> QED
    BY <1>1, <1>2, <1>3, <2>1, <2>2, <2>3 DEF Writes
<1>4. CASE ~Writes
  <2>1. \A r \in Sid : Connect(r) \/ ConnectStep(r) \/ Disconnect(r)
                           => DOMAIN msgs' = DOMAIN msgs
    BY DEF Connect, ConnectStep, QuerySessions, AskPending, PushMissed,
           CommitReplay, Disconnect, tables
  <2>2. \A t \in tasks : \A r \in t.todo : Emit(t, r) => UNCHANGED msgs
    BY DEF Emit, tables
  <2>3. SweepStep \/ SweepAbort \/ Restart \/ (\E k \in DOMAIN msgs : Expire(k))
            => DOMAIN msgs' = DOMAIN msgs
    BY DEF SweepStep, SweepQuery, SweepCommit, SweepNotify, SweepAbort, Restart,
           Expire, tables
  <2> QED
    BY <1>2, <1>4, <2>1, <2>2, <2>3 DEF Next, Writes, vars, tables
<1> QED
  BY <1>3, <1>4

LEMMA LeftOverShrinks ==
    ASSUME TypeOK, [Next]_vars, NEW s \in connected
    PROVE  LeftOver(s)' \subseteq LeftOver(s)
<1> SUFFICES ASSUME NEW m \in DOMAIN msgs', m \in LeftOver(s)'
             PROVE  m \in LeftOver(s)
  BY DEF LeftOver, Missed
<1>1. /\ msgs'[m].to = UserOf(s) /\ ~msgs'[m].deep /\ ~msgs'[m].delivered
      /\ DeviceOf[s] \in msgs'[m].copies
  BY DEF LeftOver, Missed
<1>2. m \in DOMAIN msgs
  BY <1>1, StoredForOffline
<1>3. Evolves(msgs[m], msgs'[m])
  BY <1>2, StepRows DEF RowsStep, RowStep
<1> QED
  BY <1>1, <1>2, <1>3 DEF Evolves, LeftOver, Missed

\* What the socket's handler has yet to account for, unless its query hit the
\* limit: while it pushes, its backlog holds it; once it returned, nothing is.
Covers(s) == ~handler[s].full =>
    /\ handler[s].pc = "pushing" => LeftOver(s) \subseteq handler[s].backlog
    /\ handler[s].pc = "done" => LeftOver(s) = {}

LEMMA QueryCovers ==
    ASSUME NEW s \in Sid, handler \in [Sid -> Handler],
           handler' = [handler EXCEPT ![s] = QueryMissed(s)],
           UNCHANGED msgs
    PROVE  Covers(s)'
<1> DEFINE missed == Missed(UserOf(s))
           backlog == {m \in Oldest(missed, REPLAY_LIMIT) : DeviceOf[s] \in msgs[m].copies}
<1>1. handler'[s] = QueryMissed(s) /\ LeftOver(s)' = LeftOver(s)
  BY DEF LeftOver, Missed
<1>2. /\ QueryMissed(s).full = (Oldest(missed, REPLAY_LIMIT) # missed)
      /\ QueryMissed(s).backlog = backlog
      /\ QueryMissed(s).pc = IF backlog = {} THEN "done" ELSE "pushing"
  BY DEF QueryMissed
<1>3. Oldest(missed, REPLAY_LIMIT) = missed => backlog = LeftOver(s)
  BY DEF LeftOver
<1> QED
  BY <1>1, <1>2, <1>3 DEF Covers

\* The handler of every socket that is open after the step went on covering.
LEMMA StepCovers ==
    ASSUME TypeOK, \A s \in connected : Covers(s), [Next]_vars
    PROVE  \A s \in connected' : Covers(s)'
<1>1. /\ handler \in [Sid -> Handler] /\ connected \subseteq Sid
  BY DEF TypeOK
<1>2. ASSUME NEW s \in connected, handler'[s] = handler[s]
      PROVE  Covers(s)'
  BY <1>2, LeftOverShrinks DEF Covers
<1>3. ASSUME connected' \subseteq connected, UNCHANGED handler
      PROVE  \A s \in connected' : Covers(s)'
  BY <1>2, <1>3
<1>4. ASSUME NEW s \in Sid, Connect(s)
      PROVE  \A r \in connected' : Covers(r)'
  <2>1. connected' = connected \cup {s} /\ handler'[s].pc = "accepted"
    BY <1>1, <1>4 DEF Connect, At
  <2>2. \A r \in Sid \ {s} : handler'[r] = handler[r]
    BY <1>1, <1>4 DEF Connect
  <2> QED
    BY <1>1, <1>2, <2>1, <2>2 DEF Covers
<1>5. ASSUME NEW s \in Sid, ConnectStep(s)
      PROVE  \A r \in connected' : Covers(r)'
  <2>1. connected' = connected /\ \A r \in Sid \ {s} : handler'[r] = handler[r]
    BY <1>1, <1>5, HandlerAdvances DEF ConnectStep, QuerySessions, AskPending, PushMissed
  <2>2. ASSUME s \in connected
        PROVE  Covers(s)'
    <3>1. CASE QuerySessions(s)
      <4>1. \/ handler' = [handler EXCEPT ![s] = QueryMissed(s)]
            \/ handler'[s].pc = "asking"
        BY <1>1, <3>1 DEF QuerySessions, At
      <4> QED
        BY <1>1, <3>1, <4>1, QueryCovers DEF QuerySessions, Covers, tables
    <3>2. ASSUME NEW i \in DOMAIN sessions, AskPending(s, i)
          PROVE  Covers(s)'
      <4>1. \/ handler' = [handler EXCEPT ![s] = QueryMissed(s)]
            \/ handler'[s].pc = "asking"
        BY <1>1, <3>2 DEF AskPending, Handler
      <4> QED
        BY <1>1, <3>2, <4>1, QueryCovers DEF AskPending, Covers, tables
    <3>3. ASSUME NEW m \in DOMAIN msgs, PushMissed(s, m)
          PROVE  Covers(s)'
      <4> DEFINE last == [handler[s] EXCEPT !.pc = "done", !.queue = {}]
                 next == [handler[s] EXCEPT !.queue = handler[s].queue \ {m}]
      <4>1. /\ last.pc = "done" /\ last.full = handler[s].full
            /\ next.pc = handler[s].pc /\ next.full = handler[s].full
            /\ next.backlog = handler[s].backlog
        BY <1>1 DEF Handler
      <4>2. /\ handler[s].pc = "pushing"
            /\ \/ handler' = [handler EXCEPT ![s] = last] /\ CommitReplay(s)
               \/ handler' = [handler EXCEPT ![s] = next]
        BY <3>3 DEF PushMissed
      <4> HIDE DEF last, next
      <4>3. CASE handler' = [handler EXCEPT ![s] = last] /\ CommitReplay(s)
        <5>1. \A k \in handler[s].backlog \cap DOMAIN msgs' : msgs'[k].delivered
          <6>1. \A k \in DOMAIN msgs : msgs[k] \in MsgRow
            BY RowIds
          <6> QED
            BY <4>3, <6>1 DEF CommitReplay, Delivered, MsgRow
        <5>2. LeftOver(s)' \cap handler[s].backlog = {}
          BY <5>1 DEF LeftOver, Missed
        <5> QED
          BY <1>1, <2>2, <4>1, <4>2, <4>3, <5>2, LeftOverShrinks DEF Covers
      <4>4. CASE handler' = [handler EXCEPT ![s] = next]
        BY <1>1, <2>2, <4>1, <4>2, <4>4, LeftOverShrinks DEF Covers
      <4> QED
        BY <4>2, <4>3, <4>4
    <3> QED
      BY <1>5, <3>1, <3>2, <3>3 DEF ConnectStep
  <2> QED
    BY <1>1, <1>2, <2>1, <2>2
<1>6. ASSUME NEW s \in Sid, Disconnect(s)
      PROVE  \A r \in connected' : Covers(r)'
  BY <1>3, <1>6 DEF Disconnect
<1>7. CASE Writes
  BY <1>3, <1>7, WritesFrame
<1>8. CASE SweepStep \/ SweepAbort \/ \E m \in DOMAIN msgs : Expire(m)
  BY <1>3, <1>8 DEF SweepStep, SweepQuery, SweepCommit, SweepNotify, SweepAbort, Expire
<1>9. CASE Restart
  BY <1>9 DEF Restart
<1>10. ASSUME NEW t \in tasks, NEW s \in t.todo, Emit(t, s)
       PROVE  \A r \in connected' : Covers(r)'
  BY <1>3, <1>10 DEF Emit
<1>11. CASE UNCHANGED vars
  BY <1>3, <1>11 DEF vars
<1> QED
  BY <1>4, <1>5, <1>6, <1>7, <1>8, <1>9, <1>10, <1>11 DEF Next, Writes

\* Once connect has returned on an open socket, whatever was stored for its
\* device is delivered, although messages kept arriving while it awaited.
THEOREM ReplayLeavesNothingBehind == Spec => []NothingLeftBehind
<1> DEFINE Inv == TypeOK /\ \A s \in connected : Covers(s)
<1>1. Init => Inv
  BY InitTypeOK DEF Init
<1>2. Inv /\ [Next]_vars => Inv'
  BY StepTypeOK, StepCovers
<1>3. Inv => NothingLeftBehind
  BY DEF NothingLeftBehind, Covers, LeftOver
<1> HIDE DEF Inv
<1> QED
  BY <1>1, <1>2, <1>3, PTL DEF Spec

----------------------------------------------------------------------------
(* Pending session requests *)

\* What was written to a socket stays written.
LEMMA WireGrows ==
    ASSUME TypeOK, [Next]_vars, NEW s \in Sid
    PROVE  wire[s] \subseteq wire'[s]
<1>1. wire \in [Sid -> SUBSET Event]
  BY DEF TypeOK
<1>2. \A r \in Sid : \A e : Push(r, e) => wire[s] \subseteq wire'[s]
  BY <1>1 DEF Push
<1>3. \A t \in tasks : \A r \in t.todo : Emit(t, r) => wire[s] \subseteq wire'[s]
  <2>1. \A t \in tasks : t.todo \subseteq Sid
    BY DEF TypeOK, Task
  <2> QED
    BY <1>2, <2>1 DEF Emit
<1>4. \A r \in Sid : Connect(r) \/ ConnectStep(r) \/ Disconnect(r)
                         => wire[s] \subseteq wire'[s]
  BY <1>2 DEF Connect, ConnectStep, QuerySessions, AskPending, PushMissed, Disconnect
<1>5. Writes => wire' = wire
  BY WritesFrame
<1>6. SweepStep \/ SweepAbort \/ Restart \/ (\E m \in DOMAIN msgs : Expire(m))
          => wire[s] \subseteq wire'[s]
  <2>1. \A m \in DOMAIN msgs : SweepNotify(m) => wire[s] \subseteq wire'[s]
    BY <1>1 DEF SweepNotify
  <2> QED
    BY <2>1 DEF SweepStep, SweepQuery, SweepCommit, SweepAbort, Restart, Expire
<1> QED
  BY <1>3, <1>4, <1>5, <1>6 DEF Next, Writes, vars

\* A session becomes pending for a user only when it is created, and then the
\* request is owed to every socket of that user in the registry.
LEMMA PendingIsOld ==
    ASSUME TypeOK, [Next]_vars, NEW s \in connected, NEW i,
           i \in PendingSessions(UserOf(s))'
    PROVE  i \in PendingSessions(UserOf(s)) \/ <<"request", i>> \in owed'[s]
<1>1. /\ sessions \in Seq(SessionRow) /\ s \in Sid
      /\ DOMAIN sessions = 1..Len(sessions) /\ Len(sessions) \in Nat
      /\ \A j \in DOMAIN sessions : sessions[j] \in SessionRow
  BY RowIds DEF TypeOK
<1>2. CASE UNCHANGED sessions
  BY <1>2 DEF PendingSessions
<1>3. ASSUME NEW j \in DOMAIN sessions, NEW q,
             sessions' = [sessions EXCEPT ![j] = q],
             q.b = sessions[j].b, q.active = sessions[j].active,
             q.answered = sessions[j].answered \/ q.answered
      PROVE  i \in PendingSessions(UserOf(s))
  <2>1. i \in DOMAIN sessions /\ (i # j => sessions'[i] = sessions[i])
        /\ (i = j => sessions'[i] = q)
    BY <1>3 DEF PendingSessions
  <2> QED
    BY <1>3, <2>1 DEF PendingSessions
<1>4. ASSUME NEW j \in DOMAIN sessions,
             sessions' = Count(j) \/ \E u \in User : UpdateSession(u, j)
      PROVE  i \in PendingSessions(UserOf(s))
  <2> DEFINE counted == [sessions[j] EXCEPT !.count = sessions[j].count + 1]
             closed == [sessions[j] EXCEPT !.answered = TRUE]
  <2>1. \/ sessions' = [sessions EXCEPT ![j] = counted]
        \/ sessions' = [sessions EXCEPT ![j] = closed]
    BY <1>4 DEF Count, UpdateSession
  <2>2. /\ counted.b = sessions[j].b /\ counted.active = sessions[j].active
        /\ counted.answered = sessions[j].answered
        /\ closed.b = sessions[j].b /\ closed.active = sessions[j].active
        /\ closed.answered = TRUE
    BY <1>1 DEF SessionRow
  <2> HIDE DEF counted, closed
  <2> QED
    BY <1>1, <1>3, <2>1, <2>2 DEF SessionRow
<1>5. ASSUME NEW u \in User, NEW v \in User, CreateSession(u, v)
      PROVE  i \in PendingSessions(UserOf(s)) \/ <<"request", i>> \in owed'[s]
  <2> DEFINE new == [a |-> u, b |-> v, active |-> TRUE, answered |-> FALSE, count |-> 0]
             retired == [j \in DOMAIN sessions |-> IF SamePair(sessions[j], u, v)
                                                   THEN Retired(sessions[j])
                                                   ELSE sessions[j]]
             n == Len(sessions) + 1
             legs == << [event |-> <<"request", n>>, to |-> v] >>
  <2>1. sessions' = Append(retired, new) /\ Dispatch(legs)
    BY <1>5 DEF CreateSession
  <2>2. \A j \in DOMAIN sessions : retired[j] \in SessionRow
    BY <1>1, SessionRowUpdates
  <2>3. retired \in Seq(SessionRow) /\ Len(retired) = Len(sessions)
    <3>1. /\ DOMAIN retired = DOMAIN sessions
          /\ retired = [j \in DOMAIN sessions |-> retired[j]]
      OBVIOUS
    <3> HIDE DEF retired
    <3> QED
      BY <1>1, <2>2, <3>1, RewriteRows
  <2>4. new \in SessionRow /\ new.b = v
    BY DEF SessionRow
  <2>5. \A j \in DOMAIN sessions :
            /\ retired[j].b = sessions[j].b /\ retired[j].answered = sessions[j].answered
            /\ retired[j].active => sessions[j].active
    BY <1>1 DEF Retired, SessionRow
  <2>6. i \in DOMAIN sessions \/ i = n
    <3> HIDE DEF retired, new
    <3> QED
      BY <1>1, <2>1, <2>3, <2>4, AppendProperties DEF PendingSessions
  <2>7. CASE i \in DOMAIN sessions
    <3>1. sessions'[i] = retired[i]
      <4> HIDE DEF retired, new
      <4> QED
        BY <1>1, <2>1, <2>3, <2>4, <2>7, AppendProperties
    <3> HIDE DEF retired
    <3> QED
      BY <2>5, <2>7, <3>1 DEF PendingSessions
  <2>8. CASE i = n
    <3>1. sessions'[n] = new
      <4> HIDE DEF retired, new
      <4> QED
        BY <1>1, <2>1, <2>3, <2>4, AppendProperties
    <3>2. UserOf(s) = v
      <4> HIDE DEF new
      <4> QED
        BY <2>4, <2>8, <3>1 DEF PendingSessions
    <3>3. 1 \in DOMAIN legs /\ legs[1].to = v /\ legs[1].event = <<"request", n>>
      OBVIOUS
    <3>4. s \in Audience(v)
      BY <3>2, AudienceOf DEF SocketsOf, TypeOK
    <3> HIDE DEF legs
    <3>5. <<"request", n>> \in owed'[s]
      BY <1>1, <2>1, <3>3, <3>4 DEF Dispatch
    <3> QED
      BY <2>8, <3>5
  <2> QED
    BY <2>6, <2>7, <2>8
<1>6. CASE Writes
  <2>1. \/ UNCHANGED sessions
        \/ \E u, v \in User : CreateSession(u, v)
        \/ \E j \in DOMAIN sessions : \/ sessions' = Count(j)
                                      \/ \E u \in User : UpdateSession(u, j)
    BY <1>6, WritesSessionsCases
  <2> QED
    BY <1>2, <1>4, <1>5, <2>1
<1>7. CASE ~Writes
  <2>1. \A r \in Sid : Connect(r) \/ ConnectStep(r) \/ Disconnect(r) => UNCHANGED sessions
    BY DEF Connect, ConnectStep, QuerySessions, AskPending, PushMissed, Disconnect, tables
  <2>2. \A t \in tasks : \A r \in t.todo : Emit(t, r) => UNCHANGED sessions
    BY DEF Emit, tables
  <2>3. SweepStep \/ SweepAbort \/ Restart \/ (\E m \in DOMAIN msgs : Expire(m))
            => UNCHANGED sessions
    BY DEF SweepStep, SweepQuery, SweepCommit, SweepNotify, SweepAbort, Restart,
           Expire, tables
  <2> QED
    BY <1>2, <1>7, <2>1, <2>2, <2>3 DEF Next, Writes, vars, tables
<1> QED
  BY <1>6, <1>7

\* The request reached the socket, or its connect handler is to write it, or
\* the call that created the session owes it.
Told(s, i) == \/ <<"request", i>> \in wire[s]
              \/ i \in handler[s].asks
              \/ <<"request", i>> \in owed[s]

Asks(s) == handler[s].pc \notin {"new", "accepted"} =>
               \A i \in PendingSessions(UserOf(s)) : Told(s, i)

LEMMA StepAsks ==
    ASSUME TypeOK, \A s \in connected : Asks(s), [Next]_vars
    PROVE  \A s \in connected' : Asks(s)'
<1>1. /\ handler \in [Sid -> Handler] /\ wire \in [Sid -> SUBSET Event]
      /\ connected \subseteq Sid
  BY DEF TypeOK
<1>2. \A s \in Sid : owed[s] \subseteq owed'[s] /\ wire[s] \subseteq wire'[s]
  BY StepReplays, WireGrows
\* A socket is fine when what its handler still had to ask it is asked.
<1>3. ASSUME NEW s \in connected, handler[s].pc \notin {"new", "accepted"},
             \A i \in handler[s].asks \ handler'[s].asks : <<"request", i>> \in wire'[s]
      PROVE  Asks(s)'
  <2> SUFFICES ASSUME NEW i, i \in PendingSessions(UserOf(s))'
               PROVE  Told(s, i)'
    BY DEF Asks
  <2>1. CASE <<"request", i>> \in owed'[s]
    BY <2>1 DEF Told
  <2>2. CASE i \in PendingSessions(UserOf(s))
    <3>1. Told(s, i)
      BY <1>3, <2>2 DEF Asks
    <3> QED
      BY <1>1, <1>2, <1>3, <3>1 DEF Told
  <2> QED
    BY <2>1, <2>2, PendingIsOld
<1>4. ASSUME NEW s \in connected, handler'[s] = handler[s]
      PROVE  Asks(s)'
  BY <1>3, <1>4 DEF Asks
<1>5. ASSUME connected' \subseteq connected, UNCHANGED handler
      PROVE  \A s \in connected' : Asks(s)'
  BY <1>4, <1>5
<1>6. ASSUME NEW s \in Sid, Connect(s)
      PROVE  \A r \in connected' : Asks(r)'
  <2>1. connected' = connected \cup {s} /\ handler'[s].pc = "accepted"
    BY <1>1, <1>6 DEF Connect, At
  <2>2. \A r \in Sid \ {s} : handler'[r] = handler[r]
    BY <1>1, <1>6 DEF Connect
  <2> QED
    BY <1>1, <1>4, <2>1, <2>2 DEF Asks
<1>7. ASSUME NEW s \in Sid, ConnectStep(s)
      PROVE  \A r \in connected' : Asks(r)'
  <2>1. connected' = connected /\ \A r \in Sid \ {s} : handler'[r] = handler[r]
    BY <1>1, <1>7, HandlerAdvances DEF ConnectStep, QuerySessions, AskPending, PushMissed
  <2>2. ASSUME s \in connected
        PROVE  Asks(s)'
    <3>1. CASE QuerySessions(s)
      <4> DEFINE pending == PendingSessions(UserOf(s))
      <4>1. PendingSessions(UserOf(s))' = pending
        BY <3>1 DEF QuerySessions, PendingSessions, tables
      <4>2. pending = {} \/ handler'[s].asks = pending
        BY <1>1, <3>1 DEF QuerySessions, At
      <4> QED
        BY <4>1, <4>2 DEF Asks, Told
    <3>2. ASSUME NEW i \in DOMAIN sessions, AskPending(s, i)
          PROVE  Asks(s)'
      <4>1. <<"request", i>> \in wire'[s]
        BY <1>1, <2>2, <3>2 DEF AskPending, Push
      <4>2. handler[s].pc = "asking"
        BY <3>2 DEF AskPending
      <4>3. handler[s].asks \ {i} \subseteq handler'[s].asks
        BY <1>1, <3>2 DEF AskPending, Handler
      <4> QED
        BY <1>3, <2>2, <4>1, <4>2, <4>3
    <3>3. ASSUME NEW m \in DOMAIN msgs, PushMissed(s, m)
          PROVE  Asks(s)'
      <4> DEFINE last == [handler[s] EXCEPT !.pc = "done", !.queue = {}]
                 next == [handler[s] EXCEPT !.queue = handler[s].queue \ {m}]
      <4>1. last.asks = handler[s].asks /\ next.asks = handler[s].asks
        BY <1>1 DEF Handler
      <4>2. /\ handler[s].pc = "pushing"
            /\ \/ handler' = [handler EXCEPT ![s] = last]
               \/ handler' = [handler EXCEPT ![s] = next]
        BY <3>3 DEF PushMissed
      <4> HIDE DEF last, next
      <4>3. handler'[s].asks = handler[s].asks
        BY <1>1, <4>1, <4>2
      <4> QED
        BY <1>3, <2>2, <4>2, <4>3
    <3> QED
      BY <1>7, <3>1, <3>2, <3>3 DEF ConnectStep
  <2> QED
    BY <1>1, <1>4, <2>1, <2>2
<1>8. ASSUME NEW s \in Sid, Disconnect(s)
      PROVE  \A r \in connected' : Asks(r)'
  BY <1>5, <1>8 DEF Disconnect
<1>9. CASE Writes
  BY <1>5, <1>9, WritesFrame
<1>10. CASE SweepStep \/ SweepAbort \/ \E m \in DOMAIN msgs : Expire(m)
  BY <1>5, <1>10 DEF SweepStep, SweepQuery, SweepCommit, SweepNotify, SweepAbort, Expire
<1>11. CASE Restart
  BY <1>11 DEF Restart
<1>12. ASSUME NEW t \in tasks, NEW s \in t.todo, Emit(t, s)
       PROVE  \A r \in connected' : Asks(r)'
  BY <1>5, <1>12 DEF Emit
<1>13. CASE UNCHANGED vars
  BY <1>5, <1>13 DEF vars
<1> QED
  BY <1>6, <1>7, <1>8, <1>9, <1>10, <1>11, <1>12, <1>13 DEF Next, Writes

\* A request is not lost between create_session, which pushes it to the
\* sockets it finds, and connect, which reads the requests it finds.
THEOREM RequestsReachCallee == Spec => []PendingRequestReachesCallee
<1> DEFINE Inv == PushInv /\ \A s \in connected : Asks(s)
<1>1. Init => Inv
  BY InitReplayInv DEF Init, ReplayInv
<1>2. Inv /\ [Next]_vars => Inv'
  BY StepPushInv, StepAsks DEF PushInv
<1>3. Inv => PendingRequestReachesCallee
  BY DEF PushInv, NoPushLost, Asks, Told, PendingRequestReachesCallee
<1> HIDE DEF Inv
<1> QED
  BY <1>1, <1>2, <1>3, PTL DEF Spec

=============================================================================
