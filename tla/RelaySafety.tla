---------------------------- MODULE RelaySafety ----------------------------
(* What the tables and the registry promise, whatever interleaves: presence *)
(* follows the registry, one session of a pair is active, a wiped message   *)
(* stays wiped, and the replay neither duplicates a live delivery nor hides *)
(* a deletion.                                                              *)
EXTENDS RelayProofs

----------------------------------------------------------------------------
(* Presence *)

LEMMA SocketOwners ==
    ASSUME NEW s \in Sid
    PROVE  SocketsOf(UserOf(s)) = {r \in connected : UserOf(r) = UserOf(s)}
BY DEF SocketsOf

LEMMA StepPresence == TypeOK /\ PresenceAccurate /\ [Next]_vars => PresenceAccurate'
<1> SUFFICES ASSUME TypeOK, PresenceAccurate, [Next]_vars
             PROVE  PresenceAccurate'
  OBVIOUS
<1>1. CASE UNCHANGED <<connected, announced>>
  BY <1>1 DEF PresenceAccurate
<1>2. ASSUME NEW s \in Sid, Connect(s)
      PROVE  PresenceAccurate'
  BY <1>2 DEF Connect, PresenceAccurate
<1>3. ASSUME NEW s \in Sid, Disconnect(s)
      PROVE  PresenceAccurate'
  <2>1. s \in connected /\ connected' = connected \ {s}
    BY <1>3 DEF Disconnect
  <2>2. CASE SocketsOf(UserOf(s)) = {s}
    <3>1. announced' = announced \ {UserOf(s)}
      BY <1>3, <2>2 DEF Disconnect
    <3>2. \A r \in connected' : UserOf(r) # UserOf(s)
      BY <2>1, <2>2, SocketOwners DEF TypeOK
    <3> QED
      BY <2>1, <3>1, <3>2 DEF PresenceAccurate
  <2>3. CASE SocketsOf(UserOf(s)) # {s}
    <3>1. announced' = announced
      BY <1>3, <2>3 DEF Disconnect
    <3>2. PICK r \in connected \ {s} : UserOf(r) = UserOf(s)
      BY <2>1, <2>3, SocketOwners DEF TypeOK
    <3> QED
      BY <2>1, <3>1, <3>2 DEF PresenceAccurate
  <2> QED
    BY <2>2, <2>3
<1>4. CASE Restart
  BY <1>4 DEF Restart, PresenceAccurate
<1>5. CASE Writes
  BY <1>1, <1>5, WritesFrame
<1>6. ASSUME NEW s \in Sid, ConnectStep(s)
      PROVE  UNCHANGED <<connected, announced>>
  BY <1>6 DEF ConnectStep, QuerySessions, AskPending, PushMissed
<1>7. CASE SweepStep \/ SweepAbort \/ \E m \in DOMAIN msgs : Expire(m)
  BY <1>1, <1>7 DEF SweepStep, SweepQuery, SweepCommit, SweepNotify, SweepAbort, Expire
<1>8. ASSUME NEW t \in tasks, NEW s \in t.todo, Emit(t, s)
      PROVE  UNCHANGED <<connected, announced>>
  BY <1>8 DEF Emit
<1>9. CASE UNCHANGED vars
  BY <1>1, <1>9 DEF vars
<1> QED
  BY <1>1, <1>2, <1>3, <1>4, <1>5, <1>6, <1>7, <1>8, <1>9 DEF Next, Writes

\* The last presence broadcast about a user agrees with the registry,
\* in whatever order its sockets open and close.
THEOREM PresenceFollowsRegistry == Spec => []PresenceAccurate
<1>1. Init => TypeOK /\ PresenceAccurate
  BY InitTypeOK DEF Init, PresenceAccurate
<1>2. TypeOK /\ PresenceAccurate /\ [Next]_vars => (TypeOK /\ PresenceAccurate)'
  BY StepTypeOK, StepPresence
<1> QED
  BY <1>1, <1>2, PTL DEF Spec

----------------------------------------------------------------------------
(* Sessions *)

\* What a step may do to a session: its pair is fixed, and a retired session
\* is not revived.
SessionEvolves(r, q) == q.a = r.a /\ q.b = r.b /\ (q.active => r.active)

LEMMA StepOneActive == TypeOK /\ OneActiveSession /\ [Next]_vars => OneActiveSession'
<1> SUFFICES ASSUME TypeOK, OneActiveSession, [Next]_vars
             PROVE  OneActiveSession'
  OBVIOUS
<1>1. /\ sessions \in Seq(SessionRow)
      /\ DOMAIN sessions = 1..Len(sessions) /\ Len(sessions) \in Nat
      /\ \A i \in DOMAIN sessions : sessions[i] \in SessionRow
  BY RowIds DEF TypeOK
<1>2. ASSUME DOMAIN sessions' = DOMAIN sessions,
             \A i \in DOMAIN sessions : SessionEvolves(sessions[i], sessions'[i])
      PROVE  OneActiveSession'
  BY <1>2 DEF OneActiveSession, SessionEvolves
<1>3. CASE UNCHANGED sessions
  BY <1>3 DEF OneActiveSession
<1>4. ASSUME NEW i \in DOMAIN sessions,
             sessions' = Count(i) \/ \E u \in User : UpdateSession(u, i)
      PROVE  OneActiveSession'
  <2>1. \/ sessions' = [sessions EXCEPT ![i] =
                [sessions[i] EXCEPT !.count = sessions[i].count + 1]]
        \/ sessions' = [sessions EXCEPT ![i] = [sessions[i] EXCEPT !.answered = TRUE]]
    BY <1>4 DEF Count, UpdateSession
  <2>2. PICK q : /\ sessions' = [sessions EXCEPT ![i] = q]
                 /\ q.a = sessions[i].a /\ q.b = sessions[i].b
                 /\ q.active = sessions[i].active
    BY <1>1, <2>1 DEF SessionRow
  <2>3. DOMAIN sessions' = DOMAIN sessions
    BY <2>2
  <2>4. \A j \in DOMAIN sessions : SessionEvolves(sessions[j], sessions'[j])
    BY <1>1, <2>2 DEF SessionEvolves
  <2> QED
    BY <1>2, <2>3, <2>4
<1>5. ASSUME NEW u \in User, NEW v \in User, CreateSession(u, v)
      PROVE  OneActiveSession'
  <2> DEFINE new == [a |-> u, b |-> v, active |-> TRUE, answered |-> FALSE, count |-> 0]
             retired == [i \in DOMAIN sessions |-> IF SamePair(sessions[i], u, v)
                                                   THEN Retired(sessions[i])
                                                   ELSE sessions[i]]
             n == Len(sessions) + 1
  <2>1. sessions' = Append(retired, new) /\ Len(sessions) < MaxSessions
    BY <1>5 DEF CreateSession
  <2>2. retired \in Seq(SessionRow) /\ Len(retired) = Len(sessions)
    <3>1. \A i \in DOMAIN sessions : retired[i] \in SessionRow
      BY <1>1, SessionRowUpdates
    <3>2. DOMAIN retired = DOMAIN sessions /\ retired = [i \in DOMAIN sessions |-> retired[i]]
      OBVIOUS
    <3> HIDE DEF retired
    <3> QED
      BY <1>1, <3>1, <3>2, RewriteRows
  <2>3. new \in SessionRow /\ new.a = u /\ new.b = v
    BY DEF SessionRow
  <2>4. \A i \in DOMAIN sessions :
            /\ retired[i].a = sessions[i].a /\ retired[i].b = sessions[i].b
            /\ retired[i].active => /\ sessions[i].active
                                    /\ {sessions[i].a, sessions[i].b} # {u, v}
    BY <1>1 DEF Retired, SamePair, SessionRow
  <2>5. /\ DOMAIN sessions' = DOMAIN sessions \cup {n}
        /\ n \notin DOMAIN sessions
        /\ sessions'[n] = new
        /\ \A i \in DOMAIN sessions : sessions'[i] = retired[i]
    <3> HIDE DEF retired, new
    <3> QED
      BY <1>1, <2>1, <2>2, <2>3, AppendProperties
  <2> HIDE DEF retired, new, n
  <2>6. ASSUME NEW i \in DOMAIN sessions', NEW j \in DOMAIN sessions',
               sessions'[i].active, sessions'[j].active,
               {sessions'[i].a, sessions'[i].b} = {sessions'[j].a, sessions'[j].b}
        PROVE  i = j
    <3>1. CASE i \in DOMAIN sessions /\ j \in DOMAIN sessions
      BY <2>4, <2>5, <2>6, <3>1 DEF OneActiveSession
    <3>2. CASE i = n /\ j \in DOMAIN sessions
      BY <2>3, <2>4, <2>5, <2>6, <3>2
    <3>3. CASE j = n /\ i \in DOMAIN sessions
      BY <2>3, <2>4, <2>5, <2>6, <3>3
    <3>4. CASE i = n /\ j = n
      BY <3>4
    <3> QED
      BY <2>5, <2>6, <3>1, <3>2, <3>3, <3>4
  <2> QED
    BY <2>6 DEF OneActiveSession
<1>6. CASE Writes
  <2>1. \/ UNCHANGED sessions
        \/ \E u, v \in User : CreateSession(u, v)
        \/ \E i \in DOMAIN sessions : \/ sessions' = Count(i)
                                      \/ \E u \in User : UpdateSession(u, i)
    BY <1>6, WritesSessionsCases
  <2> QED
    BY <1>3, <1>4, <1>5, <2>1
<1>7. CASE ~Writes
  <2>1. \A s \in Sid : Connect(s) \/ ConnectStep(s) \/ Disconnect(s) => UNCHANGED sessions
    BY DEF Connect, ConnectStep, QuerySessions, AskPending, PushMissed, Disconnect, tables
  <2>2. \A t \in tasks : \A s \in t.todo : Emit(t, s) => UNCHANGED sessions
    BY DEF Emit, tables
  <2>3. SweepStep \/ SweepAbort \/ Restart \/ (\E m \in DOMAIN msgs : Expire(m))
            => UNCHANGED sessions
    BY DEF SweepStep, SweepQuery, SweepCommit, SweepNotify, SweepAbort, Restart,
           Expire, tables
  <2> QED
    BY <1>3, <1>7, <2>1, <2>2, <2>3 DEF Next, Writes, vars
<1> QED
  BY <1>6, <1>7

\* A pair of users never has two active sessions: create_session retires every
\* session of the pair, in either direction, and nothing revives one.
THEOREM AtMostOneActiveSession == Spec => []OneActiveSession
<1>1. Init => TypeOK /\ OneActiveSession
  BY InitTypeOK DEF Init, OneActiveSession
<1>2. TypeOK /\ OneActiveSession /\ [Next]_vars => (TypeOK /\ OneActiveSession)'
  BY StepTypeOK, StepOneActive
<1> QED
  BY <1>1, <1>2, PTL DEF Spec

----------------------------------------------------------------------------
(* Messages *)

\* What a step may do to a stored message: its ends are fixed, delivery and
\* wiping are for ever, ciphertexts only disappear.
Evolves(r, q) == /\ q.from = r.from /\ q.to = r.to
                 /\ r.delivered => q.delivered
                 /\ r.deep => q.deep
                 /\ q.copies \subseteq r.copies
                 /\ q.deep => r.deep \/ q.copies = {}

\* A new message is neither wiped nor deleted.
Fresh(r) == ~r.deep /\ r.deletedBy = Nobody

\* Only WipeBy records who deleted a message.
RowStep(m) == /\ Evolves(msgs[m], msgs'[m])
              /\ \/ msgs'[m].deletedBy = msgs[m].deletedBy
                 \/ msgs'[m].deep /\ \E u \in User : WipeBy(u, m)

RowsStep == /\ DOMAIN msgs \subseteq DOMAIN msgs'
            /\ \A m \in DOMAIN msgs : RowStep(m)
            /\ \A m \in DOMAIN msgs' \ DOMAIN msgs : Fresh(msgs'[m])

LEMMA RowUpdatesEvolve ==
    ASSUME NEW r \in MsgRow
    PROVE  /\ Evolves(r, r)
           /\ Evolves(r, Delivered(r)) /\ Delivered(r).deletedBy = r.deletedBy
           /\ Evolves(r, Wiped(r)) /\ Wiped(r).deletedBy = r.deletedBy
           /\ \A u \in User : /\ Evolves(r, [Wiped(r) EXCEPT !.deletedBy = u])
                              /\ [Wiped(r) EXCEPT !.deletedBy = u].deep
           /\ \A u \in User : LET q == [r EXCEPT !.hiddenFor = r.hiddenFor \cup {u}]
                              IN  Evolves(r, q) /\ q.deletedBy = r.deletedBy
           /\ LET q == [r EXCEPT !.read = TRUE]
              IN  Evolves(r, q) /\ q.deletedBy = r.deletedBy
           /\ LET q == [r EXCEPT !.timer = "due"]
              IN  Evolves(r, q) /\ q.deletedBy = r.deletedBy
BY DEF Evolves, Delivered, Wiped, MsgRow

\* One row is replaced by a version of it.
LEMMA OneRowStep ==
    ASSUME TypeOK, NEW m \in DOMAIN msgs, NEW q, Evolves(msgs[m], q),
           msgs' = [msgs EXCEPT ![m] = q],
           \/ q.deletedBy = msgs[m].deletedBy
           \/ q.deep /\ \E u \in User : WipeBy(u, m)
    PROVE  RowsStep
<1>1. /\ DOMAIN msgs' = DOMAIN msgs /\ msgs'[m] = q
      /\ \A k \in DOMAIN msgs \ {m} : msgs'[k] = msgs[k]
  OBVIOUS
<1>2. \A k \in DOMAIN msgs : Evolves(msgs[k], msgs[k])
  BY RowIds, RowUpdatesEvolve
<1> QED
  BY <1>1, <1>2 DEF RowsStep, RowStep

LEMMA StepRows ==
    ASSUME TypeOK, [Next]_vars
    PROVE  RowsStep
<1>1. \A m \in DOMAIN msgs : msgs[m] \in MsgRow
  BY RowIds
<1>2. CASE UNCHANGED msgs
  BY <1>1, <1>2, RowUpdatesEvolve DEF RowsStep, RowStep
<1>3. ASSUME NEW s \in Sid, NEW v \in User, NEW copies \in Payloads,
             NEW timer \in Timers, NEW i \in {0} \cup DOMAIN sessions,
             SendMessage(s, v, i, copies, timer)
      PROVE  RowsStep
  <2> DEFINE to == IF i # 0 /\ sessions[i].active
                   THEN Other(sessions[i], UserOf(s)) ELSE v
             r == [from |-> UserOf(s), to |-> to, copies |-> copies,
                   delivered |-> RecipientIsOnline(to), deep |-> FALSE,
                   deletedBy |-> Nobody, read |-> FALSE, hiddenFor |-> {},
                   timer |-> timer]
  <2>1. msgs' = Append(msgs, r) /\ Fresh(r)
    BY <1>3 DEF SendMessage, Fresh
  <2> HIDE DEF r
  <2>2. /\ DOMAIN msgs' = DOMAIN msgs \cup {Len(msgs) + 1}
        /\ msgs'[Len(msgs) + 1] = r
        /\ \A m \in DOMAIN msgs : msgs'[m] = msgs[m]
    BY <2>1, RowIds DEF TypeOK
  <2> QED
    BY <1>1, <2>1, <2>2, RowUpdatesEvolve DEF RowsStep, RowStep
<1>4. ASSUME NEW m \in DOMAIN msgs, NEW u \in User, WipeBy(u, m)
      PROVE  RowsStep
  <2> DEFINE q == [Wiped(msgs[m]) EXCEPT !.deletedBy = u]
  <2>1. msgs' = [msgs EXCEPT ![m] = q]
    BY <1>4 DEF WipeBy
  <2>2. Evolves(msgs[m], q) /\ q.deep
    BY <1>1, RowUpdatesEvolve
  <2> HIDE DEF q
  <2> QED
    BY <1>4, <2>1, <2>2, OneRowStep
<1>5. ASSUME NEW m \in DOMAIN msgs, NEW u \in User, HideFor(u, m) \/ MarkRead(u, m)
      PROVE  RowsStep
  <2> DEFINE hidden == [msgs[m] EXCEPT !.hiddenFor = msgs[m].hiddenFor \cup {u}]
             seen == [msgs[m] EXCEPT !.read = TRUE]
  <2>1. msgs' = [msgs EXCEPT ![m] = hidden] \/ msgs' = [msgs EXCEPT ![m] = seen]
    BY <1>5 DEF HideFor, MarkRead
  <2>2. /\ Evolves(msgs[m], hidden) /\ hidden.deletedBy = msgs[m].deletedBy
        /\ Evolves(msgs[m], seen) /\ seen.deletedBy = msgs[m].deletedBy
    BY <1>1, RowUpdatesEvolve
  <2> HIDE DEF hidden, seen
  <2> QED
    BY <2>1, <2>2, OneRowStep
<1>6. ASSUME NEW m \in DOMAIN msgs, NEW deep \in BOOLEAN,
             \/ \E s \in Sid : DeleteMessage(s, m, deep)
             \/ \E u \in User : RestDelete(u, m, deep)
      PROVE  RowsStep
  <2>1. \E u \in User : WipeBy(u, m) \/ HideFor(u, m)
    BY <1>6, UserOfType DEF DeleteMessage, RestDelete
  <2> QED
    BY <1>4, <1>5, <2>1
<1>7. ASSUME NEW m \in DOMAIN msgs, Expire(m)
      PROVE  RowsStep
  <2> DEFINE q == [msgs[m] EXCEPT !.timer = "due"]
  <2>1. msgs' = [msgs EXCEPT ![m] = q]
    BY <1>7 DEF Expire
  <2>2. Evolves(msgs[m], q) /\ q.deletedBy = msgs[m].deletedBy
    BY <1>1, RowUpdatesEvolve
  <2> HIDE DEF q
  <2> QED
    BY <2>1, <2>2, OneRowStep
<1>8. ASSUME NEW S,
             \/ msgs' = [m \in DOMAIN msgs |-> IF m \in S THEN Wiped(msgs[m]) ELSE msgs[m]]
             \/ msgs' = [m \in DOMAIN msgs |-> IF m \in S THEN Delivered(msgs[m]) ELSE msgs[m]]
      PROVE  RowsStep
  <2>1. DOMAIN msgs' = DOMAIN msgs
    BY <1>8
  <2>2. \A m \in DOMAIN msgs : \/ msgs'[m] = msgs[m]
                               \/ msgs'[m] = Wiped(msgs[m])
                               \/ msgs'[m] = Delivered(msgs[m])
    BY <1>8
  <2>3. ASSUME NEW m \in DOMAIN msgs
        PROVE  /\ Evolves(msgs[m], msgs'[m])
               /\ msgs'[m].deletedBy = msgs[m].deletedBy
    <3>1. msgs[m] \in MsgRow
      BY <1>1
    <3> QED
      BY <2>2, <3>1, RowUpdatesEvolve
  <2> QED
    BY <2>1, <2>3 DEF RowsStep, RowStep
<1>9. ASSUME NEW s \in Sid, NEW m \in DOMAIN msgs, PushMissed(s, m)
      PROVE  RowsStep
  BY <1>2, <1>8, <1>9 DEF PushMissed, CommitReplay
<1>10. ASSUME SweepCommit
       PROVE  RowsStep
  BY <1>8, <1>10 DEF SweepCommit
<1>11. ASSUME \/ \E u, v \in User : CreateSession(u, v)
              \/ \E u \in User, i \in DOMAIN sessions : UpdateSession(u, i)
       PROVE  RowsStep
  BY <1>2, <1>11 DEF CreateSession, UpdateSession
<1>12. CASE Writes
  BY <1>3, <1>5, <1>6, <1>11, <1>12 DEF Writes
<1>13. ASSUME NEW s \in Sid,
              Connect(s) \/ QuerySessions(s) \/ Disconnect(s)
                 \/ \E i \in DOMAIN sessions : AskPending(s, i)
       PROVE  RowsStep
  BY <1>2, <1>13 DEF Connect, QuerySessions, AskPending, Disconnect, tables
<1>14. ASSUME NEW t \in tasks, NEW s \in t.todo, Emit(t, s)
       PROVE  RowsStep
  BY <1>2, <1>14 DEF Emit, tables
<1>15. ASSUME SweepQuery \/ SweepAbort \/ Restart
              \/ \E m \in DOMAIN msgs : SweepNotify(m)
       PROVE  RowsStep
  BY <1>2, <1>15 DEF SweepQuery, SweepAbort, Restart, SweepNotify, tables
<1>16. CASE UNCHANGED vars
  BY <1>2, <1>16 DEF vars, tables
<1> QED
  BY <1>7, <1>9, <1>10, <1>12, <1>13, <1>14, <1>15, <1>16
     DEF Next, Writes, ConnectStep, SweepStep

\* What a wiped message has lost.
WipedIsEmpty == \A m \in DOMAIN msgs : msgs[m].deep => msgs[m].copies = {}

LEMMA StepWiped == TypeOK /\ WipedIsEmpty /\ [Next]_vars => WipedIsEmpty'
<1> SUFFICES ASSUME TypeOK, WipedIsEmpty, [Next]_vars,
                    NEW m \in DOMAIN msgs', msgs'[m].deep
             PROVE  msgs'[m].copies = {}
  BY DEF WipedIsEmpty
<1>1. m \in DOMAIN msgs /\ Evolves(msgs[m], msgs'[m])
  BY StepRows DEF RowsStep, RowStep, Fresh
<1> QED
  BY <1>1 DEF WipedIsEmpty, Evolves

\* The commit of a replay that loaded the row earlier, a second deletion and
\* the self-destruct job all leave a wiped message wiped.
THEOREM WipingIsFinal == Spec => WipedStaysWiped
<1>1. Init => TypeOK /\ WipedIsEmpty
  BY InitTypeOK DEF Init, WipedIsEmpty
<1>2. TypeOK /\ WipedIsEmpty /\ [Next]_vars => (TypeOK /\ WipedIsEmpty)'
  BY StepTypeOK, StepWiped
<1>3. TypeOK /\ WipedIsEmpty /\ [Next]_vars =>
          [\A m \in DOMAIN msgs : msgs[m].deep =>
               msgs'[m].deep /\ msgs'[m].copies = {}]_vars
  BY StepRows DEF RowsStep, RowStep, Evolves, WipedIsEmpty
<1> QED
  BY <1>1, <1>2, <1>3, PTL DEF Spec, WipedStaysWiped

----------------------------------------------------------------------------
(* The replay against deletions and live deliveries *)

\* The replay has pushed the message to the socket or is going to.
Replayed(s, m) == m \in handler[s].queue \/ <<"replay", m>> \in wire[s]

\* A query that finds the message, in a step that leaves the rest alone.
Queries(s, m) == /\ m \in Missed(UserOf(s))
                 /\ handler[s].pc \in {"accepted", "asking"}
                 /\ UNCHANGED <<msgs, owed, connected>>

LEMMA QueuedIsMissed ==
    ASSUME NEW s \in Sid
    PROVE  QueryMissed(s).queue \subseteq Missed(UserOf(s))
BY DEF QueryMissed, Oldest

\* A message becomes one of the replay's only by a query of that socket.
LEMMA ConnectStepReplays ==
    ASSUME TypeOK, NEW s \in Sid, ConnectStep(s)
    PROVE  /\ \A r \in Sid : \A m : Replayed(r, m)' => Replayed(r, m) \/ Queries(r, m)
           /\ \A r \in Sid \ {s} : wire'[r] = wire[r]
           /\ s \notin connected => wire' = wire
           /\ handler[s].pc # "new"
           /\ UNCHANGED <<connected, owed>>
<1>1. handler \in [Sid -> Handler] /\ wire \in [Sid -> SUBSET Event]
  BY DEF TypeOK
<1>2. CASE QuerySessions(s)
  <2>1. /\ wire' = wire /\ handler[s].pc = "accepted"
        /\ UNCHANGED <<msgs, owed, connected>>
    BY <1>2 DEF QuerySessions, tables
  <2>2. /\ \A r \in Sid \ {s} : handler'[r] = handler[r]
        /\ \/ handler'[s] = QueryMissed(s)
           \/ handler'[s].queue = {}
    BY <1>1, <1>2 DEF QuerySessions, At
  <2> QED
    BY <2>1, <2>2, QueuedIsMissed DEF Replayed, Queries
<1>3. ASSUME NEW i \in DOMAIN sessions, AskPending(s, i)
      PROVE  /\ \A r \in Sid : \A m : Replayed(r, m)' => Replayed(r, m) \/ Queries(r, m)
             /\ \A r \in Sid \ {s} : wire'[r] = wire[r]
             /\ s \notin connected => wire' = wire
             /\ handler[s].pc # "new"
             /\ UNCHANGED <<connected, owed>>
  <2>1. /\ handler[s].pc = "asking" /\ UNCHANGED <<msgs, owed, connected>>
        /\ \A r \in Sid \ {s} : handler'[r] = handler[r]
        /\ \/ handler'[s] = QueryMissed(s)
           \/ handler'[s].queue = handler[s].queue
    BY <1>1, <1>3 DEF AskPending, tables, Handler
  <2>2. /\ \A r \in Sid \ {s} : wire'[r] = wire[r]
        /\ wire'[s] \subseteq wire[s] \cup {<<"request", i>>}
        /\ s \notin connected => wire' = wire
    BY <1>1, <1>3 DEF AskPending, Push
  <2>3. \A m : <<"replay", m>> # <<"request", i>>
    OBVIOUS
  <2> QED
    BY <2>1, <2>2, <2>3, QueuedIsMissed DEF Replayed, Queries
<1>4. ASSUME NEW k \in DOMAIN msgs, PushMissed(s, k)
      PROVE  /\ \A r \in Sid : \A m : Replayed(r, m)' => Replayed(r, m) \/ Queries(r, m)
             /\ \A r \in Sid \ {s} : wire'[r] = wire[r]
             /\ s \notin connected => wire' = wire
             /\ handler[s].pc # "new"
             /\ UNCHANGED <<connected, owed>>
  <2>1. /\ handler[s].pc = "pushing" /\ k \in handler[s].queue
        /\ UNCHANGED <<owed, connected>>
        /\ \A r \in Sid \ {s} : handler'[r] = handler[r]
        /\ handler'[s].queue \subseteq handler[s].queue
    <3> DEFINE last == [handler[s] EXCEPT !.pc = "done", !.queue = {}]
               next == [handler[s] EXCEPT !.queue = handler[s].queue \ {k}]
    <3>1. last.queue = {} /\ next.queue = handler[s].queue \ {k}
      BY <1>1 DEF Handler
    <3>2. \/ handler' = [handler EXCEPT ![s] = last]
          \/ handler' = [handler EXCEPT ![s] = next]
      BY <1>4 DEF PushMissed
    <3>3. /\ handler[s].pc = "pushing" /\ k \in handler[s].queue
          /\ UNCHANGED <<owed, connected>>
      BY <1>4 DEF PushMissed
    <3> HIDE DEF last, next
    <3> QED
      BY <1>1, <3>1, <3>2, <3>3
  <2>2. /\ \A r \in Sid \ {s} : wire'[r] = wire[r]
        /\ wire'[s] \subseteq wire[s] \cup {<<"replay", k>>}
        /\ s \notin connected => wire' = wire
    BY <1>1, <1>4 DEF PushMissed, Push
  <2> QED
    BY <2>1, <2>2 DEF Replayed
<1> QED
  BY <1>2, <1>3, <1>4 DEF ConnectStep, QuerySessions

\* What every step does to the replays, the wires and the history of pushes.
LEMMA StepReplays ==
    ASSUME TypeOK, [Next]_vars
    PROVE  /\ \A s \in Sid : \A m : Replayed(s, m)' => Replayed(s, m) \/ Queries(s, m)
           /\ \A s \in Sid : s \notin connected => wire'[s] = wire[s]
           /\ \A s \in Sid : handler'[s].pc = "new" => handler'[s] = handler[s]
           /\ \A s \in Sid : owed[s] \subseteq owed'[s]
           /\ \A s \in Sid : s \in connected' => s \in connected \/ handler[s].pc = "new"
<1> DEFINE
      Goal == /\ \A s \in Sid : \A m : Replayed(s, m)' => Replayed(s, m) \/ Queries(s, m)
              /\ \A s \in Sid : s \notin connected => wire'[s] = wire[s]
              /\ \A s \in Sid : handler'[s].pc = "new" => handler'[s] = handler[s]
              /\ \A s \in Sid : owed[s] \subseteq owed'[s]
              /\ \A s \in Sid : s \in connected' => s \in connected \/ handler[s].pc = "new"
<1> SUFFICES Goal
  OBVIOUS
<1>1. /\ handler \in [Sid -> Handler] /\ wire \in [Sid -> SUBSET Event]
      /\ owed \in [Sid -> SUBSET Pushed]
  BY DEF TypeOK
<1>2. ASSUME UNCHANGED <<connected, handler, wire, owed>>
      PROVE  Goal
  BY <1>2 DEF Replayed
<1>3. ASSUME NEW t \in tasks, NEW s \in t.todo, Emit(t, s)
      PROVE  Goal
  <2>1. t \in Task /\ s \in Sid /\ t.event \in Pushed
    BY DEF TypeOK, Task
  <2>2. \A m : <<"replay", m>> # t.event
    BY <2>1 DEF Pushed
  <2>3. /\ UNCHANGED <<connected, handler, owed>>
        /\ \A r \in Sid : wire'[r] \subseteq wire[r] \cup {t.event}
        /\ \A r \in Sid : r \notin connected => wire'[r] = wire[r]
    BY <1>1, <1>3, <2>1 DEF Emit, Push
  <2> QED
    BY <2>2, <2>3 DEF Replayed
<1>4. ASSUME NEW s \in Sid, Connect(s)
      PROVE  Goal
  <2>1. /\ connected' = connected \cup {s} /\ handler[s].pc = "new"
        /\ UNCHANGED <<wire, owed>>
    BY <1>4 DEF Connect
  <2>2. /\ \A r \in Sid \ {s} : handler'[r] = handler[r]
        /\ handler'[s].pc = "accepted" /\ handler'[s].queue = {}
    BY <1>1, <1>4 DEF Connect, At
  <2> QED
    BY <2>1, <2>2 DEF Replayed
<1>5. ASSUME NEW s \in Sid, ConnectStep(s)
      PROVE  Goal
  <2>1. handler'[s].pc # "new" /\ \A r \in Sid \ {s} : handler'[r] = handler[r]
    BY <1>5, HandlerAdvances DEF ConnectStep
  <2> QED
    BY <1>5, <2>1, ConnectStepReplays
<1>6. ASSUME NEW s \in Sid, Disconnect(s)
      PROVE  Goal
  BY <1>6 DEF Disconnect, Replayed
<1>7. CASE Writes
  <2>1. UNCHANGED <<connected, handler, wire>>
    BY <1>7, WritesFrame
  <2>2. \A s \in Sid : owed[s] \subseteq owed'[s]
    BY <1>7, WritesLegs DEF Dispatch
  <2> QED
    BY <2>1, <2>2 DEF Replayed
<1>8. ASSUME NEW k \in DOMAIN msgs, SweepNotify(k)
      PROVE  Goal
  <2>1. /\ UNCHANGED <<connected, handler, owed>>
        /\ \A r \in Sid : wire'[r] \subseteq wire[r] \cup {<<"deleted", k>>}
        /\ \A r \in Sid : r \notin connected => wire'[r] = wire[r]
    BY <1>1, <1>8 DEF SweepNotify, Listening
  <2>2. \A m : <<"replay", m>> # <<"deleted", k>>
    OBVIOUS
  <2> QED
    BY <2>1, <2>2 DEF Replayed
<1>9. CASE SweepQuery \/ SweepCommit \/ SweepAbort \/ \E m \in DOMAIN msgs : Expire(m)
  BY <1>2, <1>9 DEF SweepQuery, SweepCommit, SweepAbort, Expire
<1>10. CASE Restart
  <2>1. connected' = {} /\ UNCHANGED <<wire, owed>>
    BY <1>10 DEF Restart
  <2>2. \A s \in Sid : \/ handler'[s] = handler[s]
                       \/ handler'[s].pc = "done" /\ handler'[s].queue = {}
    BY <1>10 DEF Restart, At
  <2> QED
    BY <2>1, <2>2 DEF Replayed
<1>11. CASE UNCHANGED vars
  BY <1>2, <1>11 DEF vars
<1>12. CASE SweepStep \/ SweepAbort \/ \E m \in DOMAIN msgs : Expire(m)
  BY <1>8, <1>9, <1>12 DEF SweepStep
<1> HIDE DEF Goal
<1>13. CASE Next
  <2>1. \/ \E t \in tasks : \E s \in t.todo : Emit(t, s)
        \/ \E s \in Sid : Connect(s) \/ ConnectStep(s) \/ Disconnect(s)
        \/ Writes \/ Restart
        \/ SweepStep \/ SweepAbort \/ \E m \in DOMAIN msgs : Expire(m)
    BY <1>13 DEF Next, Writes
  <2> QED
    BY <1>3, <1>4, <1>5, <1>6, <1>7, <1>10, <1>12, <2>1
<1> QED
  BY <1>11, <1>13

\* Facts about replays that both invariants need: a socket that has not
\* connected has none, and the replay is addressed to the recipient.
ReplayShape ==
    /\ \A s \in Sid : handler[s].pc = "new" => \A m : ~Replayed(s, m)
    /\ \A s \in Sid : \A m : Replayed(s, m) => m \in DOMAIN msgs /\ msgs[m].to = UserOf(s)

ReplayInv == PushInv /\ ReplayShape

LEMMA InitReplayInv == Init => ReplayInv
<1> SUFFICES ASSUME Init
             PROVE  ReplayInv
  OBVIOUS
<1>1. PushInv
  BY InitTypeOK DEF Init, PushInv, Unborn, NoPushLost
<1>2. \A s \in Sid : \A m : ~Replayed(s, m)
  BY DEF Init, Replayed, At
<1> QED
  BY <1>1, <1>2 DEF ReplayInv, ReplayShape

LEMMA StepReplayInv == ReplayInv /\ [Next]_vars => ReplayInv'
<1> SUFFICES ASSUME ReplayInv, [Next]_vars
             PROVE  ReplayInv'
  OBVIOUS
<1>1. TypeOK /\ PushInv /\ PushInv'
  BY StepPushInv DEF ReplayInv, PushInv
<1>2. ASSUME NEW s \in Sid, handler'[s].pc = "new", NEW m
      PROVE  ~Replayed(s, m)'
  <2>1. handler'[s] = handler[s]
    BY <1>1, <1>2, StepReplays
  <2>2. s \notin connected
    BY <1>2, <2>1 DEF ReplayInv, PushInv, Unborn
  <2>3. wire'[s] = wire[s]
    BY <1>1, <2>2, StepReplays
  <2> QED
    BY <1>2, <2>1, <2>3 DEF ReplayInv, ReplayShape, Replayed
<1>3. ASSUME NEW s \in Sid, NEW m, Replayed(s, m)'
      PROVE  m \in DOMAIN msgs' /\ msgs'[m].to = UserOf(s)
  <2>1. m \in DOMAIN msgs /\ msgs[m].to = UserOf(s)
    <3>1. Replayed(s, m) \/ Queries(s, m)
      BY <1>1, <1>3, StepReplays
    <3> QED
      BY <3>1 DEF ReplayInv, ReplayShape, Queries, Missed
  <2> QED
    BY <1>1, <2>1, StepRows DEF RowsStep, RowStep, Evolves
<1> QED
  BY <1>1, <1>2, <1>3 DEF ReplayInv, ReplayShape

\* Deep deletion tells every socket of the recipient that is in the registry.
LEMMA WipeOwes ==
    ASSUME NEW u \in User, NEW m \in DOMAIN msgs, WipeBy(u, m),
           NEW s \in Sid, s \in connected, UserOf(s) = msgs[m].to
    PROVE  <<"deleted", m>> \in owed'[s]
<1> DEFINE legs == << [event |-> <<"deleted", m>>, to |-> msgs[m].from],
                      [event |-> <<"deleted", m>>, to |-> msgs[m].to] >>
<1>1. owed' = [r \in Sid |-> owed[r] \cup
          {legs[k].event : k \in {j \in DOMAIN legs : r \in Audience(legs[j].to)}}]
  BY DEF WipeBy, Dispatch
<1>2. 2 \in DOMAIN legs /\ legs[2].to = msgs[m].to /\ legs[2].event = <<"deleted", m>>
  OBVIOUS
<1>3. s \in Audience(msgs[m].to)
  <2>1. msgs[m].to \in User
    BY UserOfType
  <2> QED
    BY <2>1, AudienceOf DEF SocketsOf
<1> HIDE DEF legs
<1> QED
  BY <1>1, <1>2, <1>3

\* A deleted message is wiped, and every open socket the replay brings it to
\* is owed the notice.
DeletionOwed ==
    \A m \in DOMAIN msgs : msgs[m].deletedBy # Nobody =>
        /\ msgs[m].deep
        /\ \A s \in connected : Replayed(s, m) => <<"deleted", m>> \in owed[s]

LEMMA StepDeletionOwed == ReplayInv /\ DeletionOwed /\ [Next]_vars => DeletionOwed'
<1> SUFFICES ASSUME ReplayInv, DeletionOwed, [Next]_vars,
                    NEW m \in DOMAIN msgs', msgs'[m].deletedBy # Nobody
             PROVE  /\ msgs'[m].deep
                    /\ \A s \in connected' :
                          Replayed(s, m)' => <<"deleted", m>> \in owed'[s]
  BY DEF DeletionOwed
<1>1. TypeOK /\ TypeOK'
  BY StepTypeOK DEF ReplayInv, PushInv
<1>2. /\ m \in DOMAIN msgs /\ Evolves(msgs[m], msgs'[m])
      /\ \/ msgs'[m].deletedBy = msgs[m].deletedBy
         \/ msgs'[m].deep /\ \E u \in User : WipeBy(u, m)
  BY <1>1, StepRows DEF RowsStep, RowStep, Fresh
<1>3. msgs'[m].deep
  BY <1>2 DEF DeletionOwed, Evolves
<1>4. ASSUME NEW s \in connected', Replayed(s, m)'
      PROVE  <<"deleted", m>> \in owed'[s]
  <2>1. s \in Sid
    BY <1>1 DEF TypeOK
  <2>2. owed[s] \subseteq owed'[s]
    BY <1>1, <2>1, StepReplays
  <2>3. CASE Replayed(s, m)
    <3>1. s \in connected
      BY <1>1, <1>4, <2>1, <2>3, StepReplays DEF ReplayInv, ReplayShape
    <3>2. CASE msgs[m].deletedBy # Nobody
      BY <1>2, <2>2, <2>3, <3>1, <3>2 DEF DeletionOwed
    <3>3. CASE msgs[m].deletedBy = Nobody
      <4>1. PICK u \in User : WipeBy(u, m)
        BY <1>2, <3>3
      <4>2. UserOf(s) = msgs[m].to
        BY <2>1, <2>3 DEF ReplayInv, ReplayShape
      <4> QED
        BY <1>2, <2>1, <3>1, <4>1, <4>2, WipeOwes
    <3> QED
      BY <3>2, <3>3
  <2>4. CASE Queries(s, m)
    <3>1. ~msgs[m].deep /\ msgs' = msgs
      BY <2>4 DEF Queries, Missed
    <3> QED
      BY <1>3, <3>1
  <2> QED
    BY <1>1, <1>4, <2>1, <2>3, <2>4, StepReplays
<1> QED
  BY <1>3, <1>4

\* A socket the replay handed a message to is told when a user deletes it,
\* though the row was loaded before the deletion and pushed after it.
THEOREM DeletionFollowsReplay == Spec => []DeletionReachesReplayedCopies
<1>1. Init => ReplayInv /\ DeletionOwed
  BY InitReplayInv DEF Init, DeletionOwed
<1>2. ReplayInv /\ DeletionOwed /\ [Next]_vars => (ReplayInv /\ DeletionOwed)'
  BY StepReplayInv, StepDeletionOwed
<1>3. ReplayInv /\ DeletionOwed => DeletionReachesReplayedCopies
  BY DEF ReplayInv, PushInv, NoPushLost, DeletionOwed, Replayed,
         DeletionReachesReplayedCopies
<1> QED
  BY <1>1, <1>2, <1>3, PTL DEF Spec

\* Only send_message owes a live delivery, of the message it stores, and a
\* recipient that is owed one makes the message delivered.
Sent(s, m) == /\ m \in DOMAIN msgs' \ DOMAIN msgs
              /\ msgs'[m].to = UserOf(s) => msgs'[m].delivered

LEMMA OwedByDispatch ==
    ASSUME NEW legs, Dispatch(legs), NEW s \in Sid, NEW e \in owed'[s] \ owed[s]
    PROVE  \E k \in DOMAIN legs : legs[k].event = e /\ s \in Audience(legs[k].to)
BY DEF Dispatch

LEMMA SendOwes ==
    ASSUME TypeOK, NEW r \in Sid, NEW v \in User, NEW copies \in Payloads,
           NEW timer \in Timers, NEW i \in {0} \cup DOMAIN sessions,
           SendMessage(r, v, i, copies, timer),
           NEW s \in Sid, NEW m, <<"live", m>> \in owed'[s] \ owed[s]
    PROVE  Sent(s, m)
<1> DEFINE u == UserOf(r)
           live == i # 0 /\ sessions[i].active
           to == IF live THEN Other(sessions[i], u) ELSE v
           id == Len(msgs) + 1
           rotate == live /\ sessions[i].count + 1 >= KEY_ROTATION_THRESHOLD
           first == << [event |-> <<"live", id>>, to |-> u],
                       [event |-> <<"live", id>>, to |-> to] >>
           rotation == << [event |-> <<"rotate", i>>, to |-> r],
                          [event |-> <<"rotate", i>>, to |-> to] >>
           legs == first \o (IF rotate THEN rotation ELSE <<>>)
           row == [from |-> u, to |-> to, copies |-> copies,
                   delivered |-> RecipientIsOnline(to), deep |-> FALSE,
                   deletedBy |-> Nobody, read |-> FALSE, hiddenFor |-> {},
                   timer |-> timer]
<1>1. u \in User /\ to \in User /\ r \in connected
  BY UserOfType, RecipientType DEF SendMessage, Serving
<1>2. msgs' = Append(msgs, row) /\ Dispatch(legs)
  BY DEF SendMessage
<1>3. PICK k \in DOMAIN legs : legs[k].event = <<"live", m>> /\ s \in Audience(legs[k].to)
  <2> HIDE DEF legs
  <2> QED
    BY <1>2, OwedByDispatch
<1>4. m = id /\ s \in connected
  <2>1. \A j \in DOMAIN legs : \/ legs[j].event = <<"live", id>> /\ legs[j].to \in {u, to}
                               \/ legs[j].event = <<"rotate", i>>
    <3> HIDE DEF u, to, id
    <3>1. CASE rotate
      BY <3>1
    <3>2. CASE ~rotate
      BY <3>2
    <3> QED
      BY <3>1, <3>2
  <2>2. <<"live", m>> # <<"rotate", i>>
    OBVIOUS
  <2> HIDE DEF legs, u, to, id
  <2>3. legs[k].event = <<"live", id>> /\ legs[k].to \in {u, to}
    BY <1>3, <2>1, <2>2
  <2> QED
    BY <1>1, <1>3, <2>3, AudienceOf
<1>5. m \in DOMAIN msgs' \ DOMAIN msgs /\ msgs'[m] = row
  <2>1. msgs \in Seq(MsgRow) /\ DOMAIN msgs = 1..Len(msgs) /\ Len(msgs) \in Nat
    BY RowIds DEF TypeOK
  <2> HIDE DEF row
  <2> QED
    BY <1>2, <1>4, <2>1
<1>6. to = UserOf(s) => RecipientIsOnline(to)
  BY <1>4 DEF RecipientIsOnline, SocketsOf
<1>7. row.to = to /\ row.delivered = RecipientIsOnline(to)
  OBVIOUS
<1> HIDE DEF row, to
<1> QED
  BY <1>5, <1>6, <1>7 DEF Sent

LEMMA StepOwesLive ==
    ASSUME TypeOK, [Next]_vars, NEW s \in Sid, NEW m,
           <<"live", m>> \in owed'[s] \ owed[s]
    PROVE  Sent(s, m)
<1>1. CASE Writes
  <2>1. ASSUME NEW k, NEW u, WipeBy(u, k)
        PROVE  Sent(s, m)
    <3> DEFINE legs == << [event |-> <<"deleted", k>>, to |-> msgs[k].from],
                          [event |-> <<"deleted", k>>, to |-> msgs[k].to] >>
    <3>1. Dispatch(legs)
      BY <2>1 DEF WipeBy
    <3>2. \A j \in DOMAIN legs : legs[j].event # <<"live", m>>
      OBVIOUS
    <3> HIDE DEF legs
    <3> QED
      BY <3>1, <3>2, OwedByDispatch
  <2>2. ASSUME NEW e, NEW w, Dispatch(<< [event |-> e, to |-> w] >>), e # <<"live", m>>
        PROVE  Sent(s, m)
    <3> DEFINE legs == << [event |-> e, to |-> w] >>
    <3>1. \A j \in DOMAIN legs : legs[j].event # <<"live", m>>
      BY <2>2
    <3> HIDE DEF legs
    <3> QED
      BY <2>2, <3>1, OwedByDispatch DEF legs
  <2>3. ASSUME NEW k \in DOMAIN msgs, NEW deep \in BOOLEAN, NEW r \in Sid,
               DeleteMessage(r, k, deep)
        PROVE  Sent(s, m)
    <3>1. <<"deleted", k>> # <<"live", m>>
      OBVIOUS
    <3> QED
      BY <2>1, <2>2, <2>3, <3>1 DEF DeleteMessage
  <2>4. ASSUME NEW k \in DOMAIN msgs, NEW deep \in BOOLEAN, NEW u \in User,
               RestDelete(u, k, deep)
        PROVE  Sent(s, m)
    BY <2>1, <2>4 DEF RestDelete
  <2>5. ASSUME NEW u \in User, NEW k \in DOMAIN msgs, MarkRead(u, k)
        PROVE  Sent(s, m)
    <3>1. <<"read", k>> # <<"live", m>>
      OBVIOUS
    <3> QED
      BY <2>2, <2>5, <3>1 DEF MarkRead
  <2>6. ASSUME NEW u \in User, NEW v \in User, CreateSession(u, v)
        PROVE  Sent(s, m)
    <3>1. <<"request", Len(sessions) + 1>> # <<"live", m>>
      OBVIOUS
    <3> QED
      BY <2>2, <2>6, <3>1 DEF CreateSession
  <2>7. ASSUME NEW u \in User, NEW i \in DOMAIN sessions, UpdateSession(u, i)
        PROVE  Sent(s, m)
    <3>1. <<"ready", i>> # <<"live", m>>
      OBVIOUS
    <3> QED
      BY <2>2, <2>7, <3>1 DEF UpdateSession
  <2> QED
    BY <1>1, <2>3, <2>4, <2>5, <2>6, <2>7, SendOwes DEF Writes
<1>2. CASE ~Writes
  <2>1. \A r \in Sid : Connect(r) \/ ConnectStep(r) \/ Disconnect(r) => UNCHANGED owed
    BY DEF Connect, ConnectStep, QuerySessions, AskPending, PushMissed, Disconnect
  <2>2. \A t \in tasks : \A r \in t.todo : Emit(t, r) => UNCHANGED owed
    BY DEF Emit
  <2>3. SweepStep \/ SweepAbort \/ Restart \/ (\E k \in DOMAIN msgs : Expire(k))
            => UNCHANGED owed
    BY DEF SweepStep, SweepQuery, SweepCommit, SweepNotify, SweepAbort, Restart, Expire
  <2>4. UNCHANGED owed
    BY <1>2, <2>1, <2>2, <2>3 DEF Next, Writes, vars
  <2> QED
    BY <2>4
<1> QED
  BY <1>1, <1>2

\* What was owed live to the recipient is delivered and not the replay's.
LiveNotReplayed ==
    \A s \in Sid : \A m : <<"live", m>> \in owed[s] =>
        /\ m \in DOMAIN msgs
        /\ msgs[m].to = UserOf(s) => /\ msgs[m].delivered
                                     /\ \A r \in Sid : ~Replayed(r, m)

LEMMA StepLiveNotReplayed == ReplayInv /\ LiveNotReplayed /\ [Next]_vars => LiveNotReplayed'
<1> SUFFICES ASSUME ReplayInv, LiveNotReplayed, [Next]_vars,
                    NEW s \in Sid, NEW m, <<"live", m>> \in owed'[s]
             PROVE  /\ m \in DOMAIN msgs'
                    /\ msgs'[m].to = UserOf(s) => /\ msgs'[m].delivered
                                                  /\ \A r \in Sid : ~Replayed(r, m)'
  BY DEF LiveNotReplayed
<1>1. TypeOK
  BY DEF ReplayInv, PushInv
<1>2. \A r \in Sid : Replayed(r, m)' =>
          Replayed(r, m) \/ (m \in DOMAIN msgs /\ ~msgs[m].delivered)
  BY <1>1, StepReplays DEF Queries, Missed
<1>3. CASE <<"live", m>> \in owed[s]
  <2>1. m \in DOMAIN msgs /\ m \in DOMAIN msgs' /\ Evolves(msgs[m], msgs'[m])
    BY <1>1, <1>3, StepRows DEF LiveNotReplayed, RowsStep, RowStep
  <2> QED
    BY <1>2, <1>3, <2>1 DEF LiveNotReplayed, Evolves
<1>4. CASE <<"live", m>> \notin owed[s]
  <2>1. /\ m \in DOMAIN msgs' \ DOMAIN msgs
        /\ msgs'[m].to = UserOf(s) => msgs'[m].delivered
    BY <1>1, <1>4, StepOwesLive DEF Sent
  <2>2. \A r \in Sid : ~Replayed(r, m)
    BY <2>1 DEF ReplayInv, ReplayShape
  <2> QED
    BY <1>2, <2>1, <2>2
<1> QED
  BY <1>3, <1>4

\* A message stored while a socket of the recipient was in the registry goes
\* out live only: no connect handler, whenever it queried, replays it.
THEOREM LiveDeliveryExcludesReplay == Spec => []OnlineNeverReplayed
<1>1. Init => ReplayInv /\ LiveNotReplayed
  BY InitReplayInv DEF Init, LiveNotReplayed
<1>2. ReplayInv /\ LiveNotReplayed /\ [Next]_vars => (ReplayInv /\ LiveNotReplayed)'
  BY StepReplayInv, StepLiveNotReplayed
<1>3. ReplayInv /\ LiveNotReplayed => OnlineNeverReplayed
  BY DEF LiveNotReplayed, Replayed, OnlineNeverReplayed
<1> QED
  BY <1>1, <1>2, <1>3, PTL DEF Spec
=============================================================================
