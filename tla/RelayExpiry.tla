----------------------------- MODULE RelayExpiry -----------------------------
(* The self-destruct job against the handlers: a message is wiped only after *)
(* every open socket it was pushed to live was told, although the job runs   *)
(* in its own thread, fails half-way and starts over, and sockets come and   *)
(* go between its notices and its commit.                                    *)
EXTENDS RelayConnect

USE OwnerAssumption, DeviceOfAssumption, NamesAssumption, TimersAssumption,
    LimitsAssumption

----------------------------------------------------------------------------
(* Where the live pushes of a message go *)

\* A live push is addressed to a party of a stored message whose time has not
\* run out; rows is the messages table.
LegOK(rows, event, to) ==
    \A m : event = <<"live", m>> =>
        /\ m \in DOMAIN rows /\ rows[m].timer # "due"
        /\ to \in User /\ to \in Participants(rows[m])

TaskOK(rows, t) ==
    /\ \A s \in t.todo : LegOK(rows, t.event, UserOf(s))
    /\ \A k \in DOMAIN t.rest : LegOK(rows, t.rest[k].event, t.rest[k].to)

LEMMA BeginOK ==
    ASSUME NEW rows, connected \subseteq Sid, NEW legs \in Seq(Leg),
           \A k \in DOMAIN legs : LegOK(rows, legs[k].event, legs[k].to),
           NEW t \in Begin(legs)
    PROVE  TaskOK(rows, t)
<1> DEFINE heard == {k \in DOMAIN legs : Audience(legs[k].to) # {}}
           first == CHOOSE k \in heard : \A j \in heard : k <= j
           rest == SubSeq(legs, first + 1, Len(legs))
<1>1. /\ DOMAIN legs = 1..Len(legs) /\ Len(legs) \in Nat
      /\ heard # {}
  <2>1. heard = {} => Begin(legs) = {}
    BY DEF Begin
  <2> HIDE DEF heard
  <2> QED
    BY <2>1
<1>2. first \in DOMAIN legs
  <2>1. heard \subseteq Nat /\ heard \subseteq DOMAIN legs
    BY <1>1
  <2>2. first \in heard
    <3> HIDE DEF heard
    <3> QED BY <1>1, <2>1, NatMin
  <2> QED
    BY <2>1, <2>2
<1>3. t.event = legs[first].event /\ t.todo = Audience(legs[first].to) /\ t.rest = rest
  <2> DEFINE t0 == [event |-> legs[first].event, todo |-> Audience(legs[first].to),
                    rest |-> rest]
  <2>1. Begin(legs) = {t0}
    BY <1>1 DEF Begin
  <2>2. t = t0
    <3> HIDE DEF t0
    <3> QED
      BY <2>1
  <2> QED
    BY <2>2
<1> HIDE DEF first, heard
<1>4. /\ rest \in Seq(Leg) /\ Len(rest) = Len(legs) - first
      /\ \A i \in 1..Len(rest) : rest[i] = legs[first + i]
  BY <1>2, AfterLeg
<1>5. \A i \in DOMAIN rest : rest[i] = legs[first + i] /\ first + i \in DOMAIN legs
  <2> HIDE DEF rest
  <2> QED
    BY <1>1, <1>2, <1>4
<1> HIDE DEF rest
<1>6. \A k \in DOMAIN t.rest : LegOK(rows, t.rest[k].event, t.rest[k].to)
  BY <1>3, <1>5
<1>7. ASSUME NEW s \in t.todo
      PROVE  LegOK(rows, t.event, UserOf(s))
  <2>1. LegOK(rows, t.event, legs[first].to) /\ s \in Audience(legs[first].to)
    BY <1>2, <1>3
  <2>2. legs[first].to \in User => UserOf(s) = legs[first].to
    BY <2>1, AudienceOf DEF SocketsOf
  <2> QED
    BY <2>1, <2>2 DEF LegOK
<1> QED
  BY <1>6, <1>7 DEF TaskOK

\* Every writing handler addresses its pushes so.
WellAddressed == \E legs \in Seq(Leg) :
    /\ Dispatch(legs)
    /\ \A k \in DOMAIN legs : LegOK(msgs', legs[k].event, legs[k].to)

LEMMA SendAddresses ==
    ASSUME TypeOK, NEW s \in Sid, NEW v \in User, NEW copies \in Payloads,
           NEW timer \in Timers, NEW i \in {0} \cup DOMAIN sessions,
           SendMessage(s, v, i, copies, timer)
    PROVE  WellAddressed
<1> DEFINE u == UserOf(s)
           live == i # 0 /\ sessions[i].active
           to == IF live THEN Other(sessions[i], u) ELSE v
           id == Len(msgs) + 1
           rotate == live /\ sessions[i].count + 1 >= KEY_ROTATION_THRESHOLD
           first == << [event |-> <<"live", id>>, to |-> u],
                       [event |-> <<"live", id>>, to |-> to] >>
           rotation == << [event |-> <<"rotate", i>>, to |-> s],
                          [event |-> <<"rotate", i>>, to |-> to] >>
           row == [from |-> u, to |-> to, copies |-> copies,
                   delivered |-> RecipientIsOnline(to), deep |-> FALSE,
                   deletedBy |-> Nobody, read |-> FALSE, hiddenFor |-> {},
                   timer |-> timer]
<1>1. u \in User /\ to \in User /\ s \in connected /\ s \in Sid
  BY UserOfType, RecipientType DEF SendMessage, Serving
<1>2. <<"live", id>> \in Pushed
  <2>1. Len(msgs) < MaxMessages
    BY DEF SendMessage
  <2> QED
    BY <2>1, RowIds DEF MsgId, Pushed
<1>3. id \in DOMAIN msgs' /\ msgs'[id] = row
  <2>1. msgs' = Append(msgs, row)
    BY DEF SendMessage
  <2> HIDE DEF row
  <2> QED
    BY <2>1, RowIds DEF TypeOK
<1>4. /\ msgs'[id].timer # "due"
      /\ u \in Participants(msgs'[id]) /\ to \in Participants(msgs'[id])
  <2>1. row.timer = timer /\ row.from = u /\ row.to = to
    OBVIOUS
  <2> HIDE DEF row, u, to
  <2> QED
    BY <1>3, <2>1 DEF Participants
<1>5. LegOK(msgs', <<"live", id>>, u) /\ LegOK(msgs', <<"live", id>>, to)
  <2> HIDE DEF u, to, id, row
  <2> QED
    BY <1>1, <1>3, <1>4 DEF LegOK
<1>6. \A w : LegOK(msgs', <<"rotate", i>>, w)
  BY DEF LegOK
<1>7. first \in Seq(Leg)
  <2> HIDE DEF u, to, id
  <2> QED
    BY <1>1, <1>2, TwoLegs
<1>8. \A k \in DOMAIN first : LegOK(msgs', first[k].event, first[k].to)
  <2>1. /\ DOMAIN first = {1, 2}
        /\ first[1].event = <<"live", id>> /\ first[1].to = u
        /\ first[2].event = <<"live", id>> /\ first[2].to = to
    OBVIOUS
  <2> HIDE DEF first, u, to, id
  <2> QED
    BY <1>5, <2>1
<1>9. CASE rotate
  <2>1. Dispatch(first \o rotation)
    BY <1>9 DEF SendMessage
  <2>2. <<"rotate", i>> \in Pushed
    BY <1>9, RowIds DEF Pushed
  <2>3. rotation \in Seq(Leg)
    <3> HIDE DEF u, to, id
    <3> QED
      BY <1>1, <2>2, TwoLegs
  <2>4. \A k \in DOMAIN rotation : rotation[k].event = <<"rotate", i>>
    OBVIOUS
  <2> HIDE DEF first, rotation
  <2>5. \A k \in DOMAIN (first \o rotation) :
            \/ \E j \in DOMAIN first : (first \o rotation)[k] = first[j]
            \/ \E j \in DOMAIN rotation : (first \o rotation)[k] = rotation[j]
    BY <1>7, <2>3
  <2>6. first \o rotation \in Seq(Leg)
    BY <1>7, <2>3
  <2> HIDE DEF u, to, id, rotate, row
  <2>7. \A k \in DOMAIN (first \o rotation) :
            LegOK(msgs', (first \o rotation)[k].event, (first \o rotation)[k].to)
    BY <1>6, <1>8, <2>4, <2>5
  <2> QED
    BY <2>1, <2>6, <2>7 DEF WellAddressed
<1>10. CASE ~rotate
  <2>1. Dispatch(first \o <<>>)
    BY <1>10 DEF SendMessage
  <2> HIDE DEF first
  <2>2. first \o <<>> = first
    BY <1>7, ConcatEmptySeq
  <2> QED
    BY <1>7, <1>8, <2>1, <2>2 DEF WellAddressed
<1> QED
  BY <1>9, <1>10

LEMMA WritesAddress ==
    ASSUME TypeOK, Writes
    PROVE  WellAddressed \/ UNCHANGED tasks
<1>1. ASSUME NEW m \in DOMAIN msgs
      PROVE  /\ <<"deleted", m>> \in Pushed /\ <<"read", m>> \in Pushed
             /\ msgs[m].from \in User /\ msgs[m].to \in User
  <2>1. m \in MsgId /\ msgs[m] \in MsgRow
    BY RowIds
  <2> QED
    BY <2>1 DEF Pushed, MsgRow
\* Pushes that are not live are well addressed.
<1>2. ASSUME NEW e \in Pushed, \A m : e # <<"live", m>>,
             NEW w \in User \cup connected, NEW legs,
             \/ legs = << [event |-> e, to |-> w] >>
             \/ \E u \in User :
                    legs = << [event |-> e, to |-> w], [event |-> e, to |-> u] >>,
             Dispatch(legs)
      PROVE  WellAddressed
  <2>1. legs \in Seq(Leg)
    <3>1. CASE legs = << [event |-> e, to |-> w] >>
      BY <3>1, OneLeg
    <3>2. ASSUME NEW u \in User,
                 legs = << [event |-> e, to |-> w], [event |-> e, to |-> u] >>
          PROVE  legs \in Seq(Leg)
      BY <3>2, TwoLegs
    <3> QED
      BY <1>2, <3>1, <3>2
  <2>2. \A k \in DOMAIN legs : legs[k].event = e
    BY <1>2
  <2> QED
    BY <1>2, <2>1, <2>2 DEF WellAddressed, LegOK
<1>3. ASSUME NEW m \in DOMAIN msgs, NEW u \in User, WipeBy(u, m)
      PROVE  WellAddressed
  <2>1. \A k : <<"deleted", m>> # <<"live", k>>
    OBVIOUS
  <2> QED
    BY <1>1, <1>2, <1>3, <2>1 DEF WipeBy
<1>4. ASSUME NEW m \in DOMAIN msgs, NEW deep \in BOOLEAN, NEW s \in Sid,
             DeleteMessage(s, m, deep)
      PROVE  WellAddressed
  <2>1. \A k : <<"deleted", m>> # <<"live", k>>
    OBVIOUS
  <2>2. CASE deep
    BY <1>3, <1>4, <2>2, UserOfType DEF DeleteMessage
  <2>3. CASE ~deep
    BY <1>1, <1>2, <1>4, <2>1, <2>3 DEF DeleteMessage, Serving
  <2> QED
    BY <2>2, <2>3
<1>5. ASSUME NEW m \in DOMAIN msgs, NEW deep \in BOOLEAN, NEW u \in User,
             RestDelete(u, m, deep)
      PROVE  WellAddressed \/ UNCHANGED tasks
  <2>1. CASE deep
    BY <1>3, <1>5, <2>1 DEF RestDelete
  <2>2. CASE ~deep
    BY <1>5, <2>2 DEF RestDelete
  <2> QED
    BY <2>1, <2>2
<1>6. ASSUME NEW u \in User, NEW m \in DOMAIN msgs, MarkRead(u, m)
      PROVE  WellAddressed
  <2>1. \A k : <<"read", m>> # <<"live", k>>
    OBVIOUS
  <2> QED
    BY <1>1, <1>2, <1>6, <2>1 DEF MarkRead
<1>7. ASSUME NEW u \in User, NEW v \in User, CreateSession(u, v)
      PROVE  WellAddressed
  <2>1. <<"request", Len(sessions) + 1>> \in Pushed
    BY <1>7, RowIds DEF CreateSession, Pushed, SessionId
  <2>2. \A k : <<"request", Len(sessions) + 1>> # <<"live", k>>
    OBVIOUS
  <2> QED
    BY <1>2, <1>7, <2>1, <2>2 DEF CreateSession
<1>8. ASSUME NEW u \in User, NEW i \in DOMAIN sessions, UpdateSession(u, i)
      PROVE  WellAddressed
  <2>1. sessions[i] \in SessionRow /\ i \in SessionId
    BY RowIds
  <2>2. sessions[i].a \in User /\ <<"ready", i>> \in Pushed
    BY <2>1 DEF SessionRow, Pushed
  <2>3. \A k : <<"ready", i>> # <<"live", k>>
    OBVIOUS
  <2> QED
    BY <1>2, <1>8, <2>2, <2>3 DEF UpdateSession
<1> QED
  BY <1>4, <1>5, <1>6, <1>7, <1>8, SendAddresses DEF Writes

----------------------------------------------------------------------------
(* What a step does to timers and to the mark of an expired message *)

\* Wiped by the job, not by a user.
SelfDestructed(r) == r.deep /\ r.deletedBy = Nobody

Aged(m, r, q) == /\ r.timer = "due" => q.timer = "due"
                 /\ q.timer = "due" => r.timer = "due" \/ Expire(m)
                 /\ SelfDestructed(q) => \/ SelfDestructed(r)
                                         \/ SweepCommit /\ m \in sweep.batch

LEMMA StepAges ==
    ASSUME TypeOK, [Next]_vars
    PROVE  /\ \A m \in DOMAIN msgs : Aged(m, msgs[m], msgs'[m])
           /\ \A m \in DOMAIN msgs' \ DOMAIN msgs :
                  msgs'[m].timer # "due" /\ ~SelfDestructed(msgs'[m])
<1> DEFINE Goal == /\ \A m \in DOMAIN msgs : Aged(m, msgs[m], msgs'[m])
                   /\ \A m \in DOMAIN msgs' \ DOMAIN msgs :
                          msgs'[m].timer # "due" /\ ~SelfDestructed(msgs'[m])
<1> SUFFICES Goal
  OBVIOUS
<1>1. \A m \in DOMAIN msgs : msgs[m] \in MsgRow
  BY RowIds
<1>2. CASE UNCHANGED msgs
  BY <1>2 DEF Aged
<1>3. ASSUME NEW k \in DOMAIN msgs, NEW q, msgs' = [msgs EXCEPT ![k] = q],
             Aged(k, msgs[k], q)
      PROVE  Goal
  <2>1. /\ DOMAIN msgs' = DOMAIN msgs /\ msgs'[k] = q
        /\ \A m \in DOMAIN msgs \ {k} : msgs'[m] = msgs[m]
    BY <1>3
  <2> QED
    BY <1>3, <2>1 DEF Aged
<1>4. ASSUME NEW k \in DOMAIN msgs, NEW u \in User,
             WipeBy(u, k) \/ HideFor(u, k) \/ MarkRead(u, k)
      PROVE  Goal
  <2> DEFINE wiped == [Wiped(msgs[k]) EXCEPT !.deletedBy = u]
             hidden == [msgs[k] EXCEPT !.hiddenFor = msgs[k].hiddenFor \cup {u}]
             seen == [msgs[k] EXCEPT !.read = TRUE]
  <2>1. \/ msgs' = [msgs EXCEPT ![k] = wiped]
        \/ msgs' = [msgs EXCEPT ![k] = hidden]
        \/ msgs' = [msgs EXCEPT ![k] = seen]
    BY <1>4 DEF WipeBy, HideFor, MarkRead
  <2>2. wiped.timer = msgs[k].timer /\ wiped.deletedBy = u
    BY <1>1 DEF Wiped, MsgRow
  <2>3. /\ hidden.timer = msgs[k].timer /\ hidden.deletedBy = msgs[k].deletedBy
        /\ hidden.deep = msgs[k].deep
        /\ seen.timer = msgs[k].timer /\ seen.deletedBy = msgs[k].deletedBy
        /\ seen.deep = msgs[k].deep
    BY <1>1 DEF MsgRow
  <2> HIDE DEF wiped, hidden, seen
  <2>4. Aged(k, msgs[k], wiped) /\ Aged(k, msgs[k], hidden) /\ Aged(k, msgs[k], seen)
    BY <2>2, <2>3, NamesAssumption DEF Aged, SelfDestructed
  <2> HIDE DEF Goal
  <2> QED
    BY <1>3, <2>1, <2>4
<1>5. ASSUME NEW r \in Sid, NEW v \in User, NEW copies \in Payloads,
             NEW timer \in Timers, NEW i \in {0} \cup DOMAIN sessions,
             SendMessage(r, v, i, copies, timer)
      PROVE  Goal
  <2> DEFINE to == IF i # 0 /\ sessions[i].active
                   THEN Other(sessions[i], UserOf(r)) ELSE v
             row == [from |-> UserOf(r), to |-> to, copies |-> copies,
                     delivered |-> RecipientIsOnline(to), deep |-> FALSE,
                     deletedBy |-> Nobody, read |-> FALSE, hiddenFor |-> {},
                     timer |-> timer]
  <2>1. msgs' = Append(msgs, row)
    BY <1>5 DEF SendMessage
  <2>2. row.timer = timer /\ row.deep = FALSE
    OBVIOUS
  <2> HIDE DEF row
  <2>3. /\ DOMAIN msgs' = DOMAIN msgs \cup {Len(msgs) + 1}
        /\ msgs'[Len(msgs) + 1] = row
        /\ \A m \in DOMAIN msgs : msgs'[m] = msgs[m]
    BY <2>1, RowIds DEF TypeOK
  <2> QED
    BY <2>2, <2>3, TimersAssumption DEF Aged, SelfDestructed
<1>6. CASE Writes
  <2> HIDE DEF Goal
  <2>1. \A k \in DOMAIN msgs : \A deep \in BOOLEAN :
            /\ \A r \in Sid : DeleteMessage(r, k, deep) =>
                   \E u \in User : WipeBy(u, k) \/ HideFor(u, k)
            /\ \A u \in User : RestDelete(u, k, deep) => WipeBy(u, k) \/ HideFor(u, k)
    BY UserOfType DEF DeleteMessage, RestDelete
  <2>2. /\ \A u, v \in User : CreateSession(u, v) => UNCHANGED msgs
        /\ \A u \in User : \A i \in DOMAIN sessions : UpdateSession(u, i) => UNCHANGED msgs
    BY DEF CreateSession, UpdateSession
  <2> QED
    BY <1>2, <1>4, <1>5, <1>6, <2>1, <2>2 DEF Writes
<1>7. ASSUME NEW k \in DOMAIN msgs, Expire(k)
      PROVE  Goal
  <2> DEFINE q == [msgs[k] EXCEPT !.timer = "due"]
  <2>1. msgs' = [msgs EXCEPT ![k] = q]
    BY <1>7 DEF Expire
  <2>2. Aged(k, msgs[k], q)
    BY <1>1, <1>7 DEF Aged, SelfDestructed, MsgRow
  <2> HIDE DEF q, Goal
  <2> QED
    BY <1>3, <2>1, <2>2
<1>8. CASE SweepCommit
  <2>1. msgs' = [m \in DOMAIN msgs |-> IF m \in sweep.batch
                                       THEN Wiped(msgs[m]) ELSE msgs[m]]
    BY <1>8 DEF SweepCommit
  <2>2. \A m \in DOMAIN msgs : Wiped(msgs[m]).timer = msgs[m].timer
    BY <1>1 DEF Wiped, MsgRow
  <2> QED
    BY <1>8, <2>1, <2>2 DEF Aged
<1>9. ASSUME NEW s \in Sid, CommitReplay(s)
      PROVE  Goal
  <2>1. \A m \in DOMAIN msgs : /\ Delivered(msgs[m]).timer = msgs[m].timer
                               /\ Delivered(msgs[m]).deep = msgs[m].deep
                               /\ Delivered(msgs[m]).deletedBy = msgs[m].deletedBy
    BY <1>1 DEF Delivered, MsgRow
  <2> QED
    BY <1>9, <2>1 DEF CommitReplay, Aged, SelfDestructed
<1>10. CASE ~Writes
  <2> HIDE DEF Goal
  <2>1. \A r \in Sid : Connect(r) \/ ConnectStep(r) \/ Disconnect(r)
                           => UNCHANGED msgs \/ CommitReplay(r)
    BY DEF Connect, ConnectStep, QuerySessions, AskPending, PushMissed, Disconnect, tables
  <2>2. \A t \in tasks : \A r \in t.todo : Emit(t, r) => UNCHANGED msgs
    BY DEF Emit, tables
  <2>3. SweepStep \/ SweepAbort \/ Restart => UNCHANGED msgs \/ SweepCommit
    BY DEF SweepStep, SweepQuery, SweepNotify, SweepAbort, Restart, tables
  <2> QED
    BY <1>2, <1>7, <1>8, <1>9, <1>10, <2>1, <2>2, <2>3 DEF Next, Writes, vars, tables
<1> HIDE DEF Goal
<1> QED
  BY <1>6, <1>10

----------------------------------------------------------------------------
(* The job's notices *)

\* A live push reaches a wire only from a task, which addresses it well.
LEMMA LiveArrives ==
    ASSUME TypeOK, \A t \in tasks : TaskOK(msgs, t), [Next]_vars,
           NEW s \in Sid, NEW m, <<"live", m>> \in wire'[s] \ wire[s]
    PROVE  /\ m \in DOMAIN msgs /\ msgs[m].timer # "due"
           /\ UserOf(s) \in Participants(msgs[m])
           /\ UNCHANGED <<msgs, sweep>>
<1> DEFINE Goal == /\ m \in DOMAIN msgs /\ msgs[m].timer # "due"
                   /\ UserOf(s) \in Participants(msgs[m])
                   /\ UNCHANGED <<msgs, sweep>>
<1> SUFFICES Goal
  OBVIOUS
<1>1. wire \in [Sid -> SUBSET Event]
  BY DEF TypeOK
<1>2. \A r \in Sid : \A e : Push(r, e) =>
          wire'[s] = wire[s] \/ (r = s /\ wire'[s] = wire[s] \cup {e})
  BY <1>1 DEF Push
<1>3. ASSUME NEW t \in tasks, NEW r \in t.todo, Emit(t, r)
      PROVE  Goal
  <2>1. r \in Sid
    BY DEF TypeOK, Task
  <2>2. r = s /\ t.event = <<"live", m>>
    BY <1>2, <1>3, <2>1 DEF Emit
  <2>3. LegOK(msgs, <<"live", m>>, UserOf(s))
    BY <2>2 DEF TaskOK
  <2>4. UNCHANGED <<msgs, sweep>>
    BY <1>3 DEF Emit, tables
  <2> QED
    BY <2>3, <2>4 DEF LegOK
<1> HIDE DEF Goal
<1>4. ASSUME wire'[s] = wire[s] \/ \E e : e[1] # "live" /\ wire'[s] = wire[s] \cup {e}
      PROVE  Goal
  BY <1>4
<1>5. \A r \in Sid : Connect(r) \/ Disconnect(r) \/ QuerySessions(r) => Goal
  BY <1>4 DEF Connect, Disconnect, QuerySessions
<1>6. ASSUME NEW r \in Sid, NEW i, AskPending(r, i) \/ PushMissed(r, i)
      PROVE  Goal
  <2>1. /\ <<"request", i>>[1] # "live" /\ <<"replay", i>>[1] # "live"
        /\ Push(r, <<"request", i>>) \/ Push(r, <<"replay", i>>)
    BY <1>6 DEF AskPending, PushMissed
  <2> QED
    BY <1>2, <1>4, <2>1
<1>7. ASSUME NEW k, SweepNotify(k)
      PROVE  Goal
  <2>1. \/ wire'[s] = wire[s]
        \/ wire'[s] = wire[s] \cup {<<"deleted", k>>} /\ <<"deleted", k>>[1] # "live"
    BY <1>7 DEF SweepNotify
  <2> QED
    BY <1>4, <2>1
<1>8. CASE Writes
  BY <1>4, <1>8, WritesFrame
<1>9. SweepQuery \/ SweepCommit \/ SweepAbort \/ Restart
          \/ (\E k \in DOMAIN msgs : Expire(k)) => Goal
  BY <1>4 DEF SweepQuery, SweepCommit, SweepAbort, Restart, Expire
<1>10. CASE UNCHANGED vars
  BY <1>4, <1>10 DEF vars
<1> QED
  BY <1>3, <1>5, <1>6, <1>7, <1>8, <1>9, <1>10 DEF Next, Writes, ConnectStep, SweepStep

\* What is still to be pushed stays well addressed: a timer does not run out
\* while the message's own send is under way.
LEMMA StepTasksOK ==
    ASSUME TypeOK, \A t \in tasks : TaskOK(msgs, t), [Next]_vars
    PROVE  \A t \in tasks' : TaskOK(msgs', t)
<1>1. connected \subseteq Sid /\ tasks \subseteq Task
  BY DEF TypeOK
\* A task none of whose messages expires in this step
<1>2. ASSUME NEW t \in tasks, \A m \in DOMAIN msgs : ~Expire(m)
      PROVE  TaskOK(msgs', t)
  <2>1. \A e, to : LegOK(msgs, e, to) => LegOK(msgs', e, to)
    <3>1. \A m \in DOMAIN msgs : /\ m \in DOMAIN msgs'
                                 /\ Participants(msgs'[m]) = Participants(msgs[m])
      BY StepRows DEF RowsStep, RowStep, Evolves, Participants
    <3>2. \A m \in DOMAIN msgs : msgs'[m].timer = "due" => msgs[m].timer = "due"
      BY <1>2, StepAges DEF Aged
    <3> QED
      BY <3>1, <3>2 DEF LegOK
  <2>2. TaskOK(msgs, t)
    OBVIOUS
  <2> QED
    BY <2>1, <2>2 DEF TaskOK
<1>3. ASSUME NEW k \in DOMAIN msgs, Expire(k)
      PROVE  \A t \in tasks' : TaskOK(msgs', t)
  <2> SUFFICES ASSUME NEW t \in tasks
               PROVE  TaskOK(msgs', t)
    BY <1>3 DEF Expire
  <2>1. /\ DOMAIN msgs' = DOMAIN msgs
        /\ \A m \in DOMAIN msgs \ {k} : msgs'[m] = msgs[m]
    BY <1>3 DEF Expire
  <2>2. \A e, to : e # <<"live", k>> /\ LegOK(msgs, e, to) => LegOK(msgs', e, to)
    BY <2>1 DEF LegOK
  <2>3. /\ t.event # <<"live", k>>
        /\ \A j \in DOMAIN t.rest : t.rest[j].event # <<"live", k>>
    BY <1>3 DEF Expire
  <2>4. TaskOK(msgs, t)
    OBVIOUS
  <2> QED
    BY <2>2, <2>3, <2>4 DEF TaskOK
<1>4. ASSUME UNCHANGED tasks, \A m \in DOMAIN msgs : ~Expire(m)
      PROVE  \A t \in tasks' : TaskOK(msgs', t)
  BY <1>2, <1>4
<1>5. ASSUME NEW t \in tasks, NEW s \in t.todo, Emit(t, s)
      PROVE  \A u \in tasks' : TaskOK(msgs', u)
  <2>1. msgs' = msgs /\ TaskOK(msgs, t) /\ t \in Task
    BY <1>1, <1>5 DEF Emit, tables
  <2>2. t.rest \in Seq(Leg) /\ t.todo \in SUBSET Sid
    BY <2>1 DEF Task
  <2>3. \A u \in Begin(t.rest) : TaskOK(msgs, u)
    BY <1>1, <2>1, <2>2, BeginOK DEF TaskOK
  <2> DEFINE next == [t EXCEPT !.todo = t.todo \ {s}]
  <2>4. TaskOK(msgs, next)
    <3>1. next.event = t.event /\ next.rest = t.rest /\ next.todo \subseteq t.todo
      BY <2>1 DEF Task
    <3> HIDE DEF next
    <3> QED
      BY <2>1, <3>1 DEF TaskOK
  <2>5. tasks' \subseteq tasks \cup Begin(t.rest) \cup {next}
    BY <1>5 DEF Emit
  <2> HIDE DEF next
  <2> QED
    BY <2>1, <2>3, <2>4, <2>5
<1>6. CASE Writes /\ \A m \in DOMAIN msgs : ~Expire(m)
  <2>1. ASSUME NEW legs \in Seq(Leg), Dispatch(legs),
               \A k \in DOMAIN legs : LegOK(msgs', legs[k].event, legs[k].to)
        PROVE  \A t \in tasks' : TaskOK(msgs', t)
    <3>1. \A t \in Begin(legs) : TaskOK(msgs', t)
      BY <1>1, <2>1, BeginOK
    <3> QED
      BY <1>2, <1>6, <2>1, <3>1 DEF Dispatch
  <2> QED
    BY <1>4, <1>6, <2>1, WritesAddress DEF WellAddressed
<1>7. CASE ~Writes
  <2>1. \A r \in Sid : Connect(r) \/ ConnectStep(r) \/ Disconnect(r) => UNCHANGED tasks
    BY DEF Connect, ConnectStep, QuerySessions, AskPending, PushMissed, Disconnect
  <2>2. SweepStep \/ SweepAbort => UNCHANGED tasks
    BY DEF SweepStep, SweepQuery, SweepCommit, SweepNotify, SweepAbort
  <2>3. Restart => tasks' = {}
    BY DEF Restart
  <2> QED
    BY <1>3, <1>4, <1>5, <1>7, <2>1, <2>2, <2>3 DEF Next, Writes, vars
<1> QED
  BY <1>3, <1>6, <1>7

\* The socket was told if the message was pushed to it live.
Heard(s, m) == <<"live", m>> \in wire[s] => <<"deleted", m>> \in wire[s]

JobOK ==
    /\ sweep.notified \subseteq sweep.batch
    /\ \A m \in sweep.batch : m \in DOMAIN msgs /\ msgs[m].timer = "due"
    /\ \A m \in sweep.notified : \A s \in connected : Heard(s, m)

WireOK ==
    \A s \in Sid : \A m : <<"live", m>> \in wire[s] =>
        /\ handler[s].pc # "new"
        /\ m \in DOMAIN msgs /\ UserOf(s) \in Participants(msgs[m])

ExpiryInv ==
    /\ PushInv
    /\ \A t \in tasks : TaskOK(msgs, t)
    /\ WireOK
    /\ JobOK
    /\ \A m \in DOMAIN msgs : SelfDestructed(msgs[m]) =>
           msgs[m].timer = "due" /\ \A s \in connected : Heard(s, m)

\* Who heard of a message that is due has heard of it after the step.
LEMMA HeardStays ==
    ASSUME ExpiryInv, [Next]_vars, NEW m \in DOMAIN msgs, msgs[m].timer = "due",
           NEW s \in Sid, s \in connected', s \in connected => Heard(s, m)
    PROVE  Heard(s, m)'
<1>1. TypeOK /\ \A t \in tasks : TaskOK(msgs, t)
  BY DEF ExpiryInv, PushInv
<1>2. <<"live", m>> \in wire'[s] => <<"live", m>> \in wire[s]
  BY <1>1, LiveArrives
<1>3. s \in connected \/ handler[s].pc = "new"
  BY <1>1, StepReplays
<1> QED
  BY <1>1, <1>2, <1>3, WireGrows DEF Heard, ExpiryInv, WireOK

LEMMA StepWireOK == ExpiryInv /\ [Next]_vars => WireOK'
<1> SUFFICES ASSUME ExpiryInv, [Next]_vars, NEW s \in Sid, NEW m,
                    <<"live", m>> \in wire'[s]
             PROVE  /\ handler'[s].pc # "new"
                    /\ m \in DOMAIN msgs' /\ UserOf(s) \in Participants(msgs'[m])
  BY DEF WireOK
<1>1. TypeOK /\ Unborn /\ WireOK /\ \A t \in tasks : TaskOK(msgs, t)
  BY DEF ExpiryInv, PushInv
<1>2. m \in DOMAIN msgs /\ UserOf(s) \in Participants(msgs[m])
  BY <1>1, LiveArrives DEF WireOK
<1>3. m \in DOMAIN msgs' /\ Participants(msgs'[m]) = Participants(msgs[m])
  BY <1>1, <1>2, StepRows DEF RowsStep, RowStep, Evolves, Participants
<1>4. handler'[s].pc # "new"
  <2> SUFFICES ASSUME handler'[s].pc = "new"
               PROVE  FALSE
    OBVIOUS
  <2>1. handler[s].pc = "new"
    BY <1>1, StepReplays
  <2>2. wire'[s] = wire[s]
    BY <1>1, <2>1, StepReplays DEF Unborn
  <2> QED
    BY <1>1, <2>1, <2>2 DEF WireOK
<1> QED
  BY <1>2, <1>3, <1>4

\* The moves of the job.
LEMMA SweepMoves ==
    ASSUME [Next]_vars
    PROVE  \/ UNCHANGED sweep
           \/ sweep' = Idle
           \/ sweep'.batch = Expired /\ sweep'.notified = {} /\ UNCHANGED msgs
           \/ \E m \in DOMAIN msgs : SweepNotify(m)
<1>1. Writes => UNCHANGED sweep
  BY WritesFrame
<1>2. \A r \in Sid : Connect(r) \/ ConnectStep(r) \/ Disconnect(r) => UNCHANGED sweep
  BY DEF Connect, ConnectStep, QuerySessions, AskPending, PushMissed, Disconnect
<1>3. \A t \in tasks : \A r \in t.todo : Emit(t, r) => UNCHANGED sweep
  BY DEF Emit
<1>4. /\ SweepCommit \/ SweepAbort \/ Restart => sweep' = Idle
      /\ \A m \in DOMAIN msgs : Expire(m) => UNCHANGED sweep
      /\ SweepQuery => /\ sweep'.batch = Expired /\ sweep'.notified = {}
                       /\ UNCHANGED msgs
  BY DEF SweepCommit, SweepAbort, Restart, Expire, SweepQuery, tables
<1> QED
  BY <1>1, <1>2, <1>3, <1>4 DEF Next, Writes, SweepStep, vars

LEMMA StepJobOK == RegistryShared /\ ExpiryInv /\ [Next]_vars => JobOK'
<1> SUFFICES ASSUME RegistryShared, ExpiryInv, [Next]_vars
             PROVE  JobOK'
  OBVIOUS
<1>1. /\ TypeOK /\ JobOK /\ WireOK /\ TypeOK'
      /\ sweep \in [running: BOOLEAN, batch: SUBSET MsgId, notified: SUBSET MsgId]
      /\ wire \in [Sid -> SUBSET Event]
      /\ connected \subseteq Sid /\ connected' \subseteq Sid
  BY StepTypeOK DEF ExpiryInv, PushInv, TypeOK
<1>2. \A m \in DOMAIN msgs : msgs[m].timer = "due" =>
          m \in DOMAIN msgs' /\ msgs'[m].timer = "due"
  BY <1>1, StepRows, StepAges DEF RowsStep, Aged
<1>3. \A m \in sweep.notified : \A s \in connected' : Heard(s, m)'
  BY <1>1, HeardStays DEF JobOK
<1>4. CASE UNCHANGED sweep
  BY <1>1, <1>2, <1>3, <1>4 DEF JobOK
<1>5. CASE sweep' = Idle
  BY <1>5 DEF Idle, JobOK
<1>6. CASE sweep'.batch = Expired /\ sweep'.notified = {} /\ UNCHANGED msgs
  BY <1>6 DEF Expired, JobOK
<1>7. ASSUME NEW k \in DOMAIN msgs, SweepNotify(k)
      PROVE  JobOK'
  <2>1. /\ k \in sweep.batch /\ UNCHANGED <<connected, msgs>>
        /\ sweep' = [sweep EXCEPT !.notified = sweep.notified \cup {k}]
        /\ wire' = [s \in Sid |-> IF s \in Listening(msgs[k])
                                  THEN wire[s] \cup {<<"deleted", k>>} ELSE wire[s]]
    BY <1>7 DEF SweepNotify, tables
  <2>2. sweep'.batch = sweep.batch /\ sweep'.notified = sweep.notified \cup {k}
    BY <1>1, <2>1
  <2>3. ASSUME NEW s \in connected'
        PROVE  Heard(s, k)'
    <3>1. s \in Sid /\ s \in connected
      BY <1>1, <2>1
    <3>2. CASE UserOf(s) \in Participants(msgs[k])
      BY <2>1, <3>1, <3>2 DEF Listening, Heard
    <3>3. CASE UserOf(s) \notin Participants(msgs[k])
      <4>1. <<"live", k>> \notin wire[s]
        BY <1>1, <3>1, <3>3 DEF WireOK
      <4>2. <<"live", k>> # <<"deleted", k>>
        OBVIOUS
      <4> QED
        BY <2>1, <3>1, <4>1, <4>2 DEF Heard
    <3> QED
      BY <3>2, <3>3
  <2> QED
    BY <1>1, <1>3, <2>1, <2>2, <2>3 DEF JobOK
<1> QED
  BY <1>4, <1>5, <1>6, <1>7, SweepMoves

LEMMA StepExpiryInv == RegistryShared /\ ExpiryInv /\ [Next]_vars => ExpiryInv'
<1> SUFFICES ASSUME RegistryShared, ExpiryInv, [Next]_vars
             PROVE  ExpiryInv'
  OBVIOUS
<1>1. /\ PushInv /\ TypeOK /\ TypeOK' /\ JobOK
      /\ \A t \in tasks : TaskOK(msgs, t)
  BY StepTypeOK DEF ExpiryInv, PushInv
<1>2. PushInv' /\ WireOK' /\ JobOK' /\ \A t \in tasks' : TaskOK(msgs', t)
  BY <1>1, StepPushInv, StepWireOK, StepJobOK, StepTasksOK
<1>3. ASSUME NEW m \in DOMAIN msgs', SelfDestructed(msgs'[m])
      PROVE  msgs'[m].timer = "due" /\ \A s \in connected' : Heard(s, m)'
  <2>1. /\ m \in DOMAIN msgs /\ Aged(m, msgs[m], msgs'[m])
    BY <1>1, <1>3, StepAges
  <2>2. msgs[m].timer = "due" /\ \A s \in connected : Heard(s, m)
    <3>1. CASE SelfDestructed(msgs[m])
      BY <2>1, <3>1 DEF ExpiryInv
    <3>2. CASE SweepCommit /\ m \in sweep.batch
      BY <1>1, <3>2 DEF SweepCommit, JobOK
    <3> QED
      BY <1>3, <2>1, <3>1, <3>2 DEF Aged
  <2>3. \A s \in connected' : Heard(s, m)'
    <3>1. connected' \subseteq Sid
      BY <1>1 DEF TypeOK
    <3> QED
      BY <2>1, <2>2, <3>1, HeardStays
  <2> QED
    BY <2>1, <2>2, <2>3 DEF Aged
<1> QED
  BY <1>1, <1>2, <1>3 DEF ExpiryInv

\* The job wipes what it has announced: no open socket keeps a message that
\* self-destructed on the server without having been told, provided the job's
\* thread sees the registry of the worker (it does not under preload_app).
THEOREM ExpiryIsAnnounced == RegistryShared => (Spec => []LiveClientsToldOfExpiry)
<1> SUFFICES ASSUME RegistryShared
             PROVE  Spec => []LiveClientsToldOfExpiry
  OBVIOUS
<1>1. Init => ExpiryInv
  <2> SUFFICES ASSUME Init
               PROVE  ExpiryInv
    OBVIOUS
  <2>1. PushInv
    BY InitReplayInv DEF ReplayInv
  <2> QED
    BY <2>1 DEF Init, Idle, ExpiryInv, WireOK, JobOK
<1>2. ExpiryInv /\ [Next]_vars => ExpiryInv'
  BY StepExpiryInv
<1>3. ExpiryInv => LiveClientsToldOfExpiry
  BY DEF ExpiryInv, SelfDestructed, Heard, LiveClientsToldOfExpiry
<1> QED
  BY <1>1, <1>2, <1>3, PTL DEF Spec

=============================================================================
