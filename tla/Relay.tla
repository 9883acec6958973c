------------------------------- MODULE Relay -------------------------------
(***************************************************************************)
(* The SecureIM server as a relay of ciphertexts (src/app/chat.py and      *)
(* src/app/scheduler.py): the registry of live sockets, the messages and   *)
(* the chat_sessions tables, the Socket.IO handlers, the REST handlers     *)
(* that write a table and push an event, and the self-destruct job.        *)
(*                                                                         *)
(* One asyncio loop runs the handlers.  Database calls are synchronous, so *)
(* a handler runs without interruption from one `await sio.emit(...)` to   *)
(* the next, and every such await is a step boundary here.  What a handler *)
(* still has to push after its commit is a record of `tasks`; the connect  *)
(* handler, which reads the database between awaits, has its own record.   *)
(* The self-destruct job is an APScheduler thread and interleaves freely.  *)
(***************************************************************************)
EXTENDS Integers, Sequences, FiniteSets

CONSTANTS
    User, Device, Sid,      \* accounts, registered devices, socket ids
    Owner,                  \* device -> the user it belongs to
    DeviceOf,               \* socket -> the device in the JWT it presents
    Nobody,                 \* deep_deleted_by = NULL
    Payloads,               \* sets of devices a sender encrypts copies for
    Timers,                 \* which of "off", "running" a sender may choose
    Senders, Deleters, Readers, Callers,    \* users that send, delete, mark
                            \* read and open sessions in this instance
    REPLAY_LIMIT,           \* .limit(200) of the missed-message query
    KEY_ROTATION_THRESHOLD, \* settings.KEY_ROTATION_THRESHOLD
    RegistryShared,         \* the job's thread sees the worker's registry
    MaxMessages, MaxSessions, MaxInFlight, MaxFaults    \* bounds

ASSUME OwnerAssumption == Owner \in [Device -> User]
ASSUME DeviceOfAssumption == DeviceOf \in [Sid -> Device]
ASSUME NamesAssumption == User \cap Sid = {} /\ Nobody \notin User
ASSUME PayloadsAssumption == Payloads \subseteq SUBSET Device
ASSUME TimersAssumption == Timers \subseteq {"off", "running"}
ASSUME ActorsAssumption == Senders \cup Deleters \cup Readers \cup Callers \subseteq User
ASSUME LimitsAssumption ==
    /\ REPLAY_LIMIT \in Nat /\ KEY_ROTATION_THRESHOLD \in Nat
    /\ MaxMessages \in Nat /\ MaxSessions \in Nat
    /\ MaxInFlight \in Nat /\ MaxFaults \in Nat
    /\ RegistryShared \in BOOLEAN

VARIABLES
    connected,  \* keys of _connected_sids
    announced,  \* users whose last presence broadcast was user_online
    handler,    \* the connect handler of each socket
    msgs,       \* table messages, indexed by primary key
    sessions,   \* table chat_sessions, indexed by primary key
    tasks,      \* handlers past their commit, with pushes still to make
    sweep,      \* the run of cleanup_expired_messages in progress
    wire,       \* events written to each socket
    owed,       \* history: events a commit had to push to each socket
    faults      \* restarts and failed sweeps so far

tables == <<msgs, sessions>>
vars == <<connected, announced, handler, msgs, sessions, tasks, sweep,
          wire, owed, faults>>

----------------------------------------------------------------------------
(* Rows, events and handler records *)

MsgId == 1..MaxMessages
SessionId == 1..MaxSessions

MsgRow == [from: User, to: User, copies: SUBSET Device, delivered: BOOLEAN,
           deep: BOOLEAN, deletedBy: User \cup {Nobody}, read: BOOLEAN,
           hiddenFor: SUBSET User, timer: {"off", "running", "due"}]

SessionRow == [a: User, b: User, active: BOOLEAN, answered: BOOLEAN, count: Nat]

\* What _emit_to_user carries, and what connect writes to its own socket
Pushed == ({"live", "deleted", "read"} \X MsgId)
             \cup ({"request", "ready", "rotate"} \X SessionId)
Event == Pushed \cup ({"replay"} \X MsgId)

\* One _emit_to_user (to a user) or one room=sid emit (to a socket)
Leg == [event: Pushed, to: User \cup Sid]
Task == [event: Pushed, todo: SUBSET Sid, rest: Seq(Leg)]

Handler == [pc: {"new", "accepted", "asking", "pushing", "done"},
            asks: SUBSET SessionId, backlog: SUBSET MsgId,
            queue: SUBSET MsgId, full: BOOLEAN]
At(pc) == [pc |-> pc, asks |-> {}, backlog |-> {}, queue |-> {}, full |-> FALSE]

\* Mutant: the other field of the registry entry is read.
DeviceIdOf(s) == DeviceOf[s]

UserOf(s) == Owner[DeviceOf[s]]
SocketsOf(u) == {s \in connected : UserOf(s) = u}
Other(sess, u) == IF sess.a = u THEN sess.b ELSE sess.a
Participants(r) == {r.from, r.to}
Oldest(S, n) == {m \in S : Cardinality({k \in S : k < m}) < n}

----------------------------------------------------------------------------
(* Pushing events.  A leg's audience is the registry snapshot taken when   *)
(* the leg starts; a leg nobody listens to is over at once.                *)

\* Mutant: sockets whose connect handler has not returned are not listed.
AudienceReady(to) ==
    IF to \in Sid THEN {to} ELSE {s \in SocketsOf(to) : handler[s].pc = "done"}

Audience(to) == IF to \in Sid THEN {to} ELSE SocketsOf(to)

Begin(legs) ==
    LET heard == {k \in DOMAIN legs : Audience(legs[k].to) # {}}
        first == CHOOSE k \in heard : \A j \in heard : k <= j
    IN  IF heard = {} THEN {}
        ELSE {[event |-> legs[first].event, todo |-> Audience(legs[first].to),
               rest |-> SubSeq(legs, first + 1, Len(legs))]}

Dispatch(legs) ==
    /\ Cardinality(tasks) < MaxInFlight
    /\ tasks' = tasks \cup Begin(legs)
    /\ owed' = [s \in Sid |-> owed[s] \cup
          {legs[k].event : k \in {j \in DOMAIN legs : s \in Audience(legs[j].to)}}]

\* Writing to a socket that is gone has no effect
Push(s, event) ==
    wire' = IF s \in connected THEN [wire EXCEPT ![s] = @ \cup {event}] ELSE wire

\* Mutant: a closed socket makes the emit fail and ends the handler.
EmitFailingOnClosed(t, s) ==
    /\ s \in t.todo
    /\ Push(s, t.event)
    /\ tasks' = (tasks \ {t}) \cup
           (IF s \notin connected THEN {}
            ELSE IF t.todo = {s} THEN Begin(t.rest)
            ELSE {[t EXCEPT !.todo = @ \ {s}]})
    /\ UNCHANGED <<connected, announced, handler, tables, sweep, owed, faults>>

Emit(t, s) ==
    /\ s \in t.todo
    /\ Push(s, t.event)
    /\ tasks' = (tasks \ {t}) \cup (IF t.todo = {s} THEN Begin(t.rest)
                                    ELSE {[t EXCEPT !.todo = @ \ {s}]})
    /\ UNCHANGED <<connected, announced, handler, tables, sweep, owed, faults>>

----------------------------------------------------------------------------
(* connect: register, announce, then replay what the user missed *)

Connect(s) ==
    /\ handler[s].pc = "new"
    /\ connected' = connected \cup {s}
    /\ announced' = announced \cup {UserOf(s)}
    /\ handler' = [handler EXCEPT ![s] = At("accepted")]
    /\ UNCHANGED <<tables, tasks, sweep, wire, owed, faults>>

PendingSessions(u) ==
    {i \in DOMAIN sessions : /\ sessions[i].b = u
                             /\ sessions[i].active
                             /\ ~sessions[i].answered}

\* Mutant: the delivered_at filter is gone.
MissedEvenDelivered(u) == {m \in DOMAIN msgs : msgs[m].to = u /\ ~msgs[m].deep}

Missed(u) == {m \in DOMAIN msgs : /\ msgs[m].to = u
                                  /\ ~msgs[m].deep
                                  /\ ~msgs[m].delivered}

\* The second query: the oldest rows first, then only those with a copy for
\* this device; with nothing to push the handler commits and returns.
QueryMissed(s) ==
    LET missed == Missed(UserOf(s))
        backlog == {m \in Oldest(missed, REPLAY_LIMIT) :
                        DeviceOf[s] \in msgs[m].copies}
    IN  [pc |-> IF backlog = {} THEN "done" ELSE "pushing", asks |-> {},
         backlog |-> backlog, queue |-> backlog,
         full |-> Oldest(missed, REPLAY_LIMIT) # missed]

QuerySessions(s) ==
    /\ handler[s].pc = "accepted"
    /\ LET pending == PendingSessions(UserOf(s))
       IN  handler' = [handler EXCEPT ![s] =
               IF pending = {} THEN QueryMissed(s)
               ELSE [At("asking") EXCEPT !.asks = pending]]
    /\ UNCHANGED <<connected, announced, tables, tasks, sweep, wire, owed, faults>>

AskPending(s, i) ==
    /\ handler[s].pc = "asking"
    /\ i \in handler[s].asks
    /\ Push(s, <<"request", i>>)
    /\ handler' = [handler EXCEPT ![s] =
           IF handler[s].asks = {i} THEN QueryMissed(s)
           ELSE [handler[s] EXCEPT !.asks = @ \ {i}]]
    /\ UNCHANGED <<connected, announced, tables, tasks, sweep, owed, faults>>

Delivered(r) == [r EXCEPT !.delivered = TRUE]

\* Mutant: the whole row is written back as it was loaded.
CommitReplayOfWholeRows(s) ==
    msgs' = [m \in DOMAIN msgs |->
                IF m \in handler[s].backlog
                THEN [Delivered(msgs[m]) EXCEPT !.deep = FALSE,
                                                !.copies = {DeviceOf[s]}]
                ELSE msgs[m]]

\* Mutant: the rows were changed and db.commit() was forgotten.
CommitReplayForgotten(s) == UNCHANGED msgs

\* db.commit() at the end of connect: only delivered_at was assigned
CommitReplay(s) ==
    msgs' = [m \in DOMAIN msgs |-> IF m \in handler[s].backlog
                                   THEN Delivered(msgs[m]) ELSE msgs[m]]

PushMissed(s, m) ==
    /\ handler[s].pc = "pushing"
    /\ m \in handler[s].queue
    /\ \A k \in handler[s].queue : m <= k
    /\ Push(s, <<"replay", m>>)
    /\ IF handler[s].queue = {m}
       THEN /\ CommitReplay(s)
            /\ handler' = [handler EXCEPT ![s] = [handler[s] EXCEPT
                              !.pc = "done", !.queue = {}]]
       ELSE /\ handler' = [handler EXCEPT ![s] = [handler[s] EXCEPT !.queue = @ \ {m}]]
            /\ UNCHANGED msgs
    /\ UNCHANGED <<connected, announced, sessions, tasks, sweep, owed, faults>>

\* Mutant: user_offline goes out whichever socket closes.
DisconnectAlwaysOffline(s) ==
    /\ s \in connected
    /\ connected' = connected \ {s}
    /\ announced' = announced \ {UserOf(s)}
    /\ UNCHANGED <<handler, tables, tasks, sweep, wire, owed, faults>>

Disconnect(s) ==
    /\ s \in connected
    /\ connected' = connected \ {s}
    /\ announced' = IF SocketsOf(UserOf(s)) = {s} THEN announced \ {UserOf(s)}
                    ELSE announced
    /\ UNCHANGED <<handler, tables, tasks, sweep, wire, owed, faults>>

----------------------------------------------------------------------------
(* Socket events.  A client sends none before connect has returned. *)

Serving(s) == s \in connected /\ handler[s].pc = "done"

\* Mutant: a socket counts only once its replay is over.
RecipientIsServing(u) == \E s \in SocketsOf(u) : handler[s].pc = "done"

RecipientIsOnline(u) == SocketsOf(u) # {}

Count(i) == [sessions EXCEPT ![i].count = @ + 1]

\* i = 0: the client holds no session; v is the recipient_id it names
SendMessage(s, v, i, copies, timer) ==
    LET u == UserOf(s)
        live == i # 0 /\ sessions[i].active
        to == IF live THEN Other(sessions[i], u) ELSE v
        id == Len(msgs) + 1
        rotate == live /\ sessions[i].count + 1 >= KEY_ROTATION_THRESHOLD
        Pair(kind, n, first) == << [event |-> <<kind, n>>, to |-> first],
                                   [event |-> <<kind, n>>, to |-> to] >>
    IN  /\ Serving(s)
        /\ u \in Senders
        /\ Len(msgs) < MaxMessages
        /\ msgs' = Append(msgs,
              [from |-> u, to |-> to, copies |-> copies,
               delivered |-> RecipientIsOnline(to), deep |-> FALSE,
               deletedBy |-> Nobody, read |-> FALSE, hiddenFor |-> {},
               timer |-> timer])
        /\ sessions' = IF live THEN Count(i) ELSE sessions
        /\ Dispatch(Pair("live", id, u) \o
                    (IF rotate THEN Pair("rotate", i, s) ELSE <<>>))
        /\ UNCHANGED <<connected, announced, handler, sweep, wire, faults>>

Wiped(r) == [r EXCEPT !.deep = TRUE, !.copies = {}]

WipeBy(u, m) ==
    /\ msgs' = [msgs EXCEPT ![m] = [Wiped(@) EXCEPT !.deletedBy = u]]
    /\ Dispatch(<< [event |-> <<"deleted", m>>, to |-> msgs[m].from],
                   [event |-> <<"deleted", m>>, to |-> msgs[m].to] >>)

HideFor(u, m) == msgs' = [msgs EXCEPT ![m].hiddenFor = @ \cup {u}]

DeleteMessage(s, m, deep) ==
    /\ Serving(s)
    /\ UserOf(s) \in Deleters \cap Participants(msgs[m])
    /\ IF deep THEN WipeBy(UserOf(s), m)
       ELSE /\ HideFor(UserOf(s), m)
            /\ Dispatch(<< [event |-> <<"deleted", m>>, to |-> s] >>)
    /\ UNCHANGED <<connected, announced, handler, sessions, sweep, wire, faults>>

----------------------------------------------------------------------------
(* REST handlers: they need a token, not a socket *)

RestDelete(u, m, deep) ==
    /\ u \in Deleters \cap Participants(msgs[m])
    /\ IF deep THEN WipeBy(u, m)
       ELSE HideFor(u, m) /\ UNCHANGED <<tasks, owed>>
    /\ UNCHANGED <<connected, announced, handler, sessions, sweep, wire, faults>>

MarkRead(u, m) ==
    /\ u \in Readers
    /\ msgs[m].to = u
    /\ ~msgs[m].read
    /\ msgs' = [msgs EXCEPT ![m].read = TRUE]
    /\ Dispatch(<< [event |-> <<"read", m>>, to |-> msgs[m].from] >>)
    /\ UNCHANGED <<connected, announced, handler, sessions, sweep, wire, faults>>

\* Mutant: the second arm of the or_() is missing.
SameDirection(sess, u, v) == sess.a = u /\ sess.b = v

SamePair(sess, u, v) == {sess.a, sess.b} = {u, v}
Retired(sess) == [sess EXCEPT !.active = FALSE]

CreateSession(u, v) ==
    LET new == [a |-> u, b |-> v, active |-> TRUE, answered |-> FALSE, count |-> 0]
        retired == [i \in DOMAIN sessions |-> IF SamePair(sessions[i], u, v)
                                              THEN Retired(sessions[i])
                                              ELSE sessions[i]]
    IN  /\ u \in Callers
        /\ Len(sessions) < MaxSessions
        /\ sessions' = Append(retired, new)
        /\ Dispatch(<< [event |-> <<"request", Len(sessions) + 1>>, to |-> v] >>)
        /\ UNCHANGED <<connected, announced, handler, msgs, sweep, wire, faults>>

UpdateSession(u, i) ==
    /\ u \in {sessions[i].a, sessions[i].b}
    /\ sessions' = [sessions EXCEPT ![i].answered = TRUE]
    /\ Dispatch(<< [event |-> <<"ready", i>>, to |-> sessions[i].a] >>)
    /\ UNCHANGED <<connected, announced, handler, msgs, sweep, wire, faults>>

----------------------------------------------------------------------------
(* cleanup_expired_messages, in its own thread *)

Idle == [running |-> FALSE, batch |-> {}, notified |-> {}]
\* Mutant: only messages that were delivered self-destruct.
ExpiredDelivered ==
    {m \in DOMAIN msgs : msgs[m].timer = "due" /\ ~msgs[m].deep /\ msgs[m].delivered}

Expired == {m \in DOMAIN msgs : msgs[m].timer = "due" /\ ~msgs[m].deep}

SweepQuery ==
    /\ ~sweep.running
    /\ Expired # {}
    /\ sweep' = [running |-> TRUE, batch |-> Expired, notified |-> {}]
    /\ UNCHANGED <<connected, announced, handler, tables, tasks, wire, owed, faults>>

\* Mutant: the sender's sockets are not told.
ListeningRecipient(r) == {s \in connected : RegistryShared /\ UserOf(s) = r.to}

\* The registry the job iterates over: the worker's, or the empty dict of
\* the gunicorn master that preload_app made start the job.
Listening(r) == {s \in connected : RegistryShared /\ UserOf(s) \in Participants(r)}

SweepNotify(m) ==
    /\ m \in sweep.batch \ sweep.notified
    /\ wire' = [s \in Sid |-> IF s \in Listening(msgs[m])
                              THEN wire[s] \cup {<<"deleted", m>>} ELSE wire[s]]
    /\ sweep' = [sweep EXCEPT !.notified = @ \cup {m}]
    /\ UNCHANGED <<connected, announced, handler, tables, tasks, owed, faults>>

SweepCommit ==
    /\ sweep.running
    /\ sweep.notified = sweep.batch
    /\ msgs' = [m \in DOMAIN msgs |-> IF m \in sweep.batch
                                      THEN Wiped(msgs[m]) ELSE msgs[m]]
    /\ sweep' = Idle
    /\ UNCHANGED <<connected, announced, handler, sessions, tasks, wire, owed, faults>>

\* An exception anywhere in the job: roll back and wait for the next run
SweepAbort ==
    /\ sweep.running
    /\ faults < MaxFaults
    /\ faults' = faults + 1
    /\ sweep' = Idle
    /\ UNCHANGED <<connected, announced, handler, tables, tasks, wire, owed>>

\* expires_at passes.  Timers are minutes, a push is milliseconds: the
\* message has left its send handler by then.
Expire(m) ==
    /\ msgs[m].timer = "running"
    /\ \A t \in tasks : /\ t.event # <<"live", m>>
                        /\ \A k \in DOMAIN t.rest : t.rest[k].event # <<"live", m>>
    /\ msgs' = [msgs EXCEPT ![m].timer = "due"]
    /\ UNCHANGED <<connected, announced, handler, sessions, tasks, sweep,
                   wire, owed, faults>>

\* The process dies and comes back: the registry and every handler are in
\* memory only, the two tables are not.
Restart ==
    /\ faults < MaxFaults
    /\ faults' = faults + 1
    /\ connected' = {} /\ announced' = {} /\ tasks' = {} /\ sweep' = Idle
    /\ handler' = [s \in Sid |-> IF handler[s].pc = "new" THEN handler[s]
                                 ELSE At("done")]
    /\ UNCHANGED <<tables, wire, owed>>

----------------------------------------------------------------------------
Init ==
    /\ connected = {} /\ announced = {}
    /\ handler = [s \in Sid |-> At("new")]
    /\ msgs = <<>> /\ sessions = <<>>
    /\ tasks = {} /\ sweep = Idle
    /\ wire = [s \in Sid |-> {}] /\ owed = [s \in Sid |-> {}]
    /\ faults = 0

ConnectStep(s) == \/ QuerySessions(s)
                  \/ \E i \in DOMAIN sessions : AskPending(s, i)
                  \/ \E m \in DOMAIN msgs : PushMissed(s, m)

SweepStep == SweepQuery \/ SweepCommit \/ \E m \in DOMAIN msgs : SweepNotify(m)

Next ==
    \/ \E t \in tasks : \E s \in t.todo : Emit(t, s)
    \/ \E s \in Sid : Connect(s) \/ ConnectStep(s) \/ Disconnect(s)
    \/ \E s \in Sid, v \in User, copies \in Payloads, timer \in Timers :
          \E i \in {0} \cup {j \in DOMAIN sessions :
                                UserOf(s) \in {sessions[j].a, sessions[j].b}} :
              v # UserOf(s) /\ SendMessage(s, v, i, copies, timer)
    \/ \E m \in DOMAIN msgs, deep \in BOOLEAN :
          \/ \E s \in Sid : DeleteMessage(s, m, deep)
          \/ \E u \in User : RestDelete(u, m, deep)
    \/ \E u \in User, m \in DOMAIN msgs : MarkRead(u, m)
    \/ \E u, v \in User : u # v /\ CreateSession(u, v)
    \/ \E u \in User, i \in DOMAIN sessions : UpdateSession(u, i)
    \/ SweepStep \/ SweepAbort
    \/ \E m \in DOMAIN msgs : Expire(m)
    \/ Restart

Spec == Init /\ [][Next]_vars

\* The loop keeps running the connect handlers, the scheduler its job, and
\* time passes.
Fairness == /\ \A s \in Sid : WF_vars(ConnectStep(s))
            /\ WF_vars(SweepStep)
            /\ WF_vars(\E m \in DOMAIN msgs : Expire(m))
FairSpec == Spec /\ Fairness

----------------------------------------------------------------------------
(* Properties *)

\* Type invariant of the whole server state.
TypeOK ==
    /\ connected \subseteq Sid
    /\ announced \subseteq User
    /\ handler \in [Sid -> Handler]
    /\ msgs \in Seq(MsgRow) /\ Len(msgs) <= MaxMessages
    /\ sessions \in Seq(SessionRow) /\ Len(sessions) <= MaxSessions
    /\ tasks \subseteq Task
    /\ sweep \in [running: BOOLEAN, batch: SUBSET MsgId, notified: SUBSET MsgId]
    /\ wire \in [Sid -> SUBSET Event]
    /\ owed \in [Sid -> SUBSET Pushed]
    /\ faults \in Nat

\* The last presence broadcast about a user agrees with the registry: with
\* several sockets per user, user_offline goes out exactly when the last one
\* closes (connect, disconnect).
PresenceAccurate == announced = {UserOf(s) : s \in connected}

\* A task still has to push the event to the socket
Waits(t, s, event) ==
    \/ t.event = event /\ s \in t.todo
    \/ \E k \in DOMAIN t.rest :
          t.rest[k].event = event /\ s \in Audience(t.rest[k].to)
Pending(s, event) == \E t \in tasks : Waits(t, s, event)

\* An event a handler had to push when it committed reaches every socket that
\* was in the registry at that moment and stays there, although the handler
\* awaits between its pushes and takes a new snapshot for each leg, while
\* other sockets come and go (_emit_to_user and every handler that calls it).
NoPushLost ==
    \A s \in connected : \A e \in owed[s] : e \in wire[s] \/ Pending(s, e)

\* Once connect has returned on a socket that is still open, no undelivered
\* message with a copy for its device is left in the table, whatever was sent
\* while the handler was awaiting its own pushes (connect and send_message
\* agree on who delivers) - unless the query hit its limit.
NothingLeftBehind ==
    \A s \in connected :
        handler[s].pc = "done" /\ ~handler[s].full =>
            \A m \in Missed(UserOf(s)) : DeviceOf[s] \notin msgs[m].copies

\* A message that was sent while a socket of its recipient was in the registry
\* is never replayed to that user, on any socket: the two paths of delivery
\* do not both claim it (send_message's online check against connect's query).
OnlineNeverReplayed ==
    \A s, r \in Sid, m \in DOMAIN msgs :
        /\ UserOf(s) = msgs[m].to /\ <<"live", m>> \in owed[s]
        => <<"replay", m>> \notin wire[r]

\* A pair of users has at most one active session, however their calls to
\* create_session alternate.
OneActiveSession ==
    \A i, j \in DOMAIN sessions :
        /\ sessions[i].active /\ sessions[j].active
        /\ {sessions[i].a, sessions[i].b} = {sessions[j].a, sessions[j].b}
        => i = j

\* An active session nobody answered has been announced to every open socket
\* of the called user past its first query, or is about to be: created before
\* the socket connected, during its replay or afterwards (connect, create_session).
PendingRequestReachesCallee ==
    \A s \in connected : \A i \in PendingSessions(UserOf(s)) :
        handler[s].pc \notin {"new", "accepted"} =>
            \/ <<"request", i>> \in wire[s]
            \/ i \in handler[s].asks
            \/ Pending(s, <<"request", i>>)

\* A socket that was handed a message by the replay is told when a user deep
\* deletes it, even if the deletion came while the replay was in progress
\* (connect against delete_message).
DeletionReachesReplayedCopies ==
    \A s \in connected, m \in DOMAIN msgs :
        /\ msgs[m].deletedBy # Nobody /\ <<"replay", m>> \in wire[s]
        => <<"deleted", m>> \in wire[s] \/ Pending(s, <<"deleted", m>>)

\* A message that self-destructed has been announced to every open socket it
\* was pushed to live ("Emits 'message_deleted' SocketIO event to live
\* clients", cleanup_expired_messages).
LiveClientsToldOfExpiry ==
    \A s \in connected, m \in DOMAIN msgs :
        /\ msgs[m].deep /\ msgs[m].deletedBy = Nobody
        /\ <<"live", m>> \in wire[s]
        => <<"deleted", m>> \in wire[s]

\* No step brings back the ciphertext of a wiped message: not the commit of a
\* connect handler that loaded the row before, not a second deletion, not the
\* self-destruct job.
WipedStaysWiped ==
    [][\A m \in DOMAIN msgs : msgs[m].deep =>
           msgs'[m].deep /\ msgs'[m].copies = {}]_vars

\* A message whose timer ran out is wiped, though the job may fail and the
\* process may be restarted.
ExpiredIsWiped ==
    \A m \in MsgId : (m \in DOMAIN msgs /\ msgs[m].timer = "due")
                         ~> (m \in DOMAIN msgs /\ msgs[m].deep)

\* What was stored for an offline user leaves the undelivered state once a
\* socket of a device it was encrypted for has connected and stays.
BacklogIsDelivered ==
    \A s \in Sid, m \in MsgId :
        (/\ handler[s].pc = "accepted" /\ s \in connected
         /\ m \in DOMAIN msgs /\ m \in Missed(UserOf(s))
         /\ DeviceOf[s] \in msgs[m].copies)
            ~> (s \notin connected \/ (m \in DOMAIN msgs /\ m \notin Missed(UserOf(s))))

\* Comment in connect: messages "stored in DB but not yet received over a
\* socket" are pushed when the user comes back.  So a message marked delivered
\* has been, or is being, pushed to a socket of its recipient.
DeliveredIsReceived ==
    \A m \in DOMAIN msgs : msgs[m].delivered =>
        \E s \in Sid : /\ UserOf(s) = msgs[m].to
                       /\ \/ {<<"live", m>>, <<"replay", m>>} \cap wire[s] # {}
                          \/ m \in handler[s].backlog
                          \/ \E t \in tasks : \/ t.event = <<"live", m>>
                                              \/ \E k \in DOMAIN t.rest :
                                                     t.rest[k].event = <<"live", m>>
=============================================================================
