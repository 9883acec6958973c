----------------------------- MODULE Handshake -----------------------------
(***************************************************************************)
(* The browser's side of a SecureIM session (src/static/js/chat.js): the   *)
(* ECDH handshake through the server, the session keys held in RAM, the    *)
(* conversation on screen and the messages sealed with those keys.         *)
(*                                                                         *)
(* Every client is one page with one socket and one device.  Its handlers  *)
(* are async functions: each runs to its first await when its event is     *)
(* taken from the socket, in order, and the rest of it interleaves with    *)
(* the other handlers of the page.  HTTP calls are not ordered with each   *)
(* other nor with the socket.  The server (src/app/chat.py) is reduced to  *)
(* its session table and its pushes; module Relay has their details.       *)
(*                                                                         *)
(* An ephemeral key pair is its client and a serial number, and the keys   *)
(* that ECDH and HKDF derive from two pairs are the set of the two.        *)
(***************************************************************************)
EXTENDS Integers, Sequences, FiniteSets, SequencesExt

CONSTANTS
    User, Client,
    UserOf,                 \* client -> its account
    Nobody,                 \* activeConversation = null
    Openers, Typists,       \* clients that open conversations, that send
    KEY_ROTATION_THRESHOLD, \* settings.KEY_ROTATION_THRESHOLD
    Present,                \* clients whose socket is up at the start
    FaultKinds,             \* which of "drop", "reload", "refuse" may happen
    MaxSessions, MaxMessages, MaxKeys, MaxFaults    \* bounds

ASSUME UserOfAssumption == UserOf \in [Client -> User]
ASSUME NobodyAssumption == Nobody \notin User
ASSUME ActorsAssumption == Openers \cup Typists \cup Present \subseteq Client
ASSUME BoundsAssumption ==
    /\ KEY_ROTATION_THRESHOLD \in Nat /\ MaxSessions \in Nat
    /\ MaxMessages \in Nat /\ MaxKeys \in Nat /\ MaxFaults \in Nat

VARIABLES
    rows,       \* table chat_sessions
    messages,   \* messages the server has accepted, in order
    online,     \* clients whose socket is in the server's registry
    greeting,   \* clients whose connect handler has not run its query
    inbox,      \* events on their way to each client
    conv,       \* activeConversation
    away,       \* _offlineUsers
    ram,        \* _sessionKeys
    made,       \* key pairs of each client: the session answered, or 0
    born,       \* key pairs of each client that belong to earlier pages
    posts,      \* initiateSession runs
    answers,    \* onSessionRequest runs
    readies,    \* onSessionReady runs
    draft,      \* the sendMessage run of each client
    outbox,     \* send_message events on their way to the server
    opening,    \* onReceiveMessage runs
    blank,      \* messages a client could not decrypt on arrival
    gone,       \* history: private halves a client has dropped
    faults      \* faults so far

server == <<rows, messages, online, greeting>>
page == <<conv, away, ram, made, born, gone>>
runs == <<posts, answers, readies, opening>>
sending == <<draft, outbox>>
vars == <<server, inbox, page, runs, sending, blank, faults>>

----------------------------------------------------------------------------
(* Records *)

SessionId == 1..MaxSessions
Label == 0..MaxSessions             \* 0: no session id yet
Half == Client \X (1..MaxKeys)      \* an ephemeral key pair
None == <<>>
MsgId == 1..MaxMessages

Row == [a: User, b: User, active: BOOLEAN, pubA: Half, pubB: Half \cup {None},
        count: Nat]
Slot == [mine: Half \cup {None}, theirs: Half \cup {None}]
Empty == [mine |-> None, theirs |-> None]
Conversation == [peer: User \cup {Nobody}, sid: Label]
Sealed == [typedFor: User, recipient: User, sid: Label, secret: SUBSET Half]
Draft == [busy: BOOLEAN, secret: SUBSET Half, typedFor: User \cup {Nobody}]
Message == [from: User, to: User, sid: Label, secret: SUBSET Half, typedFor: User]
Packet == [kind: {"request", "ready", "rotate", "message", "online", "offline"},
           id: Nat, pub: Half \cup {None}, user: User \cup {Nobody}]
Post == [client: Client, peer: User, key: Half, id: Label,
         stage: {"sent", "created", "stored"}]
Answer == [client: Client, id: SessionId, key: Half,
           stage: {"verifying", "putting", "put"}]
Ready == [client: Client, id: SessionId, key: Half, pub: Half]
Opening == [client: Client, msg: MsgId, shown: BOOLEAN]

ClientsOf(u) == {c \in Client : UserOf[c] = u}
Online(u) == ClientsOf(u) \cap online # {}
HasKey(c, i) == i # 0 /\ ram[c][i].theirs # None
Secret(slot) == IF slot.theirs = None THEN {} ELSE {slot.mine, slot.theirs}
Alive(key) == key[2] > born[key[1]]     \* of the page now loaded
LiveOnly(S) == {r \in S : Alive(r.key)}

Request(i, u) == [kind |-> "request", id |-> i, pub |-> None, user |-> u]
Plain(kind, i) == [kind |-> kind, id |-> i, pub |-> None, user |-> Nobody]
About(kind, u) == [kind |-> kind, id |-> 0, pub |-> None, user |-> u]

\* The inbox with the packets added for the clients of S
PushTo(S, packets, box) ==
    [c \in Client |-> IF c \in S THEN box[c] \o packets ELSE box[c]]

----------------------------------------------------------------------------
(* initiateSession: generate, POST /sessions, store the private half, note *)
(* the session in the contacts, and only then adopt it as the session of   *)
(* whatever conversation is on screen.                                     *)

Initiate(c, v) ==
    /\ Len(made[c]) < MaxKeys
    /\ made' = [made EXCEPT ![c] = Append(@, 0)]
    /\ posts' = posts \cup {[client |-> c, peer |-> v, id |-> 0, stage |-> "sent",
                             key |-> <<c, Len(made[c]) + 1>>]}

OpenDM(c, v) ==
    /\ c \in Openers
    /\ v # UserOf[c]
    /\ Len(rows) + Cardinality({p \in posts : p.stage = "sent"}) < MaxSessions
    /\ conv' = [conv EXCEPT ![c] = [peer |-> v, sid |-> 0]]
    /\ Initiate(c, v)
    /\ UNCHANGED <<server, inbox, away, ram, born, gone, answers, readies,
                   opening, sending, blank, faults>>

SamePair(row, u, v) == {row.a, row.b} = {u, v}

\* The server's POST handler.  MaxSessions bounds it: past the bound it is slow.
CreateSession(p) ==
    LET u == UserOf[p.client]
        new == [a |-> u, b |-> p.peer, active |-> TRUE, pubA |-> p.key,
                pubB |-> None, count |-> 0]
    IN  /\ p.stage = "sent"
        /\ Len(rows) < MaxSessions
        /\ rows' = Append([i \in DOMAIN rows |->
                              IF SamePair(rows[i], u, p.peer)
                              THEN [rows[i] EXCEPT !.active = FALSE]
                              ELSE rows[i]], new)
        /\ inbox' = PushTo(ClientsOf(p.peer) \cap online,
                           <<Request(Len(rows) + 1, u)>>, inbox)
        /\ posts' = (posts \ {p}) \cup
              LiveOnly({[p EXCEPT !.stage = "created", !.id = Len(rows) + 1]})
        /\ UNCHANGED <<messages, online, greeting, page, answers, readies,
                       opening, sending, blank, faults>>

StoreInitiated(p) ==
    /\ p.stage = "created"
    /\ ram' = [ram EXCEPT ![p.client][p.id] = [mine |-> p.key, theirs |-> None]]
    /\ posts' = (posts \ {p}) \cup {[p EXCEPT !.stage = "stored"]}
    /\ UNCHANGED <<server, inbox, conv, away, made, born, gone, answers, readies,
                   opening, sending, blank, faults>>

Adopt(p) ==
    /\ p.stage = "stored"
    /\ conv' = [conv EXCEPT ![p.client].sid = p.id]
    /\ posts' = posts \ {p}
    /\ UNCHANGED <<server, inbox, away, ram, made, born, gone, answers, readies,
                   opening, sending, blank, faults>>

----------------------------------------------------------------------------
(* The socket's handlers, each up to its first await *)

Take(c, kind) == /\ inbox[c] # <<>>
                 /\ Head(inbox[c]).kind = kind
                 /\ inbox' = [inbox EXCEPT ![c] = Tail(@)]

OnSessionRequest(c) ==
    LET i == Head(inbox[c]).id
    IN  /\ Take(c, "request")
        /\ Len(made[c]) < MaxKeys
        /\ made' = [made EXCEPT ![c] = Append(@, i)]
        /\ answers' = answers \cup {[client |-> c, id |-> i, stage |-> "verifying",
                                     key |-> <<c, Len(made[c]) + 1>>]}
        /\ UNCHANGED <<server, conv, away, ram, born, gone, posts, readies,
                       opening, sending, blank, faults>>

\* With no private half of the session in RAM the handler starts over, if
\* the responder's conversation is on screen.
OnSessionReady(c) ==
    LET packet == Head(inbox[c])
        slot == ram[c][packet.id]
    IN  /\ Take(c, "ready")
        /\ IF slot.mine # None
           THEN /\ readies' = readies \cup {[client |-> c, id |-> packet.id,
                                             key |-> slot.mine, pub |-> packet.pub]}
                /\ UNCHANGED <<made, posts>>
           ELSE /\ IF conv[c].peer = packet.user THEN Initiate(c, packet.user)
                   ELSE UNCHANGED <<made, posts>>
                /\ UNCHANGED readies
        /\ UNCHANGED <<server, conv, away, ram, born, gone, answers, opening,
                       sending, blank, faults>>

Drop(c, i) == /\ ram' = [ram EXCEPT ![c][i] = Empty]
              /\ gone' = gone \cup ({ram[c][i].mine} \ {None})

OnKeyRotationRequired(c) ==
    LET i == Head(inbox[c]).id
    IN  /\ Take(c, "rotate")
        /\ Drop(c, i)
        /\ IF conv[c].sid = i THEN Initiate(c, conv[c].peer)
           ELSE UNCHANGED <<made, posts>>
        /\ UNCHANGED <<server, conv, away, born, answers, readies, opening,
                       sending, blank, faults>>

OnUserOnline(c) ==
    LET u == Head(inbox[c]).user
    IN  /\ Take(c, "online")
        /\ away' = [away EXCEPT ![c] = @ \ {u}]
        /\ IF conv[c].peer = u /\ ~HasKey(c, conv[c].sid) THEN Initiate(c, u)
           ELSE UNCHANGED <<made, posts>>
        /\ UNCHANGED <<server, conv, ram, born, gone, answers, readies, opening,
                       sending, blank, faults>>

\* Mutant: the keys of the conversation go with the peer.
OnUserOfflineDroppingKeys(c) ==
    /\ Take(c, "offline")
    /\ away' = [away EXCEPT ![c] = @ \cup {Head(inbox[c]).user}]
    /\ ram' = IF conv[c].sid = 0 THEN ram ELSE [ram EXCEPT ![c][conv[c].sid] = Empty]
    /\ UNCHANGED <<server, conv, made, born, gone, runs, sending, blank, faults>>

OnUserOffline(c) ==
    /\ Take(c, "offline")
    /\ away' = [away EXCEPT ![c] = @ \cup {Head(inbox[c]).user}]
    /\ UNCHANGED <<server, conv, ram, made, born, gone, runs, sending, blank, faults>>

\* isForActiveConversation is computed before the await of the device id
OnReceiveMessage(c) ==
    LET k == Head(inbox[c]).id
        other == IF messages[k].from = UserOf[c] THEN messages[k].to
                 ELSE messages[k].from
    IN  /\ Take(c, "message")
        /\ opening' = opening \cup {[client |-> c, msg |-> k,
                                     shown |-> conv[c].peer = other]}
        /\ UNCHANGED <<server, page, posts, answers, readies, sending, blank, faults>>

----------------------------------------------------------------------------
(* onSessionRequest after its first await: verify the signature, derive    *)
(* and store the keys, PUT the public half, adopt the session.             *)

DeriveAnswer(a) ==
    /\ a.stage = "verifying"
    /\ ram' = [ram EXCEPT ![a.client][a.id] =
                   [mine |-> a.key, theirs |-> rows[a.id].pubA]]
    /\ gone' = gone \cup ({ram[a.client][a.id].mine} \ {None})
    /\ answers' = (answers \ {a}) \cup {[a EXCEPT !.stage = "putting"]}
    /\ UNCHANGED <<server, inbox, conv, away, made, born, posts, readies,
                   opening, sending, blank, faults>>

\* The server's PUT handler: whatever the state of the session
PutAnswer(a) ==
    LET ready == [kind |-> "ready", id |-> a.id, pub |-> a.key,
                  user |-> UserOf[a.client]]
    IN  /\ a.stage = "putting"
        /\ rows' = [rows EXCEPT ![a.id].pubB = a.key]
        /\ inbox' = PushTo(ClientsOf(rows[a.id].a) \cap online, <<ready>>, inbox)
        /\ answers' = (answers \ {a}) \cup LiveOnly({[a EXCEPT !.stage = "put"]})
        /\ UNCHANGED <<messages, online, greeting, page, posts, readies,
                       opening, sending, blank, faults>>

FinishAnswer(a) ==
    /\ a.stage = "put"
    /\ conv' = IF conv[a.client].peer = rows[a.id].a
               THEN [conv EXCEPT ![a.client].sid = a.id] ELSE conv
    /\ answers' = answers \ {a}
    /\ UNCHANGED <<server, inbox, away, ram, made, born, gone, posts, readies,
                   opening, sending, blank, faults>>

Fault(kind) == /\ kind \in FaultKinds
               /\ faults < MaxFaults
               /\ faults' = faults + 1

\* The initiator's keys cannot be fetched, or none verifies the signature
RefuseRequest(a) ==
    /\ Fault("refuse")
    /\ a.stage = "verifying"
    /\ answers' = answers \ {a}
    /\ UNCHANGED <<server, inbox, page, posts, readies, opening, sending, blank>>

----------------------------------------------------------------------------
(* onSessionReady after its first await.  It uses the private half it read *)
(* from RAM before.                                                        *)

\* Mutant: the keys are filed under the session on screen.
DeriveReadyForScreen(r) ==
    /\ LET i == IF conv[r.client].sid = 0 THEN r.id ELSE conv[r.client].sid
       IN  ram' = [ram EXCEPT ![r.client][i] = [mine |-> r.key, theirs |-> r.pub]]
    /\ readies' = readies \ {r}
    /\ UNCHANGED <<server, inbox, conv, away, made, born, gone, posts, answers,
                   opening, sending, blank, faults>>

DeriveReady(r) ==
    /\ ram' = [ram EXCEPT ![r.client][r.id] = [mine |-> r.key, theirs |-> r.pub]]
    /\ readies' = readies \ {r}
    /\ UNCHANGED <<server, inbox, conv, away, made, born, gone, posts, answers,
                   opening, sending, blank, faults>>

RejectReady(r) ==
    /\ Fault("refuse")
    /\ Drop(r.client, r.id)
    /\ readies' = readies \ {r}
    /\ UNCHANGED <<server, inbox, conv, away, made, born, posts, answers,
                   opening, sending, blank>>

----------------------------------------------------------------------------
(* sendMessage: the keys and the peer's presence are read when the user    *)
(* presses Send; the session id and the recipient after the awaits.        *)

NoDraft == [busy |-> FALSE, secret |-> {}, typedFor |-> Nobody]

SendMessage(c) ==
    /\ c \in Typists \cap online
    /\ ~draft[c].busy
    /\ conv[c].peer # Nobody
    /\ Len(messages) + Len(outbox[c]) < MaxMessages
    /\ draft' = [draft EXCEPT ![c] =
           [busy |-> TRUE, typedFor |-> conv[c].peer,
            secret |-> IF HasKey(c, conv[c].sid) /\ conv[c].peer \notin away[c]
                       THEN Secret(ram[c][conv[c].sid]) ELSE {}]]
    /\ UNCHANGED <<server, inbox, page, runs, outbox, blank, faults>>

EmitMessage(c) ==
    /\ draft[c].busy
    /\ outbox' = [outbox EXCEPT ![c] = Append(@,
           [typedFor |-> draft[c].typedFor, secret |-> draft[c].secret,
            sid |-> conv[c].sid, recipient |-> conv[c].peer])]
    /\ draft' = [draft EXCEPT ![c] = NoDraft]
    /\ UNCHANGED <<server, inbox, page, runs, blank, faults>>

\* The server's send_message: an active session decides who the recipient is
RelayMessage(c) ==
    LET sent == Head(outbox[c])
        i == sent.sid
        u == UserOf[c]
        live == i # 0 /\ rows[i].active
        to == IF ~live THEN sent.recipient
              ELSE IF rows[i].a = u THEN rows[i].b ELSE rows[i].a
        rotate == live /\ rows[i].count + 1 >= KEY_ROTATION_THRESHOLD
        told == PushTo((ClientsOf(u) \cup ClientsOf(to)) \cap online,
                       <<Plain("message", Len(messages) + 1)>>, inbox)
    IN  /\ c \in online
        /\ outbox[c] # <<>>
        /\ Len(messages) < MaxMessages
        /\ outbox' = [outbox EXCEPT ![c] = Tail(@)]
        /\ messages' = Append(messages,
              [from |-> u, to |-> to, sid |-> i, secret |-> sent.secret,
               typedFor |-> sent.typedFor])
        /\ rows' = IF live THEN [rows EXCEPT ![i].count = @ + 1] ELSE rows
        /\ inbox' = IF rotate
                    THEN PushTo(({c} \cup ClientsOf(to)) \cap online,
                                <<Plain("rotate", i)>>, told)
                    ELSE told
        /\ UNCHANGED <<online, greeting, page, runs, draft, blank, faults>>

\* Mutant: the keys of the session on screen are tried, whatever the label.
KeysForScreen(o) == conv[o.client].sid

KeysFor(o) == IF messages[o.msg].sid # 0 THEN messages[o.msg].sid
              ELSE IF o.shown THEN conv[o.client].sid ELSE 0

Opens(o) == \/ messages[o.msg].secret = {}      \* static keys, always there
            \/ /\ HasKey(o.client, KeysFor(o))
               /\ Secret(ram[o.client][KeysFor(o)]) = messages[o.msg].secret

DecryptMessage(o) ==
    /\ opening' = opening \ {o}
    /\ blank' = IF Opens(o) THEN blank
                ELSE [blank EXCEPT ![o.client] = @ \cup {o.msg}]
    /\ UNCHANGED <<server, inbox, page, posts, answers, readies, sending, faults>>

----------------------------------------------------------------------------
(* Sockets and pages come and go *)

\* Broadcasts reach the other sockets; a client ignores those about itself.
Connect(c) ==
    /\ c \notin online
    /\ online' = online \cup {c}
    /\ greeting' = greeting \cup {c}
    /\ inbox' = PushTo(online, <<About("online", UserOf[c])>>, inbox)
    /\ UNCHANGED <<rows, messages, page, runs, sending, blank, faults>>

PendingSessions(u) ==
    {i \in DOMAIN rows : rows[i].b = u /\ rows[i].active /\ rows[i].pubB = None}

\* Mutant: the handshakes missed while offline are not replayed.
GreetWithoutReplay(c) ==
    /\ c \in greeting
    /\ greeting' = greeting \ {c}
    /\ UNCHANGED <<rows, messages, online, inbox, page, runs, sending, blank, faults>>

\* The query has no ORDER BY.
Greet(c) ==
    /\ c \in greeting
    /\ greeting' = greeting \ {c}
    /\ \E pending \in SetToSeqs(PendingSessions(UserOf[c])) :
          inbox' = [inbox EXCEPT ![c] = @ \o
              [k \in DOMAIN pending |-> Request(pending[k], rows[pending[k]].a)]]
    /\ UNCHANGED <<rows, messages, online, page, runs, sending, blank, faults>>

\* Mutant: the connect handler of the closed socket stays in the books.
CloseSocketStillGreeting(c) ==
    LET left == online \ {c}
    IN  /\ online' = left
        /\ inbox' = [inbox EXCEPT ![c] = <<>>]
        /\ UNCHANGED <<rows, messages, greeting>>

CloseSocket(c) ==
    LET left == online \ {c}
        u == UserOf[c]
        emptied == [inbox EXCEPT ![c] = <<>>]
    IN  /\ online' = left
        /\ greeting' = greeting \ {c}
        /\ inbox' = IF ClientsOf(u) \cap left = {}
                    THEN PushTo(left, <<About("offline", u)>>, emptied)
                    ELSE emptied
        /\ UNCHANGED <<rows, messages>>

\* The connection breaks; the page and its handlers live on.
Disconnect(c) ==
    /\ Fault("drop")
    /\ c \in online
    /\ CloseSocket(c)
    /\ UNCHANGED <<page, runs, sending, blank>>

\* The page is loaded again.  Calls on their way to the server may arrive.
Reload(c) ==
    LET others(S) == {r \in S : r.client # c}
    IN  /\ Fault("reload")
        /\ c \in online
        /\ CloseSocket(c)
        /\ conv' = [conv EXCEPT ![c] = [peer |-> Nobody, sid |-> 0]]
        /\ away' = [away EXCEPT ![c] = {}]
        /\ ram' = [ram EXCEPT ![c] = [i \in SessionId |-> Empty]]
        /\ born' = [born EXCEPT ![c] = Len(made[c])]
        /\ gone' = gone \cup ({c} \X DOMAIN made[c])
        /\ posts' = others(posts) \cup {p \in posts : p.stage = "sent"}
        /\ answers' = others(answers) \cup {a \in answers : a.stage = "putting"}
        /\ readies' = others(readies)
        /\ opening' = others(opening)
        /\ draft' = [draft EXCEPT ![c] = NoDraft]
        /\ outbox' = [outbox EXCEPT ![c] = <<>>]
        /\ blank' = [blank EXCEPT ![c] = {}]
        /\ UNCHANGED made

----------------------------------------------------------------------------
Init ==
    /\ rows = <<>> /\ messages = <<>> /\ online = Present /\ greeting = {}
    /\ inbox = [c \in Client |-> <<>>]
    /\ conv = [c \in Client |-> [peer |-> Nobody, sid |-> 0]]
    /\ away = [c \in Client |-> {}]
    /\ ram = [c \in Client |-> [i \in SessionId |-> Empty]]
    /\ made = [c \in Client |-> <<>>] /\ born = [c \in Client |-> 0]
    /\ posts = {} /\ answers = {} /\ readies = {} /\ opening = {}
    /\ draft = [c \in Client |-> NoDraft] /\ outbox = [c \in Client |-> <<>>]
    /\ blank = [c \in Client |-> {}]
    /\ gone = {} /\ faults = 0

Handle(c) == \/ OnSessionRequest(c) \/ OnSessionReady(c)
             \/ OnKeyRotationRequired(c) \/ OnReceiveMessage(c)
             \/ OnUserOnline(c) \/ OnUserOffline(c)
Starting == \E p \in posts : CreateSession(p) \/ StoreInitiated(p) \/ Adopt(p)
Answering == \E a \in answers : DeriveAnswer(a) \/ PutAnswer(a) \/ FinishAnswer(a)
Deriving == \E r \in readies : DeriveReady(r)
Refusing == \/ \E a \in answers : RefuseRequest(a)
            \/ \E r \in readies : RejectReady(r)

Next ==
    \/ \E c \in Client :
          \/ \E v \in User : OpenDM(c, v)
          \/ Handle(c)
          \/ SendMessage(c) \/ EmitMessage(c) \/ RelayMessage(c)
          \/ Connect(c) \/ Greet(c) \/ Disconnect(c) \/ Reload(c)
    \/ Starting \/ Answering \/ Deriving \/ Refusing
    \/ \E o \in opening : DecryptMessage(o)

Spec == Init /\ [][Next]_vars

\* The pages' event loops and the server keep running.
Fairness == /\ \A c \in Client : WF_vars(Handle(c)) /\ WF_vars(Greet(c))
            /\ WF_vars(Answering)
FairSpec == Spec /\ Fairness

----------------------------------------------------------------------------
(* Properties *)

\* Type invariant of the clients and of the server's sessions.
TypeOK ==
    /\ rows \in Seq(Row) /\ Len(rows) <= MaxSessions
    /\ messages \in Seq(Message) /\ Len(messages) <= MaxMessages
    /\ online \subseteq Client /\ greeting \subseteq online
    /\ inbox \in [Client -> Seq(Packet)]
    /\ conv \in [Client -> Conversation]
    /\ away \in [Client -> SUBSET User]
    /\ ram \in [Client -> [SessionId -> Slot]]
    /\ made \in [Client -> Seq(Label)] /\ born \in [Client -> Nat]
    /\ posts \subseteq Post /\ answers \subseteq Answer
    /\ readies \subseteq Ready /\ opening \subseteq Opening
    /\ draft \in [Client -> Draft] /\ outbox \in [Client -> Seq(Sealed)]
    /\ blank \in [Client -> SUBSET MsgId]
    /\ gone \subseteq Half /\ faults \in Nat

AnswersTo(i) == {h \in Half : /\ h[2] \in DOMAIN made[h[1]]
                              /\ made[h[1]][h[2]] = i}

\* Two clients at the two ends of a session that was answered once, and that
\* both hold its keys, hold the same keys - although onSessionReady derives
\* them from the private half it read before its awaits, and other sessions
\* of the pair are opened, crossed, rotated and answered meanwhile.
SameKeysAfterOneAnswer ==
    \A i \in DOMAIN rows :
        \A c \in ClientsOf(rows[i].a), d \in ClientsOf(rows[i].b) :
            /\ HasKey(c, i) /\ HasKey(d, i)
            /\ Cardinality(AnswersTo(i)) = 1
            => Secret(ram[c][i]) = Secret(ram[d][i])

\* The private half of every public half in the server's table is in the RAM
\* of the client that made it, filed under that session, unless the client
\* dropped it (reload, rotation, a refused signature, a second answer) or has
\* not had the answer to its POST: onSessionRequest stores before it PUTs, and
\* user_offline does not clear keys.
PublishedHalfIsHeld ==
    \A i \in DOMAIN rows :
        LET a == rows[i].pubA
            b == rows[i].pubB
        IN  /\ \/ ram[a[1]][i].mine = a
               \/ a \in gone
               \/ \E p \in posts : p.key = a /\ p.stage = "created"
            /\ b # None => ram[b[1]][i].mine = b \/ b \in gone

\* A message sealed with a half of the receiving client can be opened when it
\* arrives, unless the client dropped that half, the sender's page had moved
\* to another session before it labelled the message, the client is the
\* initiator and has not finished the handshake (its session_ready is being
\* handled or was missed), or the session was answered twice.
UnreadableIsExplained ==
    [][\A c \in Client : \A k \in blank'[c] \ blank[c] :
           LET m == messages[k]
               own == {h \in m.secret : h[1] = c}
           IN  \/ own = {} \/ own \cap gone # {}
               \/ m.sid = 0
               \/ m.sid # 0 /\ rows[m.sid].pubA \notin m.secret
               \/ m.sid # 0 /\ rows[m.sid].pubA[1] = c /\ ~HasKey(c, m.sid)
               \/ m.sid # 0 /\ Cardinality(AnswersTo(m.sid)) > 1]_vars

\* "When a user reconnects after being offline, the server replays any pending
\* session_request events": an open session whose callee has a socket is
\* answered, replaced, or the callee goes offline.
RequestIsAnswered ==
    \A i \in SessionId :
        (i \in DOMAIN rows /\ rows[i].active /\ Online(rows[i].b))
            ~> (i \in DOMAIN rows /\ (\/ rows[i].pubB # None
                                      \/ ~rows[i].active
                                      \/ ~Online(rows[i].b)))

\* README: the server "forwards to recipient's socket room".  A message is
\* stored for and relayed to the user on screen when Send was pressed.
RelayedAsTyped == \A k \in DOMAIN messages : messages[k].to = messages[k].typedFor
=============================================================================
