------------------------------ MODULE ChatPage ------------------------------
(***************************************************************************)
(* The chat page of a browser (src/static/js/chat.js): the conversation on *)
(* screen, the bubbles drawn for it, the bubbles that wait for the echo of *)
(* their message, and the handlers that draw, confirm, delete and store    *)
(* messages through module ClientStore.                                    *)
(*                                                                         *)
(* Socket events are taken in order, but every handler awaits, so handlers *)
(* overlap and may overtake each other; the user clicks in between.  The   *)
(* server is a log of messages with what a page can observe of them.       *)
(* Decryption and session keys are the subject of module Handshake.        *)
(*                                                                         *)
(* An element, a bubble's buttons and its countdown name a message by its  *)
(* server id, or by the temporary id -t of the t-th message typed here.    *)
(***************************************************************************)
EXTENDS ClientStore, SequencesExt

CONSTANTS
    Nobody,             \* activeConversation = null
    Typist,             \* the user types here
    Elsewhere,          \* other writers: the peers, "theirs"; another device, "mine"
    Timed,              \* whose messages self-destruct: "mine", "theirs"
    Clicks,             \* which of "everyone", "peer", "me", "logout", "reload" occur
    MaxOpens            \* bound: conversations opened

ASSUME PageAssumption ==
    /\ Nobody \notin Conv /\ Id \subseteq Int \ {0} /\ Msg = Id \cap Nat
    /\ Slot \subseteq Nat \ {0} /\ MaxOpens \in Nat
    /\ Typist \in BOOLEAN

VARIABLES
    active,     \* activeConversation.id
    screen,     \* bubbles of #messages-container, in order
    pending,    \* _pendingOutgoing; typing order is that of the temporary ids
    typed,      \* the conversation each message typed here was sent to
    outbox,     \* send_message events on their way to the server
    log,        \* messages the server has stored; positions are ids
    inbox,      \* events on their way to the page, in order
    arriving,   \* onReceiveMessage runs before they draw
    opens,      \* openDM runs
    opened,     \* how many there were
    timers,     \* countdowns, a bag
    life,       \* "open", "leaving" after logout, "closed"
    due,        \* messages whose expires_at has passed
    past        \* history: what localStorage held at logout

server == <<typed, outbox, log, inbox, due>>
page == <<active, screen, pending, arriving, opens, opened, timers>>
vars == <<storeVars, server, page, life, past>>

----------------------------------------------------------------------------
Message == [conv: Conv, mine: BOOLEAN, temp: Nat, timed: BOOLEAN, gone: BOOLEAN]
Bubble == [tag: Id, ref: Id, dead: BOOLEAN]
Arrival == [msg: Msg, here: BOOLEAN]
Open == [n: Nat, conv: Conv, stage: {"session", "reading", "cleaning", "marking"},
         list: Seq(Entry), ram: SUBSET Msg, todo: SUBSET Msg, slot: Slot \cup {0}]
Timer == [ref: Id, conv: Conv]

Elements(tag) == {i \in DOMAIN screen : screen[i].tag = tag}
Present(tag) == Elements(tag) # {}

\* document.getElementById finds the first element with the id
Greyed(tag) == IF Present(tag) THEN [screen EXCEPT ![Min(Elements(tag))].dead = TRUE]
               ELSE screen
Removed(tag) == IF Present(tag) THEN RemoveAt(screen, Min(Elements(tag))) ELSE screen

Free(s) == calls[s] = Idle /\ \A r \in Slot : calls[r] = Idle => s <= r

\* Mutant: the countdown forgets its conversation.
CountdownsNowhere(ids) == SetToBag([ref: ids, conv: {Nobody}])

\* renderMessage; a live message with expires_at starts its countdown, which
\* remembers the conversation on screen and outlives the bubble
Drawn(id, dead) == [tag |-> id, ref |-> id, dead |-> dead]
Countdowns(ids) == SetToBag([ref: ids, conv: {active}])
TimedOf(ids) == {m \in ids : log[m].timed}

----------------------------------------------------------------------------
(* openDM *)

OpenDM(p) ==
    /\ life = "open" /\ opened < MaxOpens
    /\ opened' = opened + 1
    /\ active' = p /\ screen' = <<>>
    /\ opens' = opens \cup {[n |-> opened + 1, conv |-> p, stage |-> "session",
                             list |-> <<>>, ram |-> {}, todo |-> {}, slot |-> 0]}
    /\ UNCHANGED <<storeVars, server, pending, arriving, timers, life, past>>

\* initiateSession gave a session and getSettings is over; or it gave none
ReadHistory(o) ==
    /\ o.stage = "session"
    /\ \/ opens' = (opens \ {o}) \cup {[o EXCEPT !.stage = "reading", !.list = stored[o.conv]]}
       \/ opens' = opens \ {o}
    /\ UNCHANGED <<storeVars, server, active, screen, pending, arriving, opened,
                   timers, life, past>>

\* merged.sort by timestamp, which the ids follow; sort is stable
InOrder(list) ==
    LET Before(i, j) == \/ list[i].id < list[j].id
                        \/ list[i].id = list[j].id /\ i < j
        Sorts(p) == \A j, k \in DOMAIN p : j < k => Before(p[j], p[k])
    IN  {[k \in DOMAIN p |-> list[p[k]]] :
            p \in {q \in SetToSeqs(DOMAIN list) : Sorts(q)}}

\* The list to draw, and the messages in it whose time was up by then
MergeHistory(o) ==
    /\ o.stage = "reading"
    /\ \E list \in InOrder(Merged(o.list, session[o.conv])) :
          opens' = (opens \ {o}) \cup
             {[o EXCEPT !.stage = "cleaning", !.list = list,
                        !.ram = Ids(list) \ Ids(o.list),
                        !.todo = (due \ DeadIds(list)) \cap Ids(list)]}
    /\ UNCHANGED <<storeVars, server, active, screen, pending, arriving, opened,
                   timers, life, past>>

\* One `await markDeepDeleted` per expired message.  An entry that came from the
\* session is the session's own object, and is marked at once.
CleanNext(o, s) ==
    LET m == Min(o.todo) IN
    /\ o.stage = "cleaning" /\ o.todo # {}
    /\ MarkDeepDeleted(s, o.conv, m)
    /\ session' = IF m \in o.ram THEN [session EXCEPT ![o.conv] = Marked(@, m)]
                  ELSE session
    /\ opens' = (opens \ {o}) \cup
          {[o EXCEPT !.stage = "marking", !.slot = s, !.todo = @ \ {m},
                     !.list = Marked(@, m)]}
    /\ UNCHANGED <<server, active, screen, pending, arriving, opened, timers, life, past>>

\* Drawn into whatever conversation is on screen
DrawHistory(o) ==
    /\ o.stage = "cleaning" /\ o.todo = {}
    /\ screen' = screen \o [i \in DOMAIN o.list |-> Drawn(o.list[i].id, o.list[i].dead)]
    /\ timers' = timers (+) Countdowns(TimedOf(Ids(o.list) \ DeadIds(o.list)))
    /\ opens' = opens \ {o}
    /\ UNCHANGED <<storeVars, server, active, pending, arriving, opened, life, past>>

----------------------------------------------------------------------------
(* Sending: the tail of _sendMessageInner, and the server's part *)

SendMessage ==
    LET t == Len(typed) + 1 IN
    /\ Typist /\ life = "open" /\ active # Nobody
    /\ -t \in Id /\ Len(log) + Len(outbox) + 1 \in Msg
    /\ typed' = Append(typed, active)
    /\ outbox' = Append(outbox, t)
    /\ screen' = Append(screen, Drawn(-t, FALSE))
    /\ timers' = IF "mine" \in Timed THEN timers (+) Countdowns({-t}) ELSE timers
    /\ pending' = pending \cup {[temp |-> -t, conv |-> active]}
    /\ UNCHANGED <<storeVars, log, inbox, due, active, arriving, opens, opened,
                   life, past>>

\* The server stores a message and pushes it to the page's socket
Deliver(c, author, temp) ==
    /\ Len(log) + 1 \in Msg
    /\ log' = Append(log, [conv |-> c, mine |-> author = "mine", temp |-> temp,
                           timed |-> author \in Timed, gone |-> FALSE])
    /\ inbox' = Append(inbox, [kind |-> "message", id |-> Len(log) + 1])
    /\ UNCHANGED <<storeVars, typed, due, page, life, past>>

AcceptSent ==
    /\ outbox # <<>>
    /\ Deliver(typed[Head(outbox)], "mine", Head(outbox))
    /\ outbox' = Tail(outbox)

\* Room is left for what is on its way
SentElsewhere(c) ==
    /\ Len(log) + Len(outbox) + 1 \in Msg
    /\ \E author \in Elsewhere : Deliver(c, author, 0)
    /\ UNCHANGED outbox

----------------------------------------------------------------------------
(* onReceiveMessage *)

\* Up to the first await: whether the conversation is on screen is settled here
OnReceiveMessage ==
    LET m == Head(inbox).id IN
    /\ inbox # <<>> /\ Head(inbox).kind = "message"
    /\ inbox' = Tail(inbox)
    /\ arriving' = arriving \cup {[msg |-> m, here |-> log[m].conv = active]}
    /\ UNCHANGED <<storeVars, typed, outbox, log, due, active, screen, pending,
                   opens, opened, timers, life, past>>

Waiting == {p \in pending : Present(p.temp)}

\* The first of the bubbles in the queue takes the id of the echo
Confirm(mine, m) ==
    IF mine = {} THEN pending' = Waiting /\ UNCHANGED screen
    ELSE \E p \in mine :
        /\ \A q \in mine : q.temp <= p.temp
        /\ pending' = Waiting \ {p}
        /\ screen' = IF Present(m) THEN screen
                     ELSE [screen EXCEPT ![Min(Elements(p.temp))].tag = m]

\* Mutant: the oldest bubble of any conversation.
ReconcileOldest(m) == Confirm(Waiting, m)

\* The oldest waiting bubble of the conversation
ReconcileOutgoing(m) == Confirm({p \in Waiting : p.conv = log[m].conv}, m)

\* Mutant: bubbles on screen are dropped too.
DropAllWaiting(c) == pending' = {p \in pending : p.conv # c}

\* An echo for a conversation in the background
DropWaiting(c) == pending' = {p \in pending : p.conv # c \/ Present(p.temp)}

\* After the awaits: draw or reconcile, then save
Show(a, s) ==
    LET m == a.msg
        c == log[m].conv
    IN  /\ arriving' = arriving \ {a}
        /\ CASE log[m].mine /\ a.here -> ReconcileOutgoing(m) /\ UNCHANGED timers
             [] log[m].mine /\ ~a.here -> DropWaiting(c) /\ UNCHANGED <<screen, timers>>
             [] ~log[m].mine /\ a.here ->
                   /\ screen' = Append(screen, Drawn(m, FALSE))
                   /\ timers' = timers (+) Countdowns(TimedOf({m}))
                   /\ UNCHANGED pending
             [] OTHER -> UNCHANGED <<screen, pending, timers>>
        /\ SaveMessage(s, c, m)
        /\ UNCHANGED <<server, active, opens, opened, life, past>>

----------------------------------------------------------------------------
(* Deletion and expiry *)

\* "Delete for everyone" on a live own bubble, or the same elsewhere ("peer").  A
\* bubble drawn on sending passes its temporary id, which the server does not know.
Deletable == {m \in DOMAIN log :
    \/ "peer" \in Clicks
    \/ /\ "everyone" \in Clicks /\ life = "open" /\ log[m].mine
       /\ \E i \in DOMAIN screen : screen[i].ref = m /\ ~screen[i].dead}

\* Bound: once for a message
DeleteForEveryone(m) ==
    /\ m \in Deletable /\ ~log[m].gone
    /\ log' = [log EXCEPT ![m].gone = TRUE]
    /\ inbox' = Append(inbox, [kind |-> "deleted", id |-> m])
    /\ UNCHANGED <<storeVars, typed, outbox, due, page, life, past>>

Elapse(m) ==
    /\ log[m].timed /\ m \notin due
    /\ due' = due \cup {m}
    /\ UNCHANGED <<storeVars, typed, outbox, log, inbox, page, life, past>>

\* _markMessageExpiredLocally; with no conversation the mark goes to an entry
\* of localStorage that nobody reads
MarkExpiredLocally(ref, c, s) ==
    /\ screen' = Greyed(ref)
    /\ IF c = Nobody THEN UNCHANGED storeVars
       ELSE MarkDeepDeleted(s, c, ref) /\ UNCHANGED session

OnMessageDeleted(s) ==
    /\ inbox # <<>> /\ Head(inbox).kind = "deleted"
    /\ inbox' = Tail(inbox)
    /\ MarkExpiredLocally(Head(inbox).id, active, s)
    /\ UNCHANGED <<typed, outbox, log, due, active, pending, arriving, opens,
                   opened, timers, life, past>>

CountdownEnds(t, s) ==
    /\ t.ref > 0 => t.ref \in due
    /\ timers' = timers (-) SetToBag({t})
    /\ MarkExpiredLocally(t.ref, t.conv, s)
    /\ UNCHANGED <<server, active, pending, arriving, opens, opened, life, past>>

\* "Delete for me"
DeleteForMe(b, s) ==
    /\ "me" \in Clicks /\ life = "open" /\ ~b.dead
    /\ DeleteMessageLocal(s, active, b.ref)
    /\ UNCHANGED <<server, page, life, past>>

----------------------------------------------------------------------------
(* Calls of the store that go on; what their callers do when they are over *)

ResumeCall(s) ==
    /\ AppendToHistory(s) \/ WriteHistory(s) \/ WriteReduced(s)
    /\ UNCHANGED <<server, page, life, past>>

FinishMark(s) ==
    /\ WriteMark(s)
    /\ opens' = {IF o.stage = "marking" /\ o.slot = s
                 THEN [o EXCEPT !.stage = "cleaning", !.slot = 0] ELSE o : o \in opens}
    /\ UNCHANGED <<server, active, screen, pending, arriving, opened, timers, life, past>>

\* A call that failed removes no element
FinishDrop(s) ==
    /\ WriteDrop(s)
    /\ screen' = IF Fits(s) THEN Removed(calls[s].id) ELSE screen
    /\ UNCHANGED <<server, active, pending, arriving, opens, opened, timers, life, past>>

----------------------------------------------------------------------------
(* Leaving the page *)

Logout ==
    /\ "logout" \in Clicks /\ life = "open"
    /\ ClearAll
    /\ life' = "leaving"
    /\ past' = UNION {Ids(stored[c]) : c \in Conv}
    /\ UNCHANGED <<server, page>>

\* Everything in memory is gone; what was on its way to the page is lost, what
\* was on its way to the server may be
Unloaded ==
    /\ Unload
    /\ active' = Nobody /\ screen' = <<>> /\ pending' = {}
    /\ arriving' = {} /\ opens' = {} /\ timers' = EmptyBag
    /\ inbox' = <<>> /\ outbox' \in {outbox, <<>>}
    /\ UNCHANGED <<typed, log, due, opened, past>>

Reload == "reload" \in Clicks /\ life = "open" /\ opened > 0 /\ Unloaded /\ UNCHANGED life
Leave == life = "leaving" /\ Unloaded /\ life' = "closed"

----------------------------------------------------------------------------
Init ==
    /\ StoreInit
    /\ active = Nobody /\ screen = <<>> /\ pending = {} /\ typed = <<>>
    /\ outbox = <<>> /\ log = <<>> /\ inbox = <<>> /\ arriving = {}
    /\ opens = {} /\ opened = 0 /\ timers = EmptyBag /\ due = {}
    /\ life = "open" /\ past = {}

Click ==
    \/ \E c \in Conv : OpenDM(c)
    \/ SendMessage \/ Logout \/ Reload \/ Leave
    \/ \E i \in DOMAIN screen :
          \E s \in Slot : Free(s) /\ DeleteForMe(screen[i], s)

Arrives(m) == \E s \in Slot : \E a \in arriving : a.msg = m /\ Free(s) /\ Show(a, s)

Handle ==
    \/ OnReceiveMessage
    \/ \E s \in Slot : Free(s) /\ (OnMessageDeleted(s)
                                  \/ \E t \in BagToSet(timers) : CountdownEnds(t, s))
    \/ \E o \in opens :
          \/ ReadHistory(o) \/ MergeHistory(o) \/ DrawHistory(o)
          \/ \E s \in Slot : Free(s) /\ CleanNext(o, s)

Continue(s) == ResumeCall(s) \/ FinishMark(s) \/ FinishDrop(s)

Next ==
    /\ life # "closed"
    /\ \/ Click \/ Handle \/ AcceptSent
       \/ \E m \in Msg : Arrives(m)
       \/ \E s \in Slot : Continue(s)
       \/ \E c \in Conv : SentElsewhere(c)
       \/ \E m \in DOMAIN log : DeleteForEveryone(m) \/ Elapse(m)

Spec == Init /\ [][Next]_vars

\* The server answers a send, and the page's event loop runs what is ready
FairSpec ==
    /\ Spec
    /\ WF_vars(AcceptSent) /\ WF_vars(Handle)
    /\ \A m \in Msg : WF_vars(Arrives(m))
    /\ \A s \in Slot : WF_vars(Continue(s))
----------------------------------------------------------------------------
(* Properties *)

\* Type invariant of the page and its store.
TypeOK ==
    /\ StoreTypeOK
    /\ active \in Conv \cup {Nobody} /\ screen \in Seq(Bubble)
    /\ pending \subseteq [temp: Id \ Msg, conv: Conv] /\ typed \in Seq(Conv)
    /\ outbox \in Seq(Nat) /\ log \in Seq(Message)
    /\ inbox \in Seq([kind: {"message", "deleted"}, id: Msg])
    /\ arriving \subseteq Arrival /\ opens \subseteq Open /\ opened \in 0..MaxOpens
    /\ BagToSet(timers) \subseteq Timer /\ IsABag(timers)
    /\ life \in {"open", "leaving", "closed"} /\ due \subseteq Msg /\ past \subseteq Msg

\* A bubble that says "sending" has its entry in _pendingOutgoing, however opening
\* conversations and echoes overlap: otherwise no echo would ever confirm it
\* (chat.js:671-679 and 1173-1182).
SendingBubbleIsQueued ==
    \A i \in DOMAIN screen :
        screen[i].tag < 0 => \E p \in pending : p.temp = screen[i].tag

\* A bubble drawn on sending takes the id of a message that the same user sent to
\* the same peer: never one from another conversation, even when the page switches
\* between the echo's arrival and its turn (chat.js:613, 672-673, 1180).
EchoStaysInConversation ==
    \A i \in DOMAIN screen :
        screen[i].ref < 0 /\ screen[i].tag > 0 =>
            /\ log[screen[i].tag].mine
            /\ log[screen[i].tag].conv = typed[-screen[i].ref]

\* After logout nothing of the old history is in localStorage, except in a
\* conversation one of whose updates was in progress (chat.js:1273-1277,
\* storage.js:313-323).
LogoutForgets ==
    life # "open" => \A c \in Conv \ raced : Ids(stored[c]) \cap past = {}

\* Every bubble that says "sending" is confirmed in the end, or is gone from the
\* screen (chat.js:13-15).
SendingEnds == \A t \in Id \ Msg : Present(t) ~> ~Present(t)

\* "In local storage for the conversation it belongs to" (chat.js:703-704): when
\* the update that message_deleted or a countdown starts is over, no live copy is
\* left in the history of the message's own conversation.
DeletionIsStored ==
    [][\A s \in Slot : FinishMark(s) /\ Fits(s) /\ calls[s].id \in Msg =>
          LET c == log[calls[s].id].conv
          IN  c \notin raced => calls[s].id \notin Ids(stored'[c]) \ DeadIds(stored'[c])]_vars
=============================================================================
