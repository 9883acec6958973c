-------------------------- MODULE HandshakeProofs --------------------------
(***************************************************************************)
(* Theorems about Handshake, for every set of users and clients, every     *)
(* rotation threshold and every bound.  First the inductive invariant and  *)
(* what may never be undone by a step (Grows), then one lemma per action,  *)
(* then the properties.                                                    *)
(***************************************************************************)
EXTENDS Handshake, SequenceTheorems, FiniteSetTheorems, TLAPS

USE UserOfAssumption, NobodyAssumption, ActorsAssumption, BoundsAssumption

----------------------------------------------------------------------------
(* The inductive invariant *)

\* The client that made a half holds it for session i, or has dropped it.
Held(i, h) == ram[h[1]][i].mine = h \/ h \in gone

\* Half h answers session i, and its maker has stored it.
Answers(i, h) == h \in AnswersTo(i) /\ Held(i, h)

\* A half made to open a session: it answers none.
MadeToOpen(h) == h[2] \in DOMAIN made[h[1]] /\ made[h[1]][h[2]] = 0

\* A session is between two users, each half in it was made by a client of its
\* user, and no other session was opened with the same half.
RowOK(i) ==
    LET r == rows[i]
    IN  /\ r.a # r.b /\ UserOf[r.pubA[1]] = r.a /\ MadeToOpen(r.pubA)
        /\ r.pubB # None => Answers(i, r.pubB)
        /\ \A j \in DOMAIN rows : rows[j].pubA = r.pubA => j = i
        /\ Held(i, r.pubA) \/ \E p \in posts : p.key = r.pubA /\ p.stage = "created"

\* A session label is 0 or a session of the table.
LabelOK(i) == i = 0 \/ i \in DOMAIN rows

\* Keys come from the half that opened a session and one that answered it.
SecretOK(S) ==
    \/ S = {}
    \/ \E i \in DOMAIN rows, h \in Half : Answers(i, h) /\ S = {rows[i].pubA, h}

PacketOK(c, x) ==
    /\ x.kind \in {"request", "ready", "rotate"} => x.id \in DOMAIN rows
    /\ x.kind = "request" => rows[x.id].b = UserOf[c]
    /\ x.kind = "ready" => /\ rows[x.id].a = UserOf[c] /\ Answers(x.id, x.pub)
                           /\ x.pub \in Half /\ x.user \in User
    /\ x.kind = "message" => x.id \in DOMAIN messages
    /\ x.kind \in {"online", "offline"} => x.user \in User

\* A page shows no conversation with its own user, and a session only in one.
ConvOK(c) == /\ LabelOK(conv[c].sid)
             /\ conv[c].sid # 0 => conv[c].peer # Nobody
             /\ conv[c].peer # UserOf[c]

\* What a client files under a session is its own half of it and, once it has
\* one, the half of the other end.
SlotOK(c, i, s) ==
    /\ s.theirs # None => s.mine # None
    /\ s.mine # None =>
          /\ i \in DOMAIN rows /\ s.mine[1] = c
          /\ \/ /\ UserOf[c] = rows[i].a /\ s.mine = rows[i].pubA
                /\ s.theirs # None => Answers(i, s.theirs)
             \/ /\ UserOf[c] = rows[i].b /\ s.mine \in AnswersTo(i)
                /\ s.theirs = rows[i].pubA

PageOK(c) ==
    /\ Len(made[c]) <= MaxKeys /\ born[c] <= Len(made[c])
    /\ \A n \in 1..born[c] : <<c, n>> \in gone

PostOK(p) ==
    /\ p.key[1] = p.client /\ MadeToOpen(p.key) /\ p.peer # UserOf[p.client]
    /\ Alive(p.key) => conv[p.client].peer # Nobody
    /\ IF p.stage = "sent" THEN \A i \in DOMAIN rows : rows[i].pubA # p.key
       ELSE /\ p.id \in DOMAIN rows /\ rows[p.id].pubA = p.key /\ Alive(p.key)
    /\ \A q \in posts : q.key = p.key => q = p

AnswerOK(a) == /\ a.key[1] = a.client /\ a.key \in AnswersTo(a.id)
               /\ a.stage # "verifying" => Held(a.id, a.key)

ReadyOK(r) == /\ r.id \in DOMAIN rows /\ UserOf[r.client] = rows[r.id].a
              /\ r.key = rows[r.id].pubA /\ r.key[1] = r.client
              /\ Answers(r.id, r.pub)

DraftOK(c) == /\ SecretOK(draft[c].secret)
              /\ draft[c].busy => conv[c].peer # Nobody /\ draft[c].typedFor # Nobody

RowsOK == \A i \in DOMAIN rows : RowOK(i)
AnsweredOK == \A i \in SessionId :
    /\ IsFiniteSet(AnswersTo(i))
    /\ \A h \in AnswersTo(i) : i \in DOMAIN rows /\ UserOf[h[1]] = rows[i].b
InboxesOK == \A c \in Client : \A n \in DOMAIN inbox[c] : PacketOK(c, inbox[c][n])
ConvsOK == \A c \in Client : ConvOK(c)
SlotsOK == \A c \in Client, i \in SessionId : SlotOK(c, i, ram[c][i])
PagesOK == \A c \in Client : PageOK(c)
PostsOK == \A p \in posts : PostOK(p)
AnswerRunsOK == \A a \in answers : AnswerOK(a)
ReadiesOK == \A r \in readies : ReadyOK(r)
OpeningsOK == \A o \in opening : o.msg \in DOMAIN messages
DraftsOK == \A c \in Client : DraftOK(c)
OutboxesOK == \A c \in Client : \A n \in DOMAIN outbox[c] :
    LabelOK(outbox[c][n].sid) /\ SecretOK(outbox[c][n].secret)
MessagesOK == \A k \in DOMAIN messages :
    LabelOK(messages[k].sid) /\ SecretOK(messages[k].secret)

IInv == /\ TypeOK /\ RowsOK /\ AnsweredOK /\ InboxesOK /\ ConvsOK /\ SlotsOK
        /\ PagesOK /\ PostsOK /\ AnswerRunsOK /\ ReadiesOK /\ OpeningsOK
        /\ DraftsOK /\ OutboxesOK /\ MessagesOK

----------------------------------------------------------------------------
(* Sequences and sets *)

\* What a sequence of a type contains, and where.
LEMMA Elements ==
    ASSUME NEW S, NEW q \in Seq(S)
    PROVE  /\ DOMAIN q = 1..Len(q) /\ Len(q) \in Nat
           /\ \A n \in DOMAIN q : q[n] \in S
OBVIOUS

\* Appending keeps what was there.
LEMMA Appending ==
    ASSUME NEW S, NEW q \in Seq(S), NEW e \in S
    PROVE  /\ Append(q, e) \in Seq(S) /\ Len(Append(q, e)) = Len(q) + 1
           /\ DOMAIN Append(q, e) = DOMAIN q \cup {Len(q) + 1}
           /\ Len(q) + 1 \notin DOMAIN q
           /\ \A n \in DOMAIN q : Append(q, e)[n] = q[n]
           /\ Append(q, e)[Len(q) + 1] = e
BY AppendProperties, Elements

\* Every element of a concatenation is an element of one of its parts.
LEMMA Concatenating ==
    ASSUME NEW S, NEW q \in Seq(S), NEW r \in Seq(S)
    PROVE  /\ q \o r \in Seq(S)
           /\ \A n \in DOMAIN (q \o r) :
                 \/ \E m \in DOMAIN q : (q \o r)[n] = q[m]
                 \/ \E m \in DOMAIN r : (q \o r)[n] = r[m]
<1>1. /\ q \o r \in Seq(S) /\ Len(q \o r) = Len(q) + Len(r)
      /\ \A n \in 1..Len(q) + Len(r) :
            (q \o r)[n] = IF n <= Len(q) THEN q[n] ELSE r[n - Len(q)]
  BY ConcatProperties
<1>2. ASSUME NEW n \in DOMAIN (q \o r)
      PROVE  \/ \E m \in DOMAIN q : (q \o r)[n] = q[m]
             \/ \E m \in DOMAIN r : (q \o r)[n] = r[m]
  <2>1. /\ n \in 1..Len(q) + Len(r)
        /\ DOMAIN q = 1..Len(q) /\ DOMAIN r = 1..Len(r)
        /\ Len(q) \in Nat /\ Len(r) \in Nat
    BY <1>1, Elements
  <2>2. CASE n <= Len(q)
    <3>1. n \in DOMAIN q /\ (q \o r)[n] = q[n]
      BY <1>1, <2>1, <2>2
    <3> QED BY <3>1
  <2>3. CASE ~ (n <= Len(q))
    <3>1. n - Len(q) \in DOMAIN r /\ (q \o r)[n] = r[n - Len(q)]
      BY <1>1, <2>1, <2>3
    <3> QED BY <3>1
  <2> QED BY <2>2, <2>3
<1> QED BY <1>1, <1>2

\* The head of a sequence and what its tail contains.
LEMMA Taking ==
    ASSUME NEW S, NEW q \in Seq(S), q # <<>>
    PROVE  /\ 1 \in DOMAIN q /\ Head(q) = q[1] /\ Tail(q) \in Seq(S)
           /\ \A n \in DOMAIN Tail(q) : n + 1 \in DOMAIN q /\ Tail(q)[n] = q[n + 1]
<1>1. Len(q) \in Nat \ {0} /\ DOMAIN q = 1..Len(q)
  BY EmptySeq, Elements
<1>2. /\ Tail(q) \in Seq(S) /\ Len(Tail(q)) = Len(q) - 1
      /\ \A n \in 1..Len(Tail(q)) : Tail(q)[n] = q[n + 1]
  BY HeadTailProperties
<1>3. DOMAIN Tail(q) = 1..Len(Tail(q))
  BY <1>2, Elements
<1> QED BY <1>1, <1>2, <1>3

\* A finite set has orders, and each is a sequence of its elements.
LEMMA Ordering ==
    ASSUME NEW S, IsFiniteSet(S), NEW q \in SetToSeqs(S)
    PROVE  q \in Seq(S)
<1>1. Cardinality(S) \in Nat
  BY FS_CardinalityType
<1>2. q \in [1..Cardinality(S) -> S]
  BY DEF SetToSeqs
<1> QED BY <1>1, <1>2

LEMMA Halves ==
    /\ None \notin Half
    /\ \A h \in Half : h[1] \in Client /\ h[2] \in 1..MaxKeys /\ h = <<h[1], h[2]>>
    /\ \A c \in Client, n \in 1..MaxKeys : <<c, n>> \in Half
BY DEF Half, None

LEMMA Ids ==
    ASSUME TypeOK
    PROVE  /\ DOMAIN rows = 1..Len(rows) /\ Len(rows) \in Nat
           /\ DOMAIN rows \subseteq SessionId
           /\ \A i \in DOMAIN rows : rows[i] \in Row
           /\ DOMAIN messages = 1..Len(messages) /\ Len(messages) \in Nat
           /\ DOMAIN messages \subseteq MsgId
           /\ \A k \in DOMAIN messages : messages[k] \in Message
           /\ 0 \notin SessionId /\ SessionId \subseteq Label /\ 0 \in Label
           /\ SessionId \subseteq Nat /\ Label = SessionId \cup {0}
<1>1. /\ DOMAIN rows = 1..Len(rows) /\ Len(rows) \in Nat
      /\ \A i \in DOMAIN rows : rows[i] \in Row
  BY Elements DEF TypeOK
<1>2. /\ DOMAIN messages = 1..Len(messages) /\ Len(messages) \in Nat
      /\ \A k \in DOMAIN messages : messages[k] \in Message
  BY Elements DEF TypeOK
<1>3. Len(rows) <= MaxSessions /\ Len(messages) <= MaxMessages
  BY DEF TypeOK
<1> QED BY <1>1, <1>2, <1>3 DEF SessionId, MsgId, Label

----------------------------------------------------------------------------
(* What no step undoes: sessions, whose halves opened them, which half     *)
(* answers which session, and that a half is held or was dropped.          *)

RowsGrow == \A i \in DOMAIN rows :
    /\ i \in DOMAIN rows' /\ rows'[i].a = rows[i].a
    /\ rows'[i].b = rows[i].b /\ rows'[i].pubA = rows[i].pubA
MadeGrows == \A h \in Half : h[2] \in DOMAIN made[h[1]] =>
    /\ h[2] \in DOMAIN made'[h[1]] /\ made'[h[1]][h[2]] = made[h[1]][h[2]]
HeldStays == \A i \in SessionId, h \in Half : Held(i, h) => Held(i, h)'
Grows == /\ RowsGrow /\ MadeGrows /\ HeldStays /\ gone \subseteq gone'
         /\ DOMAIN messages \subseteq DOMAIN messages'

\* What is true of a record that no step changes stays true.
LEMMA Lasting ==
    ASSUME TypeOK, Grows
    PROVE  /\ \A i : LabelOK(i) => LabelOK(i)'
           /\ \A h \in Half : MadeToOpen(h) => MadeToOpen(h)'
           /\ \A i \in SessionId : \A h \in AnswersTo(i) : h \in AnswersTo(i)'
           /\ \A i \in SessionId : \A h : Answers(i, h) => Answers(i, h)'
           /\ \A S : SecretOK(S) => SecretOK(S)'
<1>1. \A i : LabelOK(i) => LabelOK(i)'
  BY DEF LabelOK, Grows, RowsGrow
<1>2. \A h \in Half : MadeToOpen(h) => MadeToOpen(h)'
  BY DEF MadeToOpen, Grows, MadeGrows
<1>3. \A i \in SessionId : \A h \in AnswersTo(i) : h \in AnswersTo(i)'
  BY DEF AnswersTo, Grows, MadeGrows
<1>4. \A i \in SessionId : \A h : Answers(i, h) => Answers(i, h)'
  <2> SUFFICES ASSUME NEW i \in SessionId, NEW h, Answers(i, h)
               PROVE  Answers(i, h)'
    OBVIOUS
  <2>1. h \in Half
    BY DEF Answers, AnswersTo
  <2> QED BY <1>3, <2>1 DEF Answers, Grows, HeldStays
<1>5. ASSUME NEW S, SecretOK(S) PROVE SecretOK(S)'
  <2>1. CASE S = {}
    BY <2>1 DEF SecretOK
  <2>2. ASSUME NEW i \in DOMAIN rows, NEW h \in Half,
               Answers(i, h), S = {rows[i].pubA, h}
        PROVE  SecretOK(S)'
    <3>1. Answers(i, h)'
      BY <1>4, <2>2, Ids
    <3>2. i \in DOMAIN rows' /\ S = {rows'[i].pubA, h}
      BY <2>2 DEF Grows, RowsGrow
    <3> QED BY <3>1, <3>2 DEF SecretOK
  <2> QED BY <1>5, <2>1, <2>2 DEF SecretOK
<1> QED BY <1>1, <1>2, <1>3, <1>4, <1>5

LEMMA LastingRecords ==
    ASSUME TypeOK, Grows
    PROVE  /\ \A c \in Client, x \in Packet : PacketOK(c, x) => PacketOK(c, x)'
           /\ \A c \in Client, i \in SessionId, s \in Slot :
                 SlotOK(c, i, s) => SlotOK(c, i, s)'
           /\ \A a \in Answer : AnswerOK(a) => AnswerOK(a)'
           /\ \A r \in Ready : ReadyOK(r) => ReadyOK(r)'
<1> USE Lasting, Ids
<1>1. ASSUME NEW c \in Client, NEW x \in Packet, PacketOK(c, x)
      PROVE  PacketOK(c, x)'
  BY <1>1 DEF PacketOK, Grows, RowsGrow
<1>2. ASSUME NEW c \in Client, NEW i \in SessionId, NEW s \in Slot, SlotOK(c, i, s)
      PROVE  SlotOK(c, i, s)'
  BY <1>2 DEF SlotOK, Grows, RowsGrow
<1>3. ASSUME NEW a \in Answer, AnswerOK(a) PROVE AnswerOK(a)'
  <2>1. a.id \in SessionId /\ a.key \in Half
    BY DEF Answer
  <2> QED BY <1>3, <2>1 DEF AnswerOK, Grows, HeldStays
<1>4. ASSUME NEW r \in Ready, ReadyOK(r) PROVE ReadyOK(r)'
  BY <1>4 DEF ReadyOK, Grows, RowsGrow
<1> QED BY <1>1, <1>2, <1>3, <1>4

LEMMA RowLasts ==
    ASSUME TypeOK, Grows, NEW i \in DOMAIN rows, RowOK(i),
           DOMAIN rows' = DOMAIN rows,
           rows'[i].pubB = rows[i].pubB \/ Answers(i, rows[i].pubB)',
           \A p \in posts : p.stage = "created" => p \in posts'
    PROVE  RowOK(i)'
<1> DEFINE x == rows[i].pubA
           y == rows[i].pubB
<1>1. /\ i \in SessionId /\ x \in Half
      /\ \A j \in DOMAIN rows : /\ rows'[j].a = rows[j].a /\ rows'[j].b = rows[j].b
                               /\ rows'[j].pubA = rows[j].pubA
  BY Ids DEF Row, Grows, RowsGrow
<1>2. MadeToOpen(rows[i].pubA)'
  BY <1>1 DEF RowOK, Grows, MadeGrows, MadeToOpen
<1>3. (rows[i].pubB # None => Answers(i, rows[i].pubB))'
  <2>1. CASE Answers(i, rows[i].pubB)'
    BY <2>1
  <2>2. CASE rows'[i].pubB = y /\ y # None
    <3>1. y \in AnswersTo(i) /\ y \in Half /\ Held(i, y)
      BY <2>2 DEF RowOK, Answers, AnswersTo
    <3>2. PICK z : z = y
      OBVIOUS
    <3>3. z \in AnswersTo(i)' /\ Held(i, z)'
      BY <1>1, <3>1, <3>2, Lasting DEF Grows, HeldStays
    <3> QED BY <2>2, <3>2, <3>3 DEF Answers, AnswersTo, Held
  <2> QED BY <2>1, <2>2
<1>4. Held(i, x) => Held(i, rows[i].pubA)'
  <2>1. PICK z : z = x
    OBVIOUS
  <2>2. Held(i, z) => Held(i, z)'
    BY <1>1, <2>1 DEF Grows, HeldStays
  <2>3. rows'[i].pubA = z
    BY <1>1, <2>1
  <2> QED BY <2>1, <2>2, <2>3 DEF Held
<1>5. (\E p \in posts : p.key = x /\ p.stage = "created")
        => (\E p \in posts : p.key = rows[i].pubA /\ p.stage = "created")'
  BY <1>1
<1>6. (/\ rows[i].a # rows[i].b /\ UserOf[rows[i].pubA[1]] = rows[i].a
       /\ \A j \in DOMAIN rows : rows[j].pubA = rows[i].pubA => j = i)'
  BY <1>1 DEF RowOK
<1>7. Held(i, x) \/ \E p \in posts : p.key = x /\ p.stage = "created"
  BY DEF RowOK
<1> QED BY <1>2, <1>3, <1>4, <1>5, <1>6, <1>7 DEF RowOK

\* The parts of the invariant about variables that a step leaves alone.
LEMMA Carry ==
    ASSUME IInv, Grows
    PROVE  /\ (/\ DOMAIN rows' = DOMAIN rows
               /\ \A i \in DOMAIN rows :
                     rows'[i].pubB = rows[i].pubB \/ Answers(i, rows[i].pubB)'
               /\ \A p \in posts : p.stage = "created" => p \in posts')
                  => RowsOK'
           /\ made' = made => AnsweredOK'
           /\ inbox' = inbox => InboxesOK'
           /\ conv' = conv => ConvsOK'
           /\ ram' = ram => SlotsOK'
           /\ made' = made /\ born' = born => PagesOK'
           /\ (/\ DOMAIN rows' = DOMAIN rows /\ <<conv, born>>' = <<conv, born>>
               /\ posts' \subseteq posts)
                  => PostsOK'
           /\ answers' \subseteq answers => AnswerRunsOK'
           /\ readies' \subseteq readies => ReadiesOK'
           /\ opening' \subseteq opening => OpeningsOK'
           /\ conv' = conv /\ draft' = draft => DraftsOK'
           /\ outbox' = outbox => OutboxesOK'
           /\ messages' = messages => MessagesOK'
<1> USE Lasting, LastingRecords, Ids DEF IInv
<1>1. ASSUME DOMAIN rows' = DOMAIN rows,
             \A i \in DOMAIN rows :
                rows'[i].pubB = rows[i].pubB \/ Answers(i, rows[i].pubB)',
             \A p \in posts : p.stage = "created" => p \in posts'
      PROVE  RowsOK'
  BY <1>1, RowLasts DEF RowsOK
<1>2. ASSUME made' = made PROVE AnsweredOK'
  <2>1. \A i : AnswersTo(i)' = AnswersTo(i)
    BY <1>2 DEF AnswersTo
  <2> QED BY <2>1 DEF AnsweredOK, Grows, RowsGrow
<1>3. ASSUME inbox' = inbox PROVE InboxesOK'
  <2>1. \A c \in Client : \A n \in DOMAIN inbox[c] : inbox[c][n] \in Packet
    BY DEF TypeOK
  <2> QED BY <1>3, <2>1 DEF InboxesOK
<1>4. ASSUME conv' = conv PROVE ConvsOK'
  BY <1>4 DEF ConvsOK, ConvOK
<1>5. ASSUME ram' = ram PROVE SlotsOK'
  <2>1. \A c \in Client, i \in SessionId : ram[c][i] \in Slot
    BY DEF TypeOK
  <2> QED BY <1>5, <2>1 DEF SlotsOK
<1>6. ASSUME made' = made, born' = born PROVE PagesOK'
  BY <1>6 DEF PagesOK, PageOK, Grows
<1>7. ASSUME DOMAIN rows' = DOMAIN rows, <<conv, born>>' = <<conv, born>>,
             posts' \subseteq posts
      PROVE  PostsOK'
  <2> SUFFICES ASSUME NEW p \in posts' PROVE PostOK(p)'
    BY DEF PostsOK
  <2>1. p \in posts /\ PostOK(p) /\ p.key \in Half
    BY <1>7 DEF PostsOK, TypeOK, Post
  <2>2. MadeToOpen(p.key)' /\ (Alive(p.key)' <=> Alive(p.key))
    BY <1>7, <2>1 DEF PostOK, Alive
  <2>3. \A j \in DOMAIN rows : rows'[j].pubA = rows[j].pubA
    BY DEF Grows, RowsGrow
  <2> QED BY <1>7, <2>1, <2>2, <2>3 DEF PostOK
<1>8. ASSUME answers' \subseteq answers PROVE AnswerRunsOK'
  BY <1>8 DEF AnswerRunsOK, TypeOK
<1>9. ASSUME readies' \subseteq readies PROVE ReadiesOK'
  BY <1>9 DEF ReadiesOK, TypeOK
<1>10. ASSUME opening' \subseteq opening PROVE OpeningsOK'
  BY <1>10 DEF OpeningsOK, Grows
<1>11. ASSUME conv' = conv, draft' = draft PROVE DraftsOK'
  BY <1>11 DEF DraftsOK, DraftOK
<1>12. ASSUME outbox' = outbox PROVE OutboxesOK'
  BY <1>12 DEF OutboxesOK
<1>13. ASSUME messages' = messages PROVE MessagesOK'
  BY <1>13 DEF MessagesOK
<1> QED BY <1>1, <1>2, <1>3, <1>4, <1>5, <1>6, <1>7, <1>8, <1>9, <1>10, <1>11,
           <1>12, <1>13

----------------------------------------------------------------------------
(* What the actions are made of *)

\* In this step client c makes half h for x: a session it answers, or 0.
Makes(c, x, h) ==
    /\ h \in Half /\ h = <<c, Len(made[c]) + 1>> /\ h[1] = c
    /\ h[2] \notin DOMAIN made[c]
    /\ h[2] \in DOMAIN made'[c] /\ made'[c][h[2]] = x
    /\ made' \in [Client -> Seq(Label)] /\ MadeGrows
    /\ \A i \in SessionId :
          AnswersTo(i)' = AnswersTo(i) \cup (IF i = x THEN {h} ELSE {})
    /\ born' = born /\ gone \subseteq gone' => PagesOK'

LEMMA NewHalf ==
    ASSUME IInv, NEW c \in Client, NEW x \in Label, Len(made[c]) < MaxKeys,
           made' = [made EXCEPT ![c] = Append(@, x)]
    PROVE  \E h : Makes(c, x, h)
<1> DEFINE n == Len(made[c]) + 1
           h == <<c, n>>
<1>1. /\ made \in [Client -> Seq(Label)] /\ born \in [Client -> Nat]
      /\ PagesOK
  BY DEF IInv, TypeOK
<1>2. /\ Append(made[c], x) \in Seq(Label) /\ n \notin DOMAIN made[c]
      /\ DOMAIN Append(made[c], x) = DOMAIN made[c] \cup {n}
      /\ \A k \in DOMAIN made[c] : Append(made[c], x)[k] = made[c][k]
      /\ Append(made[c], x)[n] = x /\ Len(Append(made[c], x)) = n
      /\ Len(made[c]) \in Nat
  <2>1. made[c] \in Seq(Label)
    BY <1>1
  <2> QED BY <2>1, Appending, Elements
<1>3. /\ made'[c] = Append(made[c], x) /\ made' \in [Client -> Seq(Label)]
      /\ \A d \in Client \ {c} : made'[d] = made[d]
  BY <1>1, <1>2
<1>4. n \in 1..MaxKeys
  BY <1>2
<1>5. h \in Half /\ h[1] = c /\ h[2] = n
  BY <1>4, Halves
<1>6. MadeGrows
  BY <1>2, <1>3, Halves DEF MadeGrows
<1>7. ASSUME NEW i \in SessionId
      PROVE  AnswersTo(i)' = AnswersTo(i) \cup (IF i = x THEN {h} ELSE {})
  <2>1. ASSUME NEW g \in Half
        PROVE  g \in AnswersTo(i)' <=> g \in AnswersTo(i) \/ (i = x /\ g = h)
    <3>1. g[1] \in Client /\ g = <<g[1], g[2]>>
      BY Halves
    <3>2. CASE g[1] # c
      BY <3>1, <3>2, <1>3, <1>5 DEF AnswersTo
    <3>3. CASE g[1] = c /\ g[2] # n
      BY <3>3, <1>2, <1>3, <1>5 DEF AnswersTo
    <3>4. CASE g[1] = c /\ g[2] = n
      <4>1. g = h
        BY <3>1, <3>4
      <4> QED BY <3>4, <4>1, <1>2, <1>3 DEF AnswersTo
    <3> QED BY <3>2, <3>3, <3>4
  <2>2. AnswersTo(i)' \subseteq Half /\ AnswersTo(i) \subseteq Half
    BY DEF AnswersTo
  <2> HIDE DEF h
  <2> QED BY <2>1, <2>2, <1>5
<1>8. ASSUME born' = born, gone \subseteq gone' PROVE PagesOK'
  <2> SUFFICES ASSUME NEW d \in Client PROVE PageOK(d)'
    BY DEF PagesOK
  <2>1. PageOK(d) /\ born[d] \in Nat /\ Len(made[d]) \in Nat
    BY <1>1, Elements DEF PagesOK
  <2>2. CASE d = c
    <3>1. Len(made'[d]) = n
      BY <1>2, <1>3, <2>2
    <3> QED BY <1>8, <1>2, <1>4, <2>1, <2>2, <3>1 DEF PageOK
  <2>3. CASE d # c
    BY <1>8, <1>3, <2>1, <2>3 DEF PageOK
  <2> QED BY <2>2, <2>3
<1> QED BY <1>2, <1>3, <1>5, <1>6, <1>7, <1>8 DEF Makes

\* initiateSession: the new POST has a half of its own.
LEMMA Initiating ==
    ASSUME IInv, NEW c \in Client, NEW v \in User, v # UserOf[c], Initiate(c, v)
    PROVE  /\ made' \in [Client -> Seq(Label)] /\ posts' \subseteq Post /\ MadeGrows
           /\ posts \subseteq posts'
           /\ born' = born /\ gone \subseteq gone' => PagesOK'
           /\ RowsGrow => AnsweredOK'
           /\ (/\ rows' = rows /\ born' = born /\ conv'[c].peer # Nobody
               /\ \A d \in Client : conv[d].peer # Nobody => conv'[d].peer # Nobody)
                  => PostsOK'
<1>0. PICK h :
         /\ h \in Half /\ h = <<c, Len(made[c]) + 1>> /\ h[1] = c
         /\ h[2] \notin DOMAIN made[c]
         /\ h[2] \in DOMAIN made'[c] /\ made'[c][h[2]] = 0
         /\ made' \in [Client -> Seq(Label)] /\ MadeGrows
         /\ \A i \in SessionId : AnswersTo(i)' = AnswersTo(i)
         /\ born' = born /\ gone \subseteq gone' => PagesOK'
  <2>1. 0 \in Label /\ 0 \notin SessionId
    BY Ids DEF IInv
  <2>2. Len(made[c]) < MaxKeys /\ made' = [made EXCEPT ![c] = Append(@, 0)]
    BY DEF Initiate
  <2>3. PICK h : Makes(c, 0, h)
    BY <2>1, <2>2, NewHalf
  <2>4. ASSUME NEW i \in SessionId PROVE AnswersTo(i)' = AnswersTo(i)
    <3>1. AnswersTo(i)' = AnswersTo(i) \cup (IF i = 0 THEN {h} ELSE {})
      BY <2>3 DEF Makes
    <3> QED BY <2>1, <3>1
  <2> QED BY <2>3, <2>4 DEF Makes
<1> DEFINE new == [client |-> c, peer |-> v, id |-> 0, stage |-> "sent", key |-> h]
<1>1. posts' = posts \cup {new}
  BY <1>0 DEF Initiate
<1>3. new \in Post
  BY <1>0, Ids DEF Post, IInv
<1>4. posts' \subseteq Post /\ posts \subseteq posts'
  BY <1>1, <1>3 DEF IInv, TypeOK
<1>5. ASSUME RowsGrow PROVE AnsweredOK'
  BY <1>0, <1>5 DEF AnsweredOK, RowsGrow, IInv
<1>6. ASSUME rows' = rows, born' = born, conv'[c].peer # Nobody,
             \A d \in Client : conv[d].peer # Nobody => conv'[d].peer # Nobody
      PROVE  PostsOK'
  <2>1. ASSUME NEW p \in posts
        PROVE  PostOK(p) /\ p.key # h /\ MadeToOpen(p.key)' /\ p.client \in Client
    <3>1. PostOK(p) /\ p.key \in Half /\ p.client \in Client
      BY DEF IInv, PostsOK, TypeOK, Post
    <3>2. MadeToOpen(p.key)'
      BY <3>1, <1>0 DEF MadeGrows, MadeToOpen, PostOK
    <3> QED BY <3>1, <3>2, <1>0 DEF PostOK, MadeToOpen
  <2>2. ASSUME NEW p \in posts PROVE PostOK(p)'
    BY <1>1, <1>6, <2>1, <2>2 DEF PostOK, Alive
  <2>3. PostOK(new)'
    <3>1. MadeToOpen(h)'
      BY <1>0 DEF MadeToOpen
    <3>2. \A i \in DOMAIN rows' : rows'[i].pubA # h
      BY <1>0, <1>6 DEF IInv, RowsOK, RowOK, MadeToOpen
    <3>3. \A q \in posts' : q.key = h => q = new
      BY <1>1, <2>1
    <3>4. /\ new.key = h /\ new.client = c /\ new.peer = v /\ new.stage = "sent"
      OBVIOUS
    <3> HIDE DEF new
    <3> QED BY <1>0, <1>6, <3>1, <3>2, <3>3, <3>4 DEF PostOK
  <2> HIDE DEF new
  <2> QED BY <1>1, <2>2, <2>3 DEF PostsOK
<1> QED BY <1>0, <1>4, <1>5, <1>6

\* What a client files under a session, where it held nothing, the same half,
\* or one that it drops in this step.
LEMMA Filing ==
    ASSUME IInv, NEW c \in Client, NEW i \in SessionId, NEW s \in Slot,
           ram' = [ram EXCEPT ![c][i] = s], gone \subseteq gone',
           ram[c][i].mine \in {None, s.mine} \cup gone'
    PROVE  /\ ram' \in [Client -> [SessionId -> Slot]] /\ ram'[c][i] = s /\ HeldStays
           /\ Grows /\ SlotOK(c, i, s)' => SlotsOK'
<1>1. /\ ram \in [Client -> [SessionId -> Slot]] /\ SlotsOK /\ TypeOK
  BY DEF IInv, TypeOK
<1>2. /\ ram' \in [Client -> [SessionId -> Slot]] /\ ram'[c][i] = s
      /\ \A d \in Client, j \in SessionId : d # c \/ j # i => ram'[d][j] = ram[d][j]
  BY <1>1
<1>3. ASSUME NEW j \in SessionId, NEW h \in Half, Held(j, h) PROVE Held(j, h)'
  <2>1. h[1] \in Client /\ h # None
    BY Halves
  <2>2. CASE h[1] = c /\ j = i
    BY <1>2, <1>3, <2>1, <2>2 DEF Held
  <2>3. CASE ~ (h[1] = c /\ j = i)
    BY <1>2, <1>3, <2>1, <2>3 DEF Held
  <2> QED BY <2>2, <2>3
<1>4. ASSUME Grows, SlotOK(c, i, s)' PROVE SlotsOK'
  <2> SUFFICES ASSUME NEW d \in Client, NEW j \in SessionId
               PROVE  SlotOK(d, j, ram[d][j])'
    BY DEF SlotsOK
  <2>1. PICK t : t = ram'[d][j]
    OBVIOUS
  <2>2. SlotOK(d, j, t)'
    <3>1. CASE d = c /\ j = i
      BY <1>2, <1>4, <2>1, <3>1
    <3>2. CASE ~ (d = c /\ j = i)
      <4>1. t = ram[d][j] /\ t \in Slot
        BY <1>1, <1>2, <2>1, <3>2
      <4>2. SlotOK(d, j, t)
        BY <1>1, <4>1 DEF SlotsOK
      <4> QED BY <1>1, <1>4, <4>1, <4>2, LastingRecords
    <3> QED BY <3>1, <3>2
  <2> QED BY <2>1, <2>2 DEF SlotOK
<1> QED BY <1>2, <1>3, <1>4 DEF HeldStays

\* The inboxes hold what was in box and, for the clients of S, packet x.
Pushed(S, x, box, new) ==
    /\ new \in [Client -> Seq(Packet)]
    /\ \A c \in Client : \A n \in DOMAIN new[c] :
          \/ c \in S /\ new[c][n] = x
          \/ \E m \in DOMAIN box[c] : new[c][n] = box[c][m]

LEMMA PushContents ==
    ASSUME NEW S, NEW x \in Packet, NEW box \in [Client -> Seq(Packet)],
           NEW new, new = PushTo(S, <<x>>, box)
    PROVE  Pushed(S, x, box, new)
<1>2. <<x>> \in Seq(Packet) /\ DOMAIN <<x>> = {1} /\ <<x>>[1] = x
  OBVIOUS
<1>3. ASSUME NEW c \in Client
      PROVE  /\ new[c] \in Seq(Packet)
             /\ \A n \in DOMAIN new[c] : \/ c \in S /\ new[c][n] = x
                                       \/ \E m \in DOMAIN box[c] :
                                             new[c][n] = box[c][m]
  <2>1. new[c] = IF c \in S THEN box[c] \o <<x>> ELSE box[c]
    BY DEF PushTo
  <2>2. CASE c \in S
    <3>1. /\ box[c] \o <<x>> \in Seq(Packet)
          /\ \A n \in DOMAIN (box[c] \o <<x>>) :
                \/ \E m \in DOMAIN box[c] : (box[c] \o <<x>>)[n] = box[c][m]
                \/ \E m \in DOMAIN <<x>> : (box[c] \o <<x>>)[n] = <<x>>[m]
      BY <1>2, Concatenating
    <3>2. new[c] = box[c] \o <<x>>
      BY <2>1, <2>2
    <3> QED BY <1>2, <2>2, <3>1, <3>2
  <2>3. CASE c \notin S
    BY <2>1, <2>3
  <2> QED BY <2>2, <2>3
<1>4. new \in [Client -> Seq(Packet)]
  BY <1>3 DEF PushTo
<1> QED BY <1>3, <1>4 DEF Pushed

\* Inboxes that hold packets they held before, and packets that are in order.
LEMMA Filling ==
    ASSUME IInv, Grows, inbox' \in [Client -> Seq(Packet)],
           \A c \in Client : \A n \in DOMAIN inbox'[c] :
               \/ \E m \in DOMAIN inbox[c] : inbox'[c][n] = inbox[c][m]
               \/ \E y : y = inbox'[c][n] /\ PacketOK(c, y)'
    PROVE  InboxesOK'
<1>1. inbox \in [Client -> Seq(Packet)] /\ InboxesOK /\ TypeOK
  BY DEF IInv, TypeOK
<1>2. ASSUME NEW c \in Client, NEW n \in DOMAIN inbox'[c]
      PROVE  PacketOK(c, inbox[c][n])'
  <2>1. PICK y : y = inbox'[c][n]
    OBVIOUS
  <2>2. PacketOK(c, y)'
    <3>1. CASE PacketOK(c, y)'
      BY <3>1
    <3>2. ASSUME NEW m \in DOMAIN inbox[c], y = inbox[c][m] PROVE PacketOK(c, y)'
      <4>1. PacketOK(c, y) /\ y \in Packet
        BY <1>1, <3>2, Elements DEF InboxesOK
      <4> QED BY <1>1, <4>1, LastingRecords
    <3> QED BY <2>1, <3>1, <3>2
  <2> QED BY <2>1, <2>2 DEF PacketOK
<1> QED BY <1>2 DEF InboxesOK

\* Packets that were in the inboxes, and one more for the clients of S.
LEMMA Pushing ==
    ASSUME IInv, Grows, NEW S, NEW x \in Packet,
           NEW box \in [Client -> Seq(Packet)],
           \A c \in Client : \A n \in DOMAIN box[c] :
               \E m \in DOMAIN inbox[c] : box[c][n] = inbox[c][m],
           \A c \in Client : c \in S => PacketOK(c, x)',
           inbox' = PushTo(S, <<x>>, box)
    PROVE  InboxesOK' /\ inbox' \in [Client -> Seq(Packet)]
<1>1. PICK new : new = inbox'
  OBVIOUS
<1>2. Pushed(S, x, box, new)
  BY <1>1, PushContents
<1>3. new \in [Client -> Seq(Packet)]
  BY <1>2 DEF Pushed
<1>4. ASSUME NEW c \in Client, NEW n \in DOMAIN new[c]
      PROVE  \/ \E m \in DOMAIN inbox[c] : new[c][n] = inbox[c][m]
             \/ \E z : z = new[c][n] /\ PacketOK(c, z)'
  <2>1. CASE c \in S /\ new[c][n] = x
    BY <2>1
  <2>2. CASE \E m \in DOMAIN box[c] : new[c][n] = box[c][m]
    BY <2>2
  <2> QED BY <1>2, <2>1, <2>2 DEF Pushed
<1> QED BY <1>1, <1>3, <1>4, Filling

\* The same of two pushes in one step.
LEMMA PushingTwo ==
    ASSUME IInv, Grows, NEW S, NEW x \in Packet, NEW T, NEW y \in Packet,
           \A c \in Client : c \in S => PacketOK(c, x)',
           \A c \in Client : c \in T => PacketOK(c, y)',
           inbox' = PushTo(T, <<y>>, PushTo(S, <<x>>, inbox))
    PROVE  InboxesOK' /\ inbox' \in [Client -> Seq(Packet)]
<1>1. PICK box, new : box = PushTo(S, <<x>>, inbox) /\ new = inbox'
  OBVIOUS
<1>2. inbox \in [Client -> Seq(Packet)]
  BY DEF IInv, TypeOK
<1>3. Pushed(S, x, inbox, box) /\ box \in [Client -> Seq(Packet)]
  <2>1. Pushed(S, x, inbox, box)
    BY <1>1, <1>2, PushContents
  <2> QED BY <2>1 DEF Pushed
<1>4. Pushed(T, y, box, new) /\ new \in [Client -> Seq(Packet)]
  <2>1. inbox' = PushTo(T, <<y>>, box)
    BY <1>1
  <2>2. Pushed(T, y, box, new)
    BY <1>1, <1>3, <2>1, PushContents
  <2> QED BY <2>2 DEF Pushed
<1>5. ASSUME NEW c \in Client, NEW n \in DOMAIN new[c]
      PROVE  \/ \E m \in DOMAIN inbox[c] : new[c][n] = inbox[c][m]
             \/ \E z : z = new[c][n] /\ PacketOK(c, z)'
  <2>1. CASE c \in T /\ new[c][n] = y
    BY <2>1
  <2>2. ASSUME NEW m \in DOMAIN box[c], new[c][n] = box[c][m]
        PROVE  \/ \E k \in DOMAIN inbox[c] : new[c][n] = inbox[c][k]
               \/ \E z : z = new[c][n] /\ PacketOK(c, z)'
    <3>1. \/ c \in S /\ box[c][m] = x
          \/ \E k \in DOMAIN inbox[c] : box[c][m] = inbox[c][k]
      BY <1>3 DEF Pushed
    <3> QED BY <2>2, <3>1
  <2>3. (c \in T /\ new[c][n] = y) \/ \E m \in DOMAIN box[c] : new[c][n] = box[c][m]
    BY <1>4 DEF Pushed
  <2> QED BY <2>1, <2>2, <2>3
<1> QED BY <1>1, <1>4, <1>5, Filling

\* A handler takes the first packet of its client's inbox.
LEMMA Taken ==
    ASSUME IInv, NEW c \in Client, NEW kind, Take(c, kind)
    PROVE  /\ Head(inbox[c]) \in Packet /\ Head(inbox[c]).kind = kind
           /\ PacketOK(c, Head(inbox[c])) /\ inbox' \in [Client -> Seq(Packet)]
           /\ Grows => InboxesOK'
<1>1. inbox \in [Client -> Seq(Packet)] /\ InboxesOK /\ TypeOK
  BY DEF IInv, TypeOK
<1>2. /\ Head(inbox[c]).kind = kind /\ inbox[c] # <<>>
      /\ inbox' = [inbox EXCEPT ![c] = Tail(inbox[c])]
  BY DEF Take
<1>3. /\ 1 \in DOMAIN inbox[c] /\ Head(inbox[c]) = inbox[c][1]
      /\ Tail(inbox[c]) \in Seq(Packet)
      /\ \A n \in DOMAIN Tail(inbox[c]) :
            n + 1 \in DOMAIN inbox[c] /\ Tail(inbox[c])[n] = inbox[c][n + 1]
  BY <1>1, <1>2, Taking
<1>4. Head(inbox[c]) \in Packet /\ PacketOK(c, Head(inbox[c]))
  BY <1>1, <1>3, Elements DEF InboxesOK
<1>5. inbox' \in [Client -> Seq(Packet)]
  BY <1>1, <1>2, <1>3
<1>6. ASSUME Grows, NEW d \in Client, NEW n \in DOMAIN inbox'[d]
      PROVE  PacketOK(d, inbox[d][n])'
  <2>1. PICK y : y = inbox'[d][n]
    OBVIOUS
  <2>2. \E m \in DOMAIN inbox[d] : y = inbox[d][m]
    BY <1>1, <1>2, <1>3, <2>1
  <2>3. PacketOK(d, y) /\ y \in Packet
    BY <1>1, <2>2, Elements DEF InboxesOK
  <2>4. PacketOK(d, y)'
    BY <1>1, <1>6, <2>3, LastingRecords
  <2> QED BY <2>1, <2>4 DEF PacketOK
<1> QED BY <1>2, <1>4, <1>5, <1>6 DEF InboxesOK

\* A step grows the books when it leaves a part of them alone.
LEMMA Unmoved ==
    /\ rows' = rows => RowsGrow
    /\ made' = made => MadeGrows
    /\ ram' = ram /\ gone' = gone => HeldStays
BY DEF RowsGrow, MadeGrows, HeldStays, Held

\* A run of sendMessage goes on when its page still shows a conversation.
LEMMA DraftsLast ==
    ASSUME IInv, Grows, draft' = draft,
           \A d \in Client : conv[d].peer # Nobody => conv'[d].peer # Nobody
    PROVE  DraftsOK'
<1> SUFFICES ASSUME NEW d \in Client PROVE DraftOK(d)'
  BY DEF DraftsOK
<1>1. DraftOK(d) /\ TypeOK
  BY DEF IInv, DraftsOK
<1>2. PICK S : S = draft[d].secret
  OBVIOUS
<1>3. SecretOK(S)'
  BY <1>1, <1>2, Lasting DEF DraftOK
<1>4. SecretOK(draft[d].secret)'
  BY <1>2, <1>3 DEF SecretOK
<1> QED BY <1>1, <1>4 DEF DraftOK

----------------------------------------------------------------------------
(* initiateSession *)

LEMMA OpenDMKeeps ==
    ASSUME IInv, NEW c \in Client, NEW v \in User, OpenDM(c, v)
    PROVE  IInv'
<1>1. /\ v # UserOf[c] /\ conv' = [conv EXCEPT ![c] = [peer |-> v, sid |-> 0]]
      /\ Initiate(c, v) /\ v # Nobody
      /\ UNCHANGED <<server, inbox, away, ram, born, gone, answers, readies,
                     opening, sending, blank, faults>>
  BY DEF OpenDM
<1>2. /\ made' \in [Client -> Seq(Label)] /\ posts' \subseteq Post /\ MadeGrows
      /\ posts \subseteq posts' /\ (born' = born /\ gone \subseteq gone' => PagesOK')
      /\ (RowsGrow => AnsweredOK')
      /\ (/\ rows' = rows /\ born' = born /\ conv'[c].peer # Nobody
          /\ \A d \in Client : conv[d].peer # Nobody => conv'[d].peer # Nobody)
            => PostsOK'
  BY <1>1, Initiating
<1>3. Grows
  BY <1>1, <1>2, Unmoved DEF Grows, server
<1>4. /\ conv' \in [Client -> Conversation]
      /\ \A d \in Client : conv[d].peer # Nobody => conv'[d].peer # Nobody
      /\ conv'[c].peer = v /\ conv'[c].sid = 0
      /\ \A d \in Client \ {c} : conv'[d] = conv[d]
  BY <1>1, Ids DEF IInv, TypeOK, Conversation
<1>5. TypeOK'
  BY <1>1, <1>2, <1>4 DEF IInv, TypeOK, server, sending
<1>6. PostsOK' /\ PagesOK' /\ AnsweredOK'
  BY <1>1, <1>2, <1>3, <1>4 DEF server, Grows
<1>7. DraftsOK'
  BY <1>1, <1>3, <1>4, DraftsLast DEF sending
<1>8. ConvsOK'
  BY <1>1, <1>4 DEF ConvsOK, ConvOK, LabelOK, server, IInv
<1> QED BY <1>1, <1>2, <1>3, <1>5, <1>6, <1>7, <1>8, Carry
        DEF IInv, server, sending

\* The session is entered with the half of its POST, which no other has.
LEMMA CreateSessionKeeps ==
    ASSUME IInv, NEW p \in posts, CreateSession(p)
    PROVE  IInv'
<1> DEFINE u == UserOf[p.client]
           row == [a |-> u, b |-> p.peer, active |-> TRUE, pubA |-> p.key,
                   pubB |-> None, count |-> 0]
           closed == [i \in DOMAIN rows |-> IF SamePair(rows[i], u, p.peer)
                                          THEN [rows[i] EXCEPT !.active = FALSE]
                                          ELSE rows[i]]
           created == [p EXCEPT !.stage = "created", !.id = Len(rows) + 1]
<1>1. PICK n : n = Len(rows) + 1
  OBVIOUS
<1>2. PICK x : x = Request(n, u)
  OBVIOUS
<1>3. /\ p.stage = "sent" /\ Len(rows) < MaxSessions
      /\ rows' = Append(closed, row)
      /\ inbox' = PushTo(ClientsOf(p.peer) \cap online, <<x>>, inbox)
      /\ posts' = (posts \ {p}) \cup LiveOnly({created})
      /\ UNCHANGED <<messages, online, greeting, page, answers, readies,
                     opening, sending, blank, faults>>
  BY <1>1, <1>2 DEF CreateSession
<1>4. /\ TypeOK /\ PostOK(p) /\ p \in Post /\ p.key \in Half /\ p.peer \in User
      /\ p.client \in Client /\ u \in User
  BY DEF IInv, PostsOK, TypeOK, Post
<1>5. row \in Row
  BY <1>4 DEF Row
<1>6. /\ closed \in Seq(Row) /\ Len(closed) = Len(rows)
      /\ DOMAIN closed = DOMAIN rows
      /\ \A i \in DOMAIN rows :
            /\ closed[i].a = rows[i].a /\ closed[i].b = rows[i].b
            /\ closed[i].pubA = rows[i].pubA /\ closed[i].pubB = rows[i].pubB
  <2>1. /\ DOMAIN rows = 1..Len(rows) /\ Len(rows) \in Nat
        /\ \A i \in DOMAIN rows : rows[i] \in Row
    BY <1>4, Ids
  <2>2. \A r \in Row : /\ [r EXCEPT !.active = FALSE] \in Row
                       /\ [r EXCEPT !.active = FALSE].a = r.a
                       /\ [r EXCEPT !.active = FALSE].b = r.b
                       /\ [r EXCEPT !.active = FALSE].pubA = r.pubA
                       /\ [r EXCEPT !.active = FALSE].pubB = r.pubB
    BY DEF Row
  <2>3. closed \in [1..Len(rows) -> Row]
    BY <2>1, <2>2
  <2> QED BY <2>1, <2>2, <2>3
<1>7. /\ rows' \in Seq(Row) /\ Len(rows') = n /\ DOMAIN rows' = DOMAIN rows \cup {n}
      /\ n \notin DOMAIN rows /\ rows'[n] = row /\ n \in SessionId
      /\ \A i \in DOMAIN rows :
            /\ rows'[i].a = rows[i].a /\ rows'[i].b = rows[i].b
            /\ rows'[i].pubA = rows[i].pubA /\ rows'[i].pubB = rows[i].pubB
  <2> HIDE DEF closed, row
  <2>1. /\ Append(closed, row) \in Seq(Row) /\ Len(Append(closed, row)) = n
        /\ DOMAIN Append(closed, row) = DOMAIN rows \cup {n} /\ n \notin DOMAIN rows
        /\ Append(closed, row)[n] = row
        /\ \A i \in DOMAIN rows : Append(closed, row)[i] = closed[i]
    BY <1>1, <1>5, <1>6, Appending
  <2>2. n \in SessionId
    BY <1>1, <1>3, <1>4, Ids DEF SessionId
  <2> QED BY <1>3, <1>6, <2>1, <2>2
<1> HIDE DEF closed
<1>8. Grows
  BY <1>3, <1>7, Unmoved DEF Grows, RowsGrow, page
<1>9. x \in Packet /\ (\A c \in Client : c \in ClientsOf(p.peer) => PacketOK(c, x)')
  <2>1. x \in Packet
    BY <1>1, <1>2, <1>4, Ids DEF Packet, Request
  <2>2. x.kind = "request" /\ x.id = n
    BY <1>2 DEF Request
  <2> QED BY <1>7, <2>1, <2>2 DEF PacketOK, ClientsOf
<1>10. InboxesOK' /\ inbox' \in [Client -> Seq(Packet)]
  <2>1. inbox \in [Client -> Seq(Packet)]
    BY <1>4 DEF TypeOK
  <2>2. \A c \in Client : c \in ClientsOf(p.peer) \cap online => PacketOK(c, x)'
    BY <1>9
  <2> QED BY <1>3, <1>8, <1>9, <2>1, <2>2, Pushing
<1>11. /\ created \in Post /\ created.key = p.key /\ created.client = p.client
       /\ created.peer = p.peer /\ created.id = n /\ created.stage = "created"
  BY <1>1, <1>4, <1>7, Ids DEF Post
<1>12. PICK q : q = created
  OBVIOUS
<1> HIDE DEF created
<1>13. posts' = (posts \ {p}) \cup (IF Alive(p.key) THEN {q} ELSE {})
  BY <1>3, <1>11, <1>12 DEF LiveOnly
<1>14. TypeOK'
  <2>1. posts' \subseteq Post
    BY <1>4, <1>11, <1>12, <1>13 DEF TypeOK
  <2>2. rows' \in Seq(Row) /\ Len(rows') <= MaxSessions
    BY <1>7 DEF SessionId
  <2> QED BY <1>3, <1>4, <1>10, <2>1, <2>2 DEF TypeOK, page, sending
<1>15. RowsOK'
  <2>1. ASSUME NEW i \in DOMAIN rows PROVE RowOK(i)'
    <3>1. RowOK(i) /\ i \in SessionId
      BY <1>4, Ids DEF IInv, RowsOK
    <3>2. rows[i].pubA # p.key
      BY <1>3, <1>4 DEF PostOK
    <3>3. (\E r \in posts : r.key = rows[i].pubA /\ r.stage = "created")
            => (\E r \in posts : r.key = rows[i].pubA /\ r.stage = "created")'
      BY <1>3, <1>7, <1>13
    <3>4. /\ MadeToOpen(rows[i].pubA)' <=> MadeToOpen(rows[i].pubA)
          /\ Held(i, rows[i].pubA)' <=> Held(i, rows[i].pubA)
          /\ Answers(i, rows[i].pubB)' <=> Answers(i, rows[i].pubB)
      BY <1>3, <1>7, <2>1 DEF MadeToOpen, Held, Answers, AnswersTo, page
    <3>5. (\A j \in DOMAIN rows : rows[j].pubA = rows[i].pubA => j = i)'
      BY <1>7, <2>1, <3>1, <3>2 DEF RowOK
    <3> QED BY <1>7, <2>1, <3>1, <3>3, <3>4, <3>5 DEF RowOK
  <2>2. RowOK(n)'
    <3>1. MadeToOpen(rows[n].pubA)'
      BY <1>3, <1>4, <1>7 DEF PostOK, MadeToOpen, page
    <3>2. \A j \in DOMAIN rows : rows[j].pubA # p.key
      BY <1>3, <1>4 DEF PostOK
    <3>3. CASE Alive(p.key)
      <4>1. q \in posts' /\ q.key = p.key /\ q.stage = "created"
        BY <1>11, <1>12, <1>13, <3>3
      <4> QED BY <1>4, <1>7, <3>1, <3>2, <4>1 DEF RowOK, PostOK
    <3>4. CASE ~Alive(p.key)
      <4>1. p.key \in gone
        <5>1. /\ p.key[1] = p.client /\ p.key = <<p.key[1], p.key[2]>>
              /\ p.key[2] \in 1..MaxKeys
          BY <1>4, Halves DEF PostOK
        <5>2. PageOK(p.client) /\ born[p.client] \in Nat
          BY <1>4 DEF IInv, PagesOK, TypeOK
        <5>3. p.key[2] \in 1..born[p.client]
          BY <3>4, <5>1, <5>2 DEF Alive
        <5> QED BY <5>1, <5>2, <5>3 DEF PageOK
      <4>2. Held(n, rows[n].pubA)'
        BY <1>3, <1>7, <4>1 DEF Held, page
      <4> QED BY <1>4, <1>7, <3>1, <3>2, <4>2 DEF RowOK, PostOK
    <3> QED BY <3>3, <3>4
  <2> QED BY <1>7, <2>1, <2>2 DEF RowsOK
<1>16. PostsOK'
  <2>1. ASSUME NEW r \in posts, r # p PROVE PostOK(r)'
    <3>1. PostOK(r) /\ r.key # p.key
      BY <1>4, <2>1 DEF IInv, PostsOK, PostOK
    <3>2. \A t \in posts' : t.key = r.key => t = r
      BY <1>11, <1>12, <1>13, <2>1, <3>1 DEF PostOK
    <3>3. MadeToOpen(r.key)'
      BY <1>3, <3>1 DEF PostOK, MadeToOpen, page
    <3>4. Alive(r.key)' <=> Alive(r.key)
      BY <1>3 DEF Alive, page
    <3>5. /\ \A i \in DOMAIN rows' : i # n => i \in DOMAIN rows
          /\ \A i \in DOMAIN rows : i \in DOMAIN rows' /\ rows'[i].pubA = rows[i].pubA
          /\ rows'[n].pubA = p.key
      BY <1>7
    <3>6. IF r.stage = "sent" THEN \A i \in DOMAIN rows' : rows'[i].pubA # r.key
          ELSE r.id \in DOMAIN rows' /\ rows'[r.id].pubA = r.key /\ Alive(r.key)
      BY <3>1, <3>5 DEF PostOK
    <3>7. (Alive(r.key) => conv[r.client].peer # Nobody)'
      BY <1>3, <3>1, <3>4 DEF PostOK, page
    <3> HIDE DEF row
    <3> QED BY <3>1, <3>2, <3>3, <3>4, <3>6, <3>7 DEF PostOK
  <2>2. ASSUME Alive(p.key) PROVE PostOK(q)'
    <3>1. MadeToOpen(q.key)'
      BY <1>3, <1>4, <1>11, <1>12 DEF PostOK, MadeToOpen, page
    <3>2. \A t \in posts' : t.key = q.key => t = q
      BY <1>4, <1>11, <1>12, <1>13 DEF PostOK
    <3>3. /\ q.key = p.key /\ q.client = p.client /\ q.peer = p.peer /\ q.id = n
          /\ q.stage = "created"
      BY <1>11, <1>12
    <3>4. n \in DOMAIN rows' /\ rows'[n].pubA = p.key
      BY <1>7
    <3> QED BY <1>3, <1>4, <2>2, <3>1, <3>2, <3>3, <3>4 DEF PostOK, page, Alive
  <2> QED BY <1>13, <2>1, <2>2 DEF PostsOK
<1> QED BY <1>3, <1>8, <1>10, <1>14, <1>15, <1>16, Carry DEF IInv, page, sending

\* An initiator's slot of a session it opened holds the half that opened it.
LEMMA InitiatorSlot ==
    ASSUME IInv, NEW c \in Client, NEW i \in DOMAIN rows, UserOf[c] = rows[i].a
    PROVE  /\ i \in SessionId /\ ram[c][i].mine \in {None, rows[i].pubA}
           /\ ram[c][i].mine # None => rows[i].pubA[1] = c
           /\ ram[c][i].theirs # None => Answers(i, ram[c][i].theirs)
<1>1. i \in SessionId /\ SlotOK(c, i, ram[c][i]) /\ RowOK(i)
  BY Ids DEF IInv, SlotsOK, RowsOK
<1> QED BY <1>1 DEF SlotOK, RowOK

LEMMA StoreInitiatedKeeps ==
    ASSUME IInv, NEW p \in posts, StoreInitiated(p)
    PROVE  IInv'
<1> DEFINE stored == [p EXCEPT !.stage = "stored"]
           s == [mine |-> p.key, theirs |-> None]
<1>1. /\ p.stage = "created" /\ ram' = [ram EXCEPT ![p.client][p.id] = s]
      /\ posts' = (posts \ {p}) \cup {stored}
      /\ UNCHANGED <<server, inbox, conv, away, made, born, gone, answers, readies,
                     opening, sending, blank, faults>>
  BY DEF StoreInitiated
<1>2. /\ TypeOK /\ PostOK(p) /\ p \in Post /\ p.key \in Half /\ p.client \in Client
  BY DEF IInv, PostsOK, TypeOK, Post
<1>3. /\ p.id \in DOMAIN rows /\ rows[p.id].pubA = p.key /\ p.id \in SessionId
      /\ UserOf[p.client] = rows[p.id].a /\ p.key[1] = p.client
  BY <1>1, <1>2, Ids DEF PostOK, IInv, RowsOK, RowOK
<1>4. s \in Slot /\ s.mine = p.key /\ s.theirs = None
  BY <1>2 DEF Slot
<1>5. PICK t, c, k : t = s /\ c = p.client /\ k = p.id
  OBVIOUS
<1> HIDE DEF s
<1>6. /\ ram' \in [Client -> [SessionId -> Slot]] /\ HeldStays
      /\ ram'[c][k] = t /\ (Grows /\ SlotOK(c, k, t)' => SlotsOK')
  <2>1. ram[c][k].mine \in {None, t.mine} \cup gone'
    BY <1>2, <1>3, <1>4, <1>5, InitiatorSlot
  <2>2. t \in Slot /\ gone \subseteq gone' /\ ram' = [ram EXCEPT ![c][k] = t]
    BY <1>1, <1>4, <1>5
  <2>3. c \in Client /\ k \in SessionId
    BY <1>2, <1>3, <1>5
  <2> QED BY <2>1, <2>2, <2>3, Filing
<1>7. Grows
  BY <1>1, <1>6, Unmoved DEF Grows, server
<1>8. SlotsOK'
  <2>1. SlotOK(c, k, t)'
    BY <1>1, <1>3, <1>4, <1>5 DEF SlotOK, server
  <2> QED BY <1>6, <1>7, <2>1
<1>9. /\ stored \in Post /\ stored.key = p.key /\ stored.client = p.client
      /\ stored.peer = p.peer /\ stored.id = p.id /\ stored.stage = "stored"
  BY <1>2 DEF Post
<1>10. PICK q : q = stored
  OBVIOUS
<1> HIDE DEF stored
<1>11. TypeOK'
  BY <1>1, <1>2, <1>6, <1>9 DEF TypeOK, server, sending
<1>12. RowsOK'
  <2> SUFFICES ASSUME NEW i \in DOMAIN rows PROVE RowOK(i)'
    BY <1>1 DEF RowsOK, server
  <2>1. RowOK(i) /\ i \in SessionId /\ rows[i].pubA \in Half
    BY <1>2, Ids DEF IInv, RowsOK, Row
  <2>2. CASE rows[i].pubA = p.key
    <3>1. i = p.id /\ Held(i, rows[i].pubA)'
      BY <1>1, <1>2, <1>3, <1>4, <1>5, <1>6, <2>1, <2>2
         DEF RowOK, Held, server, IInv, RowsOK
    <3>2. (rows[i].pubB # None => Answers(i, rows[i].pubB))'
      <4>1. PICK y : y = rows[i].pubB
        OBVIOUS
      <4>2. y # None => Answers(i, y)'
        BY <1>2, <1>7, <2>1, <4>1, Lasting DEF RowOK
      <4> QED BY <1>1, <4>1, <4>2 DEF Answers, AnswersTo, Held, server
    <3>3. MadeToOpen(rows[i].pubA)'
      BY <1>1, <2>1 DEF RowOK, MadeToOpen, server
    <3> QED BY <1>1, <2>1, <3>1, <3>2, <3>3 DEF RowOK, server
  <2>3. CASE rows[i].pubA # p.key
    <3>1. PICK x, y : x = rows[i].pubA /\ y = rows[i].pubB
      OBVIOUS
    <3>2. /\ y # None => Answers(i, y)' /\ MadeToOpen(x)'
          /\ Held(i, x) => Held(i, x)'
      BY <1>2, <1>7, <2>1, <3>1, Lasting DEF RowOK, Grows, HeldStays
    <3>3. (\E r \in posts : r.key = x /\ r.stage = "created")
            => (\E r \in posts : r.key = rows[i].pubA /\ r.stage = "created")'
      BY <1>1, <2>3, <3>1 DEF server
    <3>4. /\ rows'[i].pubA = x /\ rows'[i].pubB = y /\ rows' = rows
      BY <1>1, <3>1 DEF server
    <3>5. Held(i, x) => Held(i, rows[i].pubA)'
      BY <3>2, <3>4 DEF Held
    <3>6. MadeToOpen(rows[i].pubA)'
      BY <1>1, <2>1 DEF RowOK, MadeToOpen, server
    <3>7. (rows[i].pubB # None => Answers(i, rows[i].pubB))'
      BY <3>2, <3>4 DEF Answers, AnswersTo, Held
    <3> QED BY <2>1, <3>1, <3>3, <3>4, <3>5, <3>6, <3>7 DEF RowOK
  <2> QED BY <2>2, <2>3
<1>13. PostsOK'
  <2> SUFFICES ASSUME NEW r \in posts' PROVE PostOK(r)'
    BY DEF PostsOK
  <2>1. CASE r = q
    <3>1. MadeToOpen(r.key)'
      BY <1>1, <1>2, <1>9, <1>10, <2>1 DEF PostOK, MadeToOpen
    <3>2. \A x \in posts' : x.key = r.key => x = r
      BY <1>1, <1>2, <1>9, <1>10, <2>1 DEF PostOK
    <3> QED BY <1>1, <1>2, <1>3, <1>9, <1>10, <2>1, <3>1, <3>2
            DEF PostOK, Alive, server
  <2>2. CASE r # q
    <3>1. r \in posts /\ r # p /\ PostOK(r)
      BY <1>1, <1>10, <2>2 DEF IInv, PostsOK
    <3>2. r.key # p.key
      BY <1>2, <3>1 DEF PostOK
    <3>3. MadeToOpen(r.key)'
      BY <1>1, <3>1 DEF PostOK, MadeToOpen
    <3>4. \A x \in posts' : x.key = r.key => x = r
      BY <1>1, <1>9, <3>1, <3>2 DEF PostOK
    <3> QED BY <1>1, <3>1, <3>3, <3>4 DEF PostOK, Alive, server
  <2> QED BY <2>1, <2>2
<1> QED BY <1>1, <1>7, <1>8, <1>11, <1>12, <1>13, Carry DEF IInv, server, sending

LEMMA AdoptKeeps ==
    ASSUME IInv, NEW p \in posts, Adopt(p)
    PROVE  IInv'
<1>1. /\ p.stage = "stored" /\ conv' = [conv EXCEPT ![p.client].sid = p.id]
      /\ posts' = posts \ {p}
      /\ UNCHANGED <<server, inbox, away, ram, made, born, gone, answers, readies,
                     opening, sending, blank, faults>>
  BY DEF Adopt
<1>2. /\ TypeOK /\ PostOK(p) /\ p.client \in Client
      /\ conv \in [Client -> Conversation]
  BY DEF IInv, PostsOK, TypeOK, Post
<1>3. /\ p.id \in DOMAIN rows /\ p.id \in Label /\ conv[p.client].peer # Nobody
  BY <1>1, <1>2, Ids DEF PostOK
<1>4. /\ conv' \in [Client -> Conversation] /\ conv'[p.client].sid = p.id
      /\ \A d \in Client : /\ conv'[d].peer = conv[d].peer
                           /\ d # p.client => conv'[d] = conv[d]
  BY <1>1, <1>2, <1>3 DEF Conversation
<1>5. Grows
  BY <1>1, Unmoved DEF Grows, server
<1>6. TypeOK'
  BY <1>1, <1>2, <1>4 DEF TypeOK, server, sending
<1>7. ConvsOK'
  BY <1>1, <1>3, <1>4 DEF IInv, ConvsOK, ConvOK, LabelOK, server
<1>8. DraftsOK'
  BY <1>1, <1>4, <1>5, DraftsLast DEF sending
<1>9. PostsOK'
  <2> SUFFICES ASSUME NEW r \in posts' PROVE PostOK(r)'
    BY DEF PostsOK
  <2>1. r \in posts /\ PostOK(r) /\ r.client \in Client
    BY <1>1, <1>2 DEF IInv, PostsOK, TypeOK, Post
  <2>2. MadeToOpen(r.key)'
    BY <1>1, <2>1 DEF PostOK, MadeToOpen
  <2> QED BY <1>1, <1>4, <2>1, <2>2 DEF PostOK, Alive, server
<1> QED BY <1>1, <1>5, <1>6, <1>7, <1>8, <1>9, Carry DEF IInv, server, sending

----------------------------------------------------------------------------
(* The handlers of the socket *)

LEMMA OnSessionRequestKeeps ==
    ASSUME IInv, NEW c \in Client, OnSessionRequest(c)
    PROVE  IInv'
<1>1. PICK i : i = Head(inbox[c]).id
  OBVIOUS
<1>2. /\ Take(c, "request") /\ Len(made[c]) < MaxKeys
      /\ made' = [made EXCEPT ![c] = Append(@, i)]
      /\ answers' = answers \cup {[client |-> c, id |-> i, stage |-> "verifying",
                                   key |-> <<c, Len(made[c]) + 1>>]}
      /\ UNCHANGED <<server, conv, away, ram, born, gone, posts, readies,
                     opening, sending, blank, faults>>
  BY <1>1 DEF OnSessionRequest
<1>3. /\ i \in DOMAIN rows /\ rows[i].b = UserOf[c] /\ i \in SessionId
      /\ inbox' \in [Client -> Seq(Packet)] /\ (Grows => InboxesOK') /\ TypeOK
  BY <1>1, <1>2, Taken, Ids DEF PacketOK, IInv
<1>4. PICK h : Makes(c, i, h)
  BY <1>2, <1>3, NewHalf, Ids
<1>5. /\ h \in Half /\ h = <<c, Len(made[c]) + 1>> /\ h[1] = c
      /\ made' \in [Client -> Seq(Label)] /\ PagesOK' /\ MadeGrows
  BY <1>2, <1>4 DEF Makes
<1>6. ASSUME NEW j \in SessionId
      PROVE  AnswersTo(j)' = AnswersTo(j) \cup (IF j = i THEN {h} ELSE {})
  BY <1>4 DEF Makes
<1>7. Grows
  BY <1>2, <1>5, Unmoved DEF Grows, server
<1>8. PICK new : new = [client |-> c, id |-> i, stage |-> "verifying", key |-> h]
  OBVIOUS
<1>9. /\ new \in Answer /\ new.client = c /\ new.id = i /\ new.key = h
      /\ new.stage = "verifying" /\ answers' = answers \cup {new}
  BY <1>2, <1>3, <1>5, <1>8 DEF Answer
<1>10. TypeOK'
  BY <1>2, <1>3, <1>5, <1>9 DEF TypeOK, server, sending
<1>11. AnsweredOK'
  <2> SUFFICES ASSUME NEW j \in SessionId
               PROVE  /\ IsFiniteSet(AnswersTo(j)')
                      /\ \A g \in AnswersTo(j)' :
                            j \in DOMAIN rows' /\ UserOf[g[1]] = rows'[j].b
    BY DEF AnsweredOK
  <2>1. /\ IsFiniteSet(AnswersTo(j)) /\ rows' = rows
        /\ \A g \in AnswersTo(j) : j \in DOMAIN rows /\ UserOf[g[1]] = rows[j].b
    BY <1>2 DEF IInv, AnsweredOK, server
  <2>2. CASE j = i
    <3>1. AnswersTo(j)' = AnswersTo(j) \cup {h}
      BY <1>6, <2>2
    <3>2. IsFiniteSet(AnswersTo(j) \cup {h})
      BY <2>1, FS_AddElement
    <3> QED BY <1>3, <1>5, <2>1, <2>2, <3>1, <3>2
  <2>3. CASE j # i
    <3>1. AnswersTo(j)' = AnswersTo(j)
      BY <1>6, <2>3
    <3> QED BY <2>1, <3>1
  <2> QED BY <2>2, <2>3
<1>12. AnswerRunsOK'
  <2>1. AnswerOK(new)'
    <3>1. h \in AnswersTo(i)'
      BY <1>3, <1>6
    <3> QED BY <1>5, <1>9, <3>1 DEF AnswerOK
  <2>2. \A a \in answers : a \in Answer /\ AnswerOK(a)
    BY <1>3 DEF IInv, AnswerRunsOK, TypeOK
  <2> QED BY <1>3, <1>7, <1>9, <2>1, <2>2, LastingRecords DEF AnswerRunsOK
<1> QED BY <1>2, <1>3, <1>5, <1>7, <1>10, <1>11, <1>12, Carry
        DEF IInv, server, sending

\* The handlers that start over when the conversation with user v is on screen.
LEMMA StartingOver ==
    ASSUME IInv, NEW c \in Client, NEW v,
           \/ v \in User /\ v = conv[c].peer /\ Initiate(c, v)
           \/ UNCHANGED <<made, posts>>,
           UNCHANGED <<rows, conv, born>>, gone \subseteq gone'
    PROVE  /\ made' \in [Client -> Seq(Label)] /\ posts' \subseteq Post /\ MadeGrows
           /\ posts \subseteq posts' /\ PagesOK' /\ AnsweredOK' /\ PostsOK'
<1>1. CASE v \in User /\ v = conv[c].peer /\ Initiate(c, v)
  <2>1. v # UserOf[c] /\ conv'[c].peer # Nobody
    BY <1>1 DEF IInv, ConvsOK, ConvOK
  <2>2. RowsGrow
    BY Unmoved
  <2> QED BY <1>1, <2>1, <2>2, Initiating
<1>2. CASE UNCHANGED <<made, posts>>
  <2>1. /\ made \in [Client -> Seq(Label)] /\ posts \subseteq Post
        /\ PagesOK /\ AnsweredOK /\ PostsOK
    BY DEF IInv, TypeOK
  <2>2. MadeGrows
    BY <1>2, Unmoved
  <2>3. PagesOK'
    BY <1>2, <2>1 DEF PagesOK, PageOK
  <2>4. AnsweredOK'
    BY <1>2, <2>1 DEF AnsweredOK, AnswersTo
  <2>5. ASSUME NEW p \in posts' PROVE PostOK(p)'
    <3>1. PostOK(p)
      BY <1>2, <2>1 DEF PostsOK
    <3> QED BY <1>2, <3>1 DEF PostOK, MadeToOpen, Alive
  <2> QED BY <1>2, <2>1, <2>2, <2>3, <2>4, <2>5 DEF PostsOK
<1> QED BY <1>1, <1>2

LEMMA OnSessionReadyKeeps ==
    ASSUME IInv, NEW c \in Client, OnSessionReady(c)
    PROVE  IInv'
<1>1. PICK x : x = Head(inbox[c])
  OBVIOUS
<1> DEFINE slot == ram[c][x.id]
<1>2. /\ Take(c, "ready")
      /\ \/ /\ slot.mine # None
            /\ readies' = readies \cup {[client |-> c, id |-> x.id,
                                         key |-> slot.mine, pub |-> x.pub]}
            /\ UNCHANGED <<made, posts>>
         \/ /\ x.user = conv[c].peer /\ Initiate(c, x.user)
            /\ readies' = readies
         \/ UNCHANGED <<made, posts, readies>>
      /\ UNCHANGED <<server, conv, away, ram, born, gone, answers, opening,
                     sending, blank, faults>>
  BY <1>1 DEF OnSessionReady
<1>3. /\ x \in Packet /\ x.kind = "ready" /\ PacketOK(c, x) /\ TypeOK
      /\ inbox' \in [Client -> Seq(Packet)] /\ (Grows => InboxesOK')
  BY <1>1, <1>2, Taken DEF IInv
<1>4. /\ x.id \in DOMAIN rows /\ rows[x.id].a = UserOf[c] /\ Answers(x.id, x.pub)
      /\ x.pub \in Half /\ x.user \in User
  BY <1>3 DEF PacketOK
<1>5. /\ made' \in [Client -> Seq(Label)] /\ posts' \subseteq Post /\ MadeGrows
      /\ posts \subseteq posts' /\ PagesOK' /\ AnsweredOK' /\ PostsOK'
  BY <1>2, <1>4, StartingOver DEF server
<1>6. Grows
  BY <1>2, <1>5, Unmoved DEF Grows, server
<1>7. readies' \subseteq Ready /\ ReadiesOK'
  <2>1. /\ \A r \in readies : r \in Ready /\ ReadyOK(r)'
    BY <1>3, <1>6, LastingRecords DEF IInv, ReadiesOK, TypeOK
  <2>2. ASSUME slot.mine # None,
               readies' = readies \cup {[client |-> c, id |-> x.id,
                                         key |-> slot.mine, pub |-> x.pub]}
        PROVE  readies' \subseteq Ready /\ ReadiesOK'
    <3>1. PICK r : r = [client |-> c, id |-> x.id, key |-> slot.mine, pub |-> x.pub]
      OBVIOUS
    <3>2. /\ slot.mine = rows[x.id].pubA /\ rows[x.id].pubA[1] = c
          /\ x.id \in SessionId /\ rows[x.id].pubA \in Half
      BY <1>3, <1>4, <2>2, InitiatorSlot, Ids DEF Row
    <3>3. /\ r \in Ready /\ r.client = c /\ r.id = x.id /\ r.pub = x.pub
          /\ r.key = rows[x.id].pubA
      BY <1>4, <3>1, <3>2 DEF Ready
    <3>4. ReadyOK(r)
      BY <1>4, <3>2, <3>3 DEF ReadyOK
    <3>5. ReadyOK(r)'
      BY <1>3, <1>6, <3>3, <3>4, LastingRecords
    <3> HIDE DEF slot
    <3> QED BY <2>1, <2>2, <3>1, <3>3, <3>5 DEF ReadiesOK
  <2>3. CASE readies' = readies
    BY <2>1, <2>3 DEF ReadiesOK
  <2> QED BY <1>2, <2>2, <2>3
<1>8. TypeOK'
  BY <1>2, <1>3, <1>5, <1>7 DEF TypeOK, server, sending
<1> QED BY <1>2, <1>3, <1>5, <1>6, <1>7, <1>8, Carry DEF IInv, server, sending

LEMMA Dropping ==
    ASSUME IInv, NEW c \in Client, NEW i \in SessionId, Drop(c, i)
    PROVE  /\ ram' \in [Client -> [SessionId -> Slot]] /\ HeldStays
           /\ gone' \subseteq Half /\ gone \subseteq gone'
           /\ Grows => SlotsOK'
<1>1. PICK s : s = Empty
  OBVIOUS
<1>2. /\ s \in Slot /\ s.mine = None /\ s.theirs = None
  BY <1>1 DEF Slot, Empty
<1>3. /\ ram' = [ram EXCEPT ![c][i] = s] /\ gone \subseteq gone'
      /\ gone' = gone \cup ({ram[c][i].mine} \ {None})
  BY <1>1 DEF Drop
<1>4. ram[c][i].mine \in Half \cup {None} /\ gone \subseteq Half
  BY DEF IInv, TypeOK, Slot
<1>5. ram[c][i].mine \in {None, s.mine} \cup gone'
  BY <1>3
<1>6. SlotOK(c, i, s)'
  BY <1>2 DEF SlotOK
<1>7. /\ ram' \in [Client -> [SessionId -> Slot]] /\ HeldStays
      /\ (Grows /\ SlotOK(c, i, s)' => SlotsOK')
  BY <1>2, <1>3, <1>5, Filing
<1> QED BY <1>3, <1>4, <1>6, <1>7

LEMMA OnKeyRotationRequiredKeeps ==
    ASSUME IInv, NEW c \in Client, OnKeyRotationRequired(c)
    PROVE  IInv'
<1>1. PICK i, v : i = Head(inbox[c]).id /\ v = conv[c].peer
  OBVIOUS
<1>2. /\ Take(c, "rotate") /\ Drop(c, i)
      /\ (conv[c].sid = i /\ Initiate(c, v)) \/ UNCHANGED <<made, posts>>
      /\ UNCHANGED <<server, conv, away, born, answers, readies, opening,
                     sending, blank, faults>>
  BY <1>1 DEF OnKeyRotationRequired
<1>3. /\ i \in DOMAIN rows /\ i \in SessionId /\ i # 0 /\ TypeOK
      /\ inbox' \in [Client -> Seq(Packet)] /\ (Grows => InboxesOK')
  BY <1>1, <1>2, Taken, Ids DEF IInv, PacketOK
<1>4. /\ ram' \in [Client -> [SessionId -> Slot]] /\ HeldStays
      /\ gone' \subseteq Half /\ gone \subseteq gone' /\ (Grows => SlotsOK')
  BY <1>2, <1>3, Dropping
<1>5. conv[c].sid = i => v \in User
  BY <1>1, <1>3 DEF IInv, ConvsOK, ConvOK, TypeOK, Conversation
<1>6. /\ made' \in [Client -> Seq(Label)] /\ posts' \subseteq Post /\ MadeGrows
      /\ posts \subseteq posts' /\ PagesOK' /\ AnsweredOK' /\ PostsOK'
  BY <1>1, <1>2, <1>4, <1>5, StartingOver DEF server
<1>7. Grows
  BY <1>2, <1>4, <1>6, Unmoved DEF Grows, server
<1>8. TypeOK'
  BY <1>2, <1>3, <1>4, <1>6 DEF TypeOK, server, sending
<1> QED BY <1>2, <1>3, <1>4, <1>6, <1>7, <1>8, Carry DEF IInv, server, sending

LEMMA PresenceKeeps ==
    ASSUME IInv, NEW c \in Client, OnUserOnline(c) \/ OnUserOffline(c)
    PROVE  IInv'
<1>1. PICK u : u = Head(inbox[c]).user
  OBVIOUS
<1>2. CASE OnUserOnline(c)
  <2>1. /\ Take(c, "online") /\ away' = [away EXCEPT ![c] = @ \ {u}]
        /\ (conv[c].peer = u /\ Initiate(c, u)) \/ UNCHANGED <<made, posts>>
        /\ UNCHANGED <<server, conv, ram, born, gone, answers, readies, opening,
                       sending, blank, faults>>
    BY <1>1, <1>2 DEF OnUserOnline
  <2>2. /\ u \in User /\ TypeOK
        /\ inbox' \in [Client -> Seq(Packet)] /\ (Grows => InboxesOK')
    BY <1>1, <2>1, Taken DEF IInv, PacketOK
  <2>3. /\ made' \in [Client -> Seq(Label)] /\ posts' \subseteq Post /\ MadeGrows
        /\ posts \subseteq posts' /\ PagesOK' /\ AnsweredOK' /\ PostsOK'
    BY <2>1, <2>2, StartingOver DEF server
  <2>4. Grows
    BY <2>1, <2>3, Unmoved DEF Grows, server
  <2>5. away' \in [Client -> SUBSET User]
    BY <2>1, <2>2 DEF TypeOK
  <2>6. TypeOK'
    BY <2>1, <2>2, <2>3, <2>5 DEF TypeOK, server, sending
  <2> QED BY <2>1, <2>2, <2>3, <2>4, <2>6, Carry DEF IInv, server, sending
<1>3. CASE OnUserOffline(c)
  <2>1. /\ Take(c, "offline") /\ away' = [away EXCEPT ![c] = @ \cup {u}]
        /\ UNCHANGED <<server, conv, ram, made, born, gone, runs, sending, blank,
                       faults>>
    BY <1>1, <1>3 DEF OnUserOffline
  <2>2. /\ u \in User /\ TypeOK
        /\ inbox' \in [Client -> Seq(Packet)] /\ (Grows => InboxesOK')
    BY <1>1, <2>1, Taken DEF IInv, PacketOK
  <2>3. Grows
    BY <2>1, Unmoved DEF Grows, server
  <2>4. away' \in [Client -> SUBSET User]
    BY <2>1, <2>2 DEF TypeOK
  <2>5. TypeOK'
    BY <2>1, <2>2, <2>4 DEF TypeOK, server, runs, sending
  <2> QED BY <2>1, <2>2, <2>3, <2>5, Carry DEF IInv, server, runs, sending
<1> QED BY <1>2, <1>3

LEMMA OnReceiveMessageKeeps ==
    ASSUME IInv, NEW c \in Client, OnReceiveMessage(c)
    PROVE  IInv'
<1>1. PICK k : k = Head(inbox[c]).id
  OBVIOUS
<1>2. PICK shown \in BOOLEAN :
         /\ Take(c, "message")
         /\ opening' = opening \cup {[client |-> c, msg |-> k, shown |-> shown]}
         /\ UNCHANGED <<server, page, posts, answers, readies, sending, blank, faults>>
  BY <1>1 DEF OnReceiveMessage
<1>3. /\ k \in DOMAIN messages /\ k \in MsgId /\ TypeOK
      /\ inbox' \in [Client -> Seq(Packet)] /\ (Grows => InboxesOK')
  BY <1>1, <1>2, Taken, Ids DEF IInv, PacketOK
<1>4. Grows
  BY <1>2, Unmoved DEF Grows, server, page
<1>5. [client |-> c, msg |-> k, shown |-> shown] \in Opening
  BY <1>3 DEF Opening
<1>6. OpeningsOK'
  BY <1>2, <1>3 DEF IInv, OpeningsOK, server
<1>7. TypeOK'
  BY <1>2, <1>3, <1>5 DEF TypeOK, server, page, sending
<1> QED BY <1>2, <1>3, <1>4, <1>6, <1>7, Carry DEF IInv, server, page, sending

----------------------------------------------------------------------------
(* The rest of onSessionRequest and of onSessionReady *)

\* What is known of a run of onSessionRequest.
LEMMA AnswerRun ==
    ASSUME IInv, NEW a \in answers
    PROVE  /\ a \in Answer /\ AnswerOK(a) /\ a.client \in Client /\ a.key \in Half
           /\ a.id \in DOMAIN rows /\ a.id \in SessionId /\ rows[a.id] \in Row
           /\ RowOK(a.id) /\ a.key[1] = a.client /\ a.key \in AnswersTo(a.id)
           /\ UserOf[a.client] = rows[a.id].b
           /\ \A n : n \in {"verifying", "putting", "put"} =>
                  [a EXCEPT !.stage = n] \in Answer
<1>1. a \in Answer /\ AnswerOK(a)
  BY DEF IInv, AnswerRunsOK, TypeOK
<1>2. /\ a.client \in Client /\ a.key \in Half /\ a.id \in SessionId
      /\ \A n : n \in {"verifying", "putting", "put"} =>
             [a EXCEPT !.stage = n] \in Answer
  BY <1>1 DEF Answer
<1>3. a.id \in DOMAIN rows /\ UserOf[a.client] = rows[a.id].b
  BY <1>1, <1>2 DEF IInv, AnsweredOK, AnswerOK
<1> QED BY <1>1, <1>2, <1>3, Ids DEF AnswerOK, IInv, RowsOK

\* A run that moves on, keeps its answer and has stored its half.
LEMMA AnswerMovesOn ==
    ASSUME IInv, Grows, NEW a \in answers, NEW n \in {"putting", "put"},
           answers' \subseteq (answers \ {a}) \cup {[a EXCEPT !.stage = n]},
           Held(a.id, a.key)'
    PROVE  AnswerRunsOK' /\ answers' \subseteq Answer
<1>1. PICK b : b = [a EXCEPT !.stage = n]
  OBVIOUS
<1>2. /\ a \in Answer /\ AnswerOK(a) /\ b \in Answer
  BY <1>1, AnswerRun
<1>3. /\ b.client = a.client /\ b.key = a.key /\ b.id = a.id
  BY <1>1, <1>2 DEF Answer
<1>4. AnswerOK(a)'
  BY <1>2, LastingRecords DEF IInv
<1>5. AnswerOK(b)'
  BY <1>3, <1>4 DEF AnswerOK, AnswersTo, Held
<1>6. \A d \in answers : d \in Answer /\ AnswerOK(d)'
  BY LastingRecords DEF IInv, AnswerRunsOK, TypeOK
<1> QED BY <1>1, <1>2, <1>5, <1>6 DEF AnswerRunsOK

LEMMA DeriveAnswerKeeps ==
    ASSUME IInv, NEW a \in answers, DeriveAnswer(a)
    PROVE  IInv'
<1>1. PICK s, c, i : /\ s = [mine |-> a.key, theirs |-> rows[a.id].pubA]
                     /\ c = a.client /\ i = a.id
  OBVIOUS
<1>2. /\ a.stage = "verifying" /\ ram' = [ram EXCEPT ![c][i] = s]
      /\ gone' = gone \cup ({ram[c][i].mine} \ {None})
      /\ answers' = (answers \ {a}) \cup {[a EXCEPT !.stage = "putting"]}
      /\ UNCHANGED <<server, inbox, conv, away, made, born, posts, readies,
                     opening, sending, blank, faults>>
  BY <1>1 DEF DeriveAnswer
<1>3. /\ c \in Client /\ i \in SessionId /\ i \in DOMAIN rows /\ TypeOK
      /\ a.key \in Half /\ a.key[1] = c /\ a.key \in AnswersTo(i)
      /\ UserOf[c] = rows[i].b /\ rows[i].pubA \in Half
  BY <1>1, AnswerRun DEF IInv, Row
<1>4. /\ s \in Slot /\ s.mine = a.key /\ s.theirs = rows[i].pubA
  BY <1>1, <1>3 DEF Slot
<1>5. /\ ram' \in [Client -> [SessionId -> Slot]] /\ ram'[c][i] = s /\ HeldStays
      /\ (Grows /\ SlotOK(c, i, s)' => SlotsOK')
  <2>1. /\ ram[c][i].mine \in {None, s.mine} \cup gone' /\ gone \subseteq gone'
        /\ ram' = [ram EXCEPT ![c][i] = s] /\ c \in Client /\ i \in SessionId
        /\ s \in Slot
    BY <1>2, <1>3, <1>4
  <2> QED BY <2>1, Filing
<1>6. Grows
  BY <1>2, <1>5, Unmoved DEF Grows, server
<1>7. SlotsOK'
  <2>1. SlotOK(c, i, s)
    BY <1>3, <1>4, Halves DEF SlotOK
  <2>2. SlotOK(c, i, s)'
    BY <1>3, <1>4, <1>6, <2>1, LastingRecords
  <2> QED BY <1>5, <1>6, <2>2
<1>8. AnswerRunsOK' /\ answers' \subseteq Answer
  <2>1. Held(a.id, a.key)'
    BY <1>1, <1>3, <1>4, <1>5 DEF Held
  <2> QED BY <1>2, <1>6, <2>1, AnswerMovesOn
<1>9. gone' \subseteq Half
  BY <1>2, <1>3 DEF TypeOK, Slot
<1>10. TypeOK'
  BY <1>2, <1>3, <1>5, <1>8, <1>9 DEF TypeOK, server, sending
<1> QED BY <1>2, <1>6, <1>7, <1>8, <1>10, Carry DEF IInv, server, sending

LEMMA PutAnswerKeeps ==
    ASSUME IInv, NEW a \in answers, PutAnswer(a)
    PROVE  IInv'
<1>1. PICK x, i : /\ x = [kind |-> "ready", id |-> a.id, pub |-> a.key,
                          user |-> UserOf[a.client]]
                  /\ i = a.id
  OBVIOUS
<1> DEFINE row == [rows[i] EXCEPT !.pubB = a.key]
           S == ClientsOf(rows[i].a) \cap online
<1>2. /\ a.stage = "putting" /\ rows' = [rows EXCEPT ![i] = row]
      /\ inbox' = PushTo(S, <<x>>, inbox)
      /\ answers' = (answers \ {a}) \cup LiveOnly({[a EXCEPT !.stage = "put"]})
      /\ UNCHANGED <<messages, online, greeting, page, posts, readies,
                     opening, sending, blank, faults>>
  BY <1>1 DEF PutAnswer
<1>3. /\ i \in SessionId /\ i \in DOMAIN rows /\ TypeOK /\ rows[i] \in Row
      /\ a.key \in Half /\ a.key[1] = a.client /\ a.client \in Client
      /\ UserOf[a.client] \in User /\ Answers(i, a.key) /\ Held(a.id, a.key)
  BY <1>1, <1>2, AnswerRun DEF IInv, AnswerOK, Answers
<1>4. /\ row \in Row /\ row.a = rows[i].a /\ row.b = rows[i].b
      /\ row.pubA = rows[i].pubA /\ row.pubB = a.key
  BY <1>3 DEF Row
<1> HIDE DEF row
<1>5. /\ rows' \in Seq(Row) /\ Len(rows') = Len(rows) /\ DOMAIN rows' = DOMAIN rows
      /\ \A j \in DOMAIN rows : rows'[j] = IF j = i THEN row ELSE rows[j]
  <2>1. rows \in Seq(Row) /\ i \in 1..Len(rows) /\ DOMAIN rows = 1..Len(rows)
    BY <1>3, Ids DEF TypeOK
  <2>2. DOMAIN rows' = 1..Len(rows')
    BY <1>2, <1>4, <2>1, ExceptSeq
  <2> QED BY <1>2, <1>4, <2>1, <2>2, ExceptSeq
<1>6. Grows
  BY <1>2, <1>4, <1>5, Unmoved DEF Grows, RowsGrow, page
<1>7. RowsOK'
  <2>1. ASSUME NEW j \in DOMAIN rows
        PROVE  rows'[j].pubB = rows[j].pubB \/ Answers(j, rows[j].pubB)'
    <3>1. CASE j = i
      <4>1. PICK h : h = a.key
        OBVIOUS
      <4>2. Answers(j, h)'
        BY <1>3, <1>6, <3>1, <4>1, Lasting
      <4>3. rows'[j].pubB = h
        BY <1>4, <1>5, <3>1, <4>1
      <4> QED BY <4>2, <4>3 DEF Answers, AnswersTo, Held
    <3>2. CASE j # i
      BY <1>5, <3>2
    <3> QED BY <3>1, <3>2
  <2> QED BY <1>2, <1>5, <1>6, <2>1, Carry
<1>8. InboxesOK' /\ inbox' \in [Client -> Seq(Packet)]
  <2>1. /\ x \in Packet /\ x.kind = "ready" /\ x.id = i /\ x.pub = a.key
        /\ x.user \in User
    BY <1>1, <1>3, Ids DEF Packet
  <2>2. ASSUME NEW c \in Client, c \in S PROVE PacketOK(c, x)'
    <3>1. UserOf[c] = rows[i].a
      BY <2>2 DEF ClientsOf
    <3>2. PacketOK(c, x)
      BY <1>3, <2>1, <3>1 DEF PacketOK
    <3> QED BY <1>3, <1>6, <2>1, <3>2, LastingRecords
  <2>3. inbox \in [Client -> Seq(Packet)]
    BY <1>3 DEF TypeOK
  <2> QED BY <1>2, <1>6, <2>1, <2>2, <2>3, Pushing
<1>9. AnswerRunsOK' /\ answers' \subseteq Answer
  <2>1. Held(a.id, a.key)'
    BY <1>2, <1>3 DEF Held, page
  <2>2. answers' \subseteq (answers \ {a}) \cup {[a EXCEPT !.stage = "put"]}
    BY <1>2 DEF LiveOnly
  <2> QED BY <1>6, <2>1, <2>2, AnswerMovesOn
<1>10. TypeOK'
  BY <1>2, <1>3, <1>5, <1>8, <1>9 DEF TypeOK, page, sending
<1> QED BY <1>2, <1>5, <1>6, <1>7, <1>8, <1>9, <1>10, Carry DEF IInv, page, sending

LEMMA FinishAnswerKeeps ==
    ASSUME IInv, NEW a \in answers, FinishAnswer(a)
    PROVE  IInv'
<1>1. /\ conv' = IF conv[a.client].peer = rows[a.id].a
                 THEN [conv EXCEPT ![a.client].sid = a.id] ELSE conv
      /\ answers' = answers \ {a}
      /\ UNCHANGED <<server, inbox, away, ram, made, born, gone, posts, readies,
                     opening, sending, blank, faults>>
  BY DEF FinishAnswer
<1>2. /\ a.client \in Client /\ a.id \in DOMAIN rows /\ a.id \in Label /\ TypeOK
      /\ rows[a.id].a \in User /\ conv \in [Client -> Conversation]
  BY AnswerRun, Ids DEF IInv, Row, TypeOK
<1>3. /\ conv' \in [Client -> Conversation]
      /\ \A d \in Client :
            /\ conv'[d].peer = conv[d].peer
            /\ \/ conv'[d].sid = conv[d].sid
               \/ conv'[d].sid = a.id /\ conv[d].peer # Nobody
  BY <1>1, <1>2 DEF Conversation
<1>4. Grows
  BY <1>1, Unmoved DEF Grows, server
<1>5. ConvsOK'
  BY <1>1, <1>2, <1>3 DEF IInv, ConvsOK, ConvOK, LabelOK, server
<1>6. DraftsOK'
  BY <1>1, <1>3, <1>4, DraftsLast DEF sending
<1>7. PostsOK'
  <2> SUFFICES ASSUME NEW p \in posts' PROVE PostOK(p)'
    BY DEF PostsOK
  <2>1. p \in posts /\ PostOK(p) /\ p.client \in Client
    BY <1>1, <1>2 DEF IInv, PostsOK, TypeOK, Post
  <2>2. MadeToOpen(p.key)'
    BY <1>1, <2>1 DEF PostOK, MadeToOpen
  <2> QED BY <1>1, <1>3, <2>1, <2>2 DEF PostOK, Alive, server
<1>8. TypeOK'
  BY <1>1, <1>2, <1>3 DEF TypeOK, server, sending
<1> QED BY <1>1, <1>4, <1>5, <1>6, <1>7, <1>8, Carry DEF IInv, server, sending

\* What is known of a run of onSessionReady.
LEMMA ReadyRun ==
    ASSUME IInv, NEW r \in readies
    PROVE  /\ r \in Ready /\ ReadyOK(r) /\ r.client \in Client /\ r.key \in Half
           /\ r.pub \in Half /\ r.id \in SessionId
BY DEF IInv, ReadiesOK, TypeOK, Ready

LEMMA DeriveReadyKeeps ==
    ASSUME IInv, NEW r \in readies, DeriveReady(r)
    PROVE  IInv'
<1>1. PICK s, c, i : /\ s = [mine |-> r.key, theirs |-> r.pub]
                     /\ c = r.client /\ i = r.id
  OBVIOUS
<1>2. /\ ram' = [ram EXCEPT ![c][i] = s] /\ readies' = readies \ {r}
      /\ UNCHANGED <<server, inbox, conv, away, made, born, gone, posts, answers,
                     opening, sending, blank, faults>>
  BY <1>1 DEF DeriveReady
<1>3. /\ c \in Client /\ i \in SessionId /\ i \in DOMAIN rows /\ TypeOK
      /\ r.key \in Half /\ r.key[1] = c /\ r.key = rows[i].pubA
      /\ UserOf[c] = rows[i].a /\ r.pub \in Half /\ Answers(i, r.pub)
  BY <1>1, ReadyRun DEF IInv, ReadyOK
<1>4. s \in Slot /\ s.mine = r.key /\ s.theirs = r.pub
  BY <1>1, <1>3 DEF Slot
<1>5. /\ ram' \in [Client -> [SessionId -> Slot]] /\ HeldStays
      /\ (Grows /\ SlotOK(c, i, s)' => SlotsOK')
  <2>1. ram[c][i].mine \in {None, s.mine} \cup gone' /\ gone \subseteq gone'
    BY <1>2, <1>3, <1>4, InitiatorSlot
  <2> QED BY <1>2, <1>3, <1>4, <2>1, Filing
<1>6. Grows
  BY <1>2, <1>5, Unmoved DEF Grows, server
<1>7. SlotsOK'
  <2>1. SlotOK(c, i, s)
    BY <1>3, <1>4, Halves DEF SlotOK
  <2>2. SlotOK(c, i, s)'
    BY <1>3, <1>4, <1>6, <2>1, LastingRecords
  <2> QED BY <1>5, <1>6, <2>2
<1>8. TypeOK'
  BY <1>2, <1>3, <1>5 DEF TypeOK, server, sending
<1> QED BY <1>2, <1>6, <1>7, <1>8, Carry DEF IInv, server, sending

LEMMA RefusingKeeps ==
    ASSUME IInv, Refusing
    PROVE  IInv'
<1>1. ASSUME NEW a \in answers, RefuseRequest(a) PROVE IInv'
  <2>1. /\ answers' = answers \ {a} /\ faults' = faults + 1
        /\ UNCHANGED <<server, inbox, page, posts, readies, opening, sending, blank>>
    BY <1>1 DEF RefuseRequest, Fault
  <2>2. Grows
    BY <2>1, Unmoved DEF Grows, server, page
  <2>3. TypeOK'
    BY <2>1 DEF IInv, TypeOK, server, page, sending
  <2> QED BY <2>1, <2>2, <2>3, Carry DEF IInv, server, page, sending
<1>2. ASSUME NEW r \in readies, RejectReady(r) PROVE IInv'
  <2>1. /\ Drop(r.client, r.id) /\ readies' = readies \ {r} /\ faults' = faults + 1
        /\ UNCHANGED <<server, inbox, conv, away, made, born, posts, answers,
                       opening, sending, blank>>
    BY <1>2 DEF RejectReady, Fault
  <2>2. /\ ram' \in [Client -> [SessionId -> Slot]] /\ HeldStays
        /\ gone' \subseteq Half /\ gone \subseteq gone' /\ (Grows => SlotsOK')
    BY <1>2, <2>1, ReadyRun, Dropping
  <2>3. Grows
    BY <2>1, <2>2, Unmoved DEF Grows, server
  <2>4. TypeOK'
    BY <2>1, <2>2 DEF IInv, TypeOK, server, sending
  <2> QED BY <2>1, <2>2, <2>3, <2>4, Carry DEF IInv, server, sending
<1> QED BY <1>1, <1>2 DEF Refusing

----------------------------------------------------------------------------
(* sendMessage, the server's send_message, and opening what arrives *)

\* The keys of a session come from the half that opened it and one that
\* answered it, at either end.
LEMMA SlotSecret ==
    ASSUME IInv, NEW c \in Client, NEW i \in Label, HasKey(c, i)
    PROVE  /\ i \in DOMAIN rows /\ Secret(ram[c][i]) \subseteq Half
           /\ \E h \in Half : Answers(i, h) /\ Secret(ram[c][i]) = {rows[i].pubA, h}
<1>1. /\ i \in SessionId /\ ram[c][i].theirs # None
  BY Ids DEF IInv, HasKey
<1>2. /\ SlotOK(c, i, ram[c][i]) /\ ram[c][i] \in Slot
  BY <1>1 DEF IInv, SlotsOK, TypeOK
<1>3. PICK s : s = ram[c][i]
  OBVIOUS
<1>4. /\ SlotOK(c, i, s) /\ s.mine # None /\ s.theirs # None
      /\ s.mine \in Half /\ s.theirs \in Half /\ i \in DOMAIN rows
      /\ Secret(s) = {s.mine, s.theirs}
  BY <1>1, <1>2, <1>3 DEF SlotOK, Slot, Secret
<1>5. CASE s.mine = rows[i].pubA /\ Answers(i, s.theirs)
  BY <1>3, <1>4, <1>5
<1>6. CASE s.mine[1] = c /\ s.mine \in AnswersTo(i) /\ s.theirs = rows[i].pubA
  <2>1. Answers(i, s.mine)
    BY <1>3, <1>6 DEF Answers, Held
  <2> QED BY <1>3, <1>4, <1>6, <2>1
<1> QED BY <1>4, <1>5, <1>6 DEF SlotOK

LEMMA SendMessageKeeps ==
    ASSUME IInv, NEW c \in Client, SendMessage(c)
    PROVE  IInv'
<1>1. PICK S : S = IF HasKey(c, conv[c].sid) /\ conv[c].peer \notin away[c]
                   THEN Secret(ram[c][conv[c].sid]) ELSE {}
  OBVIOUS
<1>2. PICK d : d = [busy |-> TRUE, typedFor |-> conv[c].peer, secret |-> S]
  OBVIOUS
<1>3. /\ conv[c].peer # Nobody /\ draft' = [draft EXCEPT ![c] = d]
      /\ UNCHANGED <<server, inbox, page, runs, outbox, blank, faults>>
  BY <1>1, <1>2 DEF SendMessage
<1>4. /\ TypeOK /\ conv[c].sid \in Label /\ conv[c].peer \in User \cup {Nobody}
      /\ draft \in [Client -> Draft]
  BY DEF IInv, TypeOK, Conversation
<1>5. S \subseteq Half /\ SecretOK(S)
  <2>1. CASE S = {}
    BY <2>1 DEF SecretOK
  <2>2. CASE HasKey(c, conv[c].sid) /\ S = Secret(ram[c][conv[c].sid])
    BY <1>4, <2>2, SlotSecret DEF SecretOK
  <2> QED BY <1>1, <2>1, <2>2
<1>6. d \in Draft /\ d.busy /\ d.typedFor = conv[c].peer /\ d.secret = S
  BY <1>2, <1>4, <1>5 DEF Draft
<1>7. draft' \in [Client -> Draft] /\ draft'[c] = d
      /\ \A e \in Client \ {c} : draft'[e] = draft[e]
  BY <1>3, <1>4, <1>6
<1>8. Grows
  BY <1>3, Unmoved DEF Grows, server, page
<1>9. TypeOK'
  BY <1>3, <1>4, <1>7 DEF TypeOK, server, page, runs
<1>10. DraftsOK'
  <2> SUFFICES ASSUME NEW e \in Client PROVE DraftOK(e)'
    BY DEF DraftsOK
  <2>1. PICK T : T = draft'[e].secret
    OBVIOUS
  <2>2. SecretOK(T)
    BY <1>5, <1>6, <1>7, <2>1 DEF IInv, DraftsOK, DraftOK
  <2>3. SecretOK(T)'
    BY <1>4, <1>8, <2>2, Lasting
  <2>4. SecretOK(draft[e].secret)'
    BY <2>1, <2>3 DEF SecretOK
  <2>5. draft'[e].busy => conv'[e].peer # Nobody /\ draft'[e].typedFor # Nobody
    BY <1>3, <1>6, <1>7 DEF IInv, DraftsOK, DraftOK, page
  <2> QED BY <2>4, <2>5 DEF DraftOK
<1> QED BY <1>3, <1>8, <1>9, <1>10, Carry DEF IInv, server, page, runs

LEMMA EmitMessageKeeps ==
    ASSUME IInv, NEW c \in Client, EmitMessage(c)
    PROVE  IInv'
<1>1. PICK m : m = [typedFor |-> draft[c].typedFor, secret |-> draft[c].secret,
                    sid |-> conv[c].sid, recipient |-> conv[c].peer]
  OBVIOUS
<1>2. PICK d : d = NoDraft
  OBVIOUS
<1>3. /\ draft[c].busy /\ outbox' = [outbox EXCEPT ![c] = Append(outbox[c], m)]
      /\ draft' = [draft EXCEPT ![c] = d]
      /\ UNCHANGED <<server, inbox, page, runs, blank, faults>>
  BY <1>1, <1>2 DEF EmitMessage
<1>4. /\ TypeOK /\ conv[c] \in Conversation /\ draft[c] \in Draft /\ DraftOK(c)
      /\ ConvOK(c) /\ draft \in [Client -> Draft]
      /\ outbox \in [Client -> Seq(Sealed)] /\ OutboxesOK /\ DraftsOK
  BY DEF IInv, TypeOK, DraftsOK, ConvsOK
<1>5. /\ m \in Sealed /\ LabelOK(m.sid) /\ SecretOK(m.secret)
  BY <1>1, <1>3, <1>4 DEF Sealed, Conversation, Draft, DraftOK, ConvOK
<1>6. d \in Draft /\ ~d.busy /\ SecretOK(d.secret)
  BY <1>2 DEF NoDraft, Draft, SecretOK
<1>7. /\ draft' \in [Client -> Draft]
      /\ \A e \in Client : draft'[e] = draft[e] \/ draft'[e] = d
  BY <1>3, <1>4, <1>6
<1>8. /\ Append(outbox[c], m) \in Seq(Sealed)
      /\ \A n \in DOMAIN Append(outbox[c], m) :
            \/ n \in DOMAIN outbox[c] /\ Append(outbox[c], m)[n] = outbox[c][n]
            \/ Append(outbox[c], m)[n] = m
  BY <1>4, <1>5, Appending
<1>9. /\ outbox' \in [Client -> Seq(Sealed)]
      /\ \A e \in Client : \A n \in DOMAIN outbox'[e] :
            \/ n \in DOMAIN outbox[e] /\ outbox'[e][n] = outbox[e][n]
            \/ outbox'[e][n] = m
  BY <1>3, <1>4, <1>8
<1>10. Grows
  BY <1>3, Unmoved DEF Grows, server, page
<1>11. TypeOK'
  BY <1>3, <1>4, <1>7, <1>9 DEF TypeOK, server, page, runs
<1>12. DraftsOK'
  <2> SUFFICES ASSUME NEW e \in Client PROVE DraftOK(e)'
    BY DEF DraftsOK
  <2>1. PICK T : T = draft'[e].secret
    OBVIOUS
  <2>2. SecretOK(T)
    BY <1>4, <1>6, <1>7, <2>1 DEF DraftsOK, DraftOK
  <2>3. SecretOK(T)'
    BY <1>4, <1>10, <2>2, Lasting
  <2>4. SecretOK(draft[e].secret)'
    BY <2>1, <2>3 DEF SecretOK
  <2>5. draft'[e].busy => conv'[e].peer # Nobody /\ draft'[e].typedFor # Nobody
    BY <1>3, <1>4, <1>6, <1>7 DEF DraftsOK, DraftOK, page
  <2> QED BY <2>4, <2>5 DEF DraftOK
<1>13. OutboxesOK'
  <2> SUFFICES ASSUME NEW e \in Client, NEW n \in DOMAIN outbox'[e]
               PROVE  LabelOK(outbox[e][n].sid)' /\ SecretOK(outbox[e][n].secret)'
    BY DEF OutboxesOK
  <2>1. PICK z : z = outbox'[e][n]
    OBVIOUS
  <2>2. LabelOK(z.sid) /\ SecretOK(z.secret)
    BY <1>4, <1>5, <1>9, <2>1 DEF OutboxesOK
  <2>3. LabelOK(z.sid)' /\ SecretOK(z.secret)'
    BY <1>4, <1>10, <2>2, Lasting
  <2> QED BY <2>1, <2>3 DEF LabelOK, SecretOK
<1> QED BY <1>3, <1>10, <1>11, <1>12, <1>13, Carry DEF IInv, server, page, runs

LEMMA DecryptMessageKeeps ==
    ASSUME IInv, NEW o \in opening, DecryptMessage(o)
    PROVE  IInv'
<1>1. /\ opening' = opening \ {o}
      /\ blank' = blank \/ blank' = [blank EXCEPT ![o.client] = @ \cup {o.msg}]
      /\ UNCHANGED <<server, inbox, page, posts, answers, readies, sending, faults>>
  BY DEF DecryptMessage
<1>2. /\ TypeOK /\ o.client \in Client /\ o.msg \in MsgId
  BY DEF IInv, TypeOK, Opening
<1>3. blank' \in [Client -> SUBSET MsgId]
  <2>1. blank \in [Client -> SUBSET MsgId]
    BY <1>2 DEF TypeOK
  <2>2. PICK T : T = blank[o.client] \cup {o.msg}
    OBVIOUS
  <2>3. T \in SUBSET MsgId
    BY <1>2, <2>1, <2>2
  <2>4. blank' = blank \/ blank' = [blank EXCEPT ![o.client] = T]
    BY <1>1, <2>2
  <2> QED BY <1>2, <2>1, <2>3, <2>4
<1>4. Grows
  BY <1>1, Unmoved DEF Grows, server, page
<1>5. TypeOK'
  BY <1>1, <1>2, <1>3 DEF TypeOK, server, page, sending
<1> QED BY <1>1, <1>4, <1>5, Carry DEF IInv, server, page, sending

LEMMA RelayMessageKeeps ==
    ASSUME IInv, NEW c \in Client, RelayMessage(c)
    PROVE  IInv'
<1>1. PICK sent, i, u, n :
         /\ sent = Head(outbox[c]) /\ i = sent.sid /\ u = UserOf[c]
         /\ n = Len(messages) + 1
  OBVIOUS
<1>2. PICK live \in BOOLEAN : live = (i # 0 /\ rows[i].active)
  OBVIOUS
<1>3. PICK to : to = IF ~live THEN sent.recipient
                     ELSE IF rows[i].a = u THEN rows[i].b ELSE rows[i].a
  OBVIOUS
<1>4. PICK m, x, y, S, T, row :
         /\ m = [from |-> u, to |-> to, sid |-> i, secret |-> sent.secret,
                 typedFor |-> sent.typedFor]
         /\ x = Plain("message", n) /\ y = Plain("rotate", i)
         /\ S = (ClientsOf(u) \cup ClientsOf(to)) \cap online
         /\ T = ({c} \cup ClientsOf(to)) \cap online
         /\ row = [rows[i] EXCEPT !.count = @ + 1]
  OBVIOUS
<1>5. /\ outbox[c] # <<>> /\ Len(messages) < MaxMessages
      /\ outbox' = [outbox EXCEPT ![c] = Tail(outbox[c])]
      /\ messages' = Append(messages, m)
      /\ rows' = IF live THEN [rows EXCEPT ![i] = row] ELSE rows
      /\ \/ live /\ inbox' = PushTo(T, <<y>>, PushTo(S, <<x>>, inbox))
         \/ inbox' = PushTo(S, <<x>>, inbox)
      /\ UNCHANGED <<online, greeting, page, runs, draft, blank, faults>>
  BY <1>1, <1>2, <1>3, <1>4 DEF RelayMessage
<1>6. /\ TypeOK /\ outbox \in [Client -> Seq(Sealed)] /\ OutboxesOK /\ MessagesOK
      /\ inbox \in [Client -> Seq(Packet)] /\ messages \in Seq(Message)
      /\ rows \in Seq(Row)
  BY DEF IInv, TypeOK
<1>7. /\ sent \in Sealed /\ LabelOK(i) /\ SecretOK(sent.secret)
      /\ Tail(outbox[c]) \in Seq(Sealed)
      /\ \A k \in DOMAIN Tail(outbox[c]) :
            k + 1 \in DOMAIN outbox[c] /\ Tail(outbox[c])[k] = outbox[c][k + 1]
  <2>1. /\ 1 \in DOMAIN outbox[c] /\ sent = outbox[c][1]
        /\ Tail(outbox[c]) \in Seq(Sealed)
        /\ \A k \in DOMAIN Tail(outbox[c]) :
              k + 1 \in DOMAIN outbox[c] /\ Tail(outbox[c])[k] = outbox[c][k + 1]
    BY <1>1, <1>5, <1>6, Taking
  <2>2. sent \in Sealed
    BY <1>6, <2>1, Elements
  <2> QED BY <1>1, <1>6, <2>1, <2>2 DEF OutboxesOK
<1>8. /\ i \in Label /\ sent.recipient \in User /\ sent.typedFor \in User
      /\ sent.secret \in SUBSET Half /\ u \in User
      /\ live => i \in DOMAIN rows /\ rows[i] \in Row /\ i \in SessionId
  BY <1>1, <1>2, <1>6, <1>7, Ids DEF Sealed, LabelOK
<1>9. to \in User
  BY <1>3, <1>8 DEF Row
<1>10. m \in Message /\ m.sid = i /\ m.secret = sent.secret
  BY <1>4, <1>8, <1>9 DEF Message
<1>11. /\ messages' \in Seq(Message) /\ Len(messages') = n /\ n \in MsgId
       /\ DOMAIN messages' = DOMAIN messages \cup {n}
       /\ \A k \in DOMAIN messages : messages'[k] = messages[k]
       /\ messages'[n] = m /\ n \notin DOMAIN messages /\ n <= MaxMessages
  <2>1. Len(messages) \in Nat /\ n \in MsgId /\ n <= MaxMessages
    BY <1>1, <1>5, <1>6, Ids DEF MsgId
  <2> QED BY <1>1, <1>5, <1>6, <1>10, <2>1, Appending
<1>12. /\ rows' \in Seq(Row) /\ DOMAIN rows' = DOMAIN rows /\ Len(rows') = Len(rows)
       /\ \A j \in DOMAIN rows :
             /\ rows'[j].a = rows[j].a /\ rows'[j].b = rows[j].b
             /\ rows'[j].pubA = rows[j].pubA /\ rows'[j].pubB = rows[j].pubB
  <2>1. CASE ~live
    BY <1>5, <1>6, <2>1
  <2>2. CASE live
    <3>1. /\ row \in Row /\ row.a = rows[i].a /\ row.b = rows[i].b
          /\ row.pubA = rows[i].pubA /\ row.pubB = rows[i].pubB
      BY <1>4, <1>8, <2>2 DEF Row
    <3>2. rows' = [rows EXCEPT ![i] = row] /\ i \in 1..Len(rows)
          /\ DOMAIN rows = 1..Len(rows)
      BY <1>5, <1>6, <1>8, <2>2, Ids
    <3>3. /\ rows' \in Seq(Row) /\ Len(rows') = Len(rows)
          /\ \A j \in 1..Len(rows) : rows'[j] = IF j = i THEN row ELSE rows[j]
      BY <1>6, <3>1, <3>2, ExceptSeq
    <3>4. DOMAIN rows' = DOMAIN rows
      BY <3>2, <3>3, Elements
    <3> QED BY <3>1, <3>2, <3>3, <3>4
  <2> QED BY <2>1, <2>2
<1>13. Grows
  BY <1>5, <1>11, <1>12, Unmoved DEF Grows, RowsGrow, page
<1>14. RowsOK'
  BY <1>5, <1>12, <1>13, Carry DEF runs
<1>15. PostsOK'
  BY <1>5, <1>12, <1>13, Carry DEF runs, page
<1>16. InboxesOK' /\ inbox' \in [Client -> Seq(Packet)]
  <2>1. /\ x \in Packet /\ x.kind = "message" /\ x.id = n
        /\ y \in Packet /\ y.kind = "rotate" /\ y.id = i
    <3>1. n \in Nat /\ i \in Nat
      BY <1>6, <1>8, <1>11 DEF MsgId, Label
    <3>2. \A kind \in {"message", "rotate"}, k \in Nat :
             /\ Plain(kind, k) \in Packet /\ Plain(kind, k).kind = kind
             /\ Plain(kind, k).id = k
      BY DEF Packet, Plain
    <3> QED BY <1>4, <3>1, <3>2
  <2>2. \A d \in Client : PacketOK(d, x)'
    BY <1>11, <2>1 DEF PacketOK
  <2>3. \A d \in Client : live => PacketOK(d, y)'
    BY <1>8, <1>12, <2>1 DEF PacketOK
  <2>4. CASE live /\ inbox' = PushTo(T, <<y>>, PushTo(S, <<x>>, inbox))
    BY <1>13, <2>1, <2>2, <2>3, <2>4, PushingTwo
  <2>5. CASE inbox' = PushTo(S, <<x>>, inbox)
    <3>1. \A d \in Client : \A k \in DOMAIN inbox[d] :
             \E j \in DOMAIN inbox[d] : inbox[d][k] = inbox[d][j]
      OBVIOUS
    <3> QED BY <1>6, <1>13, <2>1, <2>2, <2>5, <3>1, Pushing
  <2> QED BY <1>5, <2>4, <2>5
<1>17. OutboxesOK' /\ outbox' \in [Client -> Seq(Sealed)]
  <2>1. /\ outbox' \in [Client -> Seq(Sealed)]
        /\ \A e \in Client : \A k \in DOMAIN outbox'[e] :
              \E j \in DOMAIN outbox[e] : outbox'[e][k] = outbox[e][j]
    BY <1>5, <1>6, <1>7
  <2>2. ASSUME NEW e \in Client, NEW k \in DOMAIN outbox'[e]
        PROVE  LabelOK(outbox[e][k].sid)' /\ SecretOK(outbox[e][k].secret)'
    <3>1. PICK z : z = outbox'[e][k]
      OBVIOUS
    <3>2. LabelOK(z.sid) /\ SecretOK(z.secret)
      BY <1>6, <2>1, <3>1 DEF OutboxesOK
    <3>3. LabelOK(z.sid)' /\ SecretOK(z.secret)'
      BY <1>6, <1>13, <3>2, Lasting
    <3> QED BY <3>1, <3>3 DEF LabelOK, SecretOK
  <2> QED BY <2>1, <2>2 DEF OutboxesOK
<1>18. MessagesOK'
  <2> SUFFICES ASSUME NEW k \in DOMAIN messages'
               PROVE  LabelOK(messages[k].sid)' /\ SecretOK(messages[k].secret)'
    BY DEF MessagesOK
  <2>1. PICK z : z = messages'[k]
    OBVIOUS
  <2>2. LabelOK(z.sid) /\ SecretOK(z.secret)
    BY <1>6, <1>7, <1>10, <1>11, <2>1 DEF MessagesOK
  <2>3. LabelOK(z.sid)' /\ SecretOK(z.secret)'
    BY <1>6, <1>13, <2>2, Lasting
  <2> QED BY <2>1, <2>3 DEF LabelOK, SecretOK
<1>19. TypeOK'
  BY <1>5, <1>6, <1>11, <1>12, <1>16, <1>17 DEF TypeOK, page, runs
<1> QED BY <1>5, <1>13, <1>14, <1>15, <1>16, <1>17, <1>18, <1>19, Carry
        DEF IInv, page, runs

----------------------------------------------------------------------------
(* Sockets and pages come and go *)

LEMMA ConnectKeeps ==
    ASSUME IInv, NEW c \in Client, Connect(c)
    PROVE  IInv'
<1>1. PICK x : x = About("online", UserOf[c])
  OBVIOUS
<1>2. /\ online' = online \cup {c} /\ greeting' = greeting \cup {c}
      /\ inbox' = PushTo(online, <<x>>, inbox)
      /\ UNCHANGED <<rows, messages, page, runs, sending, blank, faults>>
  BY <1>1 DEF Connect
<1>3. /\ x \in Packet /\ x.kind = "online" /\ x.user \in User
  BY <1>1 DEF About, Packet
<1>4. Grows
  BY <1>2, Unmoved DEF Grows, page
<1>5. InboxesOK' /\ inbox' \in [Client -> Seq(Packet)]
  <2>1. inbox \in [Client -> Seq(Packet)]
    BY DEF IInv, TypeOK
  <2>2. \A d \in Client : PacketOK(d, x)'
    BY <1>3 DEF PacketOK
  <2>3. \A d \in Client : \A k \in DOMAIN inbox[d] :
           \E j \in DOMAIN inbox[d] : inbox[d][k] = inbox[d][j]
    OBVIOUS
  <2> QED BY <1>2, <1>3, <1>4, <2>1, <2>2, <2>3, Pushing
<1>6. TypeOK'
  BY <1>2, <1>5 DEF IInv, TypeOK, page, runs, sending
<1> QED BY <1>2, <1>4, <1>5, <1>6, Carry DEF IInv, page, runs, sending

LEMMA GreetKeeps ==
    ASSUME IInv, NEW c \in Client, Greet(c)
    PROVE  IInv'
<1>1. PICK u, P : u = UserOf[c] /\ P = PendingSessions(u)
  OBVIOUS
<1>2. PICK pending \in SetToSeqs(P) : inbox' = [inbox EXCEPT ![c] = @ \o
          [k \in DOMAIN pending |-> Request(pending[k], rows[pending[k]].a)]]
  BY <1>1 DEF Greet
<1>3. PICK q : q = [k \in DOMAIN pending |->
                      Request(pending[k], rows[pending[k]].a)]
  OBVIOUS
<1>4. /\ inbox' = [inbox EXCEPT ![c] = inbox[c] \o q]
      /\ greeting' = greeting \ {c}
      /\ UNCHANGED <<rows, messages, online, page, runs, sending, blank, faults>>
  BY <1>2, <1>3 DEF Greet
<1>5. /\ TypeOK /\ inbox \in [Client -> Seq(Packet)] /\ DOMAIN rows = 1..Len(rows)
      /\ Len(rows) \in Nat /\ DOMAIN rows \subseteq SessionId
      /\ \A i \in DOMAIN rows : rows[i].a \in User
  BY Ids DEF IInv, TypeOK, Row
<1>6. P \subseteq DOMAIN rows /\ \A i \in P : rows[i].b = u
  BY <1>1 DEF PendingSessions
<1>7. IsFiniteSet(P)
  <2>1. IsFiniteSet(1..Len(rows))
    BY <1>5, FS_Interval
  <2>2. IsFiniteSet(DOMAIN rows)
    BY <1>5, <2>1
  <2> QED BY <1>6, <2>2, FS_Subset
<1>8. pending \in Seq(P)
  BY <1>7, Ordering
<1>9. /\ DOMAIN pending = 1..Len(pending) /\ Len(pending) \in Nat
      /\ \A k \in DOMAIN pending : pending[k] \in P
  BY <1>8, Elements
<1>10. \A i \in SessionId, v \in User :
          /\ Request(i, v) \in Packet /\ Request(i, v).kind = "request"
          /\ Request(i, v).id = i
  BY <1>5, Ids DEF Request, Packet
<1>11. /\ q \in Seq(Packet) /\ DOMAIN q = DOMAIN pending
       /\ \A k \in DOMAIN q : q[k].kind = "request" /\ q[k].id \in P
  <2>1. \A k \in DOMAIN pending : /\ q[k] \in Packet /\ q[k].kind = "request"
                                 /\ q[k].id = pending[k]
    BY <1>3, <1>5, <1>6, <1>9, <1>10
  <2>2. q \in [1..Len(pending) -> Packet]
    BY <1>3, <1>9, <2>1
  <2> QED BY <1>3, <1>9, <2>1, <2>2
<1>12. Grows
  BY <1>4, Unmoved DEF Grows, page
<1>13. inbox' \in [Client -> Seq(Packet)] /\ InboxesOK'
  <2>1. /\ inbox[c] \o q \in Seq(Packet)
        /\ \A n \in DOMAIN (inbox[c] \o q) :
              \/ \E m \in DOMAIN inbox[c] : (inbox[c] \o q)[n] = inbox[c][m]
              \/ \E m \in DOMAIN q : (inbox[c] \o q)[n] = q[m]
    <3>1. inbox[c] \in Seq(Packet) /\ q \in Seq(Packet)
      BY <1>5, <1>11
    <3> QED BY <3>1, Concatenating
  <2>2. inbox' \in [Client -> Seq(Packet)]
    BY <1>4, <1>5, <2>1
  <2>3. ASSUME NEW m \in DOMAIN q PROVE \E y : y = q[m] /\ PacketOK(c, y)'
    <3>1. PICK y : y = q[m]
      OBVIOUS
    <3>2. y.kind = "request" /\ y.id \in DOMAIN rows' /\ rows'[y.id].b = UserOf[c]
      BY <1>1, <1>4, <1>6, <1>11, <3>1
    <3> QED BY <3>1, <3>2 DEF PacketOK
  <2>4. ASSUME NEW d \in Client, NEW n \in DOMAIN inbox'[d]
        PROVE  \/ \E m \in DOMAIN inbox[d] : inbox'[d][n] = inbox[d][m]
               \/ \E y : y = inbox'[d][n] /\ PacketOK(d, y)'
    <3>1. CASE d = c
      <4>1. inbox'[d] = inbox[c] \o q
        BY <1>4, <1>5, <3>1
      <4> QED BY <2>1, <2>3, <3>1, <4>1
    <3>2. CASE d # c
      BY <1>4, <1>5, <3>2
    <3> QED BY <3>1, <3>2
  <2> QED BY <1>12, <2>2, <2>4, Filling
<1>14. TypeOK'
  BY <1>4, <1>5, <1>13 DEF TypeOK, page, runs, sending
<1> QED BY <1>4, <1>12, <1>13, <1>14, Carry DEF IInv, page, runs, sending

LEMMA Closing ==
    ASSUME IInv, NEW c \in Client, CloseSocket(c)
    PROVE  /\ rows' = rows /\ messages' = messages
           /\ online' \subseteq Client /\ greeting' \subseteq online'
           /\ inbox' \in [Client -> Seq(Packet)]
           /\ Grows => InboxesOK'
<1>1. PICK x, box, left : /\ x = About("offline", UserOf[c])
                          /\ box = [inbox EXCEPT ![c] = <<>>]
                          /\ left = online \ {c}
  OBVIOUS
<1>2. /\ online' = left /\ greeting' = greeting \ {c} /\ rows' = rows
      /\ inbox' = PushTo(left, <<x>>, box) \/ inbox' = box
      /\ messages' = messages
  BY <1>1 DEF CloseSocket
<1>3. x \in Packet /\ x.kind = "offline" /\ x.user \in User
  BY <1>1 DEF About, Packet
<1>4. /\ inbox \in [Client -> Seq(Packet)] /\ online \subseteq Client
      /\ greeting \subseteq online
  BY DEF IInv, TypeOK
<1>5. /\ box \in [Client -> Seq(Packet)]
      /\ \A d \in Client : \A n \in DOMAIN box[d] :
            \E m \in DOMAIN inbox[d] : box[d][n] = inbox[d][m]
  <2>1. <<>> \in Seq(Packet) /\ DOMAIN <<>> = {}
    OBVIOUS
  <2>2. \A d \in Client : box[d] = <<>> \/ box[d] = inbox[d]
    BY <1>1, <1>4
  <2> QED BY <1>1, <1>4, <2>1, <2>2
<1>6. inbox' \in [Client -> Seq(Packet)]
  <2>1. ASSUME inbox' = PushTo(left, <<x>>, box)
        PROVE  inbox' \in [Client -> Seq(Packet)]
    <3>1. Pushed(left, x, box, inbox')
      BY <1>3, <1>5, <2>1, PushContents
    <3> QED BY <3>1 DEF Pushed
  <2> QED BY <1>2, <1>5, <2>1
<1>7. ASSUME Grows PROVE InboxesOK'
  <2>1. CASE inbox' = PushTo(left, <<x>>, box)
    <3>1. \A d \in Client : PacketOK(d, x)'
      BY <1>3 DEF PacketOK
    <3> QED BY <1>3, <1>5, <1>7, <2>1, <3>1, Pushing
  <2>2. CASE inbox' = box
    BY <1>5, <1>7, <2>2, Filling
  <2> QED BY <1>2, <2>1, <2>2
<1> QED BY <1>1, <1>2, <1>4, <1>6, <1>7

LEMMA DisconnectKeeps ==
    ASSUME IInv, NEW c \in Client, Disconnect(c)
    PROVE  IInv'
<1>1. /\ CloseSocket(c) /\ faults' = faults + 1
      /\ UNCHANGED <<page, runs, sending, blank>>
  BY DEF Disconnect, Fault
<1>2. /\ rows' = rows /\ messages' = messages
      /\ online' \subseteq Client /\ greeting' \subseteq online'
      /\ inbox' \in [Client -> Seq(Packet)] /\ (Grows => InboxesOK')
  BY <1>1, Closing
<1>3. Grows
  BY <1>1, <1>2, Unmoved DEF Grows, page
<1>4. TypeOK'
  BY <1>1, <1>2 DEF IInv, TypeOK, page, runs, sending
<1> QED BY <1>1, <1>2, <1>3, <1>4, Carry DEF IInv, page, runs, sending

\* What a page held is a half that its client made.
LEMMA HeldIsMade ==
    ASSUME IInv, NEW c \in Client, NEW i \in SessionId, ram[c][i].mine # None
    PROVE  /\ ram[c][i].mine \in Half
           /\ ram[c][i].mine[1] = c /\ ram[c][i].mine[2] \in DOMAIN made[c]
<1>1. PICK s : s = ram[c][i]
  OBVIOUS
<1>2. /\ SlotOK(c, i, s) /\ s.mine \in Half
  BY <1>1 DEF IInv, SlotsOK, TypeOK, Slot
<1>3. /\ i \in DOMAIN rows /\ s.mine[1] = c
      /\ s.mine = rows[i].pubA \/ s.mine \in AnswersTo(i)
  BY <1>1, <1>2 DEF SlotOK
<1>4. CASE s.mine = rows[i].pubA
  BY <1>1, <1>2, <1>3, <1>4 DEF IInv, RowsOK, RowOK, MadeToOpen
<1>5. CASE s.mine \in AnswersTo(i)
  BY <1>1, <1>2, <1>3, <1>5 DEF AnswersTo
<1> QED BY <1>3, <1>4, <1>5

LEMMA ReloadKeeps ==
    ASSUME IInv, NEW c \in Client, Reload(c)
    PROVE  IInv'
<1>1. PICK e, d0, v0 : /\ e = [i \in SessionId |-> Empty] /\ d0 = NoDraft
                       /\ v0 = [peer |-> Nobody, sid |-> 0]
  OBVIOUS
<1>2. /\ CloseSocket(c) /\ faults' = faults + 1 /\ made' = made
      /\ conv' = [conv EXCEPT ![c] = v0] /\ away' = [away EXCEPT ![c] = {}]
      /\ ram' = [ram EXCEPT ![c] = e]
      /\ born' = [born EXCEPT ![c] = Len(made[c])]
      /\ gone' = gone \cup ({c} \X DOMAIN made[c])
      /\ draft' = [draft EXCEPT ![c] = d0]
      /\ outbox' = [outbox EXCEPT ![c] = <<>>]
      /\ blank' = [blank EXCEPT ![c] = {}]
  BY <1>1 DEF Reload, Fault
<1>3. /\ \A p : p \in posts' <=> p \in posts /\ (p.client # c \/ p.stage = "sent")
      /\ answers' \subseteq answers /\ readies' \subseteq readies
      /\ opening' \subseteq opening
  BY DEF Reload
<1>4. /\ rows' = rows /\ messages' = messages
      /\ online' \subseteq Client /\ greeting' \subseteq online'
      /\ inbox' \in [Client -> Seq(Packet)] /\ (Grows => InboxesOK')
  BY <1>2, Closing
<1>5. TypeOK
  BY DEF IInv
<1>6. /\ made[c] \in Seq(Label) /\ Len(made[c]) \in Nat
      /\ DOMAIN made[c] = 1..Len(made[c]) /\ Len(made[c]) <= MaxKeys
  BY <1>5, Elements DEF TypeOK, IInv, PagesOK, PageOK
<1>7. /\ gone' \subseteq Half /\ gone \subseteq gone'
      /\ \A h \in Half : h[1] = c /\ h[2] \in DOMAIN made[c] => h \in gone'
      /\ \A n \in 1..Len(made[c]) : <<c, n>> \in gone'
  <2>1. {c} \X DOMAIN made[c] \subseteq Half
    BY <1>6 DEF Half
  <2>2. \A h \in Half : h[1] = c /\ h[2] \in DOMAIN made[c]
                           => h \in {c} \X DOMAIN made[c]
    BY DEF Half
  <2> QED BY <1>2, <1>5, <1>6, <2>1, <2>2 DEF TypeOK
<1>8. /\ e \in [SessionId -> Slot] /\ v0 \in Conversation /\ d0 \in Draft
      /\ v0.peer = Nobody /\ v0.sid = 0 /\ ~d0.busy /\ d0.secret = {}
      /\ \A i \in SessionId : e[i].mine = None /\ e[i].theirs = None
  BY <1>1, <1>5, Ids DEF Slot, Empty, Conversation, Draft, NoDraft
<1>9. /\ ram' \in [Client -> [SessionId -> Slot]] /\ ram'[c] = e
      /\ \A d \in Client \ {c} : ram'[d] = ram[d]
  BY <1>2, <1>5, <1>8 DEF TypeOK
<1>10. /\ conv' \in [Client -> Conversation] /\ conv'[c] = v0
       /\ draft' \in [Client -> Draft] /\ draft'[c] = d0
       /\ born' \in [Client -> Nat] /\ born'[c] = Len(made[c])
       /\ \A d \in Client \ {c} : /\ conv'[d] = conv[d] /\ draft'[d] = draft[d]
                                 /\ born'[d] = born[d]
  BY <1>2, <1>5, <1>6, <1>8 DEF TypeOK
<1>11. HeldStays
  <2> SUFFICES ASSUME NEW i \in SessionId, NEW h \in Half, Held(i, h)
               PROVE  Held(i, h)'
    BY DEF HeldStays
  <2>1. h[1] \in Client /\ h # None
    BY Halves
  <2>2. CASE h \in gone
    BY <1>7, <2>2 DEF Held
  <2>3. CASE h[1] = c /\ ram[c][i].mine = h
    BY <1>7, <2>1, <2>3, HeldIsMade DEF Held
  <2>4. CASE h[1] # c /\ ram[h[1]][i].mine = h
    BY <1>9, <2>1, <2>4 DEF Held
  <2> QED BY <2>2, <2>3, <2>4 DEF Held
<1>12. Grows
  BY <1>2, <1>4, <1>7, <1>11, Unmoved DEF Grows
<1>13. TypeOK'
  <2>1. /\ away' \in [Client -> SUBSET User] /\ blank' \in [Client -> SUBSET MsgId]
        /\ faults' \in Nat
    BY <1>2, <1>5 DEF TypeOK
  <2>2. outbox' \in [Client -> Seq(Sealed)]
    <3>1. <<>> \in Seq(Sealed)
      OBVIOUS
    <3> QED BY <1>2, <1>5, <3>1 DEF TypeOK
  <2>3. posts' \subseteq Post
    BY <1>3, <1>5 DEF TypeOK
  <2> QED BY <1>2, <1>3, <1>4, <1>5, <1>7, <1>9, <1>10, <2>1, <2>2, <2>3 DEF TypeOK
<1>14. RowsOK'
  <2> SUFFICES ASSUME NEW i \in DOMAIN rows PROVE RowOK(i)'
    BY <1>4 DEF RowsOK
  <2>1. PICK h : h = rows[i].pubA
    OBVIOUS
  <2>2. /\ RowOK(i) /\ i \in SessionId /\ h \in Half /\ rows[i] \in Row
    BY <1>5, <2>1, Ids DEF IInv, RowsOK, Row
  <2>3. MadeToOpen(rows[i].pubA)'
    BY <1>2, <1>4, <2>2 DEF RowOK, MadeToOpen
  <2>4. (rows[i].pubB # None => Answers(i, rows[i].pubB))'
    <3>1. PICK g : g = rows[i].pubB
      OBVIOUS
    <3>2. g # None => Answers(i, g)'
      BY <1>5, <1>12, <2>2, <3>1, Lasting DEF RowOK
    <3> QED BY <1>4, <3>1, <3>2 DEF Answers, AnswersTo, Held
  <2>5. \/ Held(i, rows[i].pubA)'
        \/ (\E p \in posts : p.key = rows[i].pubA /\ p.stage = "created")'
    <3>1. CASE Held(i, h)
      <4>1. Held(i, h)'
        BY <1>11, <2>2, <3>1 DEF HeldStays
      <4> QED BY <1>4, <2>1, <4>1 DEF Held
    <3>2. ASSUME NEW p \in posts, p.key = h, p.stage = "created"
          PROVE  \/ Held(i, rows[i].pubA)'
                 \/ (\E q \in posts : q.key = rows[i].pubA /\ q.stage = "created")'
      <4>1. CASE p.client = c
        <5>1. h[1] = c /\ h[2] \in DOMAIN made[c]
          BY <2>1, <2>2, <3>2, <4>1 DEF IInv, PostsOK, PostOK, RowOK, MadeToOpen
        <5> QED BY <1>4, <1>7, <2>1, <2>2, <5>1 DEF Held
      <4>2. CASE p.client # c
        BY <1>3, <1>4, <2>1, <3>2, <4>2
      <4> QED BY <4>1, <4>2
    <3> QED BY <2>1, <2>2, <3>1, <3>2 DEF RowOK
  <2> QED BY <1>4, <2>2, <2>3, <2>4, <2>5 DEF RowOK
<1>15. PostsOK'
  <2> SUFFICES ASSUME NEW p \in posts' PROVE PostOK(p)'
    BY DEF PostsOK
  <2>1. /\ p \in posts /\ PostOK(p) /\ p.client \in Client /\ p.key \in Half
        /\ p.client # c \/ p.stage = "sent"
    BY <1>3, <1>5 DEF IInv, PostsOK, TypeOK, Post
  <2>2. MadeToOpen(p.key)'
    BY <1>2, <2>1 DEF PostOK, MadeToOpen
  <2>3. CASE p.client = c
    <3>1. ~Alive(p.key)'
      BY <1>6, <1>10, <2>1, <2>3 DEF PostOK, MadeToOpen, Alive
    <3> QED BY <1>3, <1>4, <2>1, <2>2, <2>3, <3>1 DEF PostOK
  <2>4. CASE p.client # c
    <3>1. Alive(p.key)' <=> Alive(p.key)
      BY <1>10, <2>1, <2>4 DEF PostOK, Alive
    <3> QED BY <1>3, <1>4, <1>10, <2>1, <2>2, <2>4, <3>1 DEF PostOK
  <2> QED BY <2>3, <2>4
<1>16. SlotsOK'
  <2> SUFFICES ASSUME NEW d \in Client, NEW i \in SessionId
               PROVE  SlotOK(d, i, ram[d][i])'
    BY DEF SlotsOK
  <2>1. PICK t : t = ram'[d][i]
    OBVIOUS
  <2>2. SlotOK(d, i, t)'
    <3>1. CASE d = c
      BY <1>8, <1>9, <2>1, <3>1 DEF SlotOK
    <3>2. CASE d # c
      <4>1. t = ram[d][i] /\ t \in Slot
        BY <1>5, <1>9, <2>1, <3>2 DEF TypeOK
      <4>2. SlotOK(d, i, t)
        BY <4>1 DEF IInv, SlotsOK
      <4> QED BY <1>5, <1>12, <4>1, <4>2, LastingRecords
    <3> QED BY <3>1, <3>2
  <2> QED BY <2>1, <2>2 DEF SlotOK
<1>17. ConvsOK'
  BY <1>4, <1>8, <1>10 DEF IInv, ConvsOK, ConvOK, LabelOK
<1>18. PagesOK'
  <2> SUFFICES ASSUME NEW d \in Client PROVE PageOK(d)'
    BY DEF PagesOK
  <2>1. PageOK(d)
    BY DEF IInv, PagesOK
  <2>2. CASE d = c
    BY <1>2, <1>6, <1>7, <1>10, <2>2 DEF PageOK
  <2>3. CASE d # c
    BY <1>2, <1>7, <1>10, <2>1, <2>3 DEF PageOK
  <2> QED BY <2>2, <2>3
<1>19. DraftsOK'
  <2> SUFFICES ASSUME NEW d \in Client PROVE DraftOK(d)'
    BY DEF DraftsOK
  <2>1. PICK S : S = draft'[d].secret
    OBVIOUS
  <2>2. DraftOK(d)
    BY DEF IInv, DraftsOK
  <2>3. SecretOK(S)'
    <3>1. SecretOK(S)
      BY <1>8, <1>10, <2>1, <2>2 DEF DraftOK, SecretOK
    <3> QED BY <1>5, <1>12, <3>1, Lasting
  <2>4. SecretOK(draft[d].secret)'
    BY <2>1, <2>3 DEF SecretOK
  <2>5. draft'[d].busy => conv'[d].peer # Nobody /\ draft'[d].typedFor # Nobody
    BY <1>8, <1>10, <2>2 DEF DraftOK
  <2> QED BY <2>4, <2>5 DEF DraftOK
<1>20. OutboxesOK'
  <2> SUFFICES ASSUME NEW d \in Client, NEW n \in DOMAIN outbox'[d]
               PROVE  LabelOK(outbox[d][n].sid)' /\ SecretOK(outbox[d][n].secret)'
    BY DEF OutboxesOK
  <2>1. outbox'[d] = outbox[d]
    BY <1>2, <1>5 DEF TypeOK
  <2>2. PICK z : z = outbox'[d][n]
    OBVIOUS
  <2>3. LabelOK(z.sid) /\ SecretOK(z.secret)
    BY <2>1, <2>2 DEF IInv, OutboxesOK
  <2>4. LabelOK(z.sid)' /\ SecretOK(z.secret)'
    BY <1>5, <1>12, <2>3, Lasting
  <2> QED BY <2>2, <2>4 DEF LabelOK, SecretOK
<1> QED BY <1>2, <1>3, <1>4, <1>12, <1>13, <1>14, <1>15, <1>16, <1>17, <1>18,
           <1>19, <1>20, Carry DEF IInv

----------------------------------------------------------------------------
(* The invariant *)

LEMMA InitIInv == Init => IInv
<1> SUFFICES ASSUME Init PROVE IInv
  OBVIOUS
<1>1. DOMAIN <<>> = {} /\ Len(<<>>) = 0 /\ \A S : <<>> \in Seq(S)
  OBVIOUS
<1>2. /\ Empty \in Slot /\ Empty.mine = None /\ Empty.theirs = None
      /\ NoDraft \in Draft /\ ~NoDraft.busy /\ NoDraft.secret = {}
  BY DEF Empty, Slot, NoDraft, Draft
<1>3. TypeOK
  <2>1. [peer |-> Nobody, sid |-> 0] \in Conversation
    BY DEF Conversation, Label
  <2> QED BY <1>1, <1>2, <2>1 DEF Init, TypeOK
<1>4. RowsOK /\ PostsOK /\ AnswerRunsOK /\ ReadiesOK /\ OpeningsOK /\ MessagesOK
  BY <1>1 DEF Init, RowsOK, PostsOK, AnswerRunsOK, ReadiesOK, OpeningsOK, MessagesOK
<1>5. AnsweredOK
  <2>1. \A i : AnswersTo(i) = {}
    <3>1. \A h \in Half : made[h[1]] = <<>>
      BY Halves DEF Init
    <3> QED BY <1>1, <3>1 DEF AnswersTo
  <2> QED BY <2>1, FS_EmptySet DEF AnsweredOK
<1>6. InboxesOK /\ OutboxesOK
  BY <1>1 DEF Init, InboxesOK, OutboxesOK
<1>7. ConvsOK /\ DraftsOK
  BY <1>2 DEF Init, ConvsOK, ConvOK, LabelOK, DraftsOK, DraftOK, SecretOK
<1>8. SlotsOK
  BY <1>2 DEF Init, SlotsOK, SlotOK
<1>9. PagesOK
  BY <1>1 DEF Init, PagesOK, PageOK
<1> QED BY <1>3, <1>4, <1>5, <1>6, <1>7, <1>8, <1>9 DEF IInv

LEMMA StutteringKeeps ==
    ASSUME IInv, UNCHANGED vars
    PROVE  IInv'
<1>1. Grows
  BY Unmoved DEF vars, Grows, server, page
<1>2. TypeOK'
  BY DEF IInv, TypeOK, vars, server, page, runs, sending
<1> QED BY <1>1, <1>2, Carry DEF IInv, vars, server, page, runs, sending

LEMMA NextKeeps ==
    ASSUME IInv, [Next]_vars
    PROVE  IInv'
<1>1. ASSUME NEW c \in Client, Handle(c) PROVE IInv'
  BY <1>1, OnSessionRequestKeeps, OnSessionReadyKeeps, OnKeyRotationRequiredKeeps,
     OnReceiveMessageKeeps, PresenceKeeps DEF Handle
<1>2. ASSUME NEW c \in Client, NEW v \in User, OpenDM(c, v) PROVE IInv'
  BY <1>2, OpenDMKeeps
<1>3. ASSUME NEW c \in Client, SendMessage(c) \/ EmitMessage(c) \/ RelayMessage(c)
      PROVE  IInv'
  BY <1>3, SendMessageKeeps, EmitMessageKeeps, RelayMessageKeeps
<1>4. ASSUME NEW c \in Client, Connect(c) \/ Greet(c) \/ Disconnect(c) \/ Reload(c)
      PROVE  IInv'
  BY <1>4, ConnectKeeps, GreetKeeps, DisconnectKeeps, ReloadKeeps
<1>5. CASE Starting
  BY <1>5, CreateSessionKeeps, StoreInitiatedKeeps, AdoptKeeps DEF Starting
<1>6. CASE Answering
  BY <1>6, DeriveAnswerKeeps, PutAnswerKeeps, FinishAnswerKeeps DEF Answering
<1>7. CASE Deriving
  BY <1>7, DeriveReadyKeeps DEF Deriving
<1>8. CASE Refusing
  BY <1>8, RefusingKeeps
<1>9. ASSUME NEW o \in opening, DecryptMessage(o) PROVE IInv'
  BY <1>9, DecryptMessageKeeps
<1>10. CASE UNCHANGED vars
  BY <1>10, StutteringKeeps
<1> QED BY <1>1, <1>2, <1>3, <1>4, <1>5, <1>6, <1>7, <1>8, <1>9, <1>10 DEF Next

----------------------------------------------------------------------------
(* The theorems *)

\* The invariant holds in every reachable state.
THEOREM HandshakeInvariant == Spec => []IInv
<1>1. Init => IInv
  BY InitIInv
<1>2. IInv /\ [Next]_vars => IInv'
  BY NextKeeps
<1> QED BY <1>1, <1>2, PTL DEF Spec

\* The variables of the clients and the server keep their types, and sessions
\* and messages their bounds.
THEOREM HandshakeTypes == Spec => []TypeOK
<1>1. IInv => TypeOK
  BY DEF IInv
<1> QED BY <1>1, HandshakeInvariant, PTL

\* No public half is in the server's table without its private half in the RAM
\* of its maker, filed under that session, unless the maker dropped it or has
\* not had the answer to its POST (onSessionRequest, initiateSession).
THEOREM PublishedHalvesAreHeld == Spec => []PublishedHalfIsHeld
<1>1. ASSUME IInv PROVE PublishedHalfIsHeld
  <2> SUFFICES ASSUME NEW i \in DOMAIN rows
      PROVE  /\ \/ ram[rows[i].pubA[1]][i].mine = rows[i].pubA
                \/ rows[i].pubA \in gone
                \/ \E p \in posts : p.key = rows[i].pubA /\ p.stage = "created"
             /\ rows[i].pubB # None =>
                   \/ ram[rows[i].pubB[1]][i].mine = rows[i].pubB
                   \/ rows[i].pubB \in gone
    BY DEF PublishedHalfIsHeld
  <2>1. RowOK(i)
    BY <1>1 DEF IInv, RowsOK
  <2> QED BY <2>1 DEF RowOK, Answers, Held
<1> QED BY <1>1, HandshakeInvariant, PTL

\* A set of at most one element that has this one has no other.
LEMMA OnlyOne ==
    ASSUME NEW S, IsFiniteSet(S), NEW x \in S, ~ (Cardinality(S) > 1)
    PROVE  S = {x}
<1>1. /\ IsFiniteSet(S \ {x}) /\ Cardinality(S \ {x}) = Cardinality(S) - 1
  BY FS_RemoveElement
<1>2. Cardinality(S) \in Nat /\ Cardinality(S \ {x}) \in Nat
  BY <1>1, FS_CardinalityType
<1>3. Cardinality(S \ {x}) = 0
  BY <1>1, <1>2
<1>4. S \ {x} = {}
  BY <1>1, <1>3, FS_EmptySet
<1> QED BY <1>4

\* The two ends of a session that was answered once derive the same keys, if
\* they both have keys: onSessionReady and onSessionRequest file them under the
\* session whose halves they are made of.
THEOREM EndsHoldTheSameKeys == Spec => []SameKeysAfterOneAnswer
<1>1. ASSUME IInv PROVE SameKeysAfterOneAnswer
  <2> SUFFICES ASSUME NEW i \in DOMAIN rows,
                      NEW c \in ClientsOf(rows[i].a), NEW d \in ClientsOf(rows[i].b),
                      HasKey(c, i), HasKey(d, i), Cardinality(AnswersTo(i)) = 1
               PROVE  Secret(ram[c][i]) = Secret(ram[d][i])
    BY DEF SameKeysAfterOneAnswer
  <2>1. /\ i \in SessionId /\ i \in Label /\ c \in Client /\ d \in Client
        /\ IsFiniteSet(AnswersTo(i))
    BY <1>1, Ids DEF IInv, AnsweredOK, ClientsOf
  <2>2. PICK g \in Half : Answers(i, g) /\ Secret(ram[c][i]) = {rows[i].pubA, g}
    BY <1>1, <2>1, SlotSecret
  <2>3. PICK h \in Half : Answers(i, h) /\ Secret(ram[d][i]) = {rows[i].pubA, h}
    BY <1>1, <2>1, SlotSecret
  <2>4. g \in AnswersTo(i) /\ h \in AnswersTo(i)
    BY <2>2, <2>3 DEF Answers
  <2>5. AnswersTo(i) = {g}
    BY <2>1, <2>4, OnlyOne
  <2> QED BY <2>2, <2>3, <2>4, <2>5
<1> QED BY <1>1, HandshakeInvariant, PTL

\* Only onReceiveMessage, having failed to open it, marks a message unreadable.
LEMMA MarkedByDecrypt ==
    ASSUME TypeOK, [Next]_vars, NEW c \in Client, NEW k \in blank'[c] \ blank[c]
    PROVE  \E o \in opening : o.client = c /\ o.msg = k /\ ~Opens(o)
<1>1. CASE blank' = blank
  BY <1>1
<1>2. ASSUME NEW d \in Client, blank' = [blank EXCEPT ![d] = {}] PROVE FALSE
  BY <1>2 DEF TypeOK
<1>3. ASSUME NEW o \in opening, DecryptMessage(o)
      PROVE  o.client = c /\ o.msg = k /\ ~Opens(o)
  <2>1. blank' # blank
    OBVIOUS
  <2>2. ~Opens(o) /\ blank' = [blank EXCEPT ![o.client] = @ \cup {o.msg}]
    BY <1>3, <2>1 DEF DecryptMessage
  <2> QED BY <2>2 DEF TypeOK
<1>4. ASSUME NEW d \in Client, Handle(d) PROVE blank' = blank
  BY <1>4 DEF Handle, OnSessionRequest, OnSessionReady, OnKeyRotationRequired,
     OnUserOnline, OnUserOffline, OnReceiveMessage
<1>5. ASSUME NEW d \in Client, NEW v \in User, OpenDM(d, v) PROVE blank' = blank
  BY <1>5 DEF OpenDM
<1>6. ASSUME NEW d \in Client, \/ SendMessage(d) \/ EmitMessage(d) \/ RelayMessage(d)
                               \/ Connect(d) \/ Greet(d) \/ Disconnect(d)
      PROVE  blank' = blank
  BY <1>6 DEF SendMessage, EmitMessage, RelayMessage, Connect, Greet, Disconnect
<1>7. ASSUME NEW d \in Client, Reload(d) PROVE blank' = [blank EXCEPT ![d] = {}]
  BY <1>7 DEF Reload
<1>8. Starting \/ Answering \/ Deriving \/ Refusing => blank' = blank
  BY DEF Starting, CreateSession, StoreInitiated, Adopt, Answering, DeriveAnswer,
     PutAnswer, FinishAnswer, Deriving, DeriveReady, Refusing, RefuseRequest,
     RejectReady
<1>9. UNCHANGED vars => blank' = blank
  BY DEF vars
<1> QED BY <1>1, <1>2, <1>3, <1>4, <1>5, <1>6, <1>7, <1>8, <1>9 DEF Next

\* A message that no key of the receiver opens is one of those that
\* UnreadableIsExplained lists: what the client dropped, what the sender's page
\* labelled after it had moved on, a handshake of the initiator that is not
\* finished, or a session answered twice.
THEOREM UnreadableMessages == Spec => UnreadableIsExplained
<1> DEFINE Explained(c, k) ==
       LET m == messages[k]
           own == {h \in m.secret : h[1] = c}
       IN  \/ own = {} \/ own \cap gone # {}
           \/ m.sid = 0
           \/ m.sid # 0 /\ rows[m.sid].pubA \notin m.secret
           \/ m.sid # 0 /\ rows[m.sid].pubA[1] = c /\ ~HasKey(c, m.sid)
           \/ m.sid # 0 /\ Cardinality(AnswersTo(m.sid)) > 1
<1>1. ASSUME IInv, [Next]_vars, NEW c \in Client, NEW k \in blank'[c] \ blank[c]
      PROVE  Explained(c, k)
  <2>1. TypeOK
    BY <1>1 DEF IInv
  <2>2. PICK o \in opening : o.client = c /\ o.msg = k /\ ~Opens(o)
    BY <1>1, <2>1, MarkedByDecrypt
  <2>3. PICK m, i : m = messages[k] /\ i = m.sid
    OBVIOUS
  <2>4. k \in DOMAIN messages /\ LabelOK(i) /\ SecretOK(m.secret)
    BY <1>1, <2>2, <2>3 DEF IInv, OpeningsOK, MessagesOK
  <2> SUFFICES ASSUME i # 0, rows[i].pubA \in m.secret,
                      ~ (rows[i].pubA[1] = c /\ ~HasKey(c, i)),
                      ~ (Cardinality(AnswersTo(i)) > 1),
                      NEW g \in m.secret, g[1] = c,
                      \A h \in m.secret : h[1] = c => h \notin gone
               PROVE  FALSE
    BY <2>3
  <2>5. /\ i \in DOMAIN rows /\ i \in SessionId /\ i \in Label
        /\ rows[i].pubA \in Half /\ MadeToOpen(rows[i].pubA) /\ RowOK(i)
    BY <1>1, <2>1, <2>4, Ids DEF LabelOK, IInv, RowsOK, RowOK, Row
  <2>6. PICK j \in DOMAIN rows, h \in Half :
           Answers(j, h) /\ m.secret = {rows[j].pubA, h}
    BY <2>4 DEF SecretOK
  <2>7. j \in SessionId /\ h \in AnswersTo(j) /\ h # rows[i].pubA
    BY <2>1, <2>5, <2>6, Ids DEF Answers, AnswersTo, MadeToOpen
  <2>8. j = i
    BY <2>5, <2>6, <2>7 DEF RowOK
  <2>9. AnswersTo(i) = {h}
    <3>1. IsFiniteSet(AnswersTo(i))
      BY <1>1, <2>5 DEF IInv, AnsweredOK
    <3> QED BY <2>7, <2>8, <3>1, OnlyOne
  <2>10. ~ (HasKey(c, i) /\ Secret(ram[c][i]) = m.secret)
    BY <2>2, <2>3 DEF Opens, KeysFor
  <2>11. CASE g = rows[i].pubA
    <3>1. HasKey(c, i)
      BY <2>11
    <3>2. PICK f \in Half : Answers(i, f) /\ Secret(ram[c][i]) = {rows[i].pubA, f}
      BY <1>1, <2>5, <3>1, SlotSecret
    <3>3. f = h
      BY <2>9, <3>2 DEF Answers
    <3> QED BY <2>6, <2>8, <2>10, <3>1, <3>2, <3>3
  <2>12. CASE g = h
    <3>1. ram[c][i].mine = h
      BY <2>6, <2>8, <2>12 DEF Answers, Held
    <3>2. SlotOK(c, i, ram[c][i]) /\ h # None
      BY <1>1, <2>5, Halves DEF IInv, SlotsOK
    <3>3. ram[c][i].theirs = rows[i].pubA
      BY <2>7, <2>8, <3>1, <3>2 DEF SlotOK
    <3>4. HasKey(c, i) /\ Secret(ram[c][i]) = {h, rows[i].pubA}
      BY <2>5, <3>1, <3>3, Halves DEF HasKey, Secret
    <3> QED BY <2>6, <2>8, <2>10, <3>4
  <2> QED BY <2>6, <2>8, <2>11, <2>12
<1>2. IInv /\ [Next]_vars =>
         [\A c \in Client : \A k \in blank'[c] \ blank[c] : Explained(c, k)]_vars
  BY <1>1
<1>3. [][\A c \in Client : \A k \in blank'[c] \ blank[c] : Explained(c, k)]_vars
         => UnreadableIsExplained
  BY DEF UnreadableIsExplained
<1> QED BY <1>2, <1>3, HandshakeInvariant, PTL DEF Spec
=============================================================================
