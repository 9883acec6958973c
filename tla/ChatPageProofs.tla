--------------------------- MODULE ChatPageProofs ---------------------------
(***************************************************************************)
(* Theorems about ChatPage, for every set of conversations, of ids and of  *)
(* messages, every number of calls at once, every limit and whatever the   *)
(* user clicks: the page's invariant, one lemma per action, the properties *)
(* and that the page, through its store, implements AtomicStore.           *)
(***************************************************************************)
EXTENDS ChatPage, ClientStoreProofs, FiniteSetTheorems

----------------------------------------------------------------------------
(* The invariant *)

\* Events and messages on their way refer to messages that exist, and the page
\* receives a message once.
Events ==
    /\ DOMAIN log \subseteq Msg
    /\ \A k \in DOMAIN inbox : inbox[k].id \in DOMAIN log
    /\ \A a \in arriving : a.msg \in DOMAIN log
    /\ \A k \in DOMAIN outbox : outbox[k] \in DOMAIN typed
    /\ \A j, k \in DOMAIN inbox :
          inbox[j].kind = "message" /\ inbox[k].kind = "message"
             /\ inbox[j].id = inbox[k].id => j = k
    /\ \A k \in DOMAIN inbox, a \in arriving :
          inbox[k].kind = "message" => inbox[k].id # a.msg
    /\ \A a, b \in arriving : a.msg = b.msg => a = b

\* A temporary id is that of one bubble, of one message typed here and of the
\* entry that waits for its echo.
Temporaries ==
    /\ \A i, j \in DOMAIN screen :
          screen[i].tag < 0 /\ screen[j].tag = screen[i].tag => i = j
    /\ \A i \in DOMAIN screen :
          /\ screen[i].tag < 0 => screen[i].ref = screen[i].tag
          /\ screen[i].ref < 0 => -screen[i].ref \in DOMAIN typed
    /\ \A p \in pending : -p.temp \in DOMAIN typed /\ p.conv = typed[-p.temp]

Bubbles == Temporaries /\ SendingBubbleIsQueued /\ EchoStaysInConversation

\* A page without a conversation shows none and reads none.
NothingOpened ==
    active = Nobody => screen = <<>> /\ opens = {} /\ \A a \in arriving : ~a.here

\* The messages the page has not shown yet, and those it has stored, is about to
\* write, keeps in RAM, is about to draw or shows.
Unshown ==
    {m \in Msg : \/ m > Len(log)
                 \/ \E k \in DOMAIN inbox : inbox[k].kind = "message" /\ inbox[k].id = m
                 \/ \E a \in arriving : a.msg = m}
InStore == UNION {Held(c) \cup Ids(session[c]) : c \in Conv}
InOpens == UNION {Ids(o.list) : o \in opens}
OnScreen == {screen[i].tag : i \in DOMAIN screen}
Seen == InStore \cup InOpens \cup OnScreen

\* A message is shown before it is saved, and saved once.
Fresh == \A m \in Unshown : m \notin Seen /\ m \notin Saving
SavesDiffer ==
    /\ \A m \in Saving, c \in Conv : m \notin Held(c)
    /\ \A r, s \in Slot : calls[r].kind = "save" /\ calls[s].kind = "save"
                             /\ calls[r].id = calls[s].id => r = s

\* What localStorage held at logout does not come back.
Forgotten ==
    life # "open" =>
        /\ \A m \in past : m \notin Unshown /\ m \notin Saving
        /\ \A c \in Conv \ raced : Held(c) \cap past = {}

PageInv ==
    /\ TypeOK /\ Events /\ Bubbles /\ NothingOpened
    /\ Fresh /\ SavesDiffer /\ Forgotten

----------------------------------------------------------------------------
(* Numbers and sets *)

LEMMA IdNumbers ==
    /\ \A m \in Id : m \in Int /\ m # 0
    /\ \A m : m \in Msg <=> m \in Id /\ m > 0
    /\ Msg \subseteq Nat /\ Msg \subseteq Id
    /\ Nobody \notin Conv /\ Slot \subseteq Nat /\ MaxOpens \in Nat
<1>1. /\ Nobody \notin Conv /\ Slot \subseteq Nat \ {0} /\ MaxOpens \in Nat
      /\ Id \subseteq Int \ {0} /\ Msg = Id \cap Nat
  BY PageAssumption
<1>2. \A m \in Id : m \in Int /\ m # 0
  BY <1>1
<1>3. ASSUME NEW m PROVE m \in Msg <=> m \in Id /\ m > 0
  <2>1. CASE m \in Id
    <3>1. m \in Int /\ m # 0 /\ (m \in Msg <=> m \in Nat)
      BY <1>1, <1>2, <2>1
    <3> QED BY <2>1, <3>1
  <2>2. CASE m \notin Id
    BY <1>1, <2>2
  <2> QED BY <2>1, <2>2
<1> QED BY <1>1, <1>2, <1>3

LEMMA MinOf ==
    ASSUME NEW S, S \subseteq Nat, S # {}
    PROVE  Min(S) \in S
<1>1. \E x \in S : \A y \in S : x <= y
  BY LeastNumber
<1> QED BY <1>1 DEF Min

LEMMA BagGrows ==
    ASSUME NEW B, NEW S, IsABag(B)
    PROVE  IsABag(B (+) SetToBag(S)) /\ BagToSet(B (+) SetToBag(S)) = BagToSet(B) \cup S
<1>1. PICK C : C = SetToBag(S)
  OBVIOUS
<1>2. DOMAIN C = S /\ \A e \in S : C[e] = 1
  BY <1>1 DEF SetToBag
<1>3. PICK D : D = B (+) C
  OBVIOUS
<1>4. /\ DOMAIN D = DOMAIN B \cup S /\ D = [e \in DOMAIN B \cup S |-> D[e]]
      /\ \A e \in DOMAIN D : D[e] = (IF e \in DOMAIN B THEN B[e] ELSE 0)
                                       + (IF e \in S THEN C[e] ELSE 0)
  BY <1>2, <1>3 DEF (+)
<1>5. \A e \in DOMAIN B : B[e] \in Nat /\ B[e] > 0
  BY DEF IsABag
<1>6. \A e \in DOMAIN D : D[e] \in {n \in Nat : n > 0}
  BY <1>2, <1>4, <1>5
<1> QED BY <1>1, <1>3, <1>4, <1>6 DEF IsABag, BagToSet

LEMMA BagShrinks ==
    ASSUME NEW B, NEW S, IsABag(B)
    PROVE  IsABag(B (-) SetToBag(S)) /\ BagToSet(B (-) SetToBag(S)) \subseteq BagToSet(B)
<1>1. PICK C : C = SetToBag(S)
  OBVIOUS
<1>2. DOMAIN C = S /\ \A e \in S : C[e] = 1
  BY <1>1 DEF SetToBag
<1>3. PICK D : D = B (-) C
  OBVIOUS
<1>4. \A e \in DOMAIN B : B[e] \in Nat /\ B[e] > 0
  BY DEF IsABag
<1>5. PICK A : A = [e \in DOMAIN B |-> IF e \in DOMAIN C THEN B[e] - C[e] ELSE B[e]]
  OBVIOUS
<1>6. D = [e \in {d \in DOMAIN A : A[d] > 0} |-> A[e]]
  BY <1>3, <1>5 DEF (-)
<1>7. \A e \in DOMAIN B : A[e] \in Int
  BY <1>2, <1>4, <1>5
<1>8. /\ DOMAIN D \subseteq DOMAIN B /\ D = [e \in DOMAIN D |-> D[e]]
      /\ \A e \in DOMAIN D : D[e] \in {n \in Nat : n > 0}
  BY <1>5, <1>6, <1>7
<1> QED BY <1>1, <1>3, <1>8 DEF IsABag, BagToSet

----------------------------------------------------------------------------
(* What has been shown *)

LEMMA SeenBy ==
    \A m : m \in Seen <=>
       \/ \E c \in Conv : m \in Held(c) \/ m \in Ids(session[c])
       \/ \E o \in opens : m \in Ids(o.list)
       \/ \E i \in DOMAIN screen : screen[i].tag = m
<1>1. \A m : m \in InStore <=> \E c \in Conv : m \in Held(c) \/ m \in Ids(session[c])
  BY DEF InStore
<1>2. \A m : m \in InOpens <=> \E o \in opens : m \in Ids(o.list)
  BY DEF InOpens
<1>3. \A m : m \in OnScreen <=> \E i \in DOMAIN screen : screen[i].tag = m
  BY DEF OnScreen
<1> QED BY <1>1, <1>2, <1>3 DEF Seen

LEMMA SeenByNext ==
    \A m : m \in Seen' <=>
       \/ \E c \in Conv : m \in Held(c)' \/ m \in Ids(session'[c])
       \/ \E o \in opens' : m \in Ids(o.list)
       \/ \E i \in DOMAIN screen' : screen'[i].tag = m
<1>1. \A m : m \in InStore' <=>
         \E c \in Conv : m \in Held(c)' \/ m \in Ids(session'[c])
  BY DEF InStore, Ids
<1>2. \A m : m \in InOpens' <=> \E o \in opens' : m \in Ids(o.list)
  BY DEF InOpens, Ids
<1>3. \A m : m \in OnScreen' <=> \E i \in DOMAIN screen' : screen'[i].tag = m
  BY DEF OnScreen
<1> QED BY <1>1, <1>2, <1>3 DEF Seen

\* A message that was seen anywhere is in the log.
LEMMA SeenAreStored ==
    ASSUME PageInv, NEW m \in Msg, m \in Seen
    PROVE  m \in DOMAIN log
<1>1. m \notin Unshown /\ log \in Seq(Message)
  BY DEF PageInv, Fresh, TypeOK
<1>2. m \in Nat /\ m > 0
  BY IdNumbers
<1>3. Len(log) \in Nat /\ DOMAIN log = 1..Len(log)
  BY <1>1
<1> QED BY <1>1, <1>2, <1>3 DEF Unshown

\* What a step adds to the screen and to the histories about to be drawn.
Draws(M) ==
    /\ \A o \in opens' : Ids(o.list) \subseteq Seen
    /\ \A i \in DOMAIN screen' : screen'[i].tag \in Msg => screen'[i].tag \in Seen \cup M

LEMMA SeenGrows ==
    ASSUME NEW M, Adds(M), Draws(M)
    PROVE  Seen' \cap Msg \subseteq Seen \cup M
<1> SUFFICES ASSUME NEW m \in Msg, m \in Seen', m \notin M PROVE m \in Seen
  OBVIOUS
<1>1. CASE \E c \in Conv : m \in Held(c)' \/ m \in Ids(session'[c])
  BY <1>1, SeenBy DEF Adds
<1>2. CASE \E o \in opens' : m \in Ids(o.list)
  BY <1>2 DEF Draws
<1>3. CASE \E i \in DOMAIN screen' : screen'[i].tag = m
  BY <1>3 DEF Draws
<1> QED BY <1>1, <1>2, <1>3, SeenByNext

LEMMA SavingBy ==
    \A m : m \in Saving <=> \E r \in Slot : calls[r].kind = "save" /\ calls[r].id = m
BY DEF Saving

LEMMA SavingByNext ==
    \A m : m \in Saving' <=> \E r \in Slot : calls'[r].kind = "save" /\ calls'[r].id = m
BY DEF Saving

\* A step that shows nothing new and saves nothing new.
LEMMA NothingShown ==
    ASSUME PageInv, Adds({}), KeepsSaves, Draws({}), Unshown' \subseteq Unshown
    PROVE  Fresh' /\ SavesDiffer' /\ Saving' \subseteq Saving
<1>1. Saving' \subseteq Saving
  BY SavingBy, SavingByNext DEF KeepsSaves
<1>2. Seen' \cap Msg \subseteq Seen
  BY SeenGrows
<1>3. Unshown' \subseteq Msg
  BY DEF Unshown
<1>4. Fresh'
  BY <1>1, <1>2, <1>3 DEF PageInv, Fresh
<1>5. SavesDiffer'
  BY <1>1 DEF PageInv, SavesDiffer, Adds, KeepsSaves
<1> QED BY <1>1, <1>4, <1>5

LEMMA NothingNew ==
    ASSUME PageInv, Adds({}), KeepsSaves, Draws({}), Unshown' \subseteq Unshown,
           UNCHANGED past, life' = life \/ life # "open"
    PROVE  Fresh' /\ SavesDiffer' /\ Forgotten'
<1>1. Fresh' /\ SavesDiffer' /\ Saving' \subseteq Saving
  BY NothingShown
<1>2. Forgotten'
  BY <1>1 DEF PageInv, Forgotten, Adds
<1> QED BY <1>1, <1>2

\* The step that shows a message and starts to save it.
LEMMA OneShown ==
    ASSUME PageInv, NEW s \in Slot, NEW m \in Unshown, Adds({}), Draws({m}),
           calls[s].kind = "idle",
           calls'[s].kind = "save", calls'[s].id = m,
           \A r \in Slot \ {s} : calls'[r] = calls[r],
           Unshown' \subseteq Unshown \ {m},
           UNCHANGED <<past, life>>
    PROVE  Fresh' /\ SavesDiffer' /\ Forgotten'
<1>1. Saving' \subseteq Saving \cup {m}
  BY SavingBy, SavingByNext
<1>2. Adds({m})
  BY DEF Adds
<1>3. Seen' \cap Msg \subseteq Seen \cup {m}
  BY <1>2, SeenGrows
<1>4. Unshown' \subseteq Msg
  BY DEF Unshown
<1>5. m \notin Seen /\ m \notin Saving
  BY DEF PageInv, Fresh
<1>6. Fresh'
  BY <1>1, <1>3, <1>4 DEF PageInv, Fresh
<1>7. \A c \in Conv : m \notin Held(c)
  BY <1>5, SeenBy
<1>8. SavesDiffer'
  <2>1. \A k \in Saving', c \in Conv : k \notin Held(c)'
    BY <1>1, <1>7 DEF PageInv, SavesDiffer, Adds
  <2>2. \A r \in Slot \ {s} : calls[r].kind = "save" => calls[r].id # m
    BY <1>5, SavingBy
  <2> QED BY <2>1, <2>2 DEF PageInv, SavesDiffer
<1>9. Forgotten'
  BY <1>1, <1>5 DEF PageInv, Forgotten, Adds
<1> QED BY <1>6, <1>8, <1>9

\* The step by which a message that is saved gets into the session.
LEMMA OneSaved ==
    ASSUME PageInv, NEW s \in Slot, calls[s].kind = "save", Adds({calls[s].id}),
           Draws({}), calls'[s].kind = "append",
           \A r \in Slot \ {s} : calls'[r] = calls[r],
           Unshown' \subseteq Unshown, UNCHANGED <<past, life>>
    PROVE  Fresh' /\ SavesDiffer' /\ Forgotten'
<1>1. PICK m : m = calls[s].id
  OBVIOUS
<1>2. m \in Saving /\ Saving' \subseteq Saving \ {m}
  BY <1>1, SavingBy, SavingByNext DEF PageInv, SavesDiffer
<1>3. Adds({m}) /\ Draws({m})
  BY <1>1 DEF Draws
<1>4. Seen' \cap Msg \subseteq Seen \cup {m}
  BY <1>3, SeenGrows
<1>5. Unshown' \subseteq Msg
  BY DEF Unshown
<1>6. Fresh'
  BY <1>2, <1>4, <1>5 DEF PageInv, Fresh
<1>7. SavesDiffer'
  BY <1>2, <1>3 DEF PageInv, SavesDiffer, Adds
<1>8. Forgotten'
  BY <1>2, <1>3 DEF PageInv, Forgotten, Adds
<1> QED BY <1>6, <1>7, <1>8

----------------------------------------------------------------------------
(* The bubbles *)

\* The log keeps the messages it has.
LogGrows == \A m \in DOMAIN log : /\ m \in DOMAIN log'
                                  /\ log'[m].conv = log[m].conv
                                  /\ log'[m].mine = log[m].mine

\* A sequence of bubbles of the screen, each with its tag and its message, and of
\* others that name messages by their ids.  f gives the place of the old ones.
Redrawn(q, f) ==
    /\ q \in Seq(Bubble) /\ DOMAIN f \subseteq DOMAIN q
    /\ \A i \in DOMAIN f : /\ f[i] \in DOMAIN screen
                           /\ q[i].tag = screen[f[i]].tag /\ q[i].ref = screen[f[i]].ref
    /\ \A i, j \in DOMAIN f : f[i] = f[j] => i = j
    /\ \A i \in DOMAIN q \ DOMAIN f : q[i].tag > 0 /\ q[i].ref > 0

LEMMA BubbleShape ==
    ASSUME TypeOK, NEW i \in DOMAIN screen
    PROVE  screen[i] \in Bubble /\ screen[i].tag \in Id /\ screen[i].ref \in Id
<1>1. screen[i] \in Bubble
  BY Members DEF TypeOK
<1> QED BY <1>1 DEF Bubble

\* What becomes of the bubbles if those on screen keep their names.
LEMMA BubblesKept ==
    ASSUME PageInv, NEW f, Redrawn(screen', f), LogGrows, UNCHANGED typed,
           pending' \subseteq pending,
           \A p \in pending : Present(p.temp) => p \in pending'
    PROVE  Bubbles'
<1>1. /\ \A i \in DOMAIN screen : screen[i].tag \in Id /\ screen[i].ref \in Id
      /\ \A i \in DOMAIN screen : screen[i].tag \in Int /\ screen[i].ref \in Int
  BY BubbleShape, IdNumbers DEF PageInv
<1>2. \A i \in DOMAIN screen' :
         \/ i \in DOMAIN f /\ f[i] \in DOMAIN screen /\ screen'[i].tag = screen[f[i]].tag
               /\ screen'[i].ref = screen[f[i]].ref
         \/ i \notin DOMAIN f /\ screen'[i].tag > 0 /\ screen'[i].ref > 0
               /\ screen'[i].tag \in Int /\ screen'[i].ref \in Int
  <2>1. \A i \in DOMAIN screen' : screen'[i].tag \in Id /\ screen'[i].ref \in Id
    <3>1. \A i \in DOMAIN screen' : screen'[i] \in Bubble
      BY Members DEF Redrawn
    <3> QED BY <3>1 DEF Bubble
  <2> QED BY <2>1, IdNumbers DEF Redrawn
<1>3. \A i, j \in DOMAIN f : f[i] = f[j] => i = j
  BY DEF Redrawn
<1>4. Temporaries'
  <2>1. \A i, j \in DOMAIN screen' :
           screen'[i].tag < 0 /\ screen'[j].tag = screen'[i].tag => i = j
    <3> SUFFICES ASSUME NEW i \in DOMAIN screen', NEW j \in DOMAIN screen',
                        screen'[i].tag < 0, screen'[j].tag = screen'[i].tag
                 PROVE  i = j
      OBVIOUS
    <3>1. i \in DOMAIN f /\ j \in DOMAIN f
      BY <1>2
    <3>2. /\ f[i] \in DOMAIN screen /\ f[j] \in DOMAIN screen
          /\ screen[f[i]].tag < 0 /\ screen[f[j]].tag = screen[f[i]].tag
      BY <1>2, <3>1
    <3>3. f[i] = f[j]
      BY <3>2 DEF PageInv, Bubbles, Temporaries
    <3> QED BY <1>3, <3>1, <3>3
  <2>2. ASSUME NEW i \in DOMAIN screen'
        PROVE  /\ screen'[i].tag < 0 => screen'[i].ref = screen'[i].tag
               /\ screen'[i].ref < 0 => -screen'[i].ref \in DOMAIN typed'
    <3>1. CASE i \in DOMAIN f
      <4>1. /\ f[i] \in DOMAIN screen /\ screen'[i].tag = screen[f[i]].tag
            /\ screen'[i].ref = screen[f[i]].ref
        BY <1>2, <3>1
      <4>2. /\ screen[f[i]].tag < 0 => screen[f[i]].ref = screen[f[i]].tag
            /\ screen[f[i]].ref < 0 => -screen[f[i]].ref \in DOMAIN typed
        BY <4>1 DEF PageInv, Bubbles, Temporaries
      <4> QED BY <4>1, <4>2
    <3>2. CASE i \notin DOMAIN f
      BY <1>2, <3>2
    <3> QED BY <3>1, <3>2
  <2>3. \A p \in pending' : -p.temp \in DOMAIN typed' /\ p.conv = typed'[-p.temp]
    BY DEF PageInv, Bubbles, Temporaries
  <2> QED BY <2>1, <2>2, <2>3 DEF Temporaries
<1>5. SendingBubbleIsQueued'
  <2> SUFFICES ASSUME NEW i \in DOMAIN screen', screen'[i].tag < 0
               PROVE  \E p \in pending' : p.temp = screen'[i].tag
    BY DEF SendingBubbleIsQueued
  <2>1. f[i] \in DOMAIN screen /\ screen'[i].tag = screen[f[i]].tag
    BY <1>2
  <2>2. PICK p \in pending : p.temp = screen[f[i]].tag
    BY <2>1 DEF PageInv, Bubbles, SendingBubbleIsQueued
  <2>3. Present(p.temp)
    BY <2>1, <2>2 DEF Present, Elements
  <2> QED BY <2>1, <2>2, <2>3
<1>6. EchoStaysInConversation'
  <2> SUFFICES ASSUME NEW i \in DOMAIN screen', screen'[i].ref < 0, screen'[i].tag > 0
               PROVE  /\ log'[screen'[i].tag].mine
                      /\ log'[screen'[i].tag].conv = typed'[-screen'[i].ref]
    BY DEF EchoStaysInConversation
  <2>1. PICK k \in DOMAIN screen : /\ screen'[i].tag = screen[k].tag
                                   /\ screen'[i].ref = screen[k].ref
    BY <1>2
  <2>2. /\ log[screen[k].tag].mine
        /\ log[screen[k].tag].conv = typed[-screen[k].ref]
    BY <2>1 DEF PageInv, Bubbles, EchoStaysInConversation
  <2>3. screen[k].tag \in Msg /\ screen[k].tag \in Seen
    BY <1>1, <2>1, IdNumbers, SeenBy
  <2>4. screen[k].tag \in DOMAIN log
    BY <2>3, SeenAreStored
  <2> QED BY <2>1, <2>2, <2>4 DEF LogGrows
<1> QED BY <1>4, <1>5, <1>6 DEF Bubbles

\* The bubbles as they are.
LEMMA ScreenStays ==
    ASSUME TypeOK
    PROVE  Redrawn(screen, [i \in DOMAIN screen |-> i])
BY DEF Redrawn, TypeOK

\* A bubble turns grey.
LEMMA GreyedScreen ==
    ASSUME TypeOK, NEW tag
    PROVE  /\ Redrawn(Greyed(tag), [i \in DOMAIN screen |-> i])
           /\ \A i \in DOMAIN Greyed(tag) : i \in DOMAIN screen
                                             /\ Greyed(tag)[i].tag = screen[i].tag
<1>1. screen \in Seq(Bubble) /\ DOMAIN screen = 1..Len(screen) /\ Len(screen) \in Nat
  BY Members DEF TypeOK
<1>2. \A i \in DOMAIN screen : screen[i] \in Bubble
  BY BubbleShape
<1>3. PICK k : k = Min(Elements(tag))
  OBVIOUS
<1>4. PICK q : q = Greyed(tag)
  OBVIOUS
<1>5. q = screen \/ q = [screen EXCEPT ![k].dead = TRUE]
  BY <1>3, <1>4 DEF Greyed
<1>6. /\ DOMAIN q = DOMAIN screen /\ q = [i \in DOMAIN screen |-> q[i]]
      /\ \A i \in DOMAIN screen : q[i] \in Bubble /\ q[i].tag = screen[i].tag
                                     /\ q[i].ref = screen[i].ref
  <2>1. CASE q = screen
    BY <1>1, <1>2, <2>1
  <2>2. CASE q = [screen EXCEPT ![k].dead = TRUE]
    <3>1. /\ DOMAIN q = DOMAIN screen /\ q = [i \in DOMAIN screen |-> q[i]]
          /\ \A i \in DOMAIN screen :
                q[i] = IF i = k THEN [screen[i] EXCEPT !.dead = TRUE] ELSE screen[i]
      BY <1>1, <2>2
    <3> QED BY <1>2, <3>1 DEF Bubble
  <2> QED BY <1>5, <2>1, <2>2
<1>7. q \in Seq(Bubble)
  BY <1>1, <1>6
<1> QED BY <1>4, <1>6, <1>7 DEF Redrawn

\* The first element with the id.
LEMMA FirstElement ==
    ASSUME TypeOK, NEW tag, Present(tag)
    PROVE  /\ Min(Elements(tag)) \in DOMAIN screen
           /\ screen[Min(Elements(tag))].tag = tag
<1>1. DOMAIN screen = 1..Len(screen) /\ Len(screen) \in Nat
  BY Members DEF TypeOK
<1>2. Elements(tag) \subseteq Nat /\ Elements(tag) # {}
  BY <1>1 DEF Present, Elements
<1>3. Min(Elements(tag)) \in Elements(tag)
  BY <1>2, MinOf
<1> QED BY <1>3 DEF Elements

\* A bubble is removed.
LEMMA RemovedScreen ==
    ASSUME TypeOK, NEW tag
    PROVE  \E f : Redrawn(Removed(tag), f) /\ DOMAIN f = DOMAIN Removed(tag)
<1>1. screen \in Seq(Bubble) /\ DOMAIN screen = 1..Len(screen) /\ Len(screen) \in Nat
  BY Members DEF TypeOK
<1>2. CASE ~Present(tag)
  <2>1. Removed(tag) = screen
    BY <1>2 DEF Removed
  <2> QED BY <2>1, ScreenStays
<1>3. CASE Present(tag)
  <2>1. PICK k \in 1..Len(screen) : k = Min(Elements(tag))
    BY <1>1, <1>3, FirstElement
  <2>2. PICK q : q = SubSeq(screen, 1, k - 1) \o SubSeq(screen, k + 1, Len(screen))
    OBVIOUS
  <2>3. Removed(tag) = q
    BY <1>3, <2>1, <2>2 DEF Removed, RemoveAt
  <2> DEFINE g == [i \in 1..(Len(screen) - 1) |-> IF i < k THEN i ELSE i + 1]
  <2>4. /\ Len(screen) - 1 \in Nat /\ q \in Seq(Bubble) /\ Len(q) = Len(screen) - 1
        /\ \A i \in 1..(Len(screen) - 1) : q[i] = IF i < k THEN screen[i] ELSE screen[i + 1]
    <3>1. PICK u, v : u = SubSeq(screen, 1, k - 1) /\ v = SubSeq(screen, k + 1, Len(screen))
      OBVIOUS
    <3>2. /\ u \in Seq(Bubble) /\ Len(u) = k - 1
          /\ \A i \in 1..(k - 1) : u[i] = screen[i]
      BY <1>1, <2>1, <3>1
    <3>3. /\ v \in Seq(Bubble) /\ Len(v) = Len(screen) - k
          /\ \A i \in 1..(Len(screen) - k) : v[i] = screen[k + i]
      <4>1. /\ k + 1 \in Int /\ Len(screen) \in Int
            /\ \A i \in (k + 1)..Len(screen) : screen[i] \in Bubble
        BY <1>1, <2>1
      <4>2. /\ v \in Seq(Bubble)
            /\ Len(v) = IF k + 1 <= Len(screen) THEN Len(screen) - (k + 1) + 1 ELSE 0
            /\ \A i \in 1..(Len(screen) - (k + 1) + 1) : v[i] = screen[k + 1 + i - 1]
        BY <3>1, <4>1, SubSeqProperties
      <4>3. Len(screen) - (k + 1) + 1 = Len(screen) - k
        BY <4>1, <2>1
      <4>4. \A i \in 1..(Len(screen) - k) : k + 1 + i - 1 = k + i
        BY <4>1, <2>1
      <4> QED BY <1>1, <2>1, <4>2, <4>3, <4>4
    <3>4. q = u \o v
      BY <2>2, <3>1
    <3>5. /\ q \in Seq(Bubble) /\ Len(q) = Len(u) + Len(v)
          /\ \A i \in 1..(Len(u) + Len(v)) :
                q[i] = IF i <= Len(u) THEN u[i] ELSE v[i - Len(u)]
      BY <3>2, <3>3, <3>4, ConcatProperties
    <3>6. ASSUME NEW i \in 1..(Len(screen) - 1)
          PROVE  q[i] = IF i < k THEN screen[i] ELSE screen[i + 1]
      <4>1. CASE i < k
        <5>1. i \in 1..Len(u) /\ q[i] = u[i]
          BY <2>1, <3>2, <3>3, <3>4, <4>1
        <5> QED BY <2>1, <3>2, <4>1, <5>1
      <4>2. CASE ~(i < k)
        <5>1. i - Len(u) \in 1..(Len(screen) - k) /\ k + (i - Len(u)) = i + 1
          BY <1>1, <2>1, <3>2, <4>2
        <5>2. q[i] = v[i - Len(u)]
          <6>1. i \in 1..(Len(u) + Len(v)) /\ ~(i <= Len(u))
            BY <1>1, <2>1, <3>2, <3>3, <4>2
          <6> QED BY <3>5, <6>1
        <5> QED BY <3>3, <4>2, <5>1, <5>2
      <4> QED BY <4>1, <4>2
    <3> QED BY <1>1, <2>1, <3>2, <3>3, <3>5, <3>6
  <2>5. /\ DOMAIN q = 1..(Len(screen) - 1) /\ DOMAIN g = DOMAIN q
        /\ \A i \in DOMAIN g : g[i] \in DOMAIN screen /\ q[i] = screen[g[i]]
        /\ \A i, j \in DOMAIN g : g[i] = g[j] => i = j
    <3>1. DOMAIN q = 1..(Len(screen) - 1)
      BY <2>4
    <3>2. \A i \in DOMAIN g : g[i] \in DOMAIN screen /\ q[i] = screen[g[i]]
      BY <1>1, <2>1, <2>4
    <3>3. \A i, j \in DOMAIN g : g[i] = g[j] => i = j
      BY <1>1, <2>1
    <3> QED BY <3>1, <3>2, <3>3
  <2>6. Redrawn(q, g)
    BY <2>4, <2>5 DEF Redrawn
  <2> QED BY <2>3, <2>5, <2>6
<1> QED BY <1>2, <1>3

\* Bubbles of stored messages follow those on screen.
LEMMA ScreenGrows ==
    ASSUME TypeOK, NEW q \in Seq(Bubble), \A k \in DOMAIN q : q[k].tag > 0 /\ q[k].ref > 0
    PROVE  /\ Redrawn(screen \o q, [i \in DOMAIN screen |-> i])
           /\ \A i \in DOMAIN (screen \o q) :
                 \/ i \in DOMAIN screen /\ (screen \o q)[i].tag = screen[i].tag
                 \/ \E k \in DOMAIN q : (screen \o q)[i].tag = q[k].tag
<1>1. screen \in Seq(Bubble)
  BY DEF TypeOK
<1>2. PICK r : r = screen \o q
  OBVIOUS
<1>3. /\ r \in Seq(Bubble) /\ DOMAIN screen \subseteq DOMAIN r
      /\ \A i \in DOMAIN r :
            \/ i \in DOMAIN screen /\ r[i] = screen[i]
            \/ i \notin DOMAIN screen /\ i - Len(screen) \in DOMAIN q
                  /\ r[i] = q[i - Len(screen)]
  BY <1>1, <1>2
<1>4. Redrawn(r, [i \in DOMAIN screen |-> i])
  BY <1>3 DEF Redrawn
<1> QED BY <1>2, <1>3, <1>4

----------------------------------------------------------------------------
(* What an action has to show *)

ServerTypes ==
    /\ typed \in Seq(Conv) /\ outbox \in Seq(Nat) /\ log \in Seq(Message)
    /\ inbox \in Seq([kind: {"message", "deleted"}, id: Msg]) /\ due \subseteq Msg
PageTypes ==
    /\ active \in Conv \cup {Nobody} /\ arriving \subseteq Arrival
    /\ opens \subseteq Open /\ opened \in 0..MaxOpens
    /\ BagToSet(timers) \subseteq Timer /\ IsABag(timers)

LEMMA Types ==
    ASSUME TypeOK
    PROVE  /\ StoreTypeOK /\ ServerTypes /\ PageTypes /\ screen \in Seq(Bubble)
           /\ pending \subseteq [temp: Id \ Msg, conv: Conv]
           /\ life \in {"open", "leaving", "closed"} /\ past \subseteq Msg
BY DEF TypeOK, ServerTypes, PageTypes

LEMMA StoreStays ==
    ASSUME StoreTypeOK, UNCHANGED storeVars
    PROVE  Adds({}) /\ KeepsSaves
BY DEF storeVars, StoreTypeOK, Adds, KeepsSaves, Held, Updating, Ids

LEMMA ServerStays ==
    ASSUME PageInv, UNCHANGED <<server, arriving>>
    PROVE  ServerTypes' /\ Events' /\ Unshown' \subseteq Unshown /\ LogGrows
           /\ UNCHANGED typed
BY Types DEF PageInv, server, ServerTypes, Events, Unshown, LogGrows

\* A step that shows no message for the first time and saves none.
LEMMA QuietStep ==
    ASSUME PageInv, Adds({}), KeepsSaves, Draws({}), ServerTypes', PageTypes', Events',
           NothingOpened', Unshown' \subseteq Unshown, LogGrows,
           UNCHANGED <<typed, pending, life, past>>, NEW f, Redrawn(screen', f)
    PROVE  PageInv'
<1>1. Fresh' /\ SavesDiffer' /\ Forgotten'
  BY NothingNew
<1>2. Bubbles'
  BY BubblesKept
<1>3. TypeOK'
  <2>1. screen' \in Seq(Bubble)
    BY DEF Redrawn
  <2>2. /\ pending' \subseteq [temp: Id \ Msg, conv: Conv]
        /\ life' \in {"open", "leaving", "closed"} /\ past' \subseteq Msg
    BY Types DEF PageInv
  <2>3. StoreTypeOK'
    BY DEF Adds
  <2> QED BY <2>1, <2>2, <2>3 DEF TypeOK, ServerTypes, PageTypes
<1> QED BY <1>1, <1>2, <1>3 DEF PageInv

\* The same, when the screen stays as it is.
LEMMA QuietScreen ==
    ASSUME PageInv, Adds({}), KeepsSaves, ServerTypes', PageTypes', Events',
           NothingOpened', Unshown' \subseteq Unshown, LogGrows,
           \A o \in opens' : Ids(o.list) \subseteq Seen,
           UNCHANGED <<typed, pending, life, past, screen>>
    PROVE  PageInv'
<1>1. Redrawn(screen, [i \in DOMAIN screen |-> i])
  BY ScreenStays DEF PageInv
<1>2. PICK f : Redrawn(screen', f)
  BY <1>1
<1>3. Draws({})
  BY SeenBy DEF Draws
<1> QED BY <1>2, <1>3, QuietStep

LEMMA OpenShape ==
    ASSUME TypeOK, NEW o \in opens
    PROVE  /\ o.n \in Nat /\ o.conv \in Conv /\ o.list \in Seq(Entry)
           /\ o.stage \in {"session", "reading", "cleaning", "marking"}
           /\ o.ram \subseteq Msg /\ o.todo \subseteq Msg /\ o.slot \in Slot \cup {0}
BY DEF TypeOK, Open

LEMMA OpenFields ==
    ASSUME TypeOK, NEW o \in opens
    PROVE  \E n, c, stage, list, ram, todo, slot :
              o = [n |-> n, conv |-> c, stage |-> stage, list |-> list,
                   ram |-> ram, todo |-> todo, slot |-> slot]
<1>1. o = [n |-> o.n, conv |-> o.conv, stage |-> o.stage, list |-> o.list,
           ram |-> o.ram, todo |-> o.todo, slot |-> o.slot]
  BY DEF TypeOK, Open
<1> QED BY <1>1

LEMMA SomeConversation ==
    ASSUME PageInv, screen # <<>> \/ opens # {} \/ \E a \in arriving : a.here
    PROVE  active \in Conv
BY Types DEF PageInv, NothingOpened, PageTypes

----------------------------------------------------------------------------
(* openDM *)

LEMMA OpenDMKeeps ==
    ASSUME PageInv, NEW c \in Conv, OpenDM(c)
    PROVE  PageInv'
<1>1. TypeOK /\ StoreTypeOK /\ PageTypes
  BY Types DEF PageInv
<1>2. PICK o : o = [n |-> opened + 1, conv |-> c, stage |-> "session", list |-> <<>>,
                    ram |-> {}, todo |-> {}, slot |-> 0]
  OBVIOUS
<1>3. /\ opened' = opened + 1 /\ opened < MaxOpens /\ active' = c /\ screen' = <<>>
      /\ opens' = opens \cup {o} /\ UNCHANGED <<arriving, timers>>
  BY <1>2 DEF OpenDM
<1>4. o \in Open /\ Ids(o.list) = {}
  BY <1>1, <1>2, <1>3, IdNumbers DEF Open, Ids, PageTypes
<1>5. Adds({}) /\ KeepsSaves
  BY <1>1, StoreStays DEF OpenDM
<1>6. ServerTypes' /\ Events' /\ Unshown' \subseteq Unshown /\ LogGrows
  BY ServerStays DEF OpenDM
<1>7. PageTypes'
  BY <1>1, <1>3, <1>4, IdNumbers DEF PageTypes
<1>8. NothingOpened'
  BY <1>3, IdNumbers DEF NothingOpened
<1>9. Draws({})
  <2>1. \A p \in opens : Ids(p.list) \subseteq Seen
    BY SeenBy
  <2> QED BY <1>3, <1>4, <2>1 DEF Draws
<1>10. Redrawn(screen', <<>>)
  BY <1>3 DEF Redrawn
<1> QED BY <1>5, <1>6, <1>7, <1>8, <1>9, <1>10, QuietStep DEF OpenDM, server

\* A run of openDM that goes on with other lists, or ends.
LEMMA OpenGoesOn ==
    ASSUME PageInv, NEW o \in opens, NEW P, P \subseteq Open,
           \A p \in P : Ids(p.list) \subseteq Seen, opens' = (opens \ {o}) \cup P,
           Adds({}), KeepsSaves,
           UNCHANGED <<server, active, screen, pending, arriving, opened, timers,
                       life, past>>
    PROVE  PageInv'
<1>1. PageTypes /\ active \in Conv
  BY Types, SomeConversation DEF PageInv
<1>2. ServerTypes' /\ Events' /\ Unshown' \subseteq Unshown /\ LogGrows /\ UNCHANGED typed
  BY ServerStays
<1>3. PageTypes'
  BY <1>1 DEF PageTypes
<1>4. NothingOpened'
  BY <1>1, IdNumbers DEF NothingOpened
<1>5. \A p \in opens' : Ids(p.list) \subseteq Seen
  BY SeenBy
<1> QED BY <1>2, <1>3, <1>4, <1>5, QuietScreen

LEMMA ReadHistoryKeeps ==
    ASSUME PageInv, NEW o \in opens, ReadHistory(o)
    PROVE  PageInv'
<1>1. TypeOK /\ StoreTypeOK
  BY Types DEF PageInv
<1>2. Adds({}) /\ KeepsSaves
  BY <1>1, StoreStays DEF ReadHistory
<1>3. PICK p : p = [o EXCEPT !.stage = "reading", !.list = stored[o.conv]]
  OBVIOUS
<1>4. stored[o.conv] \in Seq(Entry) /\ o.conv \in Conv
  BY <1>1, OpenShape DEF StoreTypeOK
<1>5. p = [n |-> o.n, conv |-> o.conv, stage |-> "reading", list |-> stored[o.conv],
           ram |-> o.ram, todo |-> o.todo, slot |-> o.slot]
  <2>1. PICK n, k, stage, l, r, t, slot :
            o = [n |-> n, conv |-> k, stage |-> stage, list |-> l, ram |-> r,
                 todo |-> t, slot |-> slot]
    BY <1>1, OpenFields
  <2>2. PICK d : d = stored[o.conv]
    OBVIOUS
  <2>3. p = [o EXCEPT !.stage = "reading", !.list = d]
    BY <1>3, <2>2
  <2>4. p = [n |-> n, conv |-> k, stage |-> "reading", list |-> d, ram |-> r,
             todo |-> t, slot |-> slot]
    BY <2>1, <2>3
  <2>5. o.n = n /\ o.conv = k /\ o.ram = r /\ o.todo = t /\ o.slot = slot
    BY <2>1
  <2> QED BY <2>2, <2>4, <2>5
<1>6. p \in Open /\ p.list = stored[o.conv]
  BY <1>1, <1>4, <1>5, OpenShape DEF Open
<1>7. Ids(p.list) \subseteq Seen
  BY <1>4, <1>6, HeldBy, SeenBy
<1>8. PICK P \in {{p}, {}} : opens' = (opens \ {o}) \cup P
  <2>1. opens' = (opens \ {o}) \cup {p} \/ opens' = (opens \ {o}) \cup {}
    BY <1>3 DEF ReadHistory
  <2> QED BY <2>1
<1>9. P \subseteq Open /\ \A q \in P : Ids(q.list) \subseteq Seen
  BY <1>6, <1>7, <1>8
<1> QED BY <1>2, <1>8, <1>9, OpenGoesOn DEF ReadHistory

\* Sorting a list keeps its entries.
LEMMA InOrderEntries ==
    ASSUME NEW list \in Seq(Entry), NEW sorted \in InOrder(list)
    PROVE  sorted \in Seq(Entry) /\ Ids(sorted) \subseteq Ids(list)
<1>1. /\ Len(list) \in Nat /\ DOMAIN list = 1..Len(list)
      /\ \A k \in DOMAIN list : list[k] \in Entry
  BY Members
<1>2. PICK order \in SetToSeqs(DOMAIN list) :
         sorted = [k \in DOMAIN order |-> list[order[k]]]
  BY DEF InOrder
<1>3. IsFiniteSet(1..Len(list))
  BY <1>1, FS_Interval
<1>4. IsFiniteSet(DOMAIN list)
  BY <1>1, <1>3
<1>5. Cardinality(DOMAIN list) \in Nat
  BY <1>4, FS_CardinalityType
<1>6. PICK n \in Nat : order \in [1..n -> DOMAIN list]
  BY <1>5 DEF SetToSeqs
<1>7. sorted = [k \in 1..n |-> list[order[k]]]
  BY <1>2, <1>6
<1>8. /\ DOMAIN sorted = 1..n
      /\ \A k \in 1..n : order[k] \in DOMAIN list /\ sorted[k] = list[order[k]]
                            /\ sorted[k] \in Entry
  BY <1>1, <1>6, <1>7
<1>9. sorted \in Seq(Entry)
  BY <1>7, <1>8
<1> QED BY <1>8, <1>9 DEF Ids

LEMMA IdsAreMessages ==
    ASSUME NEW list \in Seq(Entry)
    PROVE  Ids(list) \subseteq Msg
<1>1. \A k \in DOMAIN list : list[k] \in Entry
  BY Members
<1> QED BY <1>1 DEF Ids, Entry

LEMMA MergeHistoryKeeps ==
    ASSUME PageInv, NEW o \in opens, MergeHistory(o)
    PROVE  PageInv'
<1>1. TypeOK /\ StoreTypeOK
  BY Types DEF PageInv
<1>2. Adds({}) /\ KeepsSaves
  BY <1>1, StoreStays DEF MergeHistory
<1>3. o.conv \in Conv /\ o.list \in Seq(Entry) /\ session[o.conv] \in Seq(Entry)
  BY <1>1, OpenShape DEF StoreTypeOK
<1>4. PICK all : all = Merged(o.list, session[o.conv])
  OBVIOUS
<1>5. all \in Seq(Entry) /\ Ids(all) \subseteq Ids(o.list) \cup Ids(session[o.conv])
  BY <1>3, <1>4, MergedEntries
<1>6. PICK list \in InOrder(all) :
         opens' = (opens \ {o}) \cup
             {[o EXCEPT !.stage = "cleaning", !.list = list,
                        !.ram = Ids(list) \ Ids(o.list),
                        !.todo = (due \ DeadIds(list)) \cap Ids(list)]}
  BY <1>4 DEF MergeHistory
<1>7. list \in Seq(Entry) /\ Ids(list) \subseteq Ids(all)
  BY <1>5, <1>6, InOrderEntries
<1>8. PICK ram, todo : /\ ram = Ids(list) \ Ids(o.list)
                       /\ todo = (due \ DeadIds(list)) \cap Ids(list)
  OBVIOUS
<1>9. PICK p : p = [n |-> o.n, conv |-> o.conv, stage |-> "cleaning", list |-> list,
                    ram |-> ram, todo |-> todo, slot |-> o.slot]
  OBVIOUS
<1>10. opens' = (opens \ {o}) \cup {p}
  <2>1. PICK n, k, stage, l, r, t, slot :
            o = [n |-> n, conv |-> k, stage |-> stage, list |-> l, ram |-> r,
                 todo |-> t, slot |-> slot]
    BY <1>1, OpenFields
  <2>2. PICK d : d = [o EXCEPT !.stage = "cleaning", !.list = list, !.ram = ram,
                               !.todo = todo]
    OBVIOUS
  <2>3. d = [n |-> n, conv |-> k, stage |-> "cleaning", list |-> list, ram |-> ram,
             todo |-> todo, slot |-> slot]
    BY <2>1, <2>2
  <2>4. o.n = n /\ o.conv = k /\ o.slot = slot
    BY <2>1
  <2>5. d = p
    BY <1>9, <2>3, <2>4
  <2> QED BY <1>6, <1>8, <2>2, <2>5
<1>11. ram \subseteq Msg /\ todo \subseteq Msg
  BY <1>7, <1>8, IdsAreMessages
<1>12. p \in Open /\ p.list = list
  BY <1>1, <1>7, <1>9, <1>11, OpenShape DEF Open
<1>13. Ids(list) \subseteq Seen
  BY <1>3, <1>5, <1>7, SeenBy
<1>14. {p} \subseteq Open /\ \A q \in {p} : Ids(q.list) \subseteq Seen
  BY <1>12, <1>13
<1>15. UNCHANGED <<server, active, screen, pending, arriving, opened, timers, life, past>>
  BY DEF MergeHistory
<1> QED BY <1>2, <1>10, <1>14, <1>15, OpenGoesOn

LEMMA CleanNextKeeps ==
    ASSUME PageInv, NEW o \in opens, NEW s \in Slot, CleanNext(o, s)
    PROVE  PageInv'
<1>1. TypeOK /\ StoreTypeOK
  BY Types DEF PageInv
<1>2. PICK m : m = Min(o.todo)
  OBVIOUS
<1>3. m \in o.todo /\ m \in Msg /\ m \in Id
  <2>1. o.todo \subseteq Msg /\ o.todo \subseteq Nat /\ o.todo # {}
    BY <1>1, OpenShape, IdNumbers DEF CleanNext
  <2> QED BY <1>2, <2>1, MinOf, IdNumbers
<1>4. PICK c \in Conv : c = o.conv
  BY <1>1, OpenShape
<1>5. /\ MarkDeepDeleted(s, c, m)
      /\ session' = session \/ session' = [session EXCEPT ![c] = Marked(session[c], m)]
  BY <1>2, <1>4 DEF CleanNext
<1>6. session[c] \in Seq(Entry) /\ o.list \in Seq(Entry)
  BY <1>1, OpenShape DEF StoreTypeOK
<1>7. PICK marked, list : marked = Marked(session[c], m) /\ list = Marked(o.list, m)
  OBVIOUS
<1>8. /\ marked \in Seq(Entry) /\ Ids(marked) = Ids(session[c])
      /\ list \in Seq(Entry) /\ Ids(list) = Ids(o.list)
  BY <1>6, <1>7, MarkedEntries
<1>9. /\ session' \in [Conv -> Seq(Entry)]
      /\ \A d \in Conv : session'[d] = session[d] \/ (d = c /\ session'[d] = marked)
  BY <1>1, <1>5, <1>7, <1>8 DEF StoreTypeOK
<1>10. \A d \in Conv : Ids(session'[d]) \subseteq Ids(session[d])
  BY <1>8, <1>9
<1>11. Adds({}) /\ KeepsSaves
  BY <1>1, <1>3, <1>5, <1>9, <1>10, UpdateStarts
<1>12. PICK todo : todo = o.todo \ {m}
  OBVIOUS
<1>13. PICK p : p = [n |-> o.n, conv |-> o.conv, stage |-> "marking", list |-> list,
                     ram |-> o.ram, todo |-> todo, slot |-> s]
  OBVIOUS
<1>14. opens' = (opens \ {o}) \cup {p}
  <2>1. PICK n, k, stage, l, r, t, slot :
            o = [n |-> n, conv |-> k, stage |-> stage, list |-> l, ram |-> r,
                 todo |-> t, slot |-> slot]
    BY <1>1, OpenFields
  <2>2. PICK d : d = [o EXCEPT !.stage = "marking", !.slot = s, !.todo = o.todo \ {m},
                               !.list = Marked(o.list, m)]
    OBVIOUS
  <2>3. opens' = (opens \ {o}) \cup {d}
    BY <1>2, <2>2 DEF CleanNext
  <2>4. d = [o EXCEPT !.stage = "marking", !.slot = s, !.todo = todo, !.list = list]
    BY <1>7, <1>12, <2>2
  <2>5. d = [n |-> n, conv |-> k, stage |-> "marking", list |-> list, ram |-> r,
             todo |-> todo, slot |-> s]
    BY <2>1, <2>4
  <2>6. o.n = n /\ o.conv = k /\ o.ram = r
    BY <2>1
  <2>7. d = p
    BY <1>13, <2>5, <2>6
  <2> QED BY <2>3, <2>7
<1>15. p \in Open /\ p.list = list
  BY <1>1, <1>8, <1>12, <1>13, OpenShape DEF Open
<1>16. Ids(list) \subseteq Seen
  BY <1>8, SeenBy
<1>17. {p} \subseteq Open /\ \A q \in {p} : Ids(q.list) \subseteq Seen
  BY <1>15, <1>16
<1>18. UNCHANGED <<server, active, screen, pending, arriving, opened, timers, life, past>>
  BY DEF CleanNext
<1> QED BY <1>11, <1>14, <1>17, <1>18, OpenGoesOn

LEMMA DrawnBubble ==
    ASSUME NEW m \in Id, NEW dead \in BOOLEAN
    PROVE  Drawn(m, dead) \in Bubble /\ Drawn(m, dead).tag = m /\ Drawn(m, dead).ref = m
BY DEF Drawn, Bubble

\* Countdowns that start.
LEMMA CountdownsStart ==
    ASSUME TypeOK, active \in Conv, NEW ids, ids \subseteq Id
    PROVE  /\ BagToSet(timers (+) Countdowns(ids)) \subseteq Timer
           /\ IsABag(timers (+) Countdowns(ids))
<1>1. PICK S : S = [ref: ids, conv: {active}]
  OBVIOUS
<1>2. S \subseteq Timer
  BY <1>1 DEF Timer
<1>3. IsABag(timers) /\ BagToSet(timers) \subseteq Timer
  BY DEF TypeOK
<1>4. Countdowns(ids) = SetToBag(S)
  BY <1>1 DEF Countdowns
<1> QED BY <1>2, <1>3, <1>4, BagGrows

LEMMA DrawHistoryKeeps ==
    ASSUME PageInv, NEW o \in opens, DrawHistory(o)
    PROVE  PageInv'
<1>1. TypeOK /\ StoreTypeOK /\ PageTypes /\ active \in Conv
  BY Types, SomeConversation DEF PageInv
<1>2. Adds({}) /\ KeepsSaves
  BY <1>1, StoreStays DEF DrawHistory
<1>3. ServerTypes' /\ Events' /\ Unshown' \subseteq Unshown /\ LogGrows /\ UNCHANGED typed
  BY ServerStays DEF DrawHistory
<1>4. PICK q : q = [i \in DOMAIN o.list |-> Drawn(o.list[i].id, o.list[i].dead)]
  OBVIOUS
<1>5. /\ o.list \in Seq(Entry) /\ Len(o.list) \in Nat /\ DOMAIN o.list = 1..Len(o.list)
      /\ \A i \in DOMAIN o.list : o.list[i] \in Entry
  BY <1>1, OpenShape, Members
<1>6. \A i \in DOMAIN o.list : o.list[i].id \in Msg /\ o.list[i].dead \in BOOLEAN
  BY <1>5 DEF Entry
<1>7. /\ DOMAIN q = 1..Len(o.list) /\ q = [i \in 1..Len(o.list) |-> q[i]]
      /\ \A i \in DOMAIN q : q[i] \in Bubble /\ q[i].tag = o.list[i].id
                                /\ q[i].ref = o.list[i].id
  <2>1. DOMAIN q = 1..Len(o.list) /\ q = [i \in 1..Len(o.list) |-> q[i]]
    BY <1>4, <1>5
  <2>2. ASSUME NEW i \in DOMAIN q
        PROVE  q[i] \in Bubble /\ q[i].tag = o.list[i].id /\ q[i].ref = o.list[i].id
    <3>1. q[i] = Drawn(o.list[i].id, o.list[i].dead)
      BY <1>4
    <3>2. o.list[i].id \in Id /\ o.list[i].dead \in BOOLEAN
      BY <1>5, <1>6, <2>1, IdNumbers
    <3> QED BY <3>1, <3>2, DrawnBubble
  <2> QED BY <2>1, <2>2
<1>8. q \in Seq(Bubble)
  <2>1. PICK n \in Nat : n = Len(o.list)
    BY <1>5
  <2>2. q = [i \in 1..n |-> q[i]] /\ \A i \in 1..n : q[i] \in Bubble
    BY <1>7, <2>1
  <2> QED BY <2>2
<1>9. \A i \in DOMAIN q : q[i].tag > 0 /\ q[i].ref > 0 /\ q[i].tag \in Ids(o.list)
  BY <1>5, <1>6, <1>7, IdNumbers DEF Ids
<1>10. screen' = screen \o q
  BY <1>4 DEF DrawHistory
<1>11. /\ Redrawn(screen \o q, [i \in DOMAIN screen |-> i])
       /\ \A i \in DOMAIN (screen \o q) :
             \/ i \in DOMAIN screen /\ (screen \o q)[i].tag = screen[i].tag
             \/ \E k \in DOMAIN q : (screen \o q)[i].tag = q[k].tag
  BY <1>1, <1>8, <1>9, ScreenGrows
<1>12. Draws({})
  BY <1>9, <1>10, <1>11, SeenBy DEF Draws, DrawHistory
<1>13. PICK f : Redrawn(screen', f)
  BY <1>10, <1>11
<1>14. PICK ids : ids = TimedOf(Ids(o.list) \ DeadIds(o.list))
  OBVIOUS
<1>15. ids \subseteq Id /\ timers' = timers (+) Countdowns(ids)
  BY <1>5, <1>14, IdsAreMessages, IdNumbers DEF TimedOf, DrawHistory
<1>16. PageTypes'
  <2>1. BagToSet(timers') \subseteq Timer /\ IsABag(timers')
    BY <1>1, <1>15, CountdownsStart
  <2> QED BY <1>1, <2>1 DEF PageTypes, DrawHistory
<1>17. NothingOpened'
  BY <1>1, IdNumbers DEF NothingOpened, DrawHistory
<1> QED BY <1>2, <1>3, <1>12, <1>13, <1>16, <1>17, QuietStep DEF DrawHistory

----------------------------------------------------------------------------
(* Sending *)

LEMMA SendMessageKeeps ==
    ASSUME PageInv, SendMessage
    PROVE  PageInv'
<1>1. TypeOK /\ StoreTypeOK /\ PageTypes /\ ServerTypes
  BY Types DEF PageInv
<1>2. PICK t : t = Len(typed) + 1
  OBVIOUS
<1>3. /\ active \in Conv /\ -t \in Id /\ typed' = Append(typed, active)
      /\ outbox' = Append(outbox, t) /\ screen' = Append(screen, Drawn(-t, FALSE))
      /\ timers' = timers \/ timers' = timers (+) Countdowns({-t})
      /\ pending' = pending \cup {[temp |-> -t, conv |-> active]}
      /\ UNCHANGED <<storeVars, log, inbox, due, active, arriving, opens, opened,
                     life, past>>
  BY <1>1, <1>2 DEF SendMessage, PageTypes
<1>4. typed \in Seq(Conv) /\ Len(typed) \in Nat /\ DOMAIN typed = 1..Len(typed)
  BY <1>1 DEF ServerTypes
<1>5. t \in Nat /\ t > 0 /\ t \notin DOMAIN typed /\ -t < 0 /\ -t \notin Msg /\ -(-t) = t
  BY <1>2, <1>4, IdNumbers
<1>6. /\ typed' \in Seq(Conv) /\ DOMAIN typed' = DOMAIN typed \cup {t} /\ typed'[t] = active
      /\ \A k \in DOMAIN typed : typed'[k] = typed[k]
  BY <1>2, <1>3, <1>4
<1>7. PICK b : b = Drawn(-t, FALSE)
  OBVIOUS
<1>8. b \in Bubble /\ b.tag = -t /\ b.ref = -t
  BY <1>3, <1>7, DrawnBubble
<1>9. screen \in Seq(Bubble) /\ screen' = Append(screen, b)
  BY <1>1, <1>3, <1>7, Types
<1>10. /\ screen' \in Seq(Bubble)
       /\ \A i \in DOMAIN screen' : \/ i \in DOMAIN screen /\ screen'[i] = screen[i]
                                    \/ i = Len(screen) + 1 /\ screen'[i] = b
  BY <1>8, <1>9
<1>11. Adds({}) /\ KeepsSaves
  BY <1>1, <1>3, StoreStays
<1>12. Unshown' \subseteq Unshown
  BY <1>3 DEF Unshown
<1>13. Draws({})
  <2>1. \A o \in opens' : Ids(o.list) \subseteq Seen
    BY <1>3, SeenBy
  <2>2. ASSUME NEW i \in DOMAIN screen', screen'[i].tag \in Msg PROVE screen'[i].tag \in Seen
    <3>1. screen'[i] # b
      BY <1>5, <1>8, <2>2
    <3>2. i \in DOMAIN screen /\ screen'[i] = screen[i]
      BY <1>10, <3>1
    <3> QED BY <3>2, SeenBy
  <2> QED BY <2>1, <2>2 DEF Draws
<1>14. Fresh' /\ SavesDiffer' /\ Forgotten'
  BY <1>3, <1>11, <1>12, <1>13, NothingNew
<1>15. ServerTypes' /\ Events'
  <2>1. /\ outbox' \in Seq(Nat)
        /\ \A k \in DOMAIN outbox' :
              \/ outbox'[k] = t
              \/ k \in DOMAIN outbox /\ outbox'[k] = outbox[k]
    BY <1>1, <1>3, <1>5 DEF ServerTypes
  <2>2. ServerTypes'
    BY <1>1, <1>3, <1>6, <2>1 DEF ServerTypes
  <2>3. \A k \in DOMAIN outbox' : outbox'[k] \in DOMAIN typed'
    BY <1>6, <2>1 DEF PageInv, Events
  <2>4. Events'
    BY <1>3, <2>3 DEF PageInv, Events
  <2> QED BY <2>2, <2>4
<1>16. \A i \in DOMAIN screen : /\ screen[i].tag \in Int /\ screen[i].ref \in Int
                                /\ screen[i].tag < 0 => screen[i].tag # -t
  <2> SUFFICES ASSUME NEW i \in DOMAIN screen
               PROVE  /\ screen[i].tag \in Int /\ screen[i].ref \in Int
                      /\ screen[i].tag < 0 => screen[i].tag # -t
    OBVIOUS
  <2>1. screen[i].tag \in Int /\ screen[i].ref \in Int
    BY <1>1, BubbleShape, IdNumbers
  <2>2. ASSUME screen[i].tag < 0 PROVE screen[i].tag # -t
    <3>1. screen[i].ref = screen[i].tag /\ -screen[i].ref \in DOMAIN typed
      BY <2>2 DEF PageInv, Bubbles, Temporaries
    <3> QED BY <1>5, <3>1
  <2> QED BY <2>1, <2>2
<1>17. Temporaries'
  <2>1. \A i, j \in DOMAIN screen' :
           screen'[i].tag < 0 /\ screen'[j].tag = screen'[i].tag => i = j
    <3> SUFFICES ASSUME NEW i \in DOMAIN screen', NEW j \in DOMAIN screen',
                        screen'[i].tag < 0, screen'[j].tag = screen'[i].tag
                 PROVE  i = j
      OBVIOUS
    <3>1. CASE i \in DOMAIN screen /\ screen'[i] = screen[i]
      <4>1. screen[i].tag # -t
        BY <1>16, <3>1
      <4>2. j \in DOMAIN screen /\ screen'[j] = screen[j]
        BY <1>8, <1>10, <3>1, <4>1
      <4> QED BY <3>1, <4>2 DEF PageInv, Bubbles, Temporaries
    <3>2. CASE i = Len(screen) + 1 /\ screen'[i] = b
      <4>1. CASE j \in DOMAIN screen /\ screen'[j] = screen[j]
        BY <1>5, <1>8, <1>16, <3>2, <4>1
      <4>2. CASE j = Len(screen) + 1
        BY <3>2, <4>2
      <4> QED BY <1>10, <4>1, <4>2
    <3> QED BY <1>10, <3>1, <3>2
  <2>2. ASSUME NEW i \in DOMAIN screen'
        PROVE  /\ screen'[i].tag < 0 => screen'[i].ref = screen'[i].tag
               /\ screen'[i].ref < 0 => -screen'[i].ref \in DOMAIN typed'
    <3>1. CASE i \in DOMAIN screen /\ screen'[i] = screen[i]
      BY <1>6, <3>1 DEF PageInv, Bubbles, Temporaries
    <3>2. CASE screen'[i] = b
      BY <1>5, <1>6, <1>8, <3>2
    <3> QED BY <1>10, <3>1, <3>2
  <2>3. ASSUME NEW p \in pending'
        PROVE  -p.temp \in DOMAIN typed' /\ p.conv = typed'[-p.temp]
    <3>1. CASE p \in pending
      BY <1>6, <3>1 DEF PageInv, Bubbles, Temporaries
    <3>2. CASE p = [temp |-> -t, conv |-> active]
      BY <1>5, <1>6, <3>2
    <3> QED BY <1>3, <3>1, <3>2
  <2> QED BY <2>1, <2>2, <2>3 DEF Temporaries
<1>18. SendingBubbleIsQueued'
  <2> SUFFICES ASSUME NEW i \in DOMAIN screen', screen'[i].tag < 0
               PROVE  \E p \in pending' : p.temp = screen'[i].tag
    BY DEF SendingBubbleIsQueued
  <2>1. CASE i \in DOMAIN screen /\ screen'[i] = screen[i]
    BY <1>3, <2>1 DEF PageInv, Bubbles, SendingBubbleIsQueued
  <2>2. CASE screen'[i] = b
    <3>1. PICK p : p = [temp |-> -t, conv |-> active]
      OBVIOUS
    <3>2. p \in pending' /\ p.temp = -t
      BY <1>3, <3>1
    <3> QED BY <1>8, <2>2, <3>2
  <2> QED BY <1>10, <2>1, <2>2
<1>19. EchoStaysInConversation'
  <2> SUFFICES ASSUME NEW i \in DOMAIN screen', screen'[i].ref < 0, screen'[i].tag > 0
               PROVE  /\ log'[screen'[i].tag].mine
                      /\ log'[screen'[i].tag].conv = typed'[-screen'[i].ref]
    BY DEF EchoStaysInConversation
  <2>1. i \in DOMAIN screen /\ screen'[i] = screen[i]
    BY <1>5, <1>8, <1>10
  <2>2. /\ log[screen[i].tag].mine /\ log[screen[i].tag].conv = typed[-screen[i].ref]
        /\ -screen[i].ref \in DOMAIN typed
    BY <2>1 DEF PageInv, Bubbles, Temporaries, EchoStaysInConversation
  <2> QED BY <1>3, <1>6, <2>1, <2>2
<1>20. Bubbles'
  BY <1>17, <1>18, <1>19 DEF Bubbles
<1>21. PageTypes'
  <2>1. BagToSet(timers') \subseteq Timer /\ IsABag(timers')
    <3>1. CASE timers' = timers
      BY <1>1, <3>1 DEF PageTypes
    <3>2. CASE timers' = timers (+) Countdowns({-t})
      BY <1>1, <1>3, <3>2, CountdownsStart
    <3> QED BY <1>3, <3>1, <3>2
  <2> QED BY <1>1, <1>3, <2>1 DEF PageTypes
<1>22. TypeOK'
  <2>1. pending' \subseteq [temp: Id \ Msg, conv: Conv]
    BY <1>1, <1>3, <1>5, Types
  <2>2. StoreTypeOK' /\ life' \in {"open", "leaving", "closed"} /\ past' \subseteq Msg
    BY <1>1, <1>3, <1>11, Types DEF Adds
  <2> QED BY <1>10, <1>15, <1>21, <2>1, <2>2 DEF TypeOK, ServerTypes, PageTypes
<1>23. NothingOpened'
  BY <1>3, IdNumbers DEF NothingOpened
<1> QED BY <1>14, <1>15, <1>20, <1>22, <1>23 DEF PageInv

----------------------------------------------------------------------------
(* The server *)

LEMMA DeliverKeeps ==
    ASSUME PageInv, NEW c \in Conv, NEW author, NEW temp \in Nat, Deliver(c, author, temp),
           outbox' \in Seq(Nat), \A k \in DOMAIN outbox' : outbox'[k] \in DOMAIN typed
    PROVE  PageInv'
<1>1. TypeOK /\ StoreTypeOK /\ PageTypes /\ ServerTypes
  BY Types DEF PageInv
<1>2. PICK n, e, r : /\ n = Len(log) + 1 /\ e = [kind |-> "message", id |-> n]
                     /\ r = [conv |-> c, mine |-> author = "mine", temp |-> temp,
                             timed |-> author \in Timed, gone |-> FALSE]
  OBVIOUS
<1>3. /\ n \in Msg /\ log' = Append(log, r) /\ inbox' = Append(inbox, e)
      /\ UNCHANGED <<storeVars, typed, due, page, life, past>>
  BY <1>2 DEF Deliver
<1>4. r \in Message
  <2>1. (author = "mine") \in BOOLEAN /\ (author \in Timed) \in BOOLEAN
    OBVIOUS
  <2> QED BY <1>2, <2>1 DEF Message
<1>5. e \in [kind: {"message", "deleted"}, id: Msg] /\ e.kind = "message" /\ e.id = n
  BY <1>2, <1>3
<1>6. /\ log' \in Seq(Message) /\ DOMAIN log = 1..Len(log) /\ Len(log) \in Nat
      /\ DOMAIN log' = 1..n /\ Len(log') = n /\ n \in Nat /\ n > Len(log)
      /\ \A k \in DOMAIN log : k \in DOMAIN log' /\ log'[k] = log[k]
  BY <1>1, <1>2, <1>3, <1>4 DEF ServerTypes
<1>7. /\ inbox' \in Seq([kind: {"message", "deleted"}, id: Msg])
      /\ \A k \in DOMAIN inbox' : \/ k \in DOMAIN inbox /\ inbox'[k] = inbox[k]
                                  \/ k = Len(inbox) + 1 /\ inbox'[k] = e
  BY <1>1, <1>3, <1>5 DEF ServerTypes
<1>8. ServerTypes' /\ LogGrows
  BY <1>1, <1>3, <1>6, <1>7 DEF ServerTypes, LogGrows
<1>9. /\ \A k \in DOMAIN inbox : inbox[k].id \in DOMAIN log /\ inbox[k].id # n
      /\ \A a \in arriving : a.msg \in DOMAIN log /\ a.msg # n
      /\ n \in DOMAIN log'
  BY <1>6 DEF PageInv, Events
<1>10. Events'
  <2>1. \A k \in DOMAIN inbox' : inbox'[k].id \in DOMAIN log'
    BY <1>5, <1>6, <1>7, <1>9
  <2>2. \A a \in arriving' : a.msg \in DOMAIN log'
    BY <1>3, <1>6, <1>9 DEF page
  <2>3. \A j, k \in DOMAIN inbox' :
           inbox'[j].kind = "message" /\ inbox'[k].kind = "message"
              /\ inbox'[j].id = inbox'[k].id => j = k
    <3> SUFFICES ASSUME NEW j \in DOMAIN inbox', NEW k \in DOMAIN inbox',
                        inbox'[j].kind = "message", inbox'[k].kind = "message",
                        inbox'[j].id = inbox'[k].id
                 PROVE  j = k
      OBVIOUS
    <3>1. CASE inbox'[j] = e /\ j = Len(inbox) + 1
      BY <1>5, <1>7, <1>9, <3>1
    <3>2. CASE j \in DOMAIN inbox /\ inbox'[j] = inbox[j]
      <4>1. k \in DOMAIN inbox /\ inbox'[k] = inbox[k]
        BY <1>5, <1>7, <1>9, <3>2
      <4> QED BY <3>2, <4>1 DEF PageInv, Events
    <3> QED BY <1>7, <3>1, <3>2
  <2>4. \A k \in DOMAIN inbox', a \in arriving' :
           inbox'[k].kind = "message" => inbox'[k].id # a.msg
    BY <1>3, <1>5, <1>7, <1>9 DEF PageInv, Events, page
  <2>5. \A a, b \in arriving' : a.msg = b.msg => a = b
    BY <1>3 DEF PageInv, Events, page
  <2>6. \A k \in DOMAIN outbox' : outbox'[k] \in DOMAIN typed'
    BY <1>3
  <2>7. DOMAIN log' \subseteq Msg
    BY <1>3, <1>6 DEF PageInv, Events
  <2> QED BY <2>1, <2>2, <2>3, <2>4, <2>5, <2>6, <2>7 DEF Events
<1>11. Unshown' \subseteq Unshown
  <2> SUFFICES ASSUME NEW m \in Unshown' PROVE m \in Unshown
    OBVIOUS
  <2>1. m \in Msg /\ m \in Nat
    BY IdNumbers DEF Unshown
  <2>2. CASE m > Len(log')
    BY <1>6, <2>1, <2>2 DEF Unshown
  <2>3. CASE \E k \in DOMAIN inbox' : inbox'[k].kind = "message" /\ inbox'[k].id = m
    <3>1. PICK k \in DOMAIN inbox' : inbox'[k].kind = "message" /\ inbox'[k].id = m
      BY <2>3
    <3>2. CASE k \in DOMAIN inbox /\ inbox'[k] = inbox[k]
      BY <2>1, <3>1, <3>2 DEF Unshown
    <3>3. CASE inbox'[k] = e
      BY <1>5, <1>6, <2>1, <3>1, <3>3 DEF Unshown
    <3> QED BY <1>7, <3>2, <3>3
  <2>4. CASE \E a \in arriving' : a.msg = m
    BY <1>3, <2>1, <2>4 DEF Unshown, page
  <2> QED BY <2>2, <2>3, <2>4 DEF Unshown
<1>12. Adds({}) /\ KeepsSaves
  BY <1>1, <1>3, StoreStays
<1>13. PageTypes' /\ NothingOpened'
  BY <1>1, <1>3 DEF PageInv, NothingOpened, PageTypes, page
<1>14. \A o \in opens' : Ids(o.list) \subseteq Seen
  BY <1>3, SeenBy DEF page
<1>15. UNCHANGED <<typed, pending, life, past, screen>>
  BY <1>3 DEF page
<1> QED BY <1>8, <1>10, <1>11, <1>12, <1>13, <1>14, <1>15, QuietScreen

LEMMA AcceptSentKeeps ==
    ASSUME PageInv, AcceptSent
    PROVE  PageInv'
<1>1. outbox \in Seq(Nat) /\ outbox # <<>> /\ typed \in Seq(Conv)
  BY Types DEF PageInv, ServerTypes, AcceptSent
<1>2. PICK t : t = Head(outbox)
  OBVIOUS
<1>3. /\ 1 \in DOMAIN outbox /\ t = outbox[1] /\ t \in Nat /\ Tail(outbox) \in Seq(Nat)
      /\ \A k \in DOMAIN Tail(outbox) : k + 1 \in DOMAIN outbox
                                          /\ Tail(outbox)[k] = outbox[k + 1]
  BY <1>1, <1>2
<1>4. \A k \in DOMAIN outbox : outbox[k] \in DOMAIN typed
  BY DEF PageInv, Events
<1>5. typed[t] \in Conv
  BY <1>1, <1>3, <1>4
<1>6. Deliver(typed[t], "mine", t) /\ outbox' = Tail(outbox)
  BY <1>2 DEF AcceptSent
<1>7. outbox' \in Seq(Nat) /\ \A k \in DOMAIN outbox' : outbox'[k] \in DOMAIN typed
  BY <1>3, <1>4, <1>6
<1> QED BY <1>3, <1>5, <1>6, <1>7, DeliverKeeps

LEMMA SentElsewhereKeeps ==
    ASSUME PageInv, NEW c \in Conv, SentElsewhere(c)
    PROVE  PageInv'
<1>1. PICK author \in Elsewhere : Deliver(c, author, 0)
  BY DEF SentElsewhere
<1>2. outbox' \in Seq(Nat) /\ \A k \in DOMAIN outbox' : outbox'[k] \in DOMAIN typed
  BY Types DEF PageInv, ServerTypes, Events, SentElsewhere
<1>3. 0 \in Nat
  OBVIOUS
<1> QED BY <1>1, <1>2, <1>3, DeliverKeeps

LEMMA DeleteForEveryoneKeeps ==
    ASSUME PageInv, NEW m \in DOMAIN log, DeleteForEveryone(m)
    PROVE  PageInv'
<1>1. TypeOK /\ StoreTypeOK /\ PageTypes /\ ServerTypes
  BY Types DEF PageInv
<1>2. PICK e : e = [kind |-> "deleted", id |-> m]
  OBVIOUS
<1>3. /\ log' = [log EXCEPT ![m].gone = TRUE] /\ inbox' = Append(inbox, e)
      /\ UNCHANGED <<storeVars, typed, outbox, due, page, life, past>>
  BY <1>2 DEF DeleteForEveryone
<1>4. log \in Seq(Message) /\ DOMAIN log = 1..Len(log) /\ Len(log) \in Nat
      /\ \A k \in DOMAIN log : log[k] \in Message
  BY <1>1, Members DEF ServerTypes
<1>5. /\ log' = [k \in 1..Len(log) |-> log'[k]] /\ DOMAIN log' = DOMAIN log
      /\ \A k \in DOMAIN log : /\ log'[k] \in Message /\ log'[k].conv = log[k].conv
                               /\ log'[k].mine = log[k].mine
  <2>1. /\ log' = [k \in 1..Len(log) |-> log'[k]] /\ DOMAIN log' = DOMAIN log
        /\ \A k \in DOMAIN log :
              log'[k] = IF k = m THEN [log[k] EXCEPT !.gone = TRUE] ELSE log[k]
    BY <1>3, <1>4
  <2> QED BY <1>4, <2>1 DEF Message
<1>6. log' \in Seq(Message) /\ Len(log') = Len(log)
  <2>1. PICK n \in Nat : n = Len(log)
    BY <1>4
  <2>2. log' = [k \in 1..n |-> log'[k]] /\ \A k \in 1..n : log'[k] \in Message
    BY <1>4, <1>5, <2>1
  <2>3. log' \in Seq(Message) /\ DOMAIN log' = 1..n
    BY <2>2
  <2> QED BY <2>1, <2>3
<1>7. m \in Msg /\ \A a \in DOMAIN inbox : inbox[a].id \in DOMAIN log
  BY DEF PageInv, Events
<1>8. /\ inbox' \in Seq([kind: {"message", "deleted"}, id: Msg])
      /\ \A k \in DOMAIN inbox' : \/ k \in DOMAIN inbox /\ inbox'[k] = inbox[k]
                                  \/ inbox'[k] = e
  BY <1>1, <1>2, <1>3, <1>7 DEF ServerTypes
<1>9. e.kind # "message" /\ e.id = m
  BY <1>2
<1>10. Events'
  <2>1. \A k \in DOMAIN inbox' : inbox'[k].id \in DOMAIN log'
    BY <1>5, <1>7, <1>8, <1>9
  <2>2. \A k \in DOMAIN inbox' : inbox'[k].kind = "message" =>
           k \in DOMAIN inbox /\ inbox'[k] = inbox[k]
    BY <1>8, <1>9
  <2> QED BY <1>3, <1>5, <2>1, <2>2 DEF PageInv, Events, page
<1>11. Unshown' \subseteq Unshown
  <2>1. \A k \in DOMAIN inbox' : inbox'[k].kind = "message" =>
           k \in DOMAIN inbox /\ inbox'[k] = inbox[k]
    BY <1>8, <1>9
  <2> QED BY <1>3, <1>6, <2>1 DEF Unshown, page
<1>12. ServerTypes' /\ LogGrows
  BY <1>1, <1>3, <1>5, <1>6, <1>8 DEF ServerTypes, LogGrows
<1>13. Adds({}) /\ KeepsSaves
  BY <1>1, <1>3, StoreStays
<1>14. PageTypes' /\ NothingOpened'
  BY <1>1, <1>3 DEF PageInv, NothingOpened, PageTypes, page
<1>15. \A o \in opens' : Ids(o.list) \subseteq Seen
  BY <1>3, SeenBy DEF page
<1>16. UNCHANGED <<typed, pending, life, past, screen>>
  BY <1>3 DEF page
<1> QED BY <1>10, <1>11, <1>12, <1>13, <1>14, <1>15, <1>16, QuietScreen

LEMMA ElapseKeeps ==
    ASSUME PageInv, NEW m \in DOMAIN log, Elapse(m)
    PROVE  PageInv'
<1>1. TypeOK /\ StoreTypeOK /\ PageTypes /\ ServerTypes /\ m \in Msg
  BY Types DEF PageInv, Events
<1>2. /\ due' = due \cup {m}
      /\ UNCHANGED <<storeVars, typed, outbox, log, inbox, page, life, past>>
  BY DEF Elapse
<1>3. ServerTypes' /\ Events' /\ Unshown' \subseteq Unshown /\ LogGrows
  BY <1>1, <1>2 DEF PageInv, ServerTypes, Events, Unshown, LogGrows, page
<1>4. Adds({}) /\ KeepsSaves
  BY <1>1, <1>2, StoreStays
<1>5. PageTypes' /\ NothingOpened'
  BY <1>1, <1>2 DEF PageInv, NothingOpened, PageTypes, page
<1>6. \A o \in opens' : Ids(o.list) \subseteq Seen
  BY <1>2, SeenBy DEF page
<1>7. UNCHANGED <<typed, pending, life, past, screen>>
  BY <1>2 DEF page
<1> QED BY <1>3, <1>4, <1>5, <1>6, <1>7, QuietScreen

----------------------------------------------------------------------------
(* onReceiveMessage *)

LEMMA TailOf ==
    ASSUME NEW S, NEW q \in Seq(S), q # <<>>
    PROVE  /\ Tail(q) \in Seq(S) /\ 1 \in DOMAIN q /\ Head(q) = q[1]
           /\ \A k \in DOMAIN Tail(q) : /\ k + 1 \in DOMAIN q /\ k + 1 # 1
                                        /\ Tail(q)[k] = q[k + 1]
           /\ \A j, k \in DOMAIN Tail(q) : j + 1 = k + 1 => j = k
OBVIOUS

\* The first event leaves the inbox; what is left keeps its order.
LEMMA InboxShrinks ==
    ASSUME PageInv, inbox # <<>>, inbox' = Tail(inbox), UNCHANGED <<typed, outbox, log, due>>
    PROVE  /\ ServerTypes' /\ LogGrows /\ 1 \in DOMAIN inbox /\ Head(inbox) = inbox[1]
           /\ Head(inbox).id \in Msg /\ Head(inbox).id \in DOMAIN log
           /\ \A k \in DOMAIN inbox' : \E j \in DOMAIN inbox \ {1} : inbox'[k] = inbox[j]
           /\ \A j, k \in DOMAIN inbox' :
                 inbox'[j].kind = "message" /\ inbox'[k].kind = "message"
                    /\ inbox'[j].id = inbox'[k].id => j = k
           /\ Head(inbox).kind = "message" => \A k \in DOMAIN inbox' :
                 inbox'[k].kind = "message" => inbox'[k].id # Head(inbox).id
<1>1. ServerTypes
  BY Types DEF PageInv
<1>2. /\ inbox' \in Seq([kind: {"message", "deleted"}, id: Msg])
      /\ 1 \in DOMAIN inbox /\ Head(inbox) = inbox[1]
      /\ \A k \in DOMAIN inbox' : k + 1 \in DOMAIN inbox /\ k + 1 # 1
                                     /\ inbox'[k] = inbox[k + 1]
      /\ \A j, k \in DOMAIN inbox' : j + 1 = k + 1 => j = k
  BY <1>1, TailOf DEF ServerTypes
<1>3. ServerTypes' /\ LogGrows
  BY <1>1, <1>2 DEF ServerTypes, LogGrows
<1>4. Head(inbox).id \in DOMAIN log /\ Head(inbox).id \in Msg
  BY <1>2 DEF PageInv, Events
<1>5. \A j, k \in DOMAIN inbox :
         inbox[j].kind = "message" /\ inbox[k].kind = "message"
            /\ inbox[j].id = inbox[k].id => j = k
  BY DEF PageInv, Events
<1>6. \A j, k \in DOMAIN inbox' :
         inbox'[j].kind = "message" /\ inbox'[k].kind = "message"
            /\ inbox'[j].id = inbox'[k].id => j = k
  BY <1>2, <1>5
<1>7. Head(inbox).kind = "message" => \A k \in DOMAIN inbox' :
         inbox'[k].kind = "message" => inbox'[k].id # Head(inbox).id
  BY <1>2, <1>5
<1> QED BY <1>2, <1>3, <1>4, <1>6, <1>7

LEMMA OnReceiveMessageKeeps ==
    ASSUME PageInv, OnReceiveMessage
    PROVE  PageInv'
<1>1. TypeOK /\ StoreTypeOK /\ PageTypes /\ ServerTypes
  BY Types DEF PageInv
<1>2. PICK m, a : m = Head(inbox).id /\ a = [msg |-> m, here |-> log[m].conv = active]
  OBVIOUS
<1>3. /\ inbox # <<>> /\ Head(inbox).kind = "message" /\ inbox' = Tail(inbox)
      /\ arriving' = arriving \cup {a}
      /\ UNCHANGED <<storeVars, typed, outbox, log, due, active, screen, pending,
                     opens, opened, timers, life, past>>
  BY <1>2 DEF OnReceiveMessage
<1>4. /\ ServerTypes' /\ LogGrows /\ 1 \in DOMAIN inbox /\ Head(inbox) = inbox[1]
      /\ m \in Msg /\ m \in DOMAIN log
      /\ \A k \in DOMAIN inbox' : \E j \in DOMAIN inbox \ {1} : inbox'[k] = inbox[j]
      /\ \A j, k \in DOMAIN inbox' :
            inbox'[j].kind = "message" /\ inbox'[k].kind = "message"
               /\ inbox'[j].id = inbox'[k].id => j = k
      /\ \A k \in DOMAIN inbox' : inbox'[k].kind = "message" => inbox'[k].id # m
  BY <1>2, <1>3, InboxShrinks
<1>5. a \in Arrival /\ a.msg = m /\ a.here = (log[m].conv = active)
  <2>1. (log[m].conv = active) \in BOOLEAN
    OBVIOUS
  <2> QED BY <1>2, <1>4, <2>1 DEF Arrival
<1>6. \A b \in arriving : b.msg # m
  BY <1>2, <1>3, <1>4 DEF PageInv, Events
<1>7. Events'
  <2>1. \A k \in DOMAIN inbox' : inbox'[k].id \in DOMAIN log'
    BY <1>3, <1>4 DEF PageInv, Events
  <2>2. \A b \in arriving' : b.msg \in DOMAIN log'
    BY <1>3, <1>4, <1>5 DEF PageInv, Events
  <2>3. \A k \in DOMAIN inbox', b \in arriving' :
           inbox'[k].kind = "message" => inbox'[k].id # b.msg
    BY <1>3, <1>4, <1>5 DEF PageInv, Events
  <2>4. \A b, d \in arriving' : b.msg = d.msg => b = d
    BY <1>3, <1>5, <1>6 DEF PageInv, Events
  <2>5. DOMAIN log' \subseteq Msg /\ \A k \in DOMAIN outbox' : outbox'[k] \in DOMAIN typed'
    BY <1>3 DEF PageInv, Events
  <2> QED BY <1>4, <2>1, <2>2, <2>3, <2>4, <2>5 DEF Events
<1>8. Unshown' \subseteq Unshown
  BY <1>2, <1>3, <1>4, <1>5 DEF Unshown
<1>9. Adds({}) /\ KeepsSaves
  BY <1>1, <1>3, StoreStays
<1>10. PageTypes'
  BY <1>1, <1>3, <1>5 DEF PageTypes
<1>11. NothingOpened'
  <2>1. log[m].conv \in Conv
    <3>1. log[m] \in Message
      BY <1>1, <1>4, Members DEF ServerTypes
    <3> QED BY <3>1 DEF Message
  <2>2. active = Nobody => ~a.here
    BY <1>5, <2>1, IdNumbers
  <2> QED BY <1>3, <2>2 DEF PageInv, NothingOpened
<1>12. \A o \in opens' : Ids(o.list) \subseteq Seen
  BY <1>3, SeenBy
<1>13. UNCHANGED <<typed, pending, life, past, screen>>
  BY <1>3
<1> QED BY <1>4, <1>7, <1>8, <1>9, <1>10, <1>11, <1>12, <1>13, QuietScreen

\* An echo confirms a bubble of its own conversation.
LEMMA ReconcileKeepsBubbles ==
    ASSUME PageInv, NEW m \in DOMAIN log, log[m].mine, m \in Unshown,
           ReconcileOutgoing(m), UNCHANGED <<typed, log>>
    PROVE  /\ Bubbles' /\ screen' \in Seq(Bubble) /\ pending' \subseteq pending
           /\ \A i \in DOMAIN screen' : screen'[i].tag \in Seen \cup {m}
           /\ screen = <<>> => screen' = <<>>
<1>1. TypeOK /\ screen \in Seq(Bubble) /\ m \in Msg
  BY Types DEF PageInv, Unshown
<1>2. /\ \A i \in DOMAIN screen : screen[i].tag \in Int /\ screen[i].ref \in Int
      /\ m \in Int /\ m > 0 /\ m \in Id
  BY <1>1, BubbleShape, IdNumbers
<1>3. ~Present(m)
  <2>1. \A i \in DOMAIN screen : screen[i].tag # m
    BY SeenBy DEF PageInv, Fresh
  <2> QED BY <2>1 DEF Present, Elements
<1>4. PICK mine : mine = {p \in Waiting : p.conv = log[m].conv}
  OBVIOUS
<1>5. Confirm(mine, m)
  BY <1>4 DEF ReconcileOutgoing
<1>6. LogGrows
  BY DEF LogGrows
<1>7. CASE mine = {}
  <2>1. pending' = Waiting /\ screen' = screen
    BY <1>5, <1>7 DEF Confirm
  <2>2. pending' \subseteq pending /\ \A p \in pending : Present(p.temp) => p \in pending'
    BY <2>1 DEF Waiting
  <2>3. PICK f : Redrawn(screen', f)
    BY <1>1, <2>1, ScreenStays
  <2>4. Bubbles'
    BY <1>6, <2>2, <2>3, BubblesKept
  <2> QED BY <1>1, <2>1, <2>2, <2>4, SeenBy
<1>8. CASE mine # {}
  <2>1. PICK p \in mine : /\ pending' = Waiting \ {p}
                          /\ screen' = [screen EXCEPT ![Min(Elements(p.temp))].tag = m]
    BY <1>3, <1>5, <1>8 DEF Confirm
  <2>2. p \in pending /\ Present(p.temp) /\ p.conv = log[m].conv
    BY <1>4 DEF Waiting
  <2>3. PICK k \in DOMAIN screen : k = Min(Elements(p.temp)) /\ screen[k].tag = p.temp
    BY <1>1, <2>2, FirstElement
  <2>4. p.temp < 0 /\ -p.temp \in DOMAIN typed /\ p.conv = typed[-p.temp]
    <3>1. p.temp \in Id \ Msg
      BY <1>1, <2>2, Types
    <3>2. p.temp < 0
      <4>1. PICK t \in Id : t = p.temp /\ t \notin Msg
        BY <3>1
      <4>2. t \in Int /\ t # 0 /\ ~(t > 0)
        BY <4>1, IdNumbers
      <4>3. t < 0
        BY <4>2
      <4> QED BY <4>1, <4>3
    <3> QED BY <2>2, <3>2 DEF PageInv, Bubbles, Temporaries
  <2>5. screen[k].ref = p.temp
    BY <2>3, <2>4 DEF PageInv, Bubbles, Temporaries
  <2>6. /\ DOMAIN screen' = DOMAIN screen
        /\ screen' = [i \in DOMAIN screen |-> screen'[i]]
        /\ \A i \in DOMAIN screen : i # k => screen'[i] = screen[i]
        /\ screen'[k] \in Bubble /\ screen'[k].tag = m /\ screen'[k].ref = p.temp
    <3>1. screen' = [screen EXCEPT ![k].tag = m]
      BY <2>1, <2>3
    <3>2. screen[k] \in Bubble
      BY <1>1, BubbleShape
    <3>3. /\ DOMAIN screen' = DOMAIN screen
          /\ screen' = [i \in DOMAIN screen |-> screen'[i]]
          /\ \A i \in DOMAIN screen :
                screen'[i] = IF i = k THEN [screen[i] EXCEPT !.tag = m] ELSE screen[i]
      BY <1>1, <3>1
    <3> QED BY <1>2, <2>3, <2>5, <3>2, <3>3 DEF Bubble
  <2>7. screen' \in Seq(Bubble)
    <3>1. PICK n \in Nat : DOMAIN screen = 1..n
      BY <1>1
    <3>2. \A i \in 1..n : screen'[i] \in Bubble
      BY <1>1, <2>6, <3>1, BubbleShape
    <3>3. screen' = [i \in 1..n |-> screen'[i]]
      BY <2>6, <3>1
    <3> QED BY <3>2, <3>3
  <2>8. Temporaries'
    <3>1. \A i \in DOMAIN screen' : screen'[i].tag < 0 =>
             i # k /\ i \in DOMAIN screen /\ screen'[i] = screen[i]
      BY <1>2, <2>6
    <3>2. \A i, j \in DOMAIN screen' :
             screen'[i].tag < 0 /\ screen'[j].tag = screen'[i].tag => i = j
      BY <3>1 DEF PageInv, Bubbles, Temporaries
    <3>3. \A i \in DOMAIN screen' :
             /\ screen'[i].tag < 0 => screen'[i].ref = screen'[i].tag
             /\ screen'[i].ref < 0 => -screen'[i].ref \in DOMAIN typed'
      BY <2>4, <2>6, <3>1 DEF PageInv, Bubbles, Temporaries
    <3>4. \A q \in pending' : -q.temp \in DOMAIN typed' /\ q.conv = typed'[-q.temp]
      BY <2>1 DEF Waiting, PageInv, Bubbles, Temporaries
    <3> QED BY <3>2, <3>3, <3>4 DEF Temporaries
  <2>9. SendingBubbleIsQueued'
    <3> SUFFICES ASSUME NEW i \in DOMAIN screen', screen'[i].tag < 0
                 PROVE  \E q \in pending' : q.temp = screen'[i].tag
      BY DEF SendingBubbleIsQueued
    <3>1. i # k /\ i \in DOMAIN screen /\ screen'[i] = screen[i]
      BY <1>2, <2>6
    <3>2. PICK q \in pending : q.temp = screen[i].tag
      BY <3>1 DEF PageInv, Bubbles, SendingBubbleIsQueued
    <3>3. screen[i].tag # p.temp
      BY <2>3, <2>4, <3>1 DEF PageInv, Bubbles, Temporaries
    <3>4. Present(q.temp)
      BY <3>1, <3>2 DEF Present, Elements
    <3> QED BY <2>1, <3>1, <3>2, <3>3, <3>4 DEF Waiting
  <2>10. EchoStaysInConversation'
    <3> SUFFICES ASSUME NEW i \in DOMAIN screen', screen'[i].ref < 0, screen'[i].tag > 0
                 PROVE  /\ log'[screen'[i].tag].mine
                        /\ log'[screen'[i].tag].conv = typed'[-screen'[i].ref]
      BY DEF EchoStaysInConversation
    <3>1. CASE i = k
      BY <2>2, <2>4, <2>6, <3>1
    <3>2. CASE i # k
      BY <2>6, <3>2 DEF PageInv, Bubbles, EchoStaysInConversation
    <3> QED BY <3>1, <3>2
  <2>11. \A i \in DOMAIN screen' : screen'[i].tag \in Seen \cup {m}
    BY <2>6, SeenBy
  <2>12. screen # <<>>
    BY <2>3
  <2> QED BY <2>1, <2>7, <2>8, <2>9, <2>10, <2>11, <2>12 DEF Bubbles, Waiting
<1> QED BY <1>7, <1>8

\* After the awaits: the message is drawn, or its echo is reconciled.
Showing(a) ==
    LET m == a.msg IN
    \/ log[m].mine /\ a.here /\ ReconcileOutgoing(m) /\ UNCHANGED timers
    \/ log[m].mine /\ ~a.here /\ DropWaiting(log[m].conv) /\ UNCHANGED <<screen, timers>>
    \/ /\ ~log[m].mine /\ a.here /\ screen' = Append(screen, Drawn(m, FALSE))
       /\ timers' = timers (+) Countdowns(TimedOf({m})) /\ UNCHANGED pending
    \/ UNCHANGED <<screen, pending, timers>>

LEMMA ShowingKeeps ==
    ASSUME PageInv, NEW a \in arriving, Showing(a), UNCHANGED <<typed, log, active>>
    PROVE  /\ Bubbles' /\ screen' \in Seq(Bubble) /\ pending' \subseteq pending
           /\ \A i \in DOMAIN screen' : screen'[i].tag \in Seen \cup {a.msg}
           /\ BagToSet(timers') \subseteq Timer /\ IsABag(timers')
           /\ active = Nobody => screen' = <<>>
<1>1. /\ TypeOK /\ screen \in Seq(Bubble) /\ BagToSet(timers) \subseteq Timer
      /\ IsABag(timers) /\ a \in Arrival
  BY Types DEF PageInv, PageTypes
<1>2. PICK m \in Msg : m = a.msg /\ m \in DOMAIN log /\ m \in Unshown
  BY <1>1 DEF PageInv, Events, Unshown, Arrival
<1>3. LogGrows
  BY DEF LogGrows
<1>4. PICK same : Redrawn(screen, same)
  BY <1>1, ScreenStays
<1>5. (active = Nobody => screen = <<>>) /\ (a.here => active \in Conv)
  BY SomeConversation DEF PageInv, NothingOpened
<1>6. CASE log[m].mine /\ a.here /\ ReconcileOutgoing(m) /\ UNCHANGED timers
  BY <1>1, <1>2, <1>5, <1>6, ReconcileKeepsBubbles
<1>7. CASE DropWaiting(log[m].conv) /\ UNCHANGED <<screen, timers>>
  <2>1. pending' \subseteq pending /\ \A p \in pending : Present(p.temp) => p \in pending'
    BY <1>7 DEF DropWaiting
  <2>2. screen' = screen /\ Redrawn(screen', same)
    BY <1>4, <1>7
  <2>3. Bubbles'
    BY <1>3, <2>1, <2>2, BubblesKept
  <2> QED BY <1>1, <1>5, <1>7, <2>1, <2>2, <2>3, SeenBy
<1>8. CASE UNCHANGED <<screen, pending, timers>>
  <2>1. Redrawn(screen', same)
    BY <1>4, <1>8
  <2>2. Bubbles'
    BY <1>3, <1>8, <2>1, BubblesKept
  <2> QED BY <1>1, <1>5, <1>8, <2>2, SeenBy
<1>9. CASE /\ a.here /\ screen' = Append(screen, Drawn(m, FALSE))
           /\ timers' = timers (+) Countdowns(TimedOf({m})) /\ UNCHANGED pending
  <2>1. PICK b : b = Drawn(m, FALSE)
    OBVIOUS
  <2>2. m \in Id /\ m > 0
    BY <1>2, IdNumbers
  <2>3. b \in Bubble /\ b.tag = m /\ b.ref = m
    BY <2>1, <2>2, DrawnBubble
  <2>4. PICK q : q = <<b>>
    OBVIOUS
  <2>5. /\ q \in Seq(Bubble) /\ screen' = screen \o q
        /\ \A k \in DOMAIN q : q[k].tag = m /\ q[k].ref = m
    <3>1. q \in Seq(Bubble) /\ \A k \in DOMAIN q : q[k] = b
      BY <2>3, <2>4
    <3>2. screen' = screen \o <<b>>
      BY <1>1, <1>9, <2>1, <2>3, AppendIsConcat
    <3> QED BY <2>3, <2>4, <3>1, <3>2
  <2>6. \A k \in DOMAIN q : q[k].tag > 0 /\ q[k].ref > 0
    BY <2>2, <2>5
  <2>7. /\ Redrawn(screen \o q, [i \in DOMAIN screen |-> i])
        /\ \A i \in DOMAIN (screen \o q) :
              \/ i \in DOMAIN screen /\ (screen \o q)[i].tag = screen[i].tag
              \/ \E k \in DOMAIN q : (screen \o q)[i].tag = q[k].tag
    BY <1>1, <2>5, <2>6, ScreenGrows
  <2>8. PICK f : Redrawn(screen', f)
    BY <2>5, <2>7
  <2>9. Bubbles'
    BY <1>3, <1>9, <2>8, BubblesKept
  <2>10. \A i \in DOMAIN screen' : screen'[i].tag \in Seen \cup {m}
    BY <2>5, <2>7, SeenBy
  <2>11. PICK ids : ids = TimedOf({m})
    OBVIOUS
  <2>12. ids \subseteq Id /\ timers' = timers (+) Countdowns(ids)
    BY <1>9, <2>2, <2>11 DEF TimedOf
  <2>13. BagToSet(timers') \subseteq Timer /\ IsABag(timers')
    BY <1>1, <1>5, <1>9, <2>12, CountdownsStart
  <2>14. screen' \in Seq(Bubble)
    BY <2>8 DEF Redrawn
  <2> QED BY <1>2, <1>5, <1>9, <2>9, <2>10, <2>13, <2>14, IdNumbers
<1> QED BY <1>2, <1>6, <1>7, <1>8, <1>9 DEF Showing

LEMMA ShowKeeps ==
    ASSUME PageInv, NEW a \in arriving, NEW s \in Slot, Show(a, s)
    PROVE  PageInv'
<1>1. TypeOK /\ StoreTypeOK /\ PageTypes /\ ServerTypes
  BY Types DEF PageInv
<1>2. PICK m \in Msg : m = a.msg /\ m \in DOMAIN log /\ m \in Unshown
  BY <1>1 DEF PageInv, Events, Unshown, PageTypes, Arrival
<1>3. /\ arriving' = arriving \ {a} /\ SaveMessage(s, log[m].conv, m)
      /\ UNCHANGED <<typed, outbox, log, inbox, due, active, opens, opened, life, past>>
  BY <1>2 DEF Show, server
<1>4. Showing(a)
  BY DEF Show, Showing
<1>5. /\ Bubbles' /\ screen' \in Seq(Bubble) /\ pending' \subseteq pending
      /\ \A i \in DOMAIN screen' : screen'[i].tag \in Seen \cup {m}
      /\ BagToSet(timers') \subseteq Timer /\ IsABag(timers')
      /\ active = Nobody => screen' = <<>>
  BY <1>2, <1>3, <1>4, ShowingKeeps
<1>6. log[m].conv \in Conv
  <2>1. log[m] \in Message
    BY <1>1, <1>2, Members DEF ServerTypes
  <2> QED BY <2>1 DEF Message
<1>7. /\ Adds({}) /\ calls'[s].kind = "save" /\ calls'[s].id = m
      /\ \A r \in Slot \ {s} : calls'[r] = calls[r]
  BY <1>1, <1>3, <1>6, SaveStarts
<1>8. calls[s].kind = "idle"
  BY <1>3 DEF SaveMessage, Idle
<1>9. Draws({m})
  BY <1>3, <1>5, SeenBy DEF Draws
<1>10. Unshown' \subseteq Unshown \ {m}
  <2> SUFFICES ASSUME NEW x \in Unshown' PROVE x \in Unshown /\ x # m
    OBVIOUS
  <2>1. x \in Unshown
    BY <1>3 DEF Unshown
  <2>2. x # m
    <3>1. CASE x > Len(log)
      <4>1. Len(log) \in Nat /\ m \in 1..Len(log)
        BY <1>1, <1>2 DEF ServerTypes
      <4> QED BY <3>1, <4>1
    <3>2. CASE \E k \in DOMAIN inbox : inbox[k].kind = "message" /\ inbox[k].id = x
      BY <1>2, <3>2 DEF PageInv, Events
    <3>3. CASE \E b \in arriving \ {a} : b.msg = x
      BY <1>2, <3>3 DEF PageInv, Events
    <3> QED BY <1>3, <3>1, <3>2, <3>3 DEF Unshown
  <2> QED BY <2>1, <2>2
<1>11. Fresh' /\ SavesDiffer' /\ Forgotten'
  BY <1>2, <1>3, <1>7, <1>8, <1>9, <1>10, OneShown
<1>12. Events'
  BY <1>3 DEF PageInv, Events
<1>13. NothingOpened'
  BY <1>3, <1>5 DEF PageInv, NothingOpened
<1>14. TypeOK'
  <2>1. ServerTypes'
    BY <1>1, <1>3 DEF ServerTypes
  <2>2. PageTypes'
    BY <1>1, <1>3, <1>5 DEF PageTypes
  <2>3. /\ pending' \subseteq [temp: Id \ Msg, conv: Conv]
        /\ life' \in {"open", "leaving", "closed"} /\ past' \subseteq Msg
    BY <1>1, <1>3, <1>5, Types
  <2>4. StoreTypeOK'
    BY <1>7 DEF Adds
  <2> QED BY <1>5, <2>1, <2>2, <2>3, <2>4 DEF TypeOK, ServerTypes, PageTypes
<1> QED BY <1>5, <1>11, <1>12, <1>13, <1>14 DEF PageInv

----------------------------------------------------------------------------
(* Deletion and expiry *)

LEMMA MarkExpiredKeeps ==
    ASSUME PageInv, NEW ref \in Id, NEW c \in Conv \cup {Nobody}, NEW s \in Slot,
           MarkExpiredLocally(ref, c, s), UNCHANGED opens
    PROVE  /\ Adds({}) /\ KeepsSaves /\ Draws({})
           /\ \E f : Redrawn(screen', f)
           /\ screen = <<>> => screen' = <<>>
<1>1. TypeOK /\ StoreTypeOK
  BY Types DEF PageInv
<1>2. /\ screen' = Greyed(ref)
      /\ \/ UNCHANGED storeVars
         \/ c \in Conv /\ MarkDeepDeleted(s, c, ref) /\ UNCHANGED session
  BY DEF MarkExpiredLocally
<1>3. /\ Redrawn(Greyed(ref), [i \in DOMAIN screen |-> i])
      /\ \A i \in DOMAIN Greyed(ref) : i \in DOMAIN screen
                                          /\ Greyed(ref)[i].tag = screen[i].tag
  BY <1>1, GreyedScreen
<1>4. Draws({})
  BY <1>2, <1>3, SeenBy DEF Draws
<1>5. Adds({}) /\ KeepsSaves
  <2>1. CASE UNCHANGED storeVars
    BY <1>1, <2>1, StoreStays
  <2>2. CASE c \in Conv /\ MarkDeepDeleted(s, c, ref) /\ UNCHANGED session
    <3>1. session' \in [Conv -> Seq(Entry)]
          /\ \A d \in Conv : Ids(session'[d]) \subseteq Ids(session[d])
      BY <1>1, <2>2 DEF StoreTypeOK
    <3> QED BY <1>1, <2>2, <3>1, UpdateStarts
  <2> QED BY <1>2, <2>1, <2>2
<1>6. screen = <<>> => screen' = <<>>
  BY <1>2 DEF Greyed, Present, Elements
<1> QED BY <1>2, <1>3, <1>4, <1>5, <1>6

LEMMA OnMessageDeletedKeeps ==
    ASSUME PageInv, NEW s \in Slot, OnMessageDeleted(s)
    PROVE  PageInv'
<1>1. PageTypes
  BY Types DEF PageInv
<1>2. PICK m : m = Head(inbox).id
  OBVIOUS
<1>3. /\ inbox # <<>> /\ inbox' = Tail(inbox) /\ MarkExpiredLocally(m, active, s)
      /\ UNCHANGED <<typed, outbox, log, due, active, pending, arriving, opens, opened,
                     timers, life, past>>
  BY <1>2 DEF OnMessageDeleted
<1>4. /\ ServerTypes' /\ LogGrows /\ m \in Msg
      /\ \A k \in DOMAIN inbox' : \E j \in DOMAIN inbox \ {1} : inbox'[k] = inbox[j]
      /\ \A j, k \in DOMAIN inbox' :
            inbox'[j].kind = "message" /\ inbox'[k].kind = "message"
               /\ inbox'[j].id = inbox'[k].id => j = k
  BY <1>2, <1>3, InboxShrinks
<1>5. m \in Id /\ active \in Conv \cup {Nobody}
  BY <1>1, <1>4, IdNumbers DEF PageTypes
<1>6. /\ Adds({}) /\ KeepsSaves /\ Draws({}) /\ \E f : Redrawn(screen', f)
      /\ screen = <<>> => screen' = <<>>
  BY <1>3, <1>5, MarkExpiredKeeps
<1>7. PICK f : Redrawn(screen', f)
  BY <1>6
<1>8. Events'
  <2>1. \A k \in DOMAIN inbox' : inbox'[k].id \in DOMAIN log'
    BY <1>3, <1>4 DEF PageInv, Events
  <2>2. \A k \in DOMAIN inbox', a \in arriving' :
           inbox'[k].kind = "message" => inbox'[k].id # a.msg
    BY <1>3, <1>4 DEF PageInv, Events
  <2> QED BY <1>3, <1>4, <2>1, <2>2 DEF PageInv, Events
<1>9. Unshown' \subseteq Unshown
  BY <1>3, <1>4 DEF Unshown
<1>10. PageTypes'
  BY <1>1, <1>3 DEF PageTypes
<1>11. NothingOpened'
  BY <1>3, <1>6 DEF PageInv, NothingOpened
<1>12. UNCHANGED <<typed, pending, life, past>>
  BY <1>3
<1> QED BY <1>4, <1>6, <1>7, <1>8, <1>9, <1>10, <1>11, <1>12, QuietStep

LEMMA CountdownEndsKeeps ==
    ASSUME PageInv, NEW t \in BagToSet(timers), NEW s \in Slot, CountdownEnds(t, s)
    PROVE  PageInv'
<1>1. PageTypes
  BY Types DEF PageInv
<1>2. PICK ref, c : ref = t.ref /\ c = t.conv
  OBVIOUS
<1>3. /\ timers' = timers (-) SetToBag({t}) /\ MarkExpiredLocally(ref, c, s)
      /\ UNCHANGED <<server, active, pending, arriving, opens, opened, life, past>>
  BY <1>2 DEF CountdownEnds
<1>4. ref \in Id /\ c \in Conv \cup {Nobody}
  BY <1>1, <1>2 DEF PageTypes, Timer
<1>5. UNCHANGED opens
  BY <1>3
<1>6. /\ Adds({}) /\ KeepsSaves /\ Draws({}) /\ \E f : Redrawn(screen', f)
      /\ screen = <<>> => screen' = <<>>
  BY <1>3, <1>4, <1>5, MarkExpiredKeeps
<1>7. PICK f : Redrawn(screen', f)
  BY <1>6
<1>8. UNCHANGED <<server, arriving>>
  BY <1>3
<1>9. ServerTypes' /\ Events' /\ Unshown' \subseteq Unshown /\ LogGrows /\ UNCHANGED typed
  BY <1>8, ServerStays
<1>10. PageTypes'
  <2>1. BagToSet(timers') \subseteq Timer /\ IsABag(timers')
    BY <1>1, <1>3, BagShrinks DEF PageTypes
  <2> QED BY <1>1, <1>3, <2>1 DEF PageTypes
<1>11. NothingOpened'
  BY <1>3, <1>6 DEF PageInv, NothingOpened
<1>12. UNCHANGED <<typed, pending, life, past>>
  BY <1>3, <1>9
<1> QED BY <1>6, <1>7, <1>9, <1>10, <1>11, <1>12, QuietStep

----------------------------------------------------------------------------
(* Calls of the store *)

\* The page goes on as it is while the store makes a step of its own.
LEMMA StoreGoesOn ==
    ASSUME PageInv, Adds({}), KeepsSaves, UNCHANGED <<server, page, life, past>>
    PROVE  PageInv'
<1>1. PageTypes
  BY Types DEF PageInv
<1>2. UNCHANGED <<server, arriving>>
  BY DEF page
<1>3. ServerTypes' /\ Events' /\ Unshown' \subseteq Unshown /\ LogGrows /\ UNCHANGED typed
  BY <1>2, ServerStays
<1>4. PageTypes' /\ NothingOpened'
  BY <1>1 DEF PageInv, PageTypes, NothingOpened, page
<1>5. \A o \in opens' : Ids(o.list) \subseteq Seen
  BY SeenBy DEF page
<1>6. UNCHANGED <<typed, pending, life, past, screen>>
  BY <1>3 DEF page
<1> QED BY <1>3, <1>4, <1>5, <1>6, QuietScreen

LEMMA DeleteForMeKeeps ==
    ASSUME PageInv, NEW i \in DOMAIN screen, NEW s \in Slot, DeleteForMe(screen[i], s)
    PROVE  PageInv'
<1>1. TypeOK /\ StoreTypeOK
  BY Types DEF PageInv
<1>2. active \in Conv
  <2>1. screen # <<>>
    BY DEF PageInv
  <2> QED BY <2>1, SomeConversation
<1>3. PICK m \in Id : m = screen[i].ref
  BY <1>1, BubbleShape
<1>4. DeleteMessageLocal(s, active, m) /\ UNCHANGED <<server, page, life, past>>
  BY <1>3 DEF DeleteForMe
<1>5. /\ session' \in [Conv -> Seq(Entry)]
      /\ \A d \in Conv : Ids(session'[d]) \subseteq Ids(session[d])
  BY <1>1, <1>4 DEF DeleteMessageLocal, StoreTypeOK
<1>6. Adds({}) /\ KeepsSaves
  BY <1>1, <1>2, <1>4, <1>5, UpdateStarts
<1> QED BY <1>4, <1>6, StoreGoesOn

LEMMA ResumeCallKeeps ==
    ASSUME PageInv, NEW s \in Slot, ResumeCall(s)
    PROVE  PageInv'
<1>1. TypeOK /\ StoreTypeOK /\ PageTypes
  BY Types DEF PageInv
<1>2. UNCHANGED <<server, page, life, past>>
  BY DEF ResumeCall
<1>3. CASE WriteHistory(s) \/ WriteReduced(s)
  <2>1. Adds({}) /\ KeepsSaves
    BY <1>1, <1>3, Writes
  <2> QED BY <1>2, <2>1, StoreGoesOn
<1>4. CASE AppendToHistory(s)
  <2>1. /\ Adds({calls[s].id}) /\ calls'[s].kind = "append" /\ calls[s].id \in Msg
        /\ \A r \in Slot \ {s} : calls'[r] = calls[r]
    BY <1>1, <1>4, SaveGoesOn
  <2>2. UNCHANGED <<server, arriving>>
    BY <1>2 DEF page
  <2>3. ServerTypes' /\ Events' /\ Unshown' \subseteq Unshown /\ LogGrows
    BY <2>2, ServerStays
  <2>4. Draws({})
    BY <1>2, SeenBy DEF Draws, page
  <2>5. Fresh' /\ SavesDiffer' /\ Forgotten'
    BY <1>2, <1>4, <2>1, <2>3, <2>4, OneSaved DEF AppendToHistory
  <2>6. PageTypes' /\ NothingOpened'
    BY <1>1, <1>2 DEF PageInv, PageTypes, NothingOpened, page
  <2>7. Bubbles'
    <3>1. Redrawn(screen, [i \in DOMAIN screen |-> i]) /\ UNCHANGED <<screen, pending, typed>>
      BY <1>1, <1>2, ScreenStays DEF page, server
    <3>2. PICK f : Redrawn(screen', f)
      BY <3>1
    <3> QED BY <2>3, <3>1, <3>2, BubblesKept
  <2>8. TypeOK'
    <3>1. /\ pending' \subseteq [temp: Id \ Msg, conv: Conv] /\ screen' \in Seq(Bubble)
          /\ life' \in {"open", "leaving", "closed"} /\ past' \subseteq Msg
      BY <1>1, <1>2, Types DEF page
    <3>2. StoreTypeOK'
      BY <2>1 DEF Adds
    <3> QED BY <2>3, <2>6, <3>1, <3>2 DEF TypeOK, ServerTypes, PageTypes
  <2> QED BY <2>3, <2>5, <2>6, <2>7, <2>8 DEF PageInv
<1> QED BY <1>3, <1>4 DEF ResumeCall

LEMMA FinishMarkKeeps ==
    ASSUME PageInv, NEW s \in Slot, FinishMark(s)
    PROVE  PageInv'
<1>1. TypeOK /\ StoreTypeOK /\ PageTypes
  BY Types DEF PageInv
<1>2. /\ WriteMark(s)
      /\ opens' = {IF o.stage = "marking" /\ o.slot = s
                   THEN [o EXCEPT !.stage = "cleaning", !.slot = 0] ELSE o : o \in opens}
      /\ UNCHANGED <<server, active, screen, pending, arriving, opened, timers, life, past>>
  BY DEF FinishMark
<1>3. Adds({}) /\ KeepsSaves
  BY <1>1, <1>2, Writes
<1>4. ASSUME NEW p \in opens' PROVE p \in Open /\ \E o \in opens : p.list = o.list
  <2>1. PICK o \in opens :
           p = IF o.stage = "marking" /\ o.slot = s
               THEN [o EXCEPT !.stage = "cleaning", !.slot = 0] ELSE o
    BY <1>2
  <2>2. o \in Open
    BY <1>1 DEF PageTypes
  <2>3. CASE p = o
    BY <2>2, <2>3
  <2>4. CASE p = [o EXCEPT !.stage = "cleaning", !.slot = 0]
    <3>1. PICK n, k, stage, l, r, t, slot :
              o = [n |-> n, conv |-> k, stage |-> stage, list |-> l, ram |-> r,
                   todo |-> t, slot |-> slot]
      BY <1>1, OpenFields
    <3>2. p = [n |-> n, conv |-> k, stage |-> "cleaning", list |-> l, ram |-> r,
               todo |-> t, slot |-> 0]
      BY <2>4, <3>1
    <3>3. o.n = n /\ o.conv = k /\ o.list = l /\ o.ram = r /\ o.todo = t /\ p.list = l
      BY <3>1, <3>2
    <3>4. n \in Nat /\ k \in Conv /\ l \in Seq(Entry) /\ r \subseteq Msg /\ t \subseteq Msg
      BY <1>1, <3>3, OpenShape
    <3>5. p \in Open
      BY <3>2, <3>4 DEF Open
    <3> QED BY <3>3, <3>5
  <2> QED BY <2>1, <2>3, <2>4
<1>5. ServerTypes' /\ Events' /\ Unshown' \subseteq Unshown /\ LogGrows /\ UNCHANGED typed
  <2>1. UNCHANGED <<server, arriving>>
    BY <1>2
  <2> QED BY <2>1, ServerStays
<1>6. PageTypes'
  BY <1>1, <1>2, <1>4 DEF PageTypes
<1>7. NothingOpened'
  BY <1>2, <1>4 DEF PageInv, NothingOpened
<1>8. \A p \in opens' : Ids(p.list) \subseteq Seen
  <2> SUFFICES ASSUME NEW p \in opens' PROVE Ids(p.list) \subseteq Seen
    OBVIOUS
  <2>1. PICK o \in opens : p.list = o.list
    BY <1>4
  <2>2. Ids(o.list) \subseteq Seen
    BY SeenBy
  <2> QED BY <2>1, <2>2
<1>9. UNCHANGED <<typed, pending, life, past, screen>>
  BY <1>2, <1>5
<1> QED BY <1>3, <1>5, <1>6, <1>7, <1>8, <1>9, QuietScreen

LEMMA FinishDropKeeps ==
    ASSUME PageInv, NEW s \in Slot, FinishDrop(s)
    PROVE  PageInv'
<1>1. TypeOK /\ StoreTypeOK /\ PageTypes
  BY Types DEF PageInv
<1>2. PICK m : m = calls[s].id
  OBVIOUS
<1>3. /\ WriteDrop(s)
      /\ screen' = Removed(m) \/ screen' = screen
      /\ UNCHANGED <<server, active, pending, arriving, opens, opened, timers, life, past>>
  BY <1>2 DEF FinishDrop
<1>4. Adds({}) /\ KeepsSaves
  BY <1>1, <1>3, Writes
<1>5. PICK f : Redrawn(screen', f) /\ DOMAIN f = DOMAIN screen'
  <2>1. CASE screen' = Removed(m)
    BY <1>1, <2>1, RemovedScreen
  <2>2. CASE screen' = screen
    BY <1>1, <2>2, ScreenStays
  <2> QED BY <1>3, <2>1, <2>2
<1>6. Draws({})
  BY <1>3, <1>5, SeenBy DEF Draws, Redrawn
<1>7. ServerTypes' /\ Events' /\ Unshown' \subseteq Unshown /\ LogGrows /\ UNCHANGED typed
  <2>1. UNCHANGED <<server, arriving>>
    BY <1>3
  <2> QED BY <2>1, ServerStays
<1>8. PageTypes'
  BY <1>1, <1>3 DEF PageTypes
<1>9. screen = <<>> => screen' = <<>>
  BY <1>3 DEF Removed, Present, Elements
<1>10. NothingOpened'
  BY <1>3, <1>9 DEF PageInv, NothingOpened
<1>11. UNCHANGED <<typed, pending, life, past>>
  BY <1>3, <1>7
<1> QED BY <1>4, <1>5, <1>6, <1>7, <1>8, <1>10, <1>11, QuietStep

----------------------------------------------------------------------------
(* Leaving the page *)

LEMMA LogoutKeeps ==
    ASSUME PageInv, Logout
    PROVE  PageInv'
<1>1. TypeOK /\ StoreTypeOK /\ PageTypes
  BY Types DEF PageInv
<1>2. /\ ClearAll /\ life' = "leaving" /\ past' = UNION {Ids(stored[c]) : c \in Conv}
      /\ UNCHANGED <<server, page>>
  BY DEF Logout
<1>3. Adds({}) /\ KeepsSaves /\ \A c \in Conv \ raced' : Held(c)' = {}
  BY <1>1, <1>2, Clears
<1>4. UNCHANGED <<server, arriving>>
  BY <1>2 DEF page
<1>5. ServerTypes' /\ Events' /\ Unshown' \subseteq Unshown /\ LogGrows /\ UNCHANGED typed
  BY <1>4, ServerStays
<1>6. Draws({})
  BY <1>2, SeenBy DEF Draws, page
<1>7. Fresh' /\ SavesDiffer' /\ Saving' \subseteq Saving
  BY <1>3, <1>5, <1>6, NothingShown
<1>8. \A m \in past' : \E c \in Conv : m \in Held(c)
  BY <1>2, HeldBy
<1>9. Forgotten'
  <2>1. ASSUME NEW m \in past' PROVE m \notin Unshown' /\ m \notin Saving'
    <3>1. PICK c \in Conv : m \in Held(c)
      BY <1>8
    <3>2. m \notin Saving
      BY <3>1 DEF PageInv, SavesDiffer
    <3>3. m \in Seen
      BY <3>1, SeenBy
    <3>4. m \notin Unshown
      BY <3>3 DEF PageInv, Fresh
    <3> QED BY <1>5, <1>7, <3>2, <3>4
  <2> QED BY <1>3, <2>1 DEF Forgotten
<1>10. Bubbles'
  <2>1. Redrawn(screen, [i \in DOMAIN screen |-> i]) /\ UNCHANGED <<screen, pending, typed>>
    BY <1>1, <1>2, ScreenStays DEF page, server
  <2>2. PICK f : Redrawn(screen', f)
    BY <2>1
  <2> QED BY <1>5, <2>1, <2>2, BubblesKept
<1>11. PageTypes' /\ NothingOpened'
  BY <1>1, <1>2 DEF PageInv, PageTypes, NothingOpened, page
<1>12. TypeOK'
  <2>1. pending' \subseteq [temp: Id \ Msg, conv: Conv] /\ screen' \in Seq(Bubble)
    BY <1>1, <1>2, Types DEF page
  <2>2. past' \subseteq Msg
    <3> SUFFICES ASSUME NEW m \in past' PROVE m \in Msg
      OBVIOUS
    <3>1. PICK c \in Conv : m \in Ids(stored[c])
      BY <1>2
    <3> QED BY <1>1, <3>1, IdsAreMessages DEF StoreTypeOK
  <2>3. StoreTypeOK' /\ life' \in {"open", "leaving", "closed"}
    BY <1>2, <1>3 DEF Adds
  <2> QED BY <1>5, <1>11, <2>1, <2>2, <2>3 DEF TypeOK, ServerTypes, PageTypes
<1> QED BY <1>5, <1>7, <1>9, <1>10, <1>11, <1>12 DEF PageInv

LEMMA UnloadedKeeps ==
    ASSUME PageInv, Unloaded, life' = life \/ (life # "open" /\ life' = "closed")
    PROVE  PageInv'
<1>1. TypeOK /\ StoreTypeOK /\ PageTypes /\ ServerTypes
  BY Types DEF PageInv
<1>2. /\ Unload /\ active' = Nobody /\ screen' = <<>> /\ pending' = {} /\ arriving' = {}
      /\ opens' = {} /\ timers' = EmptyBag /\ inbox' = <<>>
      /\ outbox' = outbox \/ outbox' = <<>>
      /\ UNCHANGED <<typed, log, due, opened, past>>
  BY DEF Unloaded
<1>3. Adds({}) /\ KeepsSaves
  BY <1>1, <1>2, Unloads
<1>4. Unshown' \subseteq Unshown
  BY <1>2 DEF Unshown
<1>5. Draws({})
  BY <1>2 DEF Draws
<1>6. Fresh' /\ SavesDiffer' /\ Forgotten'
  BY <1>2, <1>3, <1>4, <1>5, NothingNew
<1>7. Events'
  BY <1>2 DEF PageInv, Events
<1>8. Bubbles'
  BY <1>2 DEF Bubbles, Temporaries, SendingBubbleIsQueued, EchoStaysInConversation
<1>9. NothingOpened'
  BY <1>2 DEF NothingOpened
<1>10. TypeOK'
  <2>1. BagToSet(timers') = {} /\ IsABag(timers')
    BY <1>2 DEF EmptyBag, SetToBag, BagToSet, IsABag
  <2>2. ServerTypes'
    <3>1. outbox' \in Seq(Nat)
      <4>1. outbox \in Seq(Nat) /\ <<>> \in Seq(Nat)
        BY <1>1 DEF ServerTypes
      <4>2. outbox' = outbox \/ outbox' = <<>>
        BY <1>2
      <4> QED BY <4>1, <4>2
    <3>2. inbox' \in Seq([kind: {"message", "deleted"}, id: Msg])
      BY <1>2
    <3>3. typed' \in Seq(Conv) /\ log' \in Seq(Message) /\ due' \subseteq Msg
      BY <1>1, <1>2 DEF ServerTypes
    <3> QED BY <3>1, <3>2, <3>3 DEF ServerTypes
  <2>3. PageTypes'
    BY <1>1, <1>2, <2>1 DEF PageTypes
  <2>4. StoreTypeOK' /\ life' \in {"open", "leaving", "closed"} /\ past' \subseteq Msg
    BY <1>1, <1>2, <1>3, Types DEF Adds
  <2>5. screen' \in Seq(Bubble) /\ pending' \subseteq [temp: Id \ Msg, conv: Conv]
    BY <1>2
  <2> QED BY <2>2, <2>3, <2>4, <2>5 DEF TypeOK, ServerTypes, PageTypes
<1> QED BY <1>6, <1>7, <1>8, <1>9, <1>10 DEF PageInv

----------------------------------------------------------------------------
(* The invariant *)

LEMMA PageInit ==
    ASSUME Init
    PROVE  PageInv
<1>1. StoreTypeOK
  BY DEF Init, StoreInit, StoreTypeOK, Call
<1>2. \A s \in Slot : calls[s].kind = "idle"
  BY DEF Init, StoreInit, Idle
<1>3. BagToSet(timers) = {} /\ IsABag(timers)
  BY DEF Init, EmptyBag, SetToBag, BagToSet, IsABag
<1>4. PageTypes /\ ServerTypes
  BY <1>3, IdNumbers DEF Init, PageTypes, ServerTypes
<1>5. screen = <<>> /\ screen \in Seq(Bubble) /\ pending = {}
      /\ pending \subseteq [temp: Id \ Msg, conv: Conv] /\ life = "open" /\ past = {}
  BY DEF Init
<1>6. TypeOK
  BY <1>1, <1>4, <1>5 DEF TypeOK, PageTypes, ServerTypes
<1>7. Events
  BY DEF Init, Events
<1>8. Bubbles
  BY <1>5 DEF Bubbles, Temporaries, SendingBubbleIsQueued, EchoStaysInConversation
<1>9. NothingOpened
  BY DEF Init, NothingOpened
<1>10. Saving = {}
  BY <1>2, SavingBy
<1>11. Seen = {}
  <2>1. \A c \in Conv : stored[c] = <<>> /\ session[c] = <<>>
    BY DEF Init, StoreInit
  <2>2. \A c \in Conv : Ids(stored[c]) = {} /\ Ids(session[c]) = {}
    BY <2>1 DEF Ids
  <2>3. \A c \in Conv : \A m : m \notin Held(c)
    BY <1>2, <2>2, HeldBy DEF Updating
  <2>4. \A m : m \notin Seen
    BY <1>5, <2>2, <2>3, SeenBy DEF Init
  <2> QED BY <2>4
<1>12. Fresh /\ SavesDiffer /\ Forgotten
  BY <1>2, <1>5, <1>10, <1>11 DEF Fresh, SavesDiffer, Forgotten
<1> QED BY <1>6, <1>7, <1>8, <1>9, <1>12 DEF PageInv

LEMMA PageStays ==
    ASSUME PageInv, UNCHANGED vars
    PROVE  PageInv'
<1>1. UNCHANGED storeVars /\ UNCHANGED <<server, page, life, past>>
  BY DEF vars
<1>2. Adds({}) /\ KeepsSaves
  BY <1>1, Types, StoreStays DEF PageInv
<1> QED BY <1>1, <1>2, StoreGoesOn

LEMMA PageStep ==
    ASSUME PageInv, [Next]_vars
    PROVE  PageInv'
<1>1. CASE Click
  <2>1. CASE \E c \in Conv : OpenDM(c)
    BY <2>1, OpenDMKeeps
  <2>2. CASE SendMessage
    BY <2>2, SendMessageKeeps
  <2>3. CASE Logout
    BY <2>3, LogoutKeeps
  <2>4. CASE Reload
    BY <2>4, UnloadedKeeps DEF Reload
  <2>5. CASE Leave
    BY <2>5, UnloadedKeeps DEF Leave
  <2>6. CASE \E i \in DOMAIN screen : \E s \in Slot : Free(s) /\ DeleteForMe(screen[i], s)
    BY <2>6, DeleteForMeKeeps
  <2> QED BY <1>1, <2>1, <2>2, <2>3, <2>4, <2>5, <2>6 DEF Click
<1>2. CASE Handle
  <2>1. CASE OnReceiveMessage
    BY <2>1, OnReceiveMessageKeeps
  <2>2. CASE \E s \in Slot : Free(s) /\ OnMessageDeleted(s)
    BY <2>2, OnMessageDeletedKeeps
  <2>3. CASE \E s \in Slot : Free(s) /\ \E t \in BagToSet(timers) : CountdownEnds(t, s)
    BY <2>3, CountdownEndsKeeps
  <2>4. CASE \E o \in opens : ReadHistory(o)
    BY <2>4, ReadHistoryKeeps
  <2>5. CASE \E o \in opens : MergeHistory(o)
    BY <2>5, MergeHistoryKeeps
  <2>6. CASE \E o \in opens : DrawHistory(o)
    BY <2>6, DrawHistoryKeeps
  <2>7. CASE \E o \in opens : \E s \in Slot : Free(s) /\ CleanNext(o, s)
    BY <2>7, CleanNextKeeps
  <2> QED BY <1>2, <2>1, <2>2, <2>3, <2>4, <2>5, <2>6, <2>7 DEF Handle
<1>3. CASE AcceptSent
  BY <1>3, AcceptSentKeeps
<1>4. CASE \E m \in Msg : Arrives(m)
  BY <1>4, ShowKeeps DEF Arrives
<1>5. CASE \E s \in Slot : Continue(s)
  <2>1. PICK s \in Slot : Continue(s)
    BY <1>5
  <2> QED BY <2>1, ResumeCallKeeps, FinishMarkKeeps, FinishDropKeeps DEF Continue
<1>6. CASE \E c \in Conv : SentElsewhere(c)
  BY <1>6, SentElsewhereKeeps
<1>7. CASE \E m \in DOMAIN log : DeleteForEveryone(m) \/ Elapse(m)
  BY <1>7, DeleteForEveryoneKeeps, ElapseKeeps
<1>8. CASE UNCHANGED vars
  BY <1>8, PageStays
<1> QED BY <1>1, <1>2, <1>3, <1>4, <1>5, <1>6, <1>7, <1>8 DEF Next

\* In every state of the page, whatever has been typed, shown, saved and deleted.
THEOREM PageInvariant == Spec => []PageInv
<1>1. Init => PageInv
  BY PageInit
<1>2. PageInv /\ [Next]_vars => PageInv'
  BY PageStep
<1> QED BY <1>1, <1>2, PTL DEF Spec

\* Types of everything the page and its store keep.
THEOREM PageVariablesHaveTypes == Spec => []TypeOK
<1>1. PageInv => TypeOK
  BY DEF PageInv
<1> QED BY <1>1, PageInvariant, PTL

\* A bubble that says "sending" keeps its entry in _pendingOutgoing, however opening
\* conversations, echoes, deletions and reloads follow each other.
THEOREM SendingBubblesAreQueued == Spec => []SendingBubbleIsQueued
<1>1. PageInv => SendingBubbleIsQueued
  BY DEF PageInv, Bubbles
<1> QED BY <1>1, PageInvariant, PTL

\* A bubble drawn on sending takes the id of an own message to the same peer,
\* whichever conversation is on screen when the echo is shown.
THEOREM EchoesStayInConversation == Spec => []EchoStaysInConversation
<1>1. PageInv => EchoStaysInConversation
  BY DEF PageInv, Bubbles
<1> QED BY <1>1, PageInvariant, PTL

\* No message that localStorage held at logout is in it again, but in a conversation
\* one of whose updates was in progress or overlapped another.
THEOREM LogoutForgetsHistories == Spec => []LogoutForgets
<1>1. ASSUME PageInv PROVE LogoutForgets
  <2> SUFFICES ASSUME life # "open", NEW c \in Conv \ raced, NEW m \in Ids(stored[c]),
                      m \in past
               PROVE  FALSE
    BY DEF LogoutForgets
  <2>1. m \in Held(c)
    BY HeldBy
  <2> QED BY <1>1, <2>1 DEF PageInv, Forgotten
<1> QED BY <1>1, PageInvariant, PTL

----------------------------------------------------------------------------
(* The page through its store *)

\* What the page does to its store are the store's own steps.
LEMMA StepOfStore ==
    ASSUME PageInv, [Next]_vars
    PROVE  [StoreNext]_storeVars
<1>1. TypeOK /\ StoreTypeOK
  BY Types DEF PageInv
<1>2. ASSUME NEW s \in Slot, NEW c \in Conv, NEW m \in Id, MarkDeepDeleted(s, c, m),
             session' \in {session, [session EXCEPT ![c] = Marked(session[c], m)]}
      PROVE  StoreNext
  BY <1>2 DEF StoreNext
<1>3. ASSUME NEW ref \in Id, NEW c \in Conv \cup {Nobody}, NEW s \in Slot,
             MarkExpiredLocally(ref, c, s)
      PROVE  [StoreNext]_storeVars
  BY <1>2, <1>3 DEF MarkExpiredLocally
<1>4. CASE Click
  <2>1. CASE \E i \in DOMAIN screen : \E s \in Slot : Free(s) /\ DeleteForMe(screen[i], s)
    <3>1. PICK i \in DOMAIN screen, s \in Slot : DeleteForMe(screen[i], s)
      BY <2>1
    <3>2. active \in Conv
      <4>1. screen # <<>>
        BY <3>1
      <4> QED BY <4>1, SomeConversation
    <3>3. PICK m \in Id : m = screen[i].ref
      BY <1>1, BubbleShape
    <3>4. DeleteMessageLocal(s, active, m)
      BY <3>1, <3>3 DEF DeleteForMe
    <3> QED BY <3>2, <3>4 DEF StoreNext
  <2>2. CASE Logout
    BY <2>2 DEF Logout, StoreNext
  <2>3. CASE Reload \/ Leave
    BY <2>3 DEF Reload, Leave, Unloaded, StoreNext
  <2>4. CASE SendMessage \/ \E c \in Conv : OpenDM(c)
    BY <2>4 DEF SendMessage, OpenDM
  <2> QED BY <1>4, <2>1, <2>2, <2>3, <2>4 DEF Click
<1>5. CASE Handle
  <2>1. CASE \/ OnReceiveMessage
             \/ \E o \in opens : ReadHistory(o) \/ MergeHistory(o) \/ DrawHistory(o)
    BY <2>1 DEF OnReceiveMessage, ReadHistory, MergeHistory, DrawHistory
  <2>2. CASE \E s \in Slot : Free(s) /\ OnMessageDeleted(s)
    <3>1. PICK s \in Slot : OnMessageDeleted(s)
      BY <2>2
    <3>2. PICK m : m = Head(inbox).id
      OBVIOUS
    <3>3. /\ inbox # <<>> /\ inbox' = Tail(inbox)
          /\ UNCHANGED <<typed, outbox, log, due>>
          /\ MarkExpiredLocally(m, active, s)
      BY <3>1, <3>2 DEF OnMessageDeleted
    <3>4. m \in Msg
      BY <3>2, <3>3, InboxShrinks
    <3>5. m \in Id /\ active \in Conv \cup {Nobody}
      BY <1>1, <3>4, IdNumbers DEF TypeOK
    <3> QED BY <1>3, <3>3, <3>5
  <2>3. CASE \E s \in Slot : Free(s) /\ \E t \in BagToSet(timers) : CountdownEnds(t, s)
    <3>1. PICK s \in Slot, t \in BagToSet(timers) : CountdownEnds(t, s)
      BY <2>3
    <3>2. PICK ref, c : ref = t.ref /\ c = t.conv
      OBVIOUS
    <3>3. ref \in Id /\ c \in Conv \cup {Nobody}
      BY <1>1, <3>2 DEF TypeOK, Timer
    <3>4. MarkExpiredLocally(ref, c, s)
      BY <3>1, <3>2 DEF CountdownEnds
    <3> QED BY <1>3, <3>3, <3>4
  <2>4. CASE \E o \in opens : \E s \in Slot : Free(s) /\ CleanNext(o, s)
    <3>1. PICK o \in opens, s \in Slot : CleanNext(o, s)
      BY <2>4
    <3>2. PICK m, c : m = Min(o.todo) /\ c = o.conv
      OBVIOUS
    <3>3. m \in Id
      <4>1. o.todo \subseteq Msg /\ o.todo \subseteq Nat /\ o.todo # {}
        BY <1>1, <3>1, OpenShape, IdNumbers DEF CleanNext
      <4>2. m \in o.todo
        BY <3>2, <4>1, MinOf
      <4> QED BY <4>1, <4>2, IdNumbers
    <3>4. c \in Conv
      BY <1>1, <3>2, OpenShape
    <3>5. /\ MarkDeepDeleted(s, c, m)
          /\ session' = session \/ session' = [session EXCEPT ![c] = Marked(session[c], m)]
      BY <3>1, <3>2 DEF CleanNext
    <3> QED BY <1>2, <3>3, <3>4, <3>5
  <2> QED BY <1>5, <2>1, <2>2, <2>3, <2>4 DEF Handle
<1>6. CASE AcceptSent
  BY <1>6 DEF AcceptSent, Deliver
<1>7. CASE \E m \in Msg : Arrives(m)
  <2>1. PICK a \in arriving, s \in Slot : Show(a, s)
    BY <1>7 DEF Arrives
  <2>2. PICK m, c : m = a.msg /\ c = log[m].conv
    OBVIOUS
  <2>3. m \in DOMAIN log /\ m \in Msg
    BY <2>2 DEF PageInv, Events
  <2>4. log[m] \in Message
    BY <1>1, <2>3, Members DEF TypeOK
  <2>5. c \in Conv
    BY <2>2, <2>4 DEF Message
  <2>6. SaveMessage(s, c, m)
    BY <2>1, <2>2 DEF Show
  <2> QED BY <2>3, <2>5, <2>6 DEF StoreNext
<1>8. CASE \E s \in Slot : Continue(s)
  BY <1>8 DEF Continue, ResumeCall, FinishMark, FinishDrop, StoreNext, Resume
<1>9. CASE \E c \in Conv : SentElsewhere(c)
  BY <1>9 DEF SentElsewhere, Deliver
<1>10. CASE \E m \in DOMAIN log : DeleteForEveryone(m) \/ Elapse(m)
  BY <1>10 DEF DeleteForEveryone, Elapse
<1>11. CASE UNCHANGED vars
  BY <1>11 DEF vars
<1> QED BY <1>4, <1>5, <1>6, <1>7, <1>8, <1>9, <1>10, <1>11 DEF Next

\* The page calls its store as the store expects, so its histories too behave as if
\* each update were applied in one step, as long as no two overlap.
THEOREM PageUsesItsStore == Spec => StoreSpec
<1>1. Init => StoreInit
  BY DEF Init
<1>2. PageInv /\ [Next]_vars => [StoreNext]_storeVars
  BY StepOfStore
<1> QED BY <1>1, <1>2, PageInvariant, PTL DEF Spec, StoreSpec

\* What logout, opening, receiving, expiring and deleting make of the histories is
\* what AtomicStore allows (storage.js:169-283 as chat.js calls it).
THEOREM PageImplementsAtomicStore == Spec => ImplementsAtomicStore
BY PageUsesItsStore, StoreImplementsAtomicStore, PTL
=============================================================================
