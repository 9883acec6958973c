------------------------- MODULE ClientStoreProofs -------------------------
(***************************************************************************)
(* Module ClientStore implements module AtomicStore for every number of    *)
(* conversations, of calls in progress and of entries.  Before that, what  *)
(* the operators of HistoryLists make of any list; after it, what each     *)
(* step of the store adds to the histories, for module ChatPageProofs.     *)
(***************************************************************************)
EXTENDS ClientStore, WellFoundedInduction, SequenceTheorems, TLAPS

----------------------------------------------------------------------------
(* What the operators of HistoryLists make of a list, for every list *)

\* Every set of numbers that is not empty has a least one; an argument by
\* induction looks at the least counterexample.
LEMMA LeastNumber ==
    ASSUME NEW T \in SUBSET Nat, T # {}
    PROVE  \E n \in T : \A m \in T : n <= m
<1> DEFINE R == {ss \in Nat \X Nat : ss[1] < ss[2]}
<1>1. IsWellFoundedOn(R, Nat)
  BY NatLessThanWellFounded DEF OpToRel
<1>2. \A m, n \in Nat : m < n => <<m, n>> \in R
  OBVIOUS
<1> HIDE DEF R
<1>3. \E n \in T : \A m \in T : <<m, n>> \notin R
  BY <1>1, WFMin
<1>4. PICK n \in T : \A m \in T : <<m, n>> \notin R
  BY <1>3
<1>5. ASSUME NEW m \in T PROVE n <= m
  <2>1. m \in Nat /\ n \in Nat /\ ~ (m < n)
    BY <1>2, <1>4
  <2> QED BY <2>1
<1> QED BY <1>5

\* f is the recursive function of which Kept takes the last value.
Keeping(list, ids, n, f) ==
    f = [k \in 0..n |-> IF k = 0 THEN <<>>
                        ELSE IF list[k].id \in ids THEN Append(f[k - 1], list[k])
                        ELSE f[k - 1]]

LEMMA KeepingExists ==
    ASSUME NEW list, NEW ids, NEW n \in Nat
    PROVE  \E f : Keeping(list, ids, n, f)
<1> DEFINE T == {k \in Nat : ~ \E f : Keeping(list, ids, k, f)}
<1> SUFFICES ASSUME T # {} PROVE FALSE
  OBVIOUS
<1>1. PICK k \in T : \A m \in T : k <= m
  BY LeastNumber
<1>2. CASE k = 0
  <2>1. Keeping(list, ids, 0, [j \in 0..0 |-> <<>>])
    BY DEF Keeping
  <2> QED BY <1>2, <2>1
<1>3. CASE k # 0
  <2>1. k \in Nat /\ k - 1 \in Nat /\ k - 1 \notin T
    BY <1>1, <1>3
  <2>2. PICK f : Keeping(list, ids, k - 1, f)
    BY <2>1
  <2> DEFINE last == IF list[k].id \in ids THEN Append(f[k - 1], list[k]) ELSE f[k - 1]
             g == [j \in 0..k |-> IF j = k THEN last ELSE f[j]]
  <2>3. \A j \in 0..(k - 1) : g[j] = f[j]
    BY <2>1
  <2>4. \A j \in 0..k : g[j] = IF j = 0 THEN <<>>
                        ELSE IF list[j].id \in ids THEN Append(g[j - 1], list[j])
                        ELSE g[j - 1]
    <3> SUFFICES ASSUME NEW j \in 0..k
                 PROVE  g[j] = IF j = 0 THEN <<>>
                        ELSE IF list[j].id \in ids THEN Append(g[j - 1], list[j])
                        ELSE g[j - 1]
      OBVIOUS
    <3>1. CASE j = k
      <4>1. g[j] = last /\ g[j - 1] = f[k - 1]
        BY <2>1, <2>3, <3>1
      <4> QED BY <1>3, <3>1, <4>1
    <3>2. CASE j # k
      <4>1. j \in 0..(k - 1) /\ g[j] = f[j] /\ (j # 0 => g[j - 1] = f[j - 1])
        BY <2>1, <2>3, <3>2
      <4>2. f[j] = IF j = 0 THEN <<>>
                        ELSE IF list[j].id \in ids THEN Append(f[j - 1], list[j])
                        ELSE f[j - 1]
        BY <2>2, <4>1 DEF Keeping
      <4> QED BY <4>1, <4>2
    <3> QED BY <3>1, <3>2
  <2>5. Keeping(list, ids, k, g)
    <3> HIDE DEF last
    <3>1. g = [j \in 0..k |-> g[j]]
      OBVIOUS
    <3> HIDE DEF g
    <3> QED BY <2>4, <3>1 DEF Keeping
  <2> QED BY <2>1, <2>5
<1> QED BY <1>2, <1>3

\* What Kept computes, for every list.
LEMMA KeptIs ==
    ASSUME NEW S, NEW list \in Seq(S), NEW ids
    PROVE  \E f : /\ Keeping(list, ids, Len(list), f)
                  /\ Kept(list, ids) = f[Len(list)]
<1>1. Len(list) \in Nat
  OBVIOUS
<1>2. \E f : Keeping(list, ids, Len(list), f)
  BY <1>1, KeepingExists
<1> DEFINE g == CHOOSE f : Keeping(list, ids, Len(list), f)
<1>3. Keeping(list, ids, Len(list), g)
  BY <1>2
<1>4. Kept(list, ids) = g[Len(list)]
  BY DEF Kept, Keeping
<1> QED BY <1>3, <1>4

\* Kept keeps entries of the list, and those ids only.
LEMMA KeptEntries ==
    ASSUME NEW S, NEW list \in Seq(S), NEW ids
    PROVE  /\ Kept(list, ids) \in Seq(S)
           /\ Ids(Kept(list, ids)) \subseteq Ids(list) \cap ids
<1>1. /\ Len(list) \in Nat /\ DOMAIN list = 1..Len(list)
      /\ \A k \in DOMAIN list : list[k] \in S
  OBVIOUS
<1>2. PICK f : Keeping(list, ids, Len(list), f) /\ Kept(list, ids) = f[Len(list)]
  BY KeptIs
<1> DEFINE Good(q) == q \in Seq(S) /\ Ids(q) \subseteq Ids(list) \cap ids
           T == {k \in 0..Len(list) : ~Good(f[k])}
<1>3. T = {}
  <2> SUFFICES ASSUME T # {} PROVE FALSE
    OBVIOUS
  <2>1. T \subseteq Nat
    BY <1>1
  <2>2. PICK k \in T : \A m \in T : k <= m
    BY <2>1, LeastNumber
  <2>3. CASE k = 0
    <3>1. f[k] = <<>>
      BY <1>1, <1>2, <2>3 DEF Keeping
    <3>2. Good(<<>>)
      BY DEF Ids
    <3> QED BY <2>2, <3>1, <3>2
  <2>4. CASE k # 0
    <3>1. k \in Nat /\ k - 1 \in 0..Len(list) /\ k \in DOMAIN list
      BY <1>1, <2>2, <2>4
    <3>2. Good(f[k - 1])
      BY <2>2, <3>1
    <3>3. f[k] = IF list[k].id \in ids THEN Append(f[k - 1], list[k]) ELSE f[k - 1]
      BY <1>1, <1>2, <2>2, <2>4 DEF Keeping
    <3>4. CASE list[k].id \in ids
      <4>1. PICK q : q = f[k - 1]
        OBVIOUS
      <4>2. q \in Seq(S) /\ list[k] \in S
        BY <1>1, <3>1, <3>2, <4>1
      <4>3. /\ Append(q, list[k]) \in Seq(S)
            /\ \A j \in DOMAIN Append(q, list[k]) :
                  \/ j \in DOMAIN q /\ Append(q, list[k])[j] = q[j]
                  \/ Append(q, list[k])[j] = list[k]
        BY <4>2
      <4>4. Ids(Append(q, list[k])) \subseteq Ids(q) \cup {list[k].id}
        BY <4>3 DEF Ids
      <4>5. list[k].id \in Ids(list)
        BY <3>1 DEF Ids
      <4> QED BY <2>2, <3>2, <3>3, <3>4, <4>1, <4>3, <4>4, <4>5
    <3>5. CASE list[k].id \notin ids
      BY <2>2, <3>2, <3>3, <3>5
    <3> QED BY <3>4, <3>5
  <2> QED BY <2>3, <2>4
<1>4. Good(f[Len(list)])
  BY <1>1, <1>3
<1> QED BY <1>2, <1>4

LEMMA WithoutEntries ==
    ASSUME NEW S, NEW list \in Seq(S), NEW m
    PROVE  Without(list, m) \in Seq(S) /\ Ids(Without(list, m)) \subseteq Ids(list) \ {m}
BY KeptEntries DEF Without

LEMMA Members ==
    ASSUME NEW S, NEW list \in Seq(S)
    PROVE  /\ Len(list) \in Nat /\ DOMAIN list = 1..Len(list)
           /\ \A k \in DOMAIN list : list[k] \in S
OBVIOUS

\* A part of a list.
LEMMA PartEntries ==
    ASSUME NEW S, NEW list \in Seq(S), NEW k \in Nat \ {0}
    PROVE  /\ SubSeq(list, k, Len(list)) \in Seq(S)
           /\ Ids(SubSeq(list, k, Len(list))) \subseteq Ids(list)
<1>1. /\ Len(list) \in Nat /\ DOMAIN list = 1..Len(list)
      /\ \A j \in DOMAIN list : list[j] \in S
  BY Members
<1>2. PICK q : q = SubSeq(list, k, Len(list))
  OBVIOUS
<1> DEFINE n == IF k <= Len(list) THEN Len(list) - k + 1 ELSE 0
<1>3. n \in Nat /\ \A j \in 1..n : k + j - 1 \in 1..Len(list)
  BY <1>1
<1>4. q = [j \in 1..n |-> list[k + j - 1]]
  BY <1>1, <1>2
<1> HIDE DEF n
<1>5. DOMAIN q = 1..n /\ \A j \in 1..n : q[j] = list[k + j - 1] /\ q[j] \in S
  BY <1>1, <1>3, <1>4
<1>6. q \in Seq(S)
  BY <1>3, <1>4, <1>5
<1>7. Ids(q) \subseteq Ids(list)
  BY <1>1, <1>3, <1>5 DEF Ids
<1> QED BY <1>2, <1>6, <1>7

LEMMA AppendEntries ==
    ASSUME NEW S, NEW list \in Seq(S), NEW e \in S
    PROVE  Append(list, e) \in Seq(S) /\ Ids(Append(list, e)) \subseteq Ids(list) \cup {e.id}
<1>1. /\ Append(list, e) \in Seq(S)
      /\ \A j \in DOMAIN Append(list, e) :
            \/ j \in DOMAIN list /\ Append(list, e)[j] = list[j]
            \/ Append(list, e)[j] = e
  OBVIOUS
<1> QED BY <1>1 DEF Ids

LEMMA AppendedEntries ==
    ASSUME NEW S, NEW list \in Seq(S), NEW e \in S
    PROVE  /\ Appended(list, e) \in Seq(S)
           /\ Ids(Appended(list, e)) \subseteq Ids(list) \cup {e.id}
<1>1. PICK q : q = Append(list, e)
  OBVIOUS
<1>2. q \in Seq(S) /\ Ids(q) \subseteq Ids(list) \cup {e.id}
  BY <1>1, AppendEntries
<1>3. Len(q) \in Nat
  BY <1>2
<1>4. PICK k : k = IF Len(q) < HISTORY_LIMIT THEN 1 ELSE Len(q) - HISTORY_LIMIT + 1
  OBVIOUS
<1>5. k \in Nat \ {0}
  BY <1>3, <1>4, HistoryLimitAssumption
<1>6. Appended(list, e) = SubSeq(q, k, Len(q))
  BY <1>1, <1>4 DEF Appended, LastEntries
<1> QED BY <1>2, <1>5, <1>6, PartEntries

LEMMA HalvedEntries ==
    ASSUME NEW S, NEW list \in Seq(S)
    PROVE  Halved(list) \in Seq(S) /\ Ids(Halved(list)) \subseteq Ids(list)
<1>1. Len(list) \in Nat
  OBVIOUS
<1>2. Len(list) \div 2 + 1 \in Nat \ {0}
  BY <1>1
<1> QED BY <1>2, PartEntries DEF Halved

LEMMA MarkedEntries ==
    ASSUME NEW list \in Seq(Entry), NEW m
    PROVE  Marked(list, m) \in Seq(Entry) /\ Ids(Marked(list, m)) = Ids(list)
<1>1. /\ Len(list) \in Nat /\ DOMAIN list = 1..Len(list)
      /\ \A j \in DOMAIN list : list[j] \in Entry
  BY Members
<1>2. PICK q : q = Marked(list, m)
  OBVIOUS
<1>3. /\ DOMAIN q = DOMAIN list /\ q = [j \in DOMAIN list |-> q[j]]
      /\ \A j \in DOMAIN q : q[j] = IF list[j].id = m
            THEN [list[j] EXCEPT !.dead = TRUE] ELSE list[j]
  BY <1>2 DEF Marked
<1>4. \A j \in DOMAIN q : q[j] \in Entry /\ q[j].id = list[j].id
  BY <1>1, <1>3 DEF Entry
<1>5. q \in Seq(Entry)
  BY <1>1, <1>3, <1>4
<1>6. Ids(q) = Ids(list)
  BY <1>3, <1>4 DEF Ids
<1> QED BY <1>2, <1>5, <1>6

LEMMA MergedEntries ==
    ASSUME NEW S, NEW list \in Seq(S), NEW others \in Seq(S)
    PROVE  /\ Merged(list, others) \in Seq(S)
           /\ Ids(Merged(list, others)) \subseteq Ids(list) \cup Ids(others)
<1>1. PICK q : q = Kept(others, Ids(others) \ Ids(list))
  OBVIOUS
<1>2. q \in Seq(S) /\ Ids(q) \subseteq Ids(others)
  BY <1>1, KeptEntries
<1>3. /\ list \o q \in Seq(S)
      /\ \A j \in DOMAIN (list \o q) :
            \/ j \in DOMAIN list /\ (list \o q)[j] = list[j]
            \/ j - Len(list) \in DOMAIN q /\ (list \o q)[j] = q[j - Len(list)]
  BY <1>2
<1>4. Ids(list \o q) \subseteq Ids(list) \cup Ids(q)
  BY <1>3 DEF Ids
<1> QED BY <1>1, <1>2, <1>3, <1>4 DEF Merged

----------------------------------------------------------------------------
(* The refinement *)

\* A call is idle, or it is one that a page can make.
CallOK(s) ==
    \/ calls[s] = Idle
    \/ /\ calls[s].kind \in {"save", "append", "retry", "mark", "drop"}
       /\ calls[s].conv \in Conv /\ calls[s].id \in Id
       /\ calls[s].kind \in {"save", "append", "retry"} => calls[s].id \in Msg
       /\ calls[s] = [kind |-> calls[s].kind, conv |-> calls[s].conv,
                      id |-> calls[s].id, list |-> calls[s].list]

\* What an update will write is what it makes of the history as it is.
UpToDate(s) ==
    LET c == calls[s].conv
        added == Appended(stored[c], Live(calls[s].id))
    IN  CASE calls[s].kind = "append" -> calls[s].list = added
          [] calls[s].kind = "retry" -> calls[s].list = Halved(added)
          [] calls[s].kind = "mark" -> calls[s].list = Marked(stored[c], calls[s].id)
          [] calls[s].kind = "drop" -> calls[s].list = Without(stored[c], calls[s].id)
          [] OTHER -> TRUE

Shapes ==
    /\ stored = [c \in Conv |-> stored[c]]
    /\ calls = [s \in Slot |-> calls[s]]
    /\ \A s \in Slot : CallOK(s)

\* A conversation without a race has one update in progress at most, and that one
\* is up to date.
Serial ==
    \A s \in Slot, c \in Conv : Updating(s, c) /\ c \notin raced =>
        /\ UpToDate(s)
        /\ \A r \in Slot : Updating(r, c) => r = s

IInv == Shapes /\ Serial

LEMMA IInvInit == StoreInit => IInv
  BY DEF StoreInit, IInv, Shapes, Serial, CallOK, Updating, Idle

\* An update that begins leaves its conversation with one update, or raced.
LEMMA BeginKeepsIInv ==
  ASSUME IInv, NEW s \in Slot, NEW c \in Conv, NEW m \in Id, NEW list,
         NEW kind \in {"append", "mark", "drop"}, calls[s].kind \in {"idle", "save"},
         kind = "append" => m \in Msg /\ list = Appended(stored[c], Live(m)),
         kind = "mark" => list = Marked(stored[c], m),
         kind = "drop" => list = Without(stored[c], m),
         Begin(s, kind, c, m, list), UNCHANGED stored
  PROVE  IInv'
<1> DEFINE new == [kind |-> kind, conv |-> c, id |-> m, list |-> list]
<1>1. /\ calls'[s] = new
      /\ \A r \in Slot \ {s} : calls'[r] = calls[r]
      /\ \A r \in Slot, d \in Conv : Updating(r, d)' <=>
            IF r = s THEN d = c ELSE Updating(r, d)
  BY DEF Begin, IInv, Shapes, Updating
<1>2. Shapes'
  <2>1. /\ (stored = [d \in Conv |-> stored[d]])'
        /\ (calls = [r \in Slot |-> calls[r]])'
    BY DEF Begin, IInv, Shapes
  <2>2. ASSUME NEW r \in Slot PROVE CallOK(r)'
    <3>1. CASE r = s
      BY <1>1, <3>1 DEF CallOK
    <3>2. CASE r # s
      BY <1>1, <3>2 DEF CallOK, IInv, Shapes
    <3> QED BY <3>1, <3>2
  <2> QED BY <2>1, <2>2 DEF Shapes
<1>3. Serial'
  <2> SUFFICES ASSUME NEW r \in Slot, NEW d \in Conv, Updating(r, d)', d \notin raced'
               PROVE  /\ UpToDate(r)'
                      /\ \A q \in Slot : Updating(q, d)' => q = r
    BY DEF Serial
  <2>1. d \notin raced /\ (d = c => \A q \in Slot : ~Updating(q, c))
    BY DEF Begin, Overlapping
  <2>2. ~Updating(s, d)
    BY DEF Updating
  <2>3. CASE r = s
    <3>1. d = c
      BY <1>1, <2>3
    <3>2. UpToDate(s)'
      BY <1>1 DEF UpToDate
    <3> QED BY <1>1, <2>1, <2>3, <3>1, <3>2
  <2>4. CASE r # s
    <3>1. Updating(r, d) /\ d # c
      BY <1>1, <2>1, <2>4
    <3>2. UpToDate(r) /\ \A q \in Slot : Updating(q, d) => q = r
      BY <2>1, <3>1 DEF IInv, Serial
    <3>3. UpToDate(r)'
      BY <1>1, <2>4, <3>2 DEF UpToDate
    <3> QED BY <1>1, <3>1, <3>2, <3>3
  <2> QED BY <2>3, <2>4
<1> QED BY <1>2, <1>3 DEF IInv

\* An update that ends leaves none in a conversation without a race.
LEMMA EndKeepsIInv ==
  ASSUME IInv, NEW s \in Slot, Updating(s, calls[s].conv), Done(s), UNCHANGED raced,
         SetItem(s) \/ UNCHANGED stored
  PROVE  IInv'
<1> DEFINE c == calls[s].conv
<1>1. calls'[s] = Idle /\ \A r \in Slot \ {s} : calls'[r] = calls[r]
  BY DEF Done, IInv, Shapes
<1>2. c \in Conv
  BY DEF IInv, Shapes, CallOK, Updating, Idle
<1>3. \A r \in Slot, d \in Conv : Updating(r, d)' => r # s /\ Updating(r, d)
  BY <1>1 DEF Updating, Idle
<1>4. \A d \in Conv \ {c} : stored'[d] = stored[d]
  BY DEF SetItem, IInv, Shapes
<1>5. Shapes'
  <2>1. (stored = [d \in Conv |-> stored[d]])'
    BY <1>2 DEF SetItem, IInv, Shapes
  <2>2. (calls = [r \in Slot |-> calls[r]])'
    BY DEF Done, IInv, Shapes
  <2>3. ASSUME NEW r \in Slot PROVE CallOK(r)'
    <3>1. CASE r = s
      BY <1>1, <3>1 DEF CallOK
    <3>2. CASE r # s
      BY <1>1, <3>2 DEF CallOK, IInv, Shapes
    <3> QED BY <3>1, <3>2
  <2> QED BY <2>1, <2>2, <2>3 DEF Shapes
<1>6. Serial'
  <2> SUFFICES ASSUME NEW r \in Slot, NEW d \in Conv, Updating(r, d)', d \notin raced'
               PROVE  /\ UpToDate(r)'
                      /\ \A q \in Slot : Updating(q, d)' => q = r
    BY DEF Serial
  <2>1. r # s /\ Updating(r, d)
    BY <1>3
  <2>2. UpToDate(r) /\ \A q \in Slot : Updating(q, d) => q = r
    BY <2>1 DEF IInv, Serial
  <2>3. calls[r].conv = d /\ d # c
    BY <2>1, <2>2 DEF Updating
  <2>4. UpToDate(r)'
    BY <1>1, <1>4, <2>1, <2>2, <2>3 DEF UpToDate
  <2> QED BY <1>3, <2>2, <2>4
<1> QED BY <1>5, <1>6 DEF IInv

\* The lists of AtomicStore are the store's.
LEMMA SameLists ==
  ASSUME NEW list, NEW e, NEW m
  PROVE  /\ Atomic!Appended(list, e) = Appended(list, e)
         /\ Atomic!Halved(list) = Halved(list)
         /\ Atomic!Marked(list, m) = Marked(list, m)
         /\ Atomic!Without(list, m) = Without(list, m)
<1>1. Atomic!Appended(list, e) = Appended(list, e)
  BY DEF Atomic!LastEntries, LastEntries, Atomic!Appended, Appended
<1>2. Atomic!Halved(list) = Halved(list) /\ Atomic!Marked(list, m) = Marked(list, m)
  BY DEF Atomic!Halved, Halved, Atomic!Marked, Marked
<1>3. Atomic!Without(list, m) = Without(list, m)
  BY DEF Atomic!Without, Without, Atomic!Kept, Kept, Atomic!Ids, Ids
<1> QED BY <1>1, <1>2, <1>3

\* What a call writes to localStorage is an atomic update, or it raced.
LEMMA WriteIsAtomic ==
  ASSUME IInv, NEW s \in Slot, Updating(s, calls[s].conv), SetItem(s), UNCHANGED raced
  PROVE  Atomic!Next
<1> DEFINE c == calls[s].conv
           m == calls[s].id
<1>1. /\ c \in Conv /\ m \in Id
      /\ calls[s].kind \in {"append", "retry", "mark", "drop"}
      /\ calls[s].kind \in {"append", "retry"} => m \in Msg
  BY DEF IInv, Shapes, CallOK, Updating, Idle
<1>2. stored' = [stored EXCEPT ![c] = calls[s].list]
  BY DEF SetItem
<1>3. CASE c \in raced
  <2>1. stored' = [stored EXCEPT ![c] = stored'[c]]
    BY <1>1, <1>2 DEF IInv, Shapes
  <2>2. Atomic!Scribble(c)
    BY <1>3, <2>1 DEF Atomic!Scribble
  <2> QED BY <1>1, <2>2 DEF Atomic!Next
<1>4. CASE c \notin raced
  <2>1. UpToDate(s)
    BY <1>1, <1>4 DEF IInv, Serial
  <2>2. CASE calls[s].kind \in {"append", "retry"}
    <3>1. Live(m) \in Atomic!Entry
      BY <1>1, <2>2 DEF Live, Atomic!Entry
    <3>2. calls[s].list \in {Appended(stored[c], Live(m)), Halved(Appended(stored[c], Live(m)))}
      BY <2>1, <2>2 DEF UpToDate
    <3>3. Atomic!AddMessage(c, Live(m))
      BY <1>2, <3>2, SameLists DEF Atomic!AddMessage
    <3> QED BY <1>1, <1>4, <3>1, <3>3 DEF Atomic!Update, Atomic!Next
  <2>3. CASE calls[s].kind = "mark"
    <3>1. Atomic!DropText(c, m)
      BY <1>2, <2>1, <2>3, SameLists DEF UpToDate, Atomic!DropText
    <3> QED BY <1>1, <1>4, <3>1 DEF Atomic!Update, Atomic!Next
  <2>4. CASE calls[s].kind = "drop"
    <3>1. Atomic!Remove(c, m)
      BY <1>2, <2>1, <2>4, SameLists DEF UpToDate, Atomic!Remove
    <3> QED BY <1>1, <1>4, <3>1 DEF Atomic!Update, Atomic!Next
  <2> QED BY <1>1, <2>2, <2>3, <2>4
<1> QED BY <1>3, <1>4

\* A call that starts an update leaves the histories as they are.
LEMMA BeginIsAtomic ==
  ASSUME NEW s \in Slot, NEW c \in Conv, NEW m, NEW list, NEW kind,
         Begin(s, kind, c, m, list), UNCHANGED stored
  PROVE  [Atomic!Next]_<<stored, raced>>
<1>1. raced' = raced \/ raced' = raced \cup {c}
  BY DEF Begin, Overlapping
<1>2. raced' = raced \cup {c} => Atomic!Overlap(c)
  BY DEF Atomic!Overlap
<1> QED BY <1>1, <1>2 DEF Atomic!Next

\* Every step of the store keeps the invariant and is a step of AtomicStore.
LEMMA StoreStep ==
  ASSUME IInv, StoreNext
  PROVE  IInv' /\ [Atomic!Next]_<<stored, raced>>
<1>1. ASSUME NEW s \in Slot, AppendToHistory(s)
      PROVE  IInv' /\ [Atomic!Next]_<<stored, raced>>
  <2> DEFINE c == calls[s].conv
             m == calls[s].id
             list == Appended(stored[c], Live(m))
  <2>1. c \in Conv /\ m \in Id /\ m \in Msg
    BY <1>1 DEF AppendToHistory, IInv, Shapes, CallOK, Idle
  <2>2. Begin(s, "append", c, m, list) /\ UNCHANGED stored /\ calls[s].kind = "save"
    BY <1>1 DEF AppendToHistory
  <2>3. IInv'
    BY <2>1, <2>2, BeginKeepsIInv
  <2> QED BY <2>1, <2>2, <2>3, BeginIsAtomic
<1>2. ASSUME NEW s \in Slot, WriteHistory(s)
      PROVE  IInv' /\ [Atomic!Next]_<<stored, raced>>
  <2> DEFINE c == calls[s].conv
  <2>1. Updating(s, c)
    BY <1>2 DEF WriteHistory, Updating
  <2>2. CASE Fits(s)
    <3>1. SetItem(s) /\ Done(s) /\ UNCHANGED raced
      BY <1>2, <2>2 DEF WriteHistory
    <3> QED BY <2>1, <3>1, EndKeepsIInv, WriteIsAtomic
  <2>3. CASE ~Fits(s)
    <3>1. /\ calls' = [calls EXCEPT ![s].kind = "retry", ![s].list = Halved(@)]
          /\ UNCHANGED <<stored, raced>> /\ calls[s].kind = "append"
      BY <1>2, <2>3 DEF WriteHistory
    <3>2. /\ CallOK(s) /\ calls[s] # Idle
          /\ calls = [r \in Slot |-> calls[r]]
      BY <3>1 DEF IInv, Shapes, Idle
    <3>3. /\ calls'[s] = [kind |-> "retry", conv |-> c, id |-> calls[s].id,
                          list |-> Halved(calls[s].list)]
          /\ \A r \in Slot \ {s} : calls'[r] = calls[r]
          /\ calls' = [r \in Slot |-> calls'[r]]
      BY <3>1, <3>2 DEF CallOK
    <3>4. \A r \in Slot, d \in Conv : Updating(r, d)' <=> Updating(r, d)
      BY <3>1, <3>3 DEF Updating
    <3>5. Shapes'
      <4>1. \A r \in Slot : CallOK(r)'
        BY <3>1, <3>2, <3>3 DEF CallOK, IInv, Shapes
      <4> QED BY <3>1, <3>3, <4>1 DEF IInv, Shapes
    <3>6. Serial'
      <4> SUFFICES ASSUME NEW r \in Slot, NEW d \in Conv, Updating(r, d)', d \notin raced'
                   PROVE  /\ UpToDate(r)'
                          /\ \A q \in Slot : Updating(q, d)' => q = r
        BY DEF Serial
      <4>1. UpToDate(r) /\ \A q \in Slot : Updating(q, d) => q = r
        BY <3>1, <3>4 DEF IInv, Serial
      <4>2. CASE r = s
        BY <3>1, <3>3, <3>4, <4>1, <4>2 DEF UpToDate
      <4>3. CASE r # s
        BY <3>1, <3>3, <3>4, <4>1, <4>3 DEF UpToDate
      <4> QED BY <4>2, <4>3
    <3> QED BY <3>1, <3>5, <3>6 DEF IInv
  <2> QED BY <2>2, <2>3
<1>3. ASSUME NEW s \in Slot, WriteReduced(s) \/ WriteMark(s) \/ WriteDrop(s)
      PROVE  IInv' /\ [Atomic!Next]_<<stored, raced>>
  <2>1. /\ Updating(s, calls[s].conv) /\ Done(s) /\ UNCHANGED raced
        /\ SetItem(s) \/ UNCHANGED stored
    BY <1>3 DEF WriteReduced, WriteMark, WriteDrop, Updating
  <2>2. IInv'
    BY <2>1, EndKeepsIInv
  <2>3. CASE SetItem(s)
    BY <2>1, <2>2, <2>3, WriteIsAtomic
  <2>4. CASE UNCHANGED stored
    BY <2>1, <2>2, <2>4
  <2> QED BY <2>1, <2>3, <2>4
<1>4. ASSUME NEW s \in Slot, NEW c \in Conv, NEW m \in Msg, SaveMessage(s, c, m)
      PROVE  IInv' /\ [Atomic!Next]_<<stored, raced>>
  <2>1. /\ calls' = [calls EXCEPT ![s] = [kind |-> "save", conv |-> c, id |-> m,
                                          list |-> <<>>]]
        /\ UNCHANGED <<stored, raced>>
    BY <1>4 DEF SaveMessage
  <2>2. /\ calls'[s] = [kind |-> "save", conv |-> c, id |-> m, list |-> <<>>]
        /\ \A r \in Slot \ {s} : calls'[r] = calls[r]
        /\ calls' = [r \in Slot |-> calls'[r]]
    BY <2>1 DEF IInv, Shapes
  <2>3. m \in Id
    BY IdAssumption
  <2>4. Shapes'
    <3>1. \A r \in Slot : CallOK(r)'
      BY <2>2, <2>3 DEF CallOK, IInv, Shapes
    <3> QED BY <2>1, <2>2, <3>1 DEF IInv, Shapes
  <2>5. Serial'
    <3> SUFFICES ASSUME NEW r \in Slot, NEW d \in Conv, Updating(r, d)', d \notin raced'
                 PROVE  /\ UpToDate(r)'
                        /\ \A q \in Slot : Updating(q, d)' => q = r
      BY DEF Serial
    <3>1. \A q \in Slot : Updating(q, d)' => q # s /\ Updating(q, d)
      BY <2>2 DEF Updating
    <3>2. UpToDate(r) /\ \A q \in Slot : Updating(q, d) => q = r
      BY <2>1, <3>1 DEF IInv, Serial
    <3>3. UpToDate(r)'
      BY <2>1, <2>2, <3>1, <3>2 DEF UpToDate
    <3> QED BY <3>1, <3>2, <3>3
  <2> QED BY <2>1, <2>4, <2>5 DEF IInv
<1>5. ASSUME NEW s \in Slot, NEW c \in Conv, NEW m \in Id,
             MarkDeepDeleted(s, c, m) \/ DeleteMessageLocal(s, c, m)
      PROVE  IInv' /\ [Atomic!Next]_<<stored, raced>>
  <2>1. PICK kind \in {"mark", "drop"},
             list \in {Marked(stored[c], m), Without(stored[c], m)} :
          /\ Begin(s, kind, c, m, list) /\ UNCHANGED stored /\ calls[s].kind = "idle"
          /\ kind = "mark" => list = Marked(stored[c], m)
          /\ kind = "drop" => list = Without(stored[c], m)
    BY <1>5 DEF MarkDeepDeleted, DeleteMessageLocal, Idle
  <2>2. IInv'
    BY <2>1, BeginKeepsIInv
  <2> QED BY <2>1, <2>2, BeginIsAtomic
<1>6. CASE ClearAll
  <2>1. /\ stored' = [c \in Conv |-> <<>>] /\ UNCHANGED calls
        /\ raced' = raced \cup UNION {Overlapping(c) : c \in Conv}
    BY <1>6 DEF ClearAll
  <2>2. \A s \in Slot, c \in Conv : Updating(s, c)' => c \in raced'
    BY <2>1 DEF Updating, Overlapping
  <2>3. IInv'
    BY <2>1, <2>2 DEF IInv, Shapes, Serial, CallOK
  <2>4. Atomic!Next
    BY <2>1 DEF Atomic!Next, Atomic!Clear
  <2> QED BY <2>3, <2>4
<1>7. CASE Unload
  <2>1. calls' = [s \in Slot |-> Idle] /\ UNCHANGED <<stored, raced>>
    BY <1>7 DEF Unload
  <2>2. IInv'
    BY <2>1 DEF IInv, Shapes, Serial, CallOK, Updating, Idle
  <2> QED BY <2>1, <2>2
<1> QED BY <1>1, <1>2, <1>3, <1>4, <1>5, <1>6, <1>7 DEF StoreNext, Resume

\* The store implements AtomicStore: as long as no two updates of a conversation
\* overlap, its history is what its updates make of it, one after the other.
THEOREM StoreImplementsAtomicStore == StoreSpec => ImplementsAtomicStore
<1>1. StoreInit => Atomic!Init
  BY DEF StoreInit, Atomic!Init
<1>2. IInv /\ [StoreNext]_storeVars => IInv' /\ [Atomic!Next]_<<stored, raced>>
  <2>1. ASSUME IInv, UNCHANGED storeVars
        PROVE  IInv' /\ [Atomic!Next]_<<stored, raced>>
    BY <2>1 DEF storeVars, IInv, Shapes, Serial, CallOK, UpToDate, Updating
  <2> QED BY <2>1, StoreStep
<1> QED BY <1>1, <1>2, IInvInit, PTL DEF StoreSpec, ImplementsAtomicStore, Atomic!Spec

----------------------------------------------------------------------------
(* Types, and where the ids of a history come from *)

\* The messages in the history of a conversation or in what an update will write;
\* the messages that are about to be stored.
Held(c) ==
    Ids(stored[c]) \cup UNION {Ids(calls[s].list) : s \in {r \in Slot : Updating(r, c)}}
Saving == {calls[s].id : s \in {r \in Slot : calls[r].kind = "save"}}

\* A step that adds no messages to the histories but those of M.
Adds(M) ==
    /\ StoreTypeOK'
    /\ raced \subseteq raced'
    /\ \A c \in Conv : Held(c)' \subseteq Held(c) \cup M
    /\ \A c \in Conv : Ids(session'[c]) \subseteq Ids(session[c]) \cup M

\* A step that starts no save.
KeepsSaves == \A r \in Slot : calls'[r].kind = "save" => calls'[r] = calls[r]

LEMMA HeldBy ==
    ASSUME NEW c
    PROVE  \A m : m \in Held(c) <=>
              \/ m \in Ids(stored[c])
              \/ \E r \in Slot : Updating(r, c) /\ m \in Ids(calls[r].list)
BY DEF Held

LEMMA HeldByNext ==
    ASSUME NEW c
    PROVE  \A m : m \in Held(c)' <=>
              \/ m \in Ids(stored'[c])
              \/ \E r \in Slot : Updating(r, c)' /\ m \in Ids(calls'[r].list)
BY DEF Held, Ids

LEMMA CallShape ==
    ASSUME StoreTypeOK, NEW s \in Slot, calls[s].kind # "idle"
    PROVE  /\ calls[s].kind \in {"save", "append", "retry", "mark", "drop"}
           /\ calls[s].conv \in Conv /\ calls[s].id \in Id /\ calls[s].list \in Seq(Entry)
           /\ calls[s].kind \in {"save", "append", "retry"} => calls[s].id \in Msg
           /\ calls[s] = [kind |-> calls[s].kind, conv |-> calls[s].conv,
                          id |-> calls[s].id, list |-> calls[s].list]
<1>1. calls[s] \in Call /\ calls[s] # Idle
  BY DEF StoreTypeOK, Idle
<1>2. CASE calls[s] \in [kind: {"save", "append", "retry"}, conv: Conv, id: Msg,
                         list: Seq(Entry)]
  BY <1>2, IdAssumption
<1>3. CASE calls[s] \in [kind: {"mark", "drop"}, conv: Conv, id: Id, list: Seq(Entry)]
  BY <1>3
<1> QED BY <1>1, <1>2, <1>3 DEF Call

\* A call that starts, or goes on with another list.
LEMMA CallGoesOn ==
    ASSUME StoreTypeOK, NEW s \in Slot, NEW call \in Call, NEW M,
           calls' = [calls EXCEPT ![s] = call], UNCHANGED stored,
           raced \subseteq raced' /\ raced' \subseteq Conv,
           session' \in [Conv -> Seq(Entry)],
           \A c \in Conv : Ids(session'[c]) \subseteq Ids(session[c]) \cup M,
           \/ call.kind \in {"idle", "save"}
           \/ Ids(call.list) \subseteq Held(call.conv) \cup M
    PROVE  /\ Adds(M) /\ calls'[s] = call
           /\ \A r \in Slot \ {s} : calls'[r] = calls[r]
<1>1. calls'[s] = call /\ \A r \in Slot \ {s} : calls'[r] = calls[r]
  BY DEF StoreTypeOK
<1>2. StoreTypeOK'
  BY DEF StoreTypeOK
<1>3. ASSUME NEW c \in Conv, NEW m, m \in Held(c)' PROVE m \in Held(c) \cup M
  <2>1. CASE m \in Ids(stored'[c])
    BY <2>1, HeldBy
  <2>2. CASE \E r \in Slot : Updating(r, c)' /\ m \in Ids(calls'[r].list)
    <3>1. PICK r \in Slot : Updating(r, c)' /\ m \in Ids(calls'[r].list)
      BY <2>2
    <3>2. CASE r = s
      <4>1. call.kind \notin {"idle", "save"} /\ call.conv = c /\ m \in Ids(call.list)
        BY <1>1, <3>1, <3>2 DEF Updating
      <4> QED BY <4>1
    <3>3. CASE r # s
      <4>1. Updating(r, c) /\ m \in Ids(calls[r].list)
        BY <1>1, <3>1, <3>3 DEF Updating
      <4> QED BY <4>1, HeldBy
    <3> QED BY <3>2, <3>3
  <2> QED BY <1>3, <2>1, <2>2, HeldByNext
<1> QED BY <1>1, <1>2, <1>3 DEF Adds

\* A call that ends.
LEMMA CallEnds ==
    ASSUME StoreTypeOK, NEW s \in Slot, Updating(s, calls[s].conv), Done(s),
           UNCHANGED raced, SetItem(s) \/ UNCHANGED stored,
           session' \in [Conv -> Seq(Entry)],
           \A c \in Conv : Ids(session'[c]) \subseteq Ids(session[c])
    PROVE  Adds({}) /\ KeepsSaves
<1>1. calls'[s] = Idle /\ \A r \in Slot \ {s} : calls'[r] = calls[r]
  BY DEF Done, StoreTypeOK
<1>2. calls[s].conv \in Conv /\ calls[s].list \in Seq(Entry)
  BY CallShape DEF Updating
<1>3. /\ stored' \in [Conv -> Seq(Entry)]
      /\ \A c \in Conv : stored'[c] = stored[c]
                            \/ (c = calls[s].conv /\ stored'[c] = calls[s].list)
  BY <1>2 DEF SetItem, StoreTypeOK
<1>4. StoreTypeOK'
  BY <1>3 DEF StoreTypeOK, Done, Call
<1>5. ASSUME NEW c \in Conv, NEW m, m \in Held(c)' PROVE m \in Held(c)
  <2>1. CASE m \in Ids(stored'[c])
    <3>1. m \in Ids(stored[c]) \/ (c = calls[s].conv /\ m \in Ids(calls[s].list))
      BY <1>3, <2>1
    <3> QED BY <3>1, HeldBy
  <2>2. CASE \E r \in Slot : Updating(r, c)' /\ m \in Ids(calls'[r].list)
    <3>1. PICK r \in Slot : Updating(r, c)' /\ m \in Ids(calls'[r].list)
      BY <2>2
    <3>2. r # s /\ Updating(r, c) /\ m \in Ids(calls[r].list)
      BY <1>1, <3>1 DEF Updating, Idle
    <3> QED BY <3>2, HeldBy
  <2> QED BY <1>5, <2>1, <2>2, HeldByNext
<1>6. KeepsSaves
  BY <1>1 DEF KeepsSaves, Idle
<1> QED BY <1>4, <1>5, <1>6 DEF Adds

\* A save that starts: its message is about to be stored.
LEMMA SaveStarts ==
    ASSUME StoreTypeOK, NEW s \in Slot, NEW c \in Conv, NEW m \in Msg,
           SaveMessage(s, c, m)
    PROVE  /\ Adds({}) /\ calls'[s].kind = "save" /\ calls'[s].id = m
           /\ \A r \in Slot \ {s} : calls'[r] = calls[r]
<1>1. PICK call : call = [kind |-> "save", conv |-> c, id |-> m, list |-> <<>>]
  OBVIOUS
<1>2. call \in Call /\ call.kind = "save" /\ call.id = m
  BY <1>1 DEF Call
<1>3. calls' = [calls EXCEPT ![s] = call] /\ UNCHANGED <<stored, session, raced>>
  BY <1>1 DEF SaveMessage
<1>4. /\ raced \subseteq raced' /\ raced' \subseteq Conv
      /\ session' \in [Conv -> Seq(Entry)]
      /\ \A d \in Conv : Ids(session'[d]) \subseteq Ids(session[d]) \cup {}
  BY <1>3 DEF StoreTypeOK
<1> QED BY <1>2, <1>3, <1>4, CallGoesOn

LEMMA LiveEntry ==
    ASSUME NEW m \in Msg
    PROVE  Live(m) \in Entry /\ Live(m).id = m
BY DEF Live, Entry

\* The step by which a message gets into the session and towards the history.
LEMMA SaveGoesOn ==
    ASSUME StoreTypeOK, NEW s \in Slot, AppendToHistory(s)
    PROVE  /\ Adds({calls[s].id}) /\ calls'[s].kind = "append" /\ calls[s].id \in Msg
           /\ \A r \in Slot \ {s} : calls'[r] = calls[r]
<1>1. calls[s].kind = "save" /\ calls[s].conv \in Conv /\ calls[s].id \in Msg
  BY CallShape DEF AppendToHistory
<1>2. PICK c \in Conv, m \in Msg : c = calls[s].conv /\ m = calls[s].id
  BY <1>1
<1>3. stored[c] \in Seq(Entry) /\ session[c] \in Seq(Entry)
  BY DEF StoreTypeOK
<1>4. PICK list : list = Appended(stored[c], Live(m))
  OBVIOUS
<1>5. list \in Seq(Entry) /\ Ids(list) \subseteq Ids(stored[c]) \cup {m}
  BY <1>3, <1>4, LiveEntry, AppendedEntries
<1>6. PICK call : call = [kind |-> "append", conv |-> c, id |-> m, list |-> list]
  OBVIOUS
<1>7. call \in Call /\ call.kind = "append" /\ call.conv = c /\ call.list = list
  BY <1>5, <1>6 DEF Call
<1>8. /\ calls' = [calls EXCEPT ![s] = call] /\ UNCHANGED stored
      /\ raced' = raced \cup Overlapping(c)
      /\ session' = [session EXCEPT ![c] = Append(session[c], Live(m))]
  BY <1>2, <1>4, <1>6 DEF AppendToHistory, Begin
<1>9. raced \subseteq raced' /\ raced' \subseteq Conv
  BY <1>8 DEF StoreTypeOK, Overlapping
<1>10. PICK longer : longer = Append(session[c], Live(m))
  OBVIOUS
<1>11. longer \in Seq(Entry) /\ Ids(longer) \subseteq Ids(session[c]) \cup {m}
  BY <1>3, <1>10, LiveEntry, AppendEntries
<1>12. /\ session' \in [Conv -> Seq(Entry)]
       /\ \A d \in Conv : session'[d] = IF d = c THEN longer ELSE session[d]
  BY <1>8, <1>10, <1>11 DEF StoreTypeOK
<1>13. \A d \in Conv : Ids(session'[d]) \subseteq Ids(session[d]) \cup {m}
  BY <1>11, <1>12
<1>14. Ids(call.list) \subseteq Held(call.conv) \cup {m}
  BY <1>5, <1>7, HeldBy
<1>15. /\ Adds({m}) /\ calls'[s] = call
       /\ \A r \in Slot \ {s} : calls'[r] = calls[r]
  BY <1>7, <1>8, <1>9, <1>12, <1>13, <1>14, CallGoesOn
<1> QED BY <1>2, <1>7, <1>15

\* A mark or a deletion that starts.
LEMMA UpdateStarts ==
    ASSUME StoreTypeOK, NEW s \in Slot, NEW c \in Conv, NEW m \in Id,
           MarkDeepDeleted(s, c, m) \/ DeleteMessageLocal(s, c, m),
           session' \in [Conv -> Seq(Entry)],
           \A d \in Conv : Ids(session'[d]) \subseteq Ids(session[d])
    PROVE  Adds({}) /\ KeepsSaves
<1>1. PICK kind \in {"mark", "drop"},
           list \in {Marked(stored[c], m), Without(stored[c], m)} :
        Begin(s, kind, c, m, list) /\ UNCHANGED stored
  BY DEF MarkDeepDeleted, DeleteMessageLocal
<1>2. stored[c] \in Seq(Entry)
  BY DEF StoreTypeOK
<1>3. list \in Seq(Entry) /\ Ids(list) \subseteq Ids(stored[c])
  BY <1>2, MarkedEntries, WithoutEntries
<1>4. PICK call : call = [kind |-> kind, conv |-> c, id |-> m, list |-> list]
  OBVIOUS
<1>5. call \in Call /\ call.kind = kind /\ call.conv = c /\ call.list = list
  BY <1>3, <1>4 DEF Call
<1>6. /\ calls' = [calls EXCEPT ![s] = call] /\ UNCHANGED stored
      /\ raced' = raced \cup Overlapping(c)
  BY <1>1, <1>4 DEF Begin
<1>7. raced \subseteq raced' /\ raced' \subseteq Conv
  BY <1>6 DEF StoreTypeOK, Overlapping
<1>8. Ids(call.list) \subseteq Held(call.conv) \cup {}
  BY <1>3, <1>5, HeldBy
<1>9. \A d \in Conv : Ids(session'[d]) \subseteq Ids(session[d]) \cup {}
  OBVIOUS
<1>10. Adds({}) /\ calls'[s] = call /\ \A r \in Slot \ {s} : calls'[r] = calls[r]
  BY <1>5, <1>6, <1>7, <1>8, <1>9, CallGoesOn
<1> QED BY <1>5, <1>10 DEF KeepsSaves

\* The writes, at last to localStorage.
LEMMA Writes ==
    ASSUME StoreTypeOK, NEW s \in Slot,
           WriteHistory(s) \/ WriteReduced(s) \/ WriteMark(s) \/ WriteDrop(s)
    PROVE  Adds({}) /\ KeepsSaves
<1>1. CASE WriteHistory(s) /\ ~Fits(s)
  <2>1. /\ calls[s].kind = "append" /\ UNCHANGED <<stored, session, raced>>
        /\ calls' = [calls EXCEPT ![s].kind = "retry", ![s].list = Halved(@)]
    BY <1>1 DEF WriteHistory
  <2>2. PICK c \in Conv, m \in Msg, list \in Seq(Entry) :
           calls[s] = [kind |-> "append", conv |-> c, id |-> m, list |-> list]
    BY <2>1, CallShape
  <2>3. PICK half : half = Halved(list)
    OBVIOUS
  <2>4. half \in Seq(Entry) /\ Ids(half) \subseteq Ids(list)
    BY <2>3, HalvedEntries
  <2>5. PICK call : call = [kind |-> "retry", conv |-> c, id |-> m, list |-> half]
    OBVIOUS
  <2>6. call \in Call /\ call.kind = "retry" /\ call.conv = c /\ call.list = half
    BY <2>4, <2>5 DEF Call
  <2>7. calls' = [calls EXCEPT ![s] = call]
    <3>1. calls = [r \in Slot |-> calls[r]]
      BY DEF StoreTypeOK
    <3>2. calls[s] = [kind |-> "append", conv |-> calls[s].conv, id |-> calls[s].id,
                      list |-> calls[s].list]
      BY <2>1, CallShape
    <3>3. calls'[s] = [kind |-> "retry", conv |-> calls[s].conv, id |-> calls[s].id,
                       list |-> Halved(calls[s].list)]
      BY <2>1, <3>1, <3>2
    <3>4. calls[s].conv = c /\ calls[s].id = m /\ calls[s].list = list
      BY <2>2
    <3>5. calls'[s] = call
      BY <2>3, <2>5, <3>3, <3>4
    <3>6. /\ calls' = [r \in Slot |-> calls'[r]]
          /\ \A r \in Slot \ {s} : calls'[r] = calls[r]
      BY <2>1, <3>1
    <3> QED BY <3>1, <3>5, <3>6
  <2>8. Ids(list) \subseteq Held(c)
    BY <2>2, HeldBy DEF Updating
  <2>9. /\ raced \subseteq raced' /\ raced' \subseteq Conv
        /\ session' \in [Conv -> Seq(Entry)] /\ UNCHANGED stored
        /\ \A d \in Conv : Ids(session'[d]) \subseteq Ids(session[d]) \cup {}
        /\ Ids(call.list) \subseteq Held(call.conv) \cup {}
    BY <2>1, <2>4, <2>6, <2>8 DEF StoreTypeOK
  <2>10. Adds({}) /\ calls'[s] = call /\ \A r \in Slot \ {s} : calls'[r] = calls[r]
    BY <2>6, <2>7, <2>9, CallGoesOn
  <2> QED BY <2>6, <2>10 DEF KeepsSaves
<1>2. CASE ~(WriteHistory(s) /\ ~Fits(s))
  <2>1. /\ Updating(s, calls[s].conv) /\ Done(s) /\ UNCHANGED raced
        /\ SetItem(s) \/ UNCHANGED stored
    BY <1>2 DEF WriteHistory, WriteReduced, WriteMark, WriteDrop, Updating
  <2>2. calls[s].conv \in Conv /\ calls[s].id \in Id
    BY <2>1, CallShape DEF Updating
  <2>3. PICK c \in Conv, m \in Id : c = calls[s].conv /\ m = calls[s].id
    BY <2>2
  <2>4. PICK now : now \in {session[c], Marked(session[c], m), Without(session[c], m)}
                   /\ session' = [session EXCEPT ![c] = now]
    <3>1. CASE UNCHANGED session
      <4>1. session' = [session EXCEPT ![c] = session[c]]
        BY <3>1 DEF StoreTypeOK
      <4> QED BY <4>1
    <3>2. CASE WriteMark(s) /\ session' # session
      <4>1. session' = [session EXCEPT ![c] = Marked(session[c], m)]
        BY <2>3, <3>2 DEF WriteMark
      <4> QED BY <4>1
    <3>3. CASE WriteDrop(s) /\ session' # session
      <4>1. session' = [session EXCEPT ![c] = Without(session[c], m)]
        BY <2>3, <3>3 DEF WriteDrop
      <4> QED BY <4>1
    <3> QED BY <1>2, <3>1, <3>2, <3>3 DEF WriteHistory, WriteReduced
  <2>5. session[c] \in Seq(Entry)
    BY DEF StoreTypeOK
  <2>6. now \in Seq(Entry) /\ Ids(now) \subseteq Ids(session[c])
    BY <2>4, <2>5, MarkedEntries, WithoutEntries
  <2>7. session' \in [Conv -> Seq(Entry)] /\ \A d \in Conv :
           session'[d] = IF d = c THEN now ELSE session[d]
    BY <2>4, <2>6 DEF StoreTypeOK
  <2>8. \A d \in Conv : Ids(session'[d]) \subseteq Ids(session[d])
    BY <2>6, <2>7
  <2> QED BY <2>1, <2>7, <2>8, CallEnds
<1> QED BY <1>1, <1>2

\* Logout empties every history; what is still in progress has raced.
LEMMA Clears ==
    ASSUME StoreTypeOK, ClearAll
    PROVE  /\ Adds({}) /\ KeepsSaves
           /\ \A c \in Conv \ raced' : Held(c)' = {}
<1>1. /\ stored' = [c \in Conv |-> <<>>] /\ UNCHANGED <<session, calls>>
      /\ raced' = raced \cup UNION {Overlapping(c) : c \in Conv}
  BY DEF ClearAll
<1>2. StoreTypeOK' /\ raced \subseteq raced'
  BY <1>1 DEF StoreTypeOK, Overlapping
<1>3. \A c \in Conv : Ids(stored'[c]) = {}
  BY <1>1 DEF Ids
<1>4. \A c \in Conv, s \in Slot : Updating(s, c)' => Updating(s, c) /\ c \in raced'
  BY <1>1 DEF Updating, Overlapping
<1>5. ASSUME NEW c \in Conv, NEW m, m \in Held(c)' PROVE m \in Held(c) /\ c \in raced'
  <2>1. PICK s \in Slot : Updating(s, c)' /\ m \in Ids(calls'[s].list)
    BY <1>3, <1>5, HeldByNext
  <2>2. Updating(s, c) /\ m \in Ids(calls[s].list)
    BY <1>1, <1>4, <2>1
  <2> QED BY <1>4, <2>1, <2>2, HeldBy
<1>6. KeepsSaves
  BY <1>1 DEF KeepsSaves
<1> QED BY <1>1, <1>2, <1>5, <1>6 DEF Adds

\* A page that is left takes what is in memory with it.
LEMMA Unloads ==
    ASSUME StoreTypeOK, Unload
    PROVE  Adds({}) /\ KeepsSaves
<1>1. /\ session' = [c \in Conv |-> <<>>] /\ calls' = [s \in Slot |-> Idle]
      /\ UNCHANGED <<stored, raced>>
  BY DEF Unload
<1>2. StoreTypeOK' /\ raced \subseteq raced'
  BY <1>1 DEF StoreTypeOK, Call
<1>3. \A c \in Conv, s \in Slot : ~Updating(s, c)'
  BY <1>1 DEF Updating, Idle
<1>4. ASSUME NEW c \in Conv, NEW m, m \in Held(c)' PROVE m \in Held(c)
  <2>1. m \in Ids(stored[c])
    BY <1>1, <1>3, <1>4, HeldByNext
  <2> QED BY <2>1, HeldBy
<1>5. \A c \in Conv : Ids(session'[c]) = {}
  BY <1>1 DEF Ids
<1>6. KeepsSaves
  BY <1>1 DEF KeepsSaves, Idle
<1> QED BY <1>2, <1>4, <1>5, <1>6 DEF Adds
=============================================================================
