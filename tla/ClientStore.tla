---------------------------- MODULE ClientStore ----------------------------
(***************************************************************************)
(* The message history of a browser (src/static/js/storage.js): one        *)
(* encrypted list per conversation in localStorage, and the messages of    *)
(* the page's own session in RAM.                                          *)
(*                                                                         *)
(* Every function is async: it reads the list when it is called, awaits    *)
(* PBKDF2 and AES-GCM to open it and to seal its successor, and writes     *)
(* that.  A call in progress is a record that carries the list it will     *)
(* write; nothing locks the list in between.  Here the calls come in any   *)
(* order; module ChatPage makes those the page makes.                      *)
(***************************************************************************)
EXTENDS HistoryLists, FiniteSetsExt

CONSTANTS
    Conv,           \* conversations, one per peer
    Slot,           \* bound: calls in progress at once
    Room            \* bound: entries localStorage has room for

ASSUME StoreAssumption == IsFiniteSet(Conv) /\ Room \in Nat

VARIABLES
    stored,         \* localStorage sim_hist_*, opened
    session,        \* _sessionMessages
    calls,          \* calls in progress
    raced           \* history: conversations two of whose updates overlapped

storeVars == <<stored, session, calls, raced>>

----------------------------------------------------------------------------
Idle == [kind |-> "idle"]
Call == {Idle}
          \cup [kind: {"save", "append", "retry"}, conv: Conv, id: Msg, list: Seq(Entry)]
          \cup [kind: {"mark", "drop"}, conv: Conv, id: Id, list: Seq(Entry)]

Updating(s, c) == calls[s].kind \notin {"idle", "save"} /\ calls[s].conv = c
Overlapping(c) == IF \E s \in Slot : Updating(s, c) THEN {c} ELSE {}

\* Mutant: one key for all conversations.
SetOneItem(s) == stored' = [c \in Conv |-> calls[s].list]

\* localStorage.setItem, and whether it throws
Used(c) == LET Size(d) == Len(stored[d]) IN MapThenSumSet(Size, Conv \ {c})
Fits(s) == calls[s].list = <<>> \/ Used(calls[s].conv) + Len(calls[s].list) <= Room
SetItem(s) == stored' = [stored EXCEPT ![calls[s].conv] = calls[s].list]
Done(s) == calls' = [calls EXCEPT ![s] = Idle]

\* The synchronous start of an update: list is what it makes of the history
Begin(s, kind, c, m, list) ==
    /\ calls' = [calls EXCEPT ![s] = [kind |-> kind, conv |-> c, id |-> m,
                                      list |-> list]]
    /\ raced' = raced \cup Overlapping(c)

----------------------------------------------------------------------------
\* saveMessage: the settings come first, then the session's copy
SaveMessage(s, c, m) ==
    /\ calls[s] = Idle
    /\ calls' = [calls EXCEPT ![s] = [kind |-> "save", conv |-> c, id |-> m,
                                      list |-> <<>>]]
    /\ UNCHANGED <<stored, session, raced>>

AppendToHistory(s) ==
    LET c == calls[s].conv
        e == Live(calls[s].id)
    IN  /\ calls[s].kind = "save"
        /\ session' = [session EXCEPT ![c] = Append(@, e)]
        /\ Begin(s, "append", c, calls[s].id, Appended(stored[c], e))
        /\ UNCHANGED stored

\* Quota exceeded: seal a shorter list and try once more, then give up
WriteHistory(s) ==
    /\ calls[s].kind = "append"
    /\ IF Fits(s) THEN SetItem(s) /\ Done(s)
       ELSE /\ calls' = [calls EXCEPT ![s].kind = "retry", ![s].list = Halved(@)]
            /\ UNCHANGED stored
    /\ UNCHANGED <<session, raced>>

WriteReduced(s) ==
    /\ calls[s].kind = "retry"
    /\ IF Fits(s) THEN SetItem(s) ELSE UNCHANGED stored
    /\ Done(s)
    /\ UNCHANGED <<session, raced>>

\* openDM marks a session's entry before it calls
MarkDeepDeleted(s, c, m) ==
    /\ calls[s] = Idle
    /\ Begin(s, "mark", c, m, Marked(stored[c], m))
    /\ UNCHANGED stored

\* setItem is not guarded here: when it throws, the session's copy stays
WriteMark(s) ==
    LET c == calls[s].conv IN
    /\ calls[s].kind = "mark"
    /\ IF Fits(s)
       THEN SetItem(s) /\ session' = [session EXCEPT ![c] = Marked(@, calls[s].id)]
       ELSE UNCHANGED <<stored, session>>
    /\ Done(s)
    /\ UNCHANGED raced

DeleteMessageLocal(s, c, m) ==
    /\ calls[s] = Idle
    /\ Begin(s, "drop", c, m, Without(stored[c], m))
    /\ UNCHANGED <<stored, session>>

WriteDrop(s) ==
    LET c == calls[s].conv IN
    /\ calls[s].kind = "drop"
    /\ IF Fits(s)
       THEN SetItem(s) /\ session' = [session EXCEPT ![c] = Without(@, calls[s].id)]
       ELSE UNCHANGED <<stored, session>>
    /\ Done(s)
    /\ UNCHANGED raced

\* Mutant: the histories, whose names are not in KEYS, stay.
ClearKeys == UNCHANGED <<stored, session, calls, raced>>

\* Calls in progress go on until the page is gone
ClearAll ==
    /\ stored' = [c \in Conv |-> <<>>]
    /\ raced' = raced \cup UNION {Overlapping(c) : c \in Conv}
    /\ UNCHANGED <<session, calls>>

\* The page is left or loaded again
Unload ==
    /\ session' = [c \in Conv |-> <<>>]
    /\ calls' = [s \in Slot |-> Idle]
    /\ UNCHANGED <<stored, raced>>

----------------------------------------------------------------------------
StoreInit ==
    /\ stored = [c \in Conv |-> <<>>] /\ session = [c \in Conv |-> <<>>]
    /\ calls = [s \in Slot |-> Idle] /\ raced = {}

Resume(s) == AppendToHistory(s) \/ WriteHistory(s) \/ WriteReduced(s)
                \/ WriteMark(s) \/ WriteDrop(s)

StoreNext ==
    \/ \E s \in Slot : Resume(s)
    \/ \E s \in Slot, c \in Conv : \E m \in Msg : SaveMessage(s, c, m)
    \/ \E s \in Slot, c \in Conv : \E m \in Id :
          \/ DeleteMessageLocal(s, c, m)
          \/ MarkDeepDeleted(s, c, m)
                /\ session' \in {session, [session EXCEPT ![c] = Marked(@, m)]}
    \/ ClearAll \/ Unload

StoreSpec == StoreInit /\ [][StoreNext]_storeVars

----------------------------------------------------------------------------
(* Properties *)

\* Type invariant of the store.
StoreTypeOK ==
    /\ stored \in [Conv -> Seq(Entry)]
    /\ session \in [Conv -> Seq(Entry)]
    /\ calls \in [Slot -> Call]
    /\ raced \subseteq Conv

\* As long as no two updates of a conversation overlap, its history behaves
\* as if each update were applied in one step; and an update never touches
\* another conversation (storage.js:169-283).
Atomic == INSTANCE AtomicStore WITH kept <- stored
ImplementsAtomicStore == Atomic!Spec
=============================================================================
