---------------------------- MODULE AtomicStore ----------------------------
(***************************************************************************)
(* What a browser's message history promises its page: every update of a   *)
(* conversation is applied to the history as it then is, in one step, and  *)
(* touches no other conversation.  The promise holds for a conversation    *)
(* until two of its updates overlap (`raced`); from then on its history    *)
(* may be anything.  Module ClientStore implements this specification.     *)
(***************************************************************************)
EXTENDS HistoryLists

CONSTANT Conv

VARIABLES
    kept,           \* the history of each conversation
    raced           \* conversations that lost the promise

Init == kept = [c \in Conv |-> <<>>] /\ raced = {}

\* When localStorage is full, the oldest half goes to make room
AddMessage(c, e) ==
    \/ kept' = [kept EXCEPT ![c] = Appended(@, e)]
    \/ kept' = [kept EXCEPT ![c] = Halved(Appended(@, e))]

DropText(c, m) == kept' = [kept EXCEPT ![c] = Marked(@, m)]
Remove(c, m) == kept' = [kept EXCEPT ![c] = Without(@, m)]

Update(c) ==
    /\ c \notin raced
    /\ \/ \E e \in Entry : AddMessage(c, e)
       \/ \E m \in Id : DropText(c, m) \/ Remove(c, m)
    /\ UNCHANGED raced

\* Logout; it races with every update in progress
Clear == kept' = [c \in Conv |-> <<>>] /\ raced \subseteq raced'

Overlap(c) == raced' = raced \cup {c} /\ UNCHANGED kept

\* The other conversations are safe from it
Scribble(c) ==
    /\ c \in raced
    /\ kept' = [kept EXCEPT ![c] = kept'[c]]
    /\ UNCHANGED raced

Next == Clear \/ \E c \in Conv : Update(c) \/ Overlap(c) \/ Scribble(c)

Spec == Init /\ [][Next]_<<kept, raced>>
=============================================================================
