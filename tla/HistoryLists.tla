---------------------------- MODULE HistoryLists ----------------------------
(***************************************************************************)
(* The message lists of src/static/js/storage.js and what its functions    *)
(* do to one list.  An entry is a message with its text, or one whose text *)
(* was dropped because the message was deleted or expired.                 *)
(***************************************************************************)
EXTENDS Integers, Sequences

CONSTANTS
    Id,             \* what may stand in an id
    Msg,            \* the ids of messages the server has stored
    HISTORY_LIMIT   \* .slice(-500)

ASSUME IdAssumption == Msg \subseteq Id
ASSUME HistoryLimitAssumption == HISTORY_LIMIT \in Nat \ {0}

Entry == [id: Msg, dead: BOOLEAN]
Live(m) == [id |-> m, dead |-> FALSE]
Ids(list) == {list[i].id : i \in DOMAIN list}
DeadIds(list) == {list[i].id : i \in {j \in DOMAIN list : list[j].dead}}

LastEntries(list, n) ==
    SubSeq(list, IF Len(list) < n THEN 1 ELSE Len(list) - n + 1, Len(list))

Appended(list, e) == LastEntries(Append(list, e), HISTORY_LIMIT)

\* The oldest half is dropped
Halved(list) == SubSeq(list, Len(list) \div 2 + 1, Len(list))

Marked(list, m) ==
    [i \in DOMAIN list |-> IF list[i].id = m THEN [list[i] EXCEPT !.dead = TRUE]
                           ELSE list[i]]

\* The entries whose ids are in the set, in the order of the list
Kept(list, ids) ==
    LET kept[n \in 0..Len(list)] ==
            IF n = 0 THEN <<>>
            ELSE IF list[n].id \in ids THEN Append(kept[n - 1], list[n])
            ELSE kept[n - 1]
    IN  kept[Len(list)]

Without(list, m) == Kept(list, Ids(list) \ {m})

\* The entries of the second list that the first does not have follow it:
\* getConversation, where the stored copy of a message wins over the session's
Merged(list, others) == list \o Kept(others, Ids(others) \ Ids(list))
=============================================================================
