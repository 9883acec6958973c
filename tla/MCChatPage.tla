----------------------------- MODULE MCChatPage -----------------------------
(* Instances of ChatPage for TLC: two messages of the server, and one typed  *)
(* on the page.                                                              *)
EXTENDS ChatPage

TwoMessages == {1, 2}
NoneTyped == TwoMessages
OneTyped == TwoMessages \cup {-1}
TwoTyped == TwoMessages \cup {-1, -2}

\* Nothing distinguishes two peers; used where only safety is checked.
PeersAlike == Permutations(Conv)
=============================================================================
