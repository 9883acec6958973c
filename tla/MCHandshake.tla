---------------------------- MODULE MCHandshake ----------------------------
(* Instances of Handshake for TLC: whose page each client is. *)
EXTENDS Handshake

\* a1, a2 are pages of ann, b1, b2 of bob and c1 of carol.
MCUserOf == [c \in Client |-> IF c \in {"a1", "a2"} THEN "ann"
                              ELSE IF c = "c1" THEN "carol" ELSE "bob"]
=============================================================================
