------------------------------ MODULE MCRelay ------------------------------
(* Instances of Relay for TLC: who owns which device, which socket belongs *)
(* to which device, and what a sender encrypts for.                        *)
EXTENDS Relay

\* Devices and sockets of ann start with "a", those of bob with "b".
MCOwner == [d \in Device |-> IF d \in {"a1", "a2"} THEN "ann" ELSE "bob"]

\* A socket is named after its device: b1 and b1x are two tabs, or a socket
\* and its successor after a reconnect, of the same browser.
MCDeviceOf == [s \in Sid |-> CASE s \in {"sa1", "sa1x"} -> "a1"
                               [] s \in {"sb1", "sb1x"} -> "b1"
                               [] OTHER -> "b2"]

\* For every device of the recipient, or only for one of them: the sender
\* fetched the device list before the other one was registered.
AllCopies == {Device}
SomeCopies == {Device, {"b1"}}
=============================================================================
