------------------------------ MODULE MCBringUp ------------------------------
(* Two cameras on the network of one interface, one of them on that of     *)
(* another as well, and the loopback interface.  A register has 2 bytes    *)
(* and a segment 4, so that a file is a part of a segment, some segments,  *)
(* or both, and ends within a register or not.                             *)
EXTENDS BringUp, TLC

CONSTANTS c1, c2, eth0, eth1, lo

MCInterfaces == {eth0, eth1, lo}
MCCameras == {c1, c2}
MCReach == (eth0 :> {c1, c2}) @@ (eth1 :> {c2}) @@ (lo :> {})
MCEthernet == {eth0, eth1}

Ack(success, type, sized) ==
  [header |-> TRUE, success |-> success, id |-> TRUE, type |-> type,
   sized |-> sized]

MCAnswers ==
  { Ack(TRUE, "discovery", TRUE), Ack(TRUE, "discovery", FALSE),
    Ack(FALSE, "discovery", TRUE), Ack(TRUE, "other", FALSE) }

Url(extension, size, zeros, entry) ==
  [local |-> TRUE, fields |-> 3, extension |-> extension, numbers |-> TRUE,
   address |-> 1, size |-> size, zeros |-> zeros, entry |-> entry]

(* A text has no zero, one at its end, one at its start or one inside.     *)
MCUrls ==
  { Url("xml", size, {}, FALSE) : size \in {0, 3, 4} }
  \cup { Url("xml", 2, {0, 1}, FALSE), Url("xml", 5, {4}, FALSE),
         Url("xml", 9, {2}, FALSE), Url("zip", 0, {}, FALSE),
         Url("zip", 3, {}, FALSE), Url("zip", 4, {}, TRUE),
         Url("zip", 6, {}, TRUE), Url("other", 5, {}, FALSE),
         [Url("xml", 5, {}, FALSE) EXCEPT !.local = FALSE],
         [Url("xml", 5, {}, FALSE) EXCEPT !.numbers = FALSE] }
=============================================================================
