---------------------------- MODULE MCGvspListener ----------------------------
(* A ring of two blocks; the transmitter, another port of its host, and its *)
(* port on another host, which between them differ in all the code compares. *)
EXTENDS GvspListener

MCSenders == [host : BOOLEAN, port : BOOLEAN] \ {[host |-> FALSE, port |-> FALSE]}
=============================================================================
