-------------------------- MODULE MCGvcpHeartbeat --------------------------
(* A tick is 100 ms.                                                       *)
EXTENDS GvcpHeartbeat

(* 300 ms, below the margin; 600 ms and a second.                          *)
MCTimeouts == {3, 6, 10}

(* The index in an acknowledgement of WRITEREG, and a large register.      *)
MCGarbage == {1, 15}
=============================================================================
