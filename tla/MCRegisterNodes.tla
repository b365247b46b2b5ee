--------------------------- MODULE MCRegisterNodes ---------------------------
(***************************************************************************)
(* Two threads and the heartbeat on one register of three bits: an integer *)
(* of two bits, big-endian, that may be given a value too wide, a boolean  *)
(* above it, little-endian, the whole register as an enumeration with two  *)
(* entries of one value, and a command whose value runs over its end.      *)
(***************************************************************************)
EXTENDS RegisterNodes, TLC

CONSTANTS t1, t2, control

MCThreads == {t1, t2}
MCRegisters == {control}
MCStrays == {{1}}
MCWriteAck == {0}
MCInitial == {{0, 2}}

MCNodes ==
  {[kind |-> "Integer", masked |-> TRUE, register |-> control,
    little |-> FALSE, lsb |-> 2, msb |-> 1,
    values |-> ("one" :> {0} @@ "two" :> {1} @@ "four" :> {2})],
   [kind |-> "Boolean", masked |-> TRUE, register |-> control,
    little |-> TRUE, lsb |-> 2, msb |-> 2,
    values |-> (TRUE :> {0} @@ FALSE :> {})],
   [kind |-> "Enumeration", masked |-> FALSE, register |-> control,
    little |-> FALSE, lsb |-> 2, msb |-> 0,
    values |-> <<{0, 2}, {0, 2}>>],
   [kind |-> "Command", masked |-> TRUE, register |-> control,
    little |-> FALSE, lsb |-> 1, msb |-> 1,
    values |-> ("execute" :> {0, 2})]}
=============================================================================
