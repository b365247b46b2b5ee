--------------------------- MODULE MCGvcpProceed ---------------------------
(* One client used by an application thread and its heartbeat thread.      *)
EXTENDS GvcpProceed

CONSTANTS app, heartbeat, client

MCThreads == {app, heartbeat}
MCClients == {client}
MCClientOf == [t \in MCThreads |-> client]
MCKinds == {"READREG", "WRITEREG"}
=============================================================================
