--------------------------- MODULE MCGvcpSession ---------------------------
(* A client that meets two devices.                                        *)
EXTENDS GvcpSession

CONSTANTS d1, d2

MCDevices == {d1, d2}
=============================================================================
