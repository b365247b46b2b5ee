---- MODULE MCGvspReceiver ----
(* GvspReceiver on a stream of three images of two sizes. *)
EXTENDS GvspReceiver
====
