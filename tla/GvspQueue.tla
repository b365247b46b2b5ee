------------------------------- MODULE GvspQueue -------------------------------
(***************************************************************************)
(* What the receive thread promises about the datagrams of a stream,       *)
(* whichever socket it reads (src/gvsp/gvspreceiver.cpp): each datagram it  *)
(* takes is given to doBuffer at most once and in the order of arrival, and *)
(* what has not been read when the stream ends is dropped.                  *)
(***************************************************************************)
EXTENDS SequencesExt

CONSTANT Datagrams   \* records that say whom they are from

VARIABLES
  waiting,   \* the datagrams taken and not read yet, oldest first
  handled    \* the datagrams given to doBuffer, oldest first

vars == <<waiting, handled>>

Init == waiting = <<>> /\ handled = <<>>

\* A datagram arrives, behind those that wait.
Take ==
  /\ waiting' # <<>>
  /\ Front(waiting') = waiting /\ Last(waiting') \in Datagrams
  /\ UNCHANGED handled

\* The thread reads the oldest datagram.
Handle ==
  /\ waiting # <<>>
  /\ waiting' = Tail(waiting)
  /\ handled' = Append(handled, Head(waiting))

\* The oldest datagram has another address or port than the transmitter's.
Ignore ==
  /\ waiting # <<>> /\ ~(Head(waiting).from.host /\ Head(waiting).from.port)
  /\ waiting' = Tail(waiting)
  /\ UNCHANGED handled

\* The thread turns away from a socket.
Discard ==
  /\ waiting' = <<>>
  /\ UNCHANGED handled

Next == Take \/ Handle \/ Ignore \/ Discard

Spec == Init /\ [][Next]_vars
=============================================================================
