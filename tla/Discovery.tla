------------------------------ MODULE Discovery ------------------------------
(***************************************************************************)
(* GvDevice::list (gvdevice.cpp): a broadcast on each interface, and the   *)
(* first datagram that answers it within five seconds.                     *)
(***************************************************************************)
EXTENDS Sequences, Naturals

CONSTANTS
  Interfaces,   \* those of the host
  Cameras,
  Reach,        \* the cameras on the network of each interface
  Ethernet,     \* interfaces of type Ethernet with an IPv4 address
  Answers,      \* what a camera may send back
  Garbage       \* what the packet of a loop holds that nobody has written

(* An answer has a header, a status, the id of the command, a type, and    *)
(* the length of a discovery acknowledgement or not.                       *)
DiscoveryAssumption ==
  /\ Ethernet \subseteq Interfaces
  /\ Reach \in [Interfaces -> SUBSET Cameras]
  /\ Garbage \notin Cameras
  /\ \A a \in Answers :
       /\ a.header \in BOOLEAN /\ a.success \in BOOLEAN /\ a.id \in BOOLEAN
       /\ a.type \in {"discovery", "other"} /\ a.sized \in BOOLEAN

VARIABLES
  stage,    \* "next", "poll", "listed" or "threw"
  todo,     \* interfaces the loop has still to visit
  iface,    \* the one whose socket is open
  queue,    \* the datagrams in it
  packet,   \* the camera whose data is in packet
  devices   \* devLst: the address, the data and, for the history, the type

vars == <<stage, todo, iface, queue, packet, devices>>

Init ==
  /\ stage = "next" /\ todo = Interfaces /\ iface = CHOOSE i \in Interfaces : TRUE
  /\ queue = <<>> /\ packet = Garbage /\ devices = <<>>

(* Loopback and the like.                                                  *)
Skip(i) ==
  /\ stage = "next"
  /\ i \in todo \ Ethernet
  /\ todo' = todo \ {i}
  /\ UNCHANGED <<stage, iface, queue, packet, devices>>

(* A new socket is bound and the command broadcast: either may throw, and  *)
(* then the devices found so far are lost.  The packet of this turn is     *)
(* where that of the last one was, and nobody clears it.                   *)
Broadcast(i) ==
  /\ stage = "next"
  /\ i \in todo \cap Ethernet
  /\ \/ stage' = "poll" /\ UNCHANGED devices
     \/ stage' = "threw" /\ devices' = <<>>
  /\ todo' = todo \ {i}
  /\ iface' = i
  /\ queue' = <<>>
  /\ packet' \in {packet, Garbage}

(* A camera on that network answers.                                       *)
Answer(c, a) ==
  /\ stage = "poll"
  /\ c \in Reach[iface]
  /\ \A k \in DOMAIN queue : queue[k].camera # c
  /\ queue' = Append(queue, [camera |-> c, answer |-> a])
  /\ UNCHANGED <<stage, todo, iface, packet, devices>>

IsPacketComplete(a) ==
  a.header /\ a.success /\ a.id /\ (a.type = "discovery" => a.sized)

(* One datagram is received, over what the packet held.                    *)
Take ==
  /\ stage = "poll"
  /\ queue # <<>>
  /\ LET c == Head(queue).camera
         a == Head(queue).answer
     IN  /\ packet' = IF a.type = "discovery"
                      THEN IF a.sized THEN c ELSE Garbage
                      ELSE packet
         /\ devices' = IF IsPacketComplete(a)
                       THEN Append(devices, [address |-> c, data |-> packet',
                                             type |-> a.type])
                       ELSE devices
  /\ stage' = "next"
  /\ queue' = <<>>
  /\ UNCHANGED <<todo, iface>>

(* Mutant: the interface is asked again until a camera answers.            *)
PollEndsRetries ==
  /\ stage = "poll"
  /\ queue = <<>>
  /\ stage' = "next"
  /\ todo' = todo \cup {iface}
  /\ UNCHANGED <<iface, queue, packet, devices>>

PollEnds ==
  /\ stage = "poll"
  /\ queue = <<>>
  /\ stage' = "next"
  /\ UNCHANGED <<todo, iface, queue, packet, devices>>

Finish ==
  /\ stage = "next"
  /\ todo = {}
  /\ stage' = "listed"
  /\ UNCHANGED <<todo, iface, queue, packet, devices>>

List ==
  \/ \E i \in Interfaces : Skip(i) \/ Broadcast(i)
  \/ Take \/ PollEnds \/ Finish

Next == List \/ \E c \in Cameras, a \in Answers : Answer(c, a)

Spec == Init /\ [][Next]_vars

-----------------------------------------------------------------------------
(* The variables have their types.                                         *)
TypeOK ==
  /\ stage \in {"next", "poll", "listed", "threw"}
  /\ todo \subseteq Interfaces /\ (stage = "poll" => iface \in Interfaces)
  /\ queue \in Seq([camera : Cameras, answer : Answers])
  /\ packet \in Cameras \cup {Garbage}
  /\ devices \in Seq([address : Cameras, data : Cameras \cup {Garbage},
                      type : {"discovery", "other"}])

(* The data of a listed device are those of the host whose address it has, *)
(* when its answer was an acknowledgement of discovery.                    *)
NamesItsSender ==
  \A k \in DOMAIN devices :
    devices[k].type = "discovery" => devices[k].data = devices[k].address
=============================================================================
