----------------------------- MODULE GvspListener -----------------------------
(***************************************************************************)
(* The life of a stream receiver (src/gvsp/gvspreceiver.cpp): the program   *)
(* starts the receive thread and waits on a condition variable until the    *)
(* socket is bound, may restrict the stream to one camera, and joins the    *)
(* thread in the destructor.  The thread reads either a UDP socket or,      *)
(* with the CAP_NET_RAW capability, a ring of blocks the kernel fills       *)
(* (PACKET_MMAP, TPACKET_V3).  What doBuffer does with a datagram is module *)
(* GvspReceiver.                                                            *)
(***************************************************************************)
EXTENDS Integers, SequencesExt

CONSTANTS
  Senders,       \* who sends: with the transmitter's address, with its port
  RingBlocks,    \* req.tp_block_nr, 16 in the code
  BlockPackets,  \* bound: the datagrams a block of the ring holds
  QueueMax,      \* bound: the datagrams the UDP socket holds
  MaxDatagrams,  \* bound: the datagrams that arrive
  MaxWakes       \* bound: spurious wakeups of the condition variable

ASSUME ListenerAssumption ==
  /\ Senders \subseteq [host : BOOLEAN, port : BOOLEAN]
  /\ RingBlocks \in Nat \ {0} /\ BlockPackets \in Nat \ {0}
  /\ QueueMax \in Nat /\ MaxDatagrams \in Nat /\ MaxWakes \in Nat

VARIABLES
  program,     \* where the program is in the calls of Receiver
  multicast,   \* the camera sends to a group
  accept,      \* acceptFrom: "no", "stored" (the transmitter is), "done"
  anyHost,     \* the transmitter's address is 0, for any
  anyPort,     \* its port is
  thread,      \* where the receive thread is, "none" before listenUnicast
  mutex,       \* who holds d->mutex
  run,         \* the loop condition
  sd,          \* the UDP socket: "none", "unbound", "bound", "closed"
  port,        \* params.receiverPort is known
  socketType,  \* params.socketType
  raw,         \* the packet socket is open
  filtered,    \* it has a filter
  queue,       \* the datagrams in the UDP socket
  ring,        \* the blocks shared with the kernel
  current,     \* currentBlockNum, the block the thread reads
  next,        \* the datagram of that block it reads next
  head,        \* the block the kernel fills
  arrived,     \* how many datagrams have arrived
  handled,     \* the datagrams given to doBuffer
  early,       \* history: acceptFrom found no open packet socket to filter
  spurned,     \* history: a datagram acceptFrom asks for was turned away
  failed,      \* a call of the thread's set-up has failed
  wakes        \* spurious wakeups so far

options == <<multicast, accept, anyHost, anyPort, early>>
calls == <<program, options, wakes>>
sockets == <<sd, port, socketType, raw, filtered, failed>>
datagrams == <<queue, ring, current, next, head, arrived, handled, spurned>>
vars == <<calls, thread, mutex, run, sockets, datagrams>>

Blocks == 0..(RingBlocks - 1)

\* Mutant: the block after the last one.
AfterNoWrap(block) == block + 1

After(block) == (block + 1) % RingBlocks

\* Its sender, and whether acceptFrom had returned when it arrived.
Datagrams == [id : 1..MaxDatagrams, from : Senders, after : BOOLEAN]

\* Whether acceptFrom asks for a sender; 0 stands for any.
Wanted(from) == (from.host \/ anyHost) /\ (from.port \/ anyPort)

EmptyBlock == [status |-> "kernel", packets |-> <<>>]

Init ==
  /\ program = "created" /\ multicast = FALSE /\ accept = "no" /\ wakes = 0
  /\ anyHost = FALSE /\ anyPort = FALSE /\ early = FALSE /\ spurned = FALSE
  /\ thread = "none" /\ mutex = "free" /\ run = TRUE
  /\ sd = "none" /\ port = FALSE /\ socketType = "NoType"
  /\ raw = FALSE /\ filtered = FALSE /\ failed = FALSE
  /\ queue = <<>> /\ ring = [b \in Blocks |-> EmptyBlock]
  /\ current = 0 /\ next = 1 /\ head = 0
  /\ arrived = 0 /\ handled = <<>>
-----------------------------------------------------------------------------
(* The program *)

\* Mutant: the thread is started before the program waits, without the mutex.
ListenUnlocked ==
  \/ /\ program = "created" /\ accept # "stored"
     /\ program' = "spawned"
     /\ thread' = "lock"
     /\ UNCHANGED <<options, wakes, mutex, run, sockets, datagrams>>
  \/ /\ program = "spawned"
     /\ program' = "waiting"
     /\ UNCHANGED <<options, wakes, thread, mutex, run, sockets, datagrams>>

\* listenUnicast, or listenMulticast, which calls it: takes the mutex, starts the
\* thread and waits, which lets the mutex go.  A second call returns at once.
Listen ==
  /\ program = "created" /\ accept # "stored"
  /\ multicast' \in BOOLEAN
  /\ program' = "waiting"
  /\ thread' = "lock"
  /\ UNCHANGED <<accept, anyHost, anyPort, early, wakes, mutex, run, sockets,
                 datagrams>>

\* A condition variable may wake by itself, and the wait has no condition.
SpuriousWake ==
  /\ program = "waiting" /\ wakes < MaxWakes
  /\ program' = "woken"
  /\ wakes' = wakes + 1
  /\ UNCHANGED <<options, thread, mutex, run, sockets, datagrams>>

\* The wait takes the mutex again, and listenUnicast returns.
ListenReturns ==
  /\ program = "woken" /\ mutex = "free"
  /\ program' = "listening"
  /\ UNCHANGED <<options, wakes, thread, mutex, run, sockets, datagrams>>

\* acceptFrom, before or after listenUnicast: stores the transmitter, which the
\* thread reads, ...
AcceptFrom ==
  /\ program \in {"created", "listening"} /\ accept = "no"
  /\ accept' = "stored"
  /\ anyHost' \in BOOLEAN /\ anyPort' \in BOOLEAN
  /\ UNCHANGED <<program, multicast, early, wakes, thread, mutex, run, sockets,
                 datagrams>>

\* ... and puts a filter on the packet socket if the thread has said that it
\* uses one; setFilter on a socket that is not open yet fails.
SetFilter ==
  /\ accept = "stored"
  /\ accept' = "done"
  /\ filtered' = (socketType = "RingBuffer" /\ raw)
  /\ early' = (thread \in {"none", "lock", "bind", "notify", "choose", "open"})
  /\ UNCHANGED <<program, multicast, anyHost, anyPort, wakes, thread, mutex, run,
                 sd, port, socketType, raw, failed, datagrams>>

\* The destructor stops the loop if there is a thread, ...
Destroy ==
  /\ program \in {"created", "listening"} /\ accept # "stored"
  /\ IF thread = "none"
     THEN program' = "destroyed" /\ UNCHANGED run
     ELSE program' = "joining" /\ run' = FALSE
  /\ UNCHANGED <<options, wakes, thread, mutex, sockets, datagrams>>

\* ... and waits for its end.
Join ==
  /\ program = "joining" /\ thread = "ended"
  /\ program' = "destroyed"
  /\ UNCHANGED <<options, wakes, thread, mutex, run, sockets, datagrams>>
-----------------------------------------------------------------------------
(* The receive thread: loop *)

Goto(step) == thread' = step

\* Mutant: the lock is held for the notification only, and that comes first.
LockAndNotify ==
  /\ thread = "lock" /\ mutex = "free"
  /\ program' = IF program = "waiting" THEN "woken" ELSE program
  /\ Goto("bind")
  /\ UNCHANGED <<options, wakes, mutex, run, sockets, datagrams>>

Lock ==
  /\ thread = "lock" /\ mutex = "free"
  /\ mutex' = "thread"
  /\ Goto("bind")
  /\ UNCHANGED <<calls, run, sockets, datagrams>>

\* Opens and binds the UDP socket.  A failure is only logged, and the port is 0,
\* or whatever was on the stack when there is no socket at all.
Bind ==
  /\ thread = "bind"
  /\ \/ sd' = "bound" /\ port' = TRUE /\ UNCHANGED failed
     \/ sd' \in {"none", "unbound"} /\ failed' = TRUE /\ UNCHANGED port
  /\ Goto("notify")
  /\ UNCHANGED <<calls, mutex, run, socketType, raw, filtered, datagrams>>

\* Wakes the program and lets the mutex go.
Notify ==
  /\ thread = "notify"
  /\ program' = IF program = "waiting" THEN "woken" ELSE program
  /\ mutex' = "free"
  /\ Goto("choose")
  /\ UNCHANGED <<options, wakes, run, sockets, datagrams>>

\* With the capability the thread reads the ring; what the UDP socket gets is
\* then never read.
EnterRing ==
  /\ thread = "choose"
  /\ socketType' = "RingBuffer"
  /\ queue' = <<>>
  /\ Goto("open")
  /\ UNCHANGED <<calls, mutex, run, sd, port, raw, filtered, failed, ring,
                 current, next, head, arrived, handled, spurned>>

EnterUser ==
  /\ thread = "choose"
  /\ socketType' = "Classic"
  /\ Goto("loop")
  /\ UNCHANGED <<calls, mutex, run, sd, port, raw, filtered, failed, datagrams>>

\* Leaves the loop: closes the UDP socket; the purge of the blocks is in
\* module GvspReceiver.
Close ==
  /\ thread = "close"
  /\ sd' = IF sd = "none" THEN "none" ELSE "closed"
  /\ queue' = <<>>
  /\ Goto("ended")
  /\ UNCHANGED <<calls, mutex, run, port, socketType, raw, filtered, failed, ring,
                 current, next, head, arrived, handled, spurned>>
-----------------------------------------------------------------------------
(* The receive thread on the UDP socket: userStack *)

UserLoop ==
  /\ thread = "loop" /\ socketType = "Classic"
  /\ Goto(IF run THEN "poll" ELSE "close")
  /\ UNCHANGED <<calls, mutex, run, sockets, datagrams>>

PollTimeout ==
  /\ thread = "poll"
  /\ Goto("loop")
  /\ UNCHANGED <<calls, mutex, run, sockets, datagrams>>

\* Mutant: the address is not compared when the port is 0.
FromTransmitterAny(from) == anyHost \/ anyPort \/ (from.host /\ from.port)

\* The address is compared unless it is 0, then the port unless it is 0.
FromTransmitter(from) == (anyHost \/ from.host) /\ (anyPort \/ from.port)

\* Both are 0 until acceptFrom has stored them; while it does, the thread may see
\* each of them or not.
Read ==
  /\ thread = "poll" /\ queue # <<>>
  /\ LET from == Head(queue).from
     IN  \/ /\ accept # "done" \/ FromTransmitter(from)
            /\ handled' = Append(handled, Head(queue))
            /\ UNCHANGED spurned
         \/ /\ accept # "no" /\ ~FromTransmitter(from)
            /\ spurned' = (spurned \/ Wanted(from))
            /\ UNCHANGED handled
  /\ queue' = Tail(queue)
  /\ Goto("loop")
  /\ UNCHANGED <<calls, mutex, run, sockets, ring, current, next, head, arrived>>
-----------------------------------------------------------------------------
(* The receive thread on the ring: ringStack, doBlock *)

OpenRaw ==
  /\ thread = "open"
  /\ \/ raw' = TRUE /\ Goto("map") /\ UNCHANGED failed
     \/ failed' = TRUE /\ Goto("close") /\ UNCHANGED raw
  /\ UNCHANGED <<calls, mutex, run, sd, port, socketType, filtered, datagrams>>

\* Asks for the ring, maps it and binds the socket to the network interface.  If
\* one of them fails the packet socket stays open.
MapRing ==
  /\ thread = "map"
  /\ \/ Goto("loop") /\ UNCHANGED failed
     \/ failed' = TRUE /\ Goto("close")
  /\ UNCHANGED <<calls, mutex, run, sd, port, socketType, raw, filtered, datagrams>>

\* The next block is the thread's: it reads it; otherwise it polls for 10 ms.
RingLoop ==
  /\ thread = "loop" /\ socketType = "RingBuffer"
  /\ run /\ ring[current].status = "user"
  /\ Goto("block")
  /\ next' = 1
  /\ UNCHANGED <<calls, mutex, run, sockets, queue, ring, current, head, arrived,
                 handled, spurned>>

\* The kernel's filter is the only one: the thread does not look at the sender.
HandlePacket ==
  /\ thread = "block" /\ next <= Len(ring[current].packets)
  /\ handled' = Append(handled, ring[current].packets[next])
  /\ next' = next + 1
  /\ UNCHANGED <<calls, thread, mutex, run, sockets, queue, ring, current, head,
                 arrived, spurned>>

\* Mutant: the last datagram of a block is not read.
ReleaseBeforeLast ==
  /\ thread = "block" /\ next = Len(ring[current].packets)
  /\ ring' = [ring EXCEPT ![current] = EmptyBlock]
  /\ current' = After(current)
  /\ next' = 1
  /\ Goto("loop")
  /\ UNCHANGED <<calls, mutex, run, sockets, queue, head, arrived, handled, spurned>>

\* Gives the block back to the kernel, which forgets what was in it.
Release ==
  /\ thread = "block" /\ next > Len(ring[current].packets)
  /\ ring' = [ring EXCEPT ![current] = EmptyBlock]
  /\ current' = After(current)
  /\ next' = 1
  /\ Goto("loop")
  /\ UNCHANGED <<calls, mutex, run, sockets, queue, head, arrived, handled, spurned>>

LeaveRing ==
  /\ thread = "loop" /\ socketType = "RingBuffer" /\ ~run
  /\ raw' = FALSE
  /\ ring' = [b \in Blocks |-> EmptyBlock]
  /\ Goto("close")
  /\ UNCHANGED <<calls, mutex, run, sd, port, socketType, filtered, failed, queue,
                 current, next, head, arrived, handled, spurned>>
-----------------------------------------------------------------------------
(* The network and the kernel *)

Datagram(from) == [id |-> arrived + 1, from |-> from, after |-> accept = "done"]

Mapped == socketType = "RingBuffer" /\ thread \in {"loop", "block"}

\* A datagram for the UDP socket; a full socket drops it.
ArriveSocket(from) ==
  /\ sd = "bound" /\ socketType # "RingBuffer" /\ arrived < MaxDatagrams
  /\ queue' = IF Len(queue) < QueueMax THEN Append(queue, Datagram(from)) ELSE queue
  /\ arrived' = arrived + 1
  /\ UNCHANGED <<calls, thread, mutex, run, sockets, ring, current, next, head,
                 handled, spurned>>

\* The filter compares the sender with the transmitter, be it 0, and the
\* destination with the address of the receiver, be it sent to a group.
Passes(from) ==
  filtered => from.host /\ from.port /\ ~anyHost /\ ~anyPort /\ ~multicast

\* A datagram for the ring: the filter drops those of other hosts, a ring whose
\* next block is still the thread's drops everything.
ArriveRing(from) ==
  /\ Mapped /\ arrived < MaxDatagrams
  /\ IF Passes(from) /\ ring[head].status = "kernel"
     THEN /\ Len(ring[head].packets) < BlockPackets
          /\ ring' = [ring EXCEPT ![head].packets = Append(@, Datagram(from))]
     ELSE UNCHANGED ring
  /\ spurned' = (spurned \/ (~Passes(from) /\ Wanted(from)))
  /\ arrived' = arrived + 1
  /\ UNCHANGED <<calls, thread, mutex, run, sockets, queue, current, next, head,
                 handled>>

\* A block that is full, or older than 5 ms, is given to the thread.
Retire ==
  /\ Mapped /\ ring[head].status = "kernel" /\ ring[head].packets # <<>>
  /\ ring' = [ring EXCEPT ![head].status = "user"]
  /\ head' = After(head)
  /\ UNCHANGED <<calls, thread, mutex, run, sockets, queue, current, next, arrived,
                 handled, spurned>>

Arrive == \E from \in Senders : ArriveSocket(from) \/ ArriveRing(from)

Program ==
  \/ Listen
  \/ ListenReturns
  \/ SetFilter
  \/ Join

Thread ==
  \/ Lock
  \/ Bind
  \/ Notify
  \/ EnterRing
  \/ EnterUser
  \/ UserLoop
  \/ PollTimeout
  \/ Read
  \/ OpenRaw
  \/ MapRing
  \/ RingLoop
  \/ HandlePacket
  \/ Release
  \/ LeaveRing
  \/ Close

Next ==
  \/ Program
  \/ AcceptFrom
  \/ Destroy
  \/ SpuriousWake
  \/ Thread
  \/ Arrive
  \/ Retire

Spec == Init /\ [][Next]_vars

\* The two threads run; the program need not call, and nothing need arrive.
FairSpec ==
  /\ Spec
  /\ WF_vars(ListenReturns) /\ WF_vars(SetFilter) /\ WF_vars(Join)
  /\ WF_vars(Thread)
-----------------------------------------------------------------------------
(* Properties *)

\* The state of the receiver.
TypeOK ==
  /\ program \in {"created", "waiting", "woken", "listening", "joining",
                  "destroyed"}
  /\ accept \in {"no", "stored", "done"}
  /\ multicast \in BOOLEAN /\ anyHost \in BOOLEAN /\ anyPort \in BOOLEAN
  /\ early \in BOOLEAN /\ spurned \in BOOLEAN
  /\ wakes \in 0..MaxWakes
  /\ thread \in {"none", "lock", "bind", "notify", "choose", "open", "map", "loop",
                 "poll", "block", "close", "ended"}
  /\ mutex \in {"free", "thread"}
  /\ sd \in {"none", "unbound", "bound", "closed"}
  /\ socketType \in {"NoType", "Classic", "RingBuffer"}
  /\ run \in BOOLEAN /\ port \in BOOLEAN /\ raw \in BOOLEAN
  /\ filtered \in BOOLEAN /\ failed \in BOOLEAN
  /\ queue \in Seq(Datagrams) /\ Len(queue) <= QueueMax
  /\ ring \in [Blocks -> [status : {"kernel", "user"}, packets : Seq(Datagrams)]]
  /\ \A b \in Blocks : Len(ring[b].packets) <= BlockPackets
  /\ current \in Blocks /\ head \in Blocks
  /\ next \in 1..(BlockPackets + 1)
  /\ arrived \in 0..MaxDatagrams
  /\ handled \in Seq(Datagrams)

Listened == program \in {"listening", "joining"}

\* When it is the thread that has woken the program, the port is known: the
\* thread sets it under the mutex that the wait takes again.
NotifiedKnowsPort == Listened /\ wakes = 0 => port \/ failed

\* What acceptFrom comes to.  A sender it does not ask for is handled after it has
\* returned only if the thread reads the ring and had not opened it by then: the
\* filter was silently not set.  A sender it asks for is turned away only if the
\* filter was set, and for an address or port that is 0 or a stream sent to a group.
OnlyTransmitter ==
  /\ \A i \in DOMAIN handled :
       handled[i].after /\ ~Wanted(handled[i].from) =>
         socketType = "RingBuffer" /\ early
  /\ spurned =>
       /\ socketType = "RingBuffer" /\ accept = "done" /\ ~early
       /\ anyHost \/ anyPort \/ multicast

\* When the destructor has returned the thread is over and its sockets are
\* closed, except the packet socket of a ring that could not be set up.
NothingAfterJoin ==
  program = "destroyed" =>
    /\ thread \in {"none", "ended"}
    /\ sd \in {"none", "closed"}
    /\ raw => failed

\* The block k places after another one, in the order the kernel fills them.
Place(block, k) == (block + k) % RingBlocks

\* What the thread has not read yet of the block k places after the one it reads.
Unread(k) ==
  LET b == Place(current, k)
  IN  IF k = 0 /\ thread = "block"
      THEN SubSeq(ring[b].packets, next, Len(ring[b].packets))
      ELSE ring[b].packets

Parts == [k \in 1..RingBlocks |-> Unread(k - 1)]

\* The datagrams in the socket the thread reads, oldest first.
Waiting == IF socketType = "RingBuffer" THEN FlattenSeq(Parts) ELSE queue

Queue == INSTANCE GvspQueue WITH waiting <- Waiting

\* Whichever socket it reads, the thread hands the datagrams over once and in
\* the order of arrival: it reads the blocks of the ring in the order the kernel
\* gives them, and never a block the kernel has again.
ImplementsQueue == Queue!Spec

\* listenUnicast and the destructor return: the notification cannot be missed,
\* and both loops look at `run` at least every time their poll ends.
EveryCallReturns ==
  /\ program = "waiting" ~> program = "listening"
  /\ program = "joining" ~> program = "destroyed"
=============================================================================
