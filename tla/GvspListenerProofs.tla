-------------------------- MODULE GvspListenerProofs --------------------------
(***************************************************************************)
(* The start and the end of the receive thread, its types, whose datagrams *)
(* it handles and in which order, for every size of the ring and of the    *)
(* socket, and every number of datagrams.                                  *)
(***************************************************************************)
EXTENDS GvspListener, SequenceTheorems, WellFoundedInduction, TLAPS

Notified == {"choose", "open", "map", "loop", "poll", "block", "close", "ended"}

\* The thread knows its port before it notifies, and unless a spurious wakeup
\* has come the program goes on only after that.
StartInv ==
  /\ thread \in Notified \cup {"notify"} => port \/ failed
  /\ wakes = 0 /\ program \in {"woken", "listening", "joining"} =>
       thread \in Notified

\* Where the thread holds its sockets.
EndInv ==
  /\ program = "created" => thread = "none"
  /\ program = "destroyed" => thread \in {"none", "ended"}
  /\ thread = "none" => sd = "none"
  /\ thread = "ended" => sd \in {"none", "closed"}
  /\ thread = "open" => socketType = "RingBuffer"
  /\ raw => /\ socketType = "RingBuffer"
            /\ thread \in {"map", "loop", "block", "close", "ended"}
            /\ thread \in {"close", "ended"} => failed

Inv == StartInv /\ EndInv /\ wakes \in Nat

LEMMA InitInv == Init => Inv
  BY DEF Init, Inv, StartInv, EndInv, Notified

\* A step of the program.
LEMMA ProgramInv ==
  Inv /\ (Program \/ AcceptFrom \/ Destroy \/ SpuriousWake) => Inv'
<1> SUFFICES ASSUME Inv, Program \/ AcceptFrom \/ Destroy \/ SpuriousWake
             PROVE  Inv'
  OBVIOUS
<1> USE DEF Inv, StartInv, EndInv, Notified, sockets, datagrams
<1>1. CASE Listen
  BY <1>1 DEF Listen
<1>2. CASE ListenReturns
  BY <1>2 DEF ListenReturns
<1>3. CASE SetFilter
  BY <1>3 DEF SetFilter
<1>4. CASE Join
  BY <1>4 DEF Join
<1>5. CASE AcceptFrom
  BY <1>5 DEF AcceptFrom
<1>6. CASE Destroy
  BY <1>6 DEF Destroy
<1>7. CASE SpuriousWake
  BY <1>7 DEF SpuriousWake
<1> QED
  BY <1>1, <1>2, <1>3, <1>4, <1>5, <1>6, <1>7 DEF Program

\* A step of the thread before it reads.
LEMMA StartStep ==
  Inv /\ (Lock \/ Bind \/ Notify \/ EnterRing \/ EnterUser \/ OpenRaw \/ MapRing)
    => Inv'
<1> SUFFICES ASSUME Inv,
                    \/ Lock \/ Bind \/ Notify \/ EnterRing \/ EnterUser
                    \/ OpenRaw \/ MapRing
             PROVE  Inv'
  OBVIOUS
<1> USE DEF Inv, StartInv, EndInv, Notified, Goto, calls, sockets, datagrams
<1>1. CASE Lock
  BY <1>1 DEF Lock
<1>2. CASE Bind
  BY <1>2 DEF Bind
<1>3. CASE Notify
  BY <1>3 DEF Notify
<1>4. CASE EnterRing
  BY <1>4 DEF EnterRing
<1>5. CASE EnterUser
  BY <1>5 DEF EnterUser
<1>6. CASE OpenRaw
  BY <1>6 DEF OpenRaw
<1>7. CASE MapRing
  BY <1>7 DEF MapRing
<1> QED
  BY <1>1, <1>2, <1>3, <1>4, <1>5, <1>6, <1>7

\* A step of the thread in one of its loops, or out of it.
LEMMA LoopStep ==
  Inv /\ (UserLoop \/ PollTimeout \/ Read \/ RingLoop \/ HandlePacket \/ Release
          \/ LeaveRing \/ Close)
    => Inv'
<1> SUFFICES ASSUME Inv,
                    \/ UserLoop \/ PollTimeout \/ Read \/ RingLoop
                    \/ HandlePacket \/ Release \/ LeaveRing \/ Close
             PROVE  Inv'
  OBVIOUS
<1> USE DEF Inv, StartInv, EndInv, Notified, Goto, calls, sockets, datagrams
<1>1. CASE UserLoop
  BY <1>1 DEF UserLoop
<1>2. CASE PollTimeout
  BY <1>2 DEF PollTimeout
<1>3. CASE Read
  BY <1>3 DEF Read
<1>4. CASE RingLoop
  BY <1>4 DEF RingLoop
<1>5. CASE HandlePacket
  BY <1>5 DEF HandlePacket
<1>6. CASE Release
  BY <1>6 DEF Release
<1>7. CASE LeaveRing
  BY <1>7 DEF LeaveRing
<1>8. CASE Close
  BY <1>8 DEF Close
<1> QED
  BY <1>1, <1>2, <1>3, <1>4, <1>5, <1>6, <1>7, <1>8

LEMMA NextInv == Inv /\ [Next]_vars => Inv'
<1> SUFFICES ASSUME Inv, [Next]_vars
             PROVE  Inv'
  OBVIOUS
<1>1. CASE Program \/ AcceptFrom \/ Destroy \/ SpuriousWake
  BY <1>1, ProgramInv
<1>2. CASE Thread
  BY <1>2, StartStep, LoopStep DEF Thread
<1>3. CASE Arrive \/ Retire \/ UNCHANGED vars
  BY <1>3 DEF Arrive, ArriveSocket, ArriveRing, Retire, vars, Inv, StartInv, EndInv,
              Notified, calls, sockets
<1> QED
  BY <1>1, <1>2, <1>3 DEF Next

\* listenUnicast never returns before the port is known, unless the condition
\* variable has woken by itself: what its wait without a condition relies on.
THEOREM Start == Spec => []NotifiedKnowsPort
<1>1. Inv => NotifiedKnowsPort
  BY DEF Inv, StartInv, NotifiedKnowsPort, Listened, Notified
<1> QED
  BY InitInv, NextInv, <1>1, PTL DEF Spec

\* After the destructor no thread runs and no socket is left open but the one of
\* a ring that could not be set up.
THEOREM End == Spec => []NothingAfterJoin
<1>1. Inv => NothingAfterJoin
  BY DEF Inv, EndInv, NothingAfterJoin
<1> QED
  BY InitInv, NextInv, <1>1, PTL DEF Spec

-----------------------------------------------------------------------------
(* Types *)

\* What a type says of a sequence after Append and Tail.
LEMMA AppendType ==
  ASSUME NEW S, NEW s \in Seq(S), NEW e \in S
  PROVE  /\ Append(s, e) \in Seq(S) /\ Len(Append(s, e)) = Len(s) + 1
         /\ \A i \in 1..Len(s) : Append(s, e)[i] = s[i]
         /\ Append(s, e)[Len(s) + 1] = e
  OBVIOUS

LEMMA TailType ==
  ASSUME NEW S, NEW s \in Seq(S), s # <<>>
  PROVE  /\ Head(s) \in S /\ Head(s) = s[1]
         /\ Tail(s) \in Seq(S) /\ Len(Tail(s)) = Len(s) - 1
         /\ \A i \in 1..Len(Tail(s)) : Tail(s)[i] = s[i + 1]
  OBVIOUS

LEMMA AfterType == \A b \in Blocks : After(b) \in Blocks
  BY ListenerAssumption DEF After, Blocks

\* The part of TypeOK about the ring.
RingOK ==
  /\ ring \in [Blocks -> [status : {"kernel", "user"}, packets : Seq(Datagrams)]]
  /\ \A b \in Blocks : Len(ring[b].packets) <= BlockPackets

LEMMA TypeInit == Init => TypeOK
<1> SUFFICES ASSUME Init PROVE TypeOK
  OBVIOUS
<1>1. /\ 0 \in Blocks /\ 1 \in 1..(BlockPackets + 1)
      /\ 0 \in 0..MaxWakes /\ 0 \in 0..MaxDatagrams
      /\ 0 <= QueueMax /\ 0 <= BlockPackets
  BY ListenerAssumption DEF Blocks
<1>2. RingOK
  BY <1>1 DEF Init, EmptyBlock, RingOK
<1> QED
  BY <1>1, <1>2 DEF Init, TypeOK, RingOK

\* The program takes nothing from a socket.
LEMMA TypeProgram ==
  TypeOK /\ (Program \/ AcceptFrom \/ Destroy \/ SpuriousWake) => TypeOK'
<1> SUFFICES ASSUME TypeOK, Program \/ AcceptFrom \/ Destroy \/ SpuriousWake
             PROVE  TypeOK'
  OBVIOUS
<1> USE DEF TypeOK, options, sockets, datagrams
<1>1. CASE Listen
  BY <1>1 DEF Listen
<1>2. CASE ListenReturns
  BY <1>2 DEF ListenReturns
<1>3. CASE SetFilter
  BY <1>3 DEF SetFilter
<1>4. CASE Join
  BY <1>4 DEF Join
<1>5. CASE AcceptFrom
  BY <1>5 DEF AcceptFrom
<1>6. CASE Destroy
  <2>1. run' \in BOOLEAN
    BY <1>6, Zenon DEF Destroy
  <2> QED
    BY <1>6, <2>1 DEF Destroy
<1>7. CASE SpuriousWake
  BY <1>7, ListenerAssumption DEF SpuriousWake
<1> QED
  BY <1>1, <1>2, <1>3, <1>4, <1>5, <1>6, <1>7 DEF Program

\* A step of the thread that takes nothing from a socket.
LEMMA TypeStart ==
  TypeOK /\ (Lock \/ Bind \/ Notify \/ EnterRing \/ EnterUser \/ OpenRaw \/ MapRing
             \/ UserLoop \/ PollTimeout \/ Close)
    => TypeOK'
<1> SUFFICES ASSUME TypeOK,
                    \/ Lock \/ Bind \/ Notify \/ EnterRing \/ EnterUser
                    \/ OpenRaw \/ MapRing \/ UserLoop \/ PollTimeout \/ Close
             PROVE  TypeOK'
  OBVIOUS
<1>0. <<>> \in Seq(Datagrams) /\ Len(<<>>) <= QueueMax
  BY ListenerAssumption
<1> USE <1>0 DEF TypeOK, Goto, options, calls, sockets, datagrams
<1>1. CASE Lock
  BY <1>1 DEF Lock
<1>2. CASE Bind
  <2>1. port' \in BOOLEAN /\ failed' \in BOOLEAN
    BY <1>2, Zenon DEF Bind
  <2> QED
    BY <1>2, <2>1 DEF Bind
<1>3. CASE Notify
  BY <1>3 DEF Notify
<1>4. CASE EnterRing
  BY <1>4 DEF EnterRing
<1>5. CASE EnterUser
  BY <1>5 DEF EnterUser
<1>6. CASE OpenRaw
  <2>1. raw' \in BOOLEAN /\ failed' \in BOOLEAN
    BY <1>6, Zenon DEF OpenRaw
  <2> QED
    BY <1>6, <2>1 DEF OpenRaw
<1>7. CASE MapRing
  <2>1. failed' \in BOOLEAN
    BY <1>7, Zenon DEF MapRing
  <2> QED
    BY <1>7, <2>1 DEF MapRing
<1>8. CASE UserLoop
  BY <1>8 DEF UserLoop
<1>9. CASE PollTimeout
  BY <1>9 DEF PollTimeout
<1>10. CASE Close
  BY <1>10 DEF Close
<1> QED
  BY <1>1, <1>2, <1>3, <1>4, <1>5, <1>6, <1>7, <1>8, <1>9, <1>10

\* A step that reads a socket, or gives a block back.
LEMMA TypeLoop ==
  TypeOK /\ (Read \/ RingLoop \/ HandlePacket \/ Release \/ LeaveRing) => TypeOK'
<1> SUFFICES ASSUME TypeOK,
                    Read \/ RingLoop \/ HandlePacket \/ Release \/ LeaveRing
             PROVE  TypeOK'
  OBVIOUS
<1>0. /\ 1 \in 1..(BlockPackets + 1)
      /\ EmptyBlock \in [status : {"kernel", "user"}, packets : Seq(Datagrams)]
      /\ Len(EmptyBlock.packets) <= BlockPackets
  BY ListenerAssumption DEF EmptyBlock
<1> USE DEF Goto, RingOK, options, calls, sockets
<1>1. CASE Read
  <2>1. /\ Tail(queue) \in Seq(Datagrams) /\ Head(queue) \in Datagrams
        /\ Len(Tail(queue)) <= QueueMax
    BY <1>1, TailType, ListenerAssumption DEF Read, TypeOK
  <2>2. Append(handled, Head(queue)) \in Seq(Datagrams)
    BY <2>1, AppendType DEF TypeOK
  <2>3. handled' \in Seq(Datagrams)
    BY <1>1, <2>2 DEF Read, TypeOK
  <2>4. UNCHANGED <<calls, mutex, run, sockets, ring, current, next, head, arrived>>
    BY <1>1 DEF Read
  <2>5. queue' = Tail(queue) /\ thread' = "loop"
    BY <1>1 DEF Read
  <2>6. spurned' \in BOOLEAN
    BY <1>1, Zenon DEF Read, TypeOK
  <2> QED
    BY <2>1, <2>3, <2>4, <2>5, <2>6 DEF TypeOK
<1>2. CASE RingLoop
  BY <1>0, <1>2 DEF RingLoop, TypeOK
<1>3. CASE HandlePacket
  <2>1. /\ Len(ring[current].packets) <= BlockPackets
        /\ ring[current].packets \in Seq(Datagrams)
    BY DEF TypeOK
  <2>2. ring[current].packets[next] \in Datagrams /\ next' \in 1..(BlockPackets + 1)
    BY <1>3, <2>1, ListenerAssumption DEF HandlePacket, TypeOK
  <2>3. handled' \in Seq(Datagrams)
    BY <1>3, <2>2, AppendType DEF HandlePacket, TypeOK
  <2> QED
    BY <1>3, <2>2, <2>3 DEF HandlePacket, TypeOK
<1>4. CASE Release
  <2>1. current' \in Blocks
    BY <1>4, AfterType DEF Release, TypeOK
  <2>2. RingOK'
    BY <1>0, <1>4 DEF Release, TypeOK
  <2> QED
    <3>1. next' \in 1..(BlockPackets + 1) /\ thread' = "loop"
      BY <1>0, <1>4 DEF Release
    <3>2. UNCHANGED <<calls, mutex, run, sockets, queue, head, arrived, handled,
                      spurned>>
      BY <1>4 DEF Release
    <3> QED
      BY <2>1, <2>2, <3>1, <3>2 DEF TypeOK
<1>5. CASE LeaveRing
  <2>1. RingOK'
    BY <1>0, <1>5 DEF LeaveRing
  <2> QED
    <3>1. raw' \in BOOLEAN /\ thread' = "close"
      BY <1>5, Zenon DEF LeaveRing, Goto
    <3>2. /\ UNCHANGED <<calls, mutex, run, sd, port, socketType, filtered, failed>>
          /\ UNCHANGED <<queue, current, next, head, arrived, handled, spurned>>
      BY <1>5 DEF LeaveRing
    <3> QED
      BY <2>1, <3>1, <3>2 DEF TypeOK
<1> QED
  BY <1>1, <1>2, <1>3, <1>4, <1>5

LEMMA DatagramType ==
  ASSUME TypeOK, arrived < MaxDatagrams, NEW from \in Senders
  PROVE  Datagram(from) \in Datagrams /\ arrived + 1 \in 0..MaxDatagrams
  BY ListenerAssumption DEF TypeOK, Datagram, Datagrams

\* The network and the kernel.
LEMMA TypeKernel == TypeOK /\ (Arrive \/ Retire) => TypeOK'
<1> SUFFICES ASSUME TypeOK, Arrive \/ Retire
             PROVE  TypeOK'
  OBVIOUS
<1> USE DEF RingOK, options, calls, sockets
<1>1. ASSUME NEW from \in Senders, ArriveSocket(from)
      PROVE  TypeOK'
  <2>1. Datagram(from) \in Datagrams /\ arrived' \in 0..MaxDatagrams
    BY <1>1, DatagramType DEF ArriveSocket
  <2>2. queue' \in Seq(Datagrams) /\ Len(queue') <= QueueMax
    BY <1>1, <2>1, AppendType, ListenerAssumption DEF ArriveSocket, TypeOK
  <2> QED
    BY <1>1, <2>1, <2>2 DEF ArriveSocket, TypeOK
<1>2. ASSUME NEW from \in Senders, ArriveRing(from)
      PROVE  TypeOK'
  <2>1. Datagram(from) \in Datagrams /\ arrived' \in 0..MaxDatagrams
    BY <1>2, DatagramType DEF ArriveRing
  <2>2. RingOK'
    <3>1. CASE ring' = ring
      BY <3>1 DEF TypeOK
    <3>2. CASE ring' # ring
      <4> DEFINE filled == Append(ring[head].packets, Datagram(from))
      <4>1. /\ ring' = [ring EXCEPT ![head].packets = filled]
            /\ Len(ring[head].packets) < BlockPackets
        BY <1>2, <3>2 DEF ArriveRing
      <4>2. /\ head \in Blocks /\ ring[head].packets \in Seq(Datagrams)
            /\ ring[head].status \in {"kernel", "user"}
        BY DEF TypeOK
      <4>3. filled \in Seq(Datagrams) /\ Len(filled) <= BlockPackets
        BY <2>1, <4>1, <4>2, AppendType, ListenerAssumption
      <4> QED
        BY <4>1, <4>2, <4>3 DEF TypeOK
    <3> QED
      BY <3>1, <3>2
  <2> QED
    BY <1>2, <2>1, <2>2 DEF ArriveRing, TypeOK
<1>3. CASE Retire
  <2>1. head' \in Blocks
    BY <1>3, AfterType DEF Retire, TypeOK
  <2>2. RingOK'
    BY <1>3 DEF Retire, TypeOK
  <2> QED
    BY <1>3, <2>1, <2>2 DEF Retire, TypeOK
<1> QED
  BY <1>1, <1>2, <1>3 DEF Arrive

LEMMA TypeNext == TypeOK /\ [Next]_vars => TypeOK'
<1> SUFFICES ASSUME TypeOK, [Next]_vars
             PROVE  TypeOK'
  OBVIOUS
<1>1. CASE UNCHANGED vars
  BY <1>1 DEF vars, options, calls, sockets, datagrams, TypeOK
<1> QED
  BY <1>1, TypeProgram, TypeStart, TypeLoop, TypeKernel DEF Next, Thread

\* Every variable keeps its type, whatever the size of the ring: no block takes
\* more than it holds, and the thread reads no further than a block's end.
THEOREM TypeCorrect == Spec => []TypeOK
  BY TypeInit, TypeNext, PTL DEF Spec

-----------------------------------------------------------------------------
(* The transmitter *)

\* Where the thread has not opened the packet socket.
Unopened == {"none", "lock", "bind", "notify", "choose", "open"}

\* The thread reads the socket its type says, and nothing before it has one.  The
\* packet socket has its filter once acceptFrom has returned, unless it came early.
SocketInv ==
  /\ thread \in {"none", "lock", "bind", "notify", "choose"} =>
       socketType = "NoType" /\ handled = <<>>
  /\ thread = "poll" => socketType = "Classic"
  /\ thread \in {"open", "map", "block"} => socketType = "RingBuffer"
  /\ filtered => socketType = "RingBuffer" /\ accept = "done" /\ ~early
  /\ socketType = "RingBuffer" /\ thread \in {"map", "loop", "block"} => raw
  /\ accept = "done" /\ (thread \in Unopened \/ raw) => filtered \/ early

\* Since acceptFrom has returned: nothing counts as arrived after it before it
\* has, and what the ring has got through a filter is what it asks for.
Since(d) == d.after => accept = "done"
Passed(d) == Since(d) /\ (d.after => Wanted(d.from) \/ early)

TransmitterInv ==
  /\ spurned => filtered /\ (anyHost \/ anyPort \/ multicast)
  /\ \A i \in 1..Len(queue) : Since(queue[i])
  /\ \A b \in Blocks : \A i \in 1..Len(ring[b].packets) : Passed(ring[b].packets[i])
  /\ \A i \in 1..Len(handled) :
       /\ Passed(handled[i])
       /\ handled[i].after /\ ~Wanted(handled[i].from) => socketType = "RingBuffer"

OwnInv == SocketInv /\ TransmitterInv

LEMMA OwnInit == Init => OwnInv
  BY DEF Init, OwnInv, SocketInv, TransmitterInv, EmptyBlock

\* The program: acceptFrom sets the filter when nothing has arrived after it.
LEMMA OwnProgram ==
  EndInv /\ TypeOK /\ OwnInv /\ (Program \/ AcceptFrom \/ Destroy \/ SpuriousWake)
    => OwnInv'
<1> SUFFICES ASSUME EndInv, TypeOK, OwnInv,
                    Program \/ AcceptFrom \/ Destroy \/ SpuriousWake
             PROVE  OwnInv'
  OBVIOUS
<1> USE DEF OwnInv, SocketInv, Unopened, TransmitterInv, Since, Passed, Wanted,
            options, sockets, datagrams
<1>1. CASE Listen
  BY <1>1 DEF Listen, EndInv
<1>2. CASE ListenReturns
  BY <1>2 DEF ListenReturns
<1>3. CASE SetFilter
  BY <1>3 DEF SetFilter, EndInv
<1>4. CASE Join
  BY <1>4 DEF Join
<1>5. CASE AcceptFrom
  BY <1>5 DEF AcceptFrom
<1>6. CASE Destroy
  BY <1>6 DEF Destroy
<1>7. CASE SpuriousWake
  BY <1>7 DEF SpuriousWake
<1> QED
  BY <1>1, <1>2, <1>3, <1>4, <1>5, <1>6, <1>7 DEF Program

\* The thread, while it takes nothing from a socket.
LEMMA OwnStart ==
  TypeOK /\ OwnInv /\ (Lock \/ Bind \/ Notify \/ EnterRing \/ EnterUser \/ OpenRaw
                       \/ MapRing \/ UserLoop \/ PollTimeout \/ Close)
    => OwnInv'
<1> SUFFICES ASSUME TypeOK, OwnInv,
                    \/ Lock \/ Bind \/ Notify \/ EnterRing \/ EnterUser
                    \/ OpenRaw \/ MapRing \/ UserLoop \/ PollTimeout \/ Close
             PROVE  OwnInv'
  OBVIOUS
<1> USE DEF OwnInv, SocketInv, Unopened, TransmitterInv, Since, Passed, Wanted,
            Goto, options, calls, sockets, datagrams
<1>1. CASE Lock
  BY <1>1 DEF Lock
<1>2. CASE Bind
  BY <1>2 DEF Bind
<1>3. CASE Notify
  BY <1>3 DEF Notify
<1>4. CASE EnterRing
  BY <1>4 DEF EnterRing
<1>5. CASE EnterUser
  BY <1>5 DEF EnterUser
<1>6. CASE OpenRaw
  BY <1>6 DEF OpenRaw
<1>7. CASE MapRing
  BY <1>7 DEF MapRing
<1>8. CASE UserLoop
  BY <1>8 DEF UserLoop
<1>9. CASE PollTimeout
  BY <1>9 DEF PollTimeout
<1>10. CASE Close
  BY <1>10 DEF Close
<1> QED
  BY <1>1, <1>2, <1>3, <1>4, <1>5, <1>6, <1>7, <1>8, <1>9, <1>10

\* The thread reads the UDP socket: it compares the sender.
LEMMA OwnRead == TypeOK /\ OwnInv /\ Read => OwnInv'
<1> SUFFICES ASSUME TypeOK, OwnInv, Read
             PROVE  OwnInv'
  OBVIOUS
<1>1. /\ queue # <<>> /\ queue \in Seq(Datagrams) /\ handled \in Seq(Datagrams)
      /\ queue' = Tail(queue) /\ thread' = "loop" /\ socketType = "Classic"
      /\ UNCHANGED <<calls, sockets, ring>>
  BY DEF Read, Goto, OwnInv, SocketInv, TypeOK
<1>2. Head(queue) = queue[1] /\ Since(Head(queue)) /\ Head(queue) \in Datagrams
  BY <1>1, TailType DEF OwnInv, TransmitterInv
<1>3. SocketInv'
  BY <1>1 DEF OwnInv, SocketInv, Unopened, options, calls, sockets
<1>4. \A i \in 1..Len(queue') : Since(queue[i + 1])
  BY <1>1, TailType DEF OwnInv, TransmitterInv
<1>5. \A i \in 1..Len(queue') : Since(queue[i])'
  BY <1>1, <1>4, TailType DEF Since, options, calls
<1>6. \/ handled' = handled
      \/ /\ handled' = Append(handled, queue[1])
         /\ Wanted(queue[1].from) \/ ~queue[1].after
  BY <1>2 DEF Read, FromTransmitter, Wanted, Since
<1>7. UNCHANGED spurned
  BY <1>1 DEF Read, FromTransmitter, Wanted, TypeOK
<1>8. (\A i \in 1..Len(handled) :
         /\ Passed(handled[i])
         /\ handled[i].after /\ ~Wanted(handled[i].from) => socketType = "RingBuffer")'
  <2>1. \A i \in 1..Len(handled) :
          Since(handled[i]) /\ (handled[i].after => Wanted(handled[i].from))
    BY <1>1 DEF OwnInv, TransmitterInv, Passed
  <2>2. UNCHANGED <<accept, anyHost, anyPort, early, socketType>>
    BY <1>1 DEF options, calls, sockets
  <2>3. CASE handled' = handled
    BY <2>1, <2>2, <2>3 DEF Passed, Since, Wanted
  <2>4. CASE /\ handled' = Append(handled, queue[1])
             /\ Wanted(queue[1].from) \/ ~queue[1].after
    <3>1. Since(queue[1]) /\ queue[1] \in Datagrams
      BY <1>2
    <3>2. \A i \in 1..Len(handled') :
            \/ handled'[i] = queue[1]
            \/ i \in 1..Len(handled) /\ handled'[i] = handled[i]
      <4>1. handled \in Seq(Datagrams)
        BY <1>1
      <4>2. /\ Len(handled') = Len(handled) + 1
            /\ \A i \in 1..Len(handled) : handled'[i] = handled[i]
            /\ handled'[Len(handled) + 1] = queue[1]
        BY <2>4, <3>1, <4>1, AppendType
      <4>3. Len(handled) \in Nat
        BY <4>1
      <4> QED
        BY <4>2, <4>3
    <3> QED
      BY <2>1, <2>2, <2>4, <3>1, <3>2 DEF Passed, Since, Wanted
  <2> QED
    BY <1>6, <2>3, <2>4
<1> QED
  BY <1>1, <1>3, <1>5, <1>7, <1>8
     DEF OwnInv, TransmitterInv, Passed, Since, Wanted, options, calls, sockets

\* The thread reads the ring: the filter has compared the sender.
LEMMA OwnRing ==
  TypeOK /\ OwnInv /\ (RingLoop \/ HandlePacket \/ Release \/ LeaveRing) => OwnInv'
<1> SUFFICES ASSUME TypeOK, OwnInv,
                    RingLoop \/ HandlePacket \/ Release \/ LeaveRing
             PROVE  OwnInv'
  OBVIOUS
<1> USE DEF Goto, options, calls, sockets
<1>1. CASE RingLoop
  BY <1>1 DEF RingLoop, OwnInv, SocketInv, Unopened, TransmitterInv, Passed, Since, Wanted
<1>2. CASE HandlePacket
  <2> DEFINE d == ring[current].packets[next]
  <2>1. /\ handled' = Append(handled, d) /\ socketType = "RingBuffer"
        /\ UNCHANGED <<calls, thread, sockets, queue, ring, spurned>>
    BY <1>2 DEF HandlePacket, OwnInv, SocketInv
  <2>2. d \in Datagrams /\ Passed(d)
    BY <1>2 DEF HandlePacket, TypeOK, OwnInv, TransmitterInv
  <2>3. (\A i \in 1..Len(handled) :
           /\ Passed(handled[i])
           /\ handled[i].after /\ ~Wanted(handled[i].from) => socketType = "RingBuffer")'
    <3>1. /\ Len(handled') = Len(handled) + 1
          /\ \A i \in 1..Len(handled) : handled'[i] = handled[i]
          /\ handled'[Len(handled) + 1] = d
      BY <2>1, <2>2, AppendType DEF TypeOK
    <3>2. \A i \in 1..Len(handled') :
            \/ handled'[i] = d
            \/ i \in 1..Len(handled) /\ handled'[i] = handled[i]
      <4>1. Len(handled) \in Nat
        BY DEF TypeOK
      <4> HIDE DEF d
      <4> QED
        BY <3>1, <4>1
    <3>3. UNCHANGED <<accept, anyHost, anyPort, early, socketType>>
      BY <2>1
    <3>4. \A i \in 1..Len(handled) :
            /\ Passed(handled[i])
            /\ handled[i].after /\ ~Wanted(handled[i].from) => socketType = "RingBuffer"
      BY DEF OwnInv, TransmitterInv
    <3> HIDE DEF d
    <3> QED
      BY <2>1, <2>2, <3>2, <3>3, <3>4 DEF Passed, Since, Wanted
  <2>4. SocketInv'
    BY <1>2, <2>1 DEF HandlePacket, OwnInv, SocketInv, Unopened
  <2> QED
    BY <2>1, <2>3, <2>4 DEF OwnInv, TransmitterInv, Passed, Since, Wanted
<1>3. CASE Release
  <2>1. \A b \in Blocks : ring'[b] = ring[b] \/ ring'[b].packets = <<>>
    BY <1>3 DEF Release, TypeOK, EmptyBlock
  <2> QED
    BY <1>3, <2>1
       DEF Release, OwnInv, SocketInv, Unopened, TransmitterInv, Passed, Since, Wanted
<1>4. CASE LeaveRing
  <2>1. \A b \in Blocks : ring'[b].packets = <<>>
    BY <1>4 DEF LeaveRing, EmptyBlock
  <2> QED
    BY <1>4, <2>1
       DEF LeaveRing, OwnInv, SocketInv, Unopened, TransmitterInv, Passed, Since, Wanted
<1> QED
  BY <1>1, <1>2, <1>3, <1>4

LEMMA OwnKernel == TypeOK /\ EndInv /\ OwnInv /\ (Arrive \/ Retire) => OwnInv'
<1> SUFFICES ASSUME TypeOK, EndInv, OwnInv, Arrive \/ Retire
             PROVE  OwnInv'
  OBVIOUS
<1> USE DEF options, calls, sockets
<1>1. ASSUME NEW from \in Senders, ArriveSocket(from)
      PROVE  OwnInv'
  <2>1. Datagram(from) \in Datagrams /\ Since(Datagram(from))
    BY <1>1, DatagramType DEF ArriveSocket, Since, Datagram
  <2>2. \A i \in 1..Len(queue') : Since(queue'[i])
    BY <1>1, <2>1, AppendType DEF ArriveSocket, TypeOK, OwnInv, TransmitterInv
  <2> QED
    BY <1>1, <2>2
       DEF ArriveSocket, OwnInv, SocketInv, Unopened, TransmitterInv, Passed, Since,
           Wanted
<1>2. ASSUME NEW from \in Senders, ArriveRing(from)
      PROVE  OwnInv'
  <2>1. Datagram(from) \in Datagrams /\ Since(Datagram(from))
    BY <1>2, DatagramType DEF ArriveRing, Since, Datagram
  <2>2. \A b \in Blocks : \A i \in 1..Len(ring'[b].packets) :
          Passed(ring'[b].packets[i])
    <3>1. CASE ring' = ring
      BY <3>1 DEF OwnInv, TransmitterInv
    <3>2. CASE ring' # ring
      <4> DEFINE filled == Append(ring[head].packets, Datagram(from))
      <4>1. ring' = [ring EXCEPT ![head].packets = filled] /\ Passes(from)
        BY <1>2, <3>2 DEF ArriveRing
      <4>2. head \in Blocks /\ ring[head].packets \in Seq(Datagrams)
        BY DEF TypeOK
      <4>3. Passed(Datagram(from))
        BY <1>2, <2>1, <4>1
           DEF ArriveRing, Mapped, Passes, Passed, Datagram, Wanted, OwnInv, SocketInv
      <4>4. \A i \in 1..Len(filled) : Passed(filled[i])
        BY <2>1, <4>2, <4>3, AppendType DEF OwnInv, TransmitterInv
      <4> QED
        BY <4>1, <4>2, <4>4 DEF TypeOK, OwnInv, TransmitterInv
    <3> QED
      BY <3>1, <3>2
  <2>3. spurned' => filtered /\ (anyHost \/ anyPort \/ multicast)
    BY <1>2 DEF ArriveRing, Passes, Wanted, OwnInv, TransmitterInv
  <2> QED
    BY <1>2, <2>2, <2>3
       DEF ArriveRing, OwnInv, SocketInv, Unopened, TransmitterInv, Passed, Since, Wanted
<1>3. CASE Retire
  <2>1. \A b \in Blocks : ring'[b].packets = ring[b].packets
    BY <1>3 DEF Retire, TypeOK
  <2> QED
    BY <1>3, <2>1
       DEF Retire, OwnInv, SocketInv, Unopened, TransmitterInv, Passed, Since, Wanted
<1> QED
  BY <1>1, <1>2, <1>3 DEF Arrive

LEMMA OwnNext == TypeOK /\ Inv /\ OwnInv /\ [Next]_vars => OwnInv'
<1> SUFFICES ASSUME TypeOK, Inv, OwnInv, [Next]_vars
             PROVE  OwnInv'
  OBVIOUS
<1>1. EndInv
  BY DEF Inv
<1>2. CASE UNCHANGED vars
  BY <1>2 DEF vars, options, calls, sockets, datagrams, OwnInv, SocketInv,
              Unopened, TransmitterInv, Passed, Since, Wanted
<1> QED
  BY <1>1, <1>2, OwnProgram, OwnStart, OwnRead, OwnRing, OwnKernel DEF Next, Thread

\* A sender that acceptFrom does not ask for is handled after it has returned on
\* the ring only, and only if acceptFrom overtook the opening of the packet socket;
\* one it asks for is turned away by the filter only, and only for an address or
\* port that is 0 or a stream sent to a group: whenever acceptFrom is called, for
\* any senders, and every interleaving of program, thread and kernel.
THEOREM Transmitter == Spec => []OnlyTransmitter
<1>1. TypeOK /\ OwnInv => OnlyTransmitter
  <2> SUFFICES ASSUME TypeOK, OwnInv
               PROVE  OnlyTransmitter
    OBVIOUS
  <2>1. ASSUME NEW i \in DOMAIN handled, handled[i].after, ~Wanted(handled[i].from)
        PROVE  socketType = "RingBuffer" /\ early
    <3>1. i \in 1..Len(handled)
      BY DEF TypeOK
    <3> QED
      BY <2>1, <3>1, Zenon DEF OwnInv, TransmitterInv, Passed
  <2>2. spurned => /\ socketType = "RingBuffer" /\ accept = "done" /\ ~early
                   /\ anyHost \/ anyPort \/ multicast
    BY Zenon DEF OwnInv, SocketInv, TransmitterInv
  <2> QED
    BY <2>1, <2>2 DEF OnlyTransmitter
<1> QED
  BY InitInv, NextInv, OwnInit, OwnNext, TypeCorrect, <1>1, PTL DEF Spec

-----------------------------------------------------------------------------
(* The concatenation of the blocks of the ring, by induction on their number *)

\* What holds of 1 and of every successor up to n holds from 1 to n.
LEMMA Upward ==
  ASSUME NEW n \in Nat, NEW S, 1 \in S, \A i \in 1..(n - 1) : i \in S => i + 1 \in S
  PROVE  1..n \subseteq S
<1> DEFINE Missing == {i \in 1..n : i \notin S}
<1>1. SUFFICES ASSUME Missing # {} PROVE FALSE
  OBVIOUS
<1>2. PICK i \in Missing : \A j \in Missing : ~(j < i)
  <2>1. Missing \subseteq Nat
    OBVIOUS
  <2> HIDE DEF Missing
  <2>2. PICK i \in Missing : \A j \in Missing : <<j, i>> \notin OpToRel(<, Nat)
    BY <1>1, <2>1, WFMin, NatLessThanWellFounded
  <2> QED
    BY <2>1, <2>2 DEF OpToRel
<1>3. i # 1 /\ i - 1 \in 1..(n - 1) /\ i - 1 \notin Missing
  BY <1>2
<1> QED
  BY <1>2, <1>3

\* f is the running concatenation of the first n sequences of seqs.
Runs(f, seqs, n, S) ==
  /\ f \in [1..n -> Seq(S)]
  /\ f[1] = seqs[1]
  /\ \A i \in 1..(n - 1) : f[i + 1] = f[i] \o seqs[i + 1]

LEMMA RunsExist ==
  ASSUME NEW S, NEW seqs \in Seq(Seq(S)), seqs # <<>>
  PROVE  \E f : Runs(f, seqs, Len(seqs), S)
<1> DEFINE n == Len(seqs)
           Good == {m \in 1..n : \E f : Runs(f, seqs, m, S)}
<1>1. n \in Nat /\ n >= 1 /\ \A i \in 1..n : seqs[i] \in Seq(S)
  OBVIOUS
<1> HIDE DEF n
<1>2. 1 \in Good
  <2>1. Runs([i \in 1..1 |-> seqs[1]], seqs, 1, S)
    BY <1>1 DEF Runs
  <2> QED
    BY <1>1, <2>1
<1>3. ASSUME NEW m \in 1..(n - 1), m \in Good PROVE m + 1 \in Good
  <2>1. PICK f : Runs(f, seqs, m, S)
    BY <1>3
  <2> DEFINE longer == f[m] \o seqs[m + 1]
             g == [i \in 1..(m + 1) |-> IF i = m + 1 THEN longer ELSE f[i]]
  <2>2. longer \in Seq(S)
    <3>1. f[m] \in Seq(S) /\ seqs[m + 1] \in Seq(S)
      BY <1>1, <2>1 DEF Runs
    <3> QED BY <3>1
  <2>3. \A i \in 1..m : g[i] = f[i]
    BY <1>1
  <2>4. g[m + 1] = longer
    <3> HIDE DEF longer
    <3> QED BY <1>1
  <2>5. g \in [1..(m + 1) -> Seq(S)]
    <3> HIDE DEF longer
    <3> QED
    BY <1>1, <2>1, <2>2 DEF Runs
  <2>6. \A i \in 1..m : g[i + 1] = g[i] \o seqs[i + 1]
    <3> TAKE i \in 1..m
    <3>1. CASE i = m
      BY <3>1, <2>3, <2>4
    <3>2. CASE i # m
      <4>1. i \in 1..(m - 1) /\ i + 1 \in 1..m
        BY <3>2, <1>1
      <4> HIDE DEF g, longer
      <4> QED
      BY <4>1, <2>1, <2>3 DEF Runs
    <3> QED BY <3>1, <3>2
  <2>7. Runs(g, seqs, m + 1, S)
    <3>1. (m + 1) - 1 = m /\ 1 \in 1..m
      BY <1>1
    <3> HIDE DEF g
    <3> QED
      BY <2>1, <2>3, <2>5, <2>6, <3>1 DEF Runs
  <2> QED
    <3>1. m + 1 \in 1..n
      BY <1>1
    <3> HIDE DEF g
    <3> QED BY <3>1, <2>7
<1>4. n \in Good
  <2> HIDE DEF Good
  <2>1. 1..n \subseteq Good
    BY <1>1, <1>2, <1>3, Upward
  <2> QED
    BY <1>1, <2>1
<1> QED
  BY <1>4 DEF n

\* FlattenSeq chooses such a function, and takes what it says of the last one.
LEMMA FlattenSeqRuns ==
  ASSUME NEW S, NEW seqs \in Seq(Seq(S)), seqs # <<>>
  PROVE  \E f : Runs(f, seqs, Len(seqs), S) /\ FlattenSeq(seqs) = f[Len(seqs)]
<1> DEFINE n == Len(seqs)
           Eq(f) == f = [i \in 1..n |-> IF i = 1 THEN seqs[i] ELSE f[i - 1] \o seqs[i]]
           h == CHOOSE h : Eq(h)
<1>1. n \in Nat /\ n >= 1 /\ \A i \in 1..n : seqs[i] \in Seq(S)
  OBVIOUS
<1>2. FlattenSeq(seqs) = h[n]
  BY <1>1 DEF FlattenSeq
<1> HIDE DEF n
<1>3. PICK f : Runs(f, seqs, n, S)
  BY RunsExist DEF n
<1>4. Eq(f)
  <2> DEFINE g == [i \in 1..n |-> IF i = 1 THEN seqs[i] ELSE f[i - 1] \o seqs[i]]
  <2>1. ASSUME NEW i \in 1..n PROVE f[i] = g[i]
    <3>1. CASE i = 1
      BY <1>3, <3>1 DEF Runs
    <3>2. CASE i # 1
      <4>1. i - 1 \in 1..(n - 1) /\ (i - 1) + 1 = i
        BY <1>1, <3>2
      <4>2. f[(i - 1) + 1] = f[i - 1] \o seqs[(i - 1) + 1]
        BY <1>3, <4>1 DEF Runs
      <4> QED BY <3>2, <4>1, <4>2
    <3> QED BY <3>1, <3>2
  <2>2. f = [i \in 1..n |-> f[i]]
    BY <1>3 DEF Runs
  <2> QED
    BY <2>1, <2>2
<1>5. Eq(h)
  <2> HIDE DEF Eq
  <2> QED BY <1>4, Zenon
<1> HIDE DEF h
<1>6. h[1] = seqs[1] /\ \A i \in 1..(n - 1) : h[i + 1] = h[i] \o seqs[i + 1]
  <2>1. h[1] = seqs[1]
    BY <1>1, <1>5
  <2>2. ASSUME NEW i \in 1..(n - 1) PROVE h[i + 1] = h[i] \o seqs[i + 1]
    <3>1. i + 1 \in 1..n /\ i + 1 # 1 /\ (i + 1) - 1 = i
      BY <1>1
    <3> QED BY <1>5, <3>1
  <2> QED BY <2>1, <2>2
<1>7. h \in [1..n -> Seq(S)]
  <2> DEFINE Typed == {i \in 1..n : h[i] \in Seq(S)}
  <2>1. 1 \in Typed
    BY <1>1, <1>6
  <2>2. ASSUME NEW i \in 1..(n - 1), i \in Typed PROVE i + 1 \in Typed
    <3>1. i + 1 \in 1..n /\ seqs[i + 1] \in Seq(S) /\ h[i] \in Seq(S)
      BY <1>1, <2>2
    <3>2. h[i] \o seqs[i + 1] \in Seq(S)
      BY <3>1
    <3> QED BY <3>1, <3>2, <1>6
  <2>3. 1..n \subseteq Typed
    <3> HIDE DEF Typed
    <3> QED BY <1>1, <2>1, <2>2, Upward
  <2> QED BY <1>5, <2>3
<1> QED
  BY <1>2, <1>6, <1>7 DEF n, Runs

\* What f adds at i + 1, when it joins n sequences.
Adds(f, seqs, i, n, S) ==
  /\ f[i + 1] = f[i] \o seqs[i + 1]
  /\ f[i] \in Seq(S) /\ f[i + 1] \in Seq(S) /\ seqs[i + 1] \in Seq(S)
  /\ i \in 1..n /\ i + 1 \in 1..n

LEMMA RunsAdds ==
  ASSUME NEW S, NEW n \in Nat, NEW seqs \in [1..n -> Seq(S)], NEW f,
         Runs(f, seqs, n, S), NEW i \in 1..(n - 1)
  PROVE  Adds(f, seqs, i, n, S)
<1>1. i \in 1..n /\ i + 1 \in 1..n
  OBVIOUS
<1>2. f[i + 1] = f[i] \o seqs[i + 1]
  BY Zenon DEF Runs
<1>3. f[i] \in Seq(S) /\ f[i + 1] \in Seq(S)
  BY <1>1 DEF Runs
<1> QED
  BY <1>1, <1>2, <1>3 DEF Adds

\* The concatenation of n sequences, as the steps a proof by Upward takes.
LEMMA FlattenJoins ==
  ASSUME NEW S, NEW n \in Nat, n # 0, NEW seqs \in [1..n -> Seq(S)]
  PROVE  /\ 1 \in 1..n /\ n \in 1..n
         /\ \E f : /\ f[1] = seqs[1] /\ FlattenSeq(seqs) = f[n]
                  /\ \A i \in 1..(n - 1) : Adds(f, seqs, i, n, S)
<1>1. seqs \in Seq(Seq(S)) /\ Len(seqs) = n /\ seqs # <<>>
  OBVIOUS
<1>2. PICK f : Runs(f, seqs, n, S) /\ FlattenSeq(seqs) = f[n]
  BY <1>1, FlattenSeqRuns
<1>3. f[1] = seqs[1]
  BY <1>2 DEF Runs
<1>4. \A i \in 1..(n - 1) : Adds(f, seqs, i, n, S)
  BY <1>2, RunsAdds
<1> QED
  BY <1>2, <1>3, <1>4

\* Appending to a concatenation is appending to its second part.
AppendsLast(s, t, e) == s \o Append(t, e) = Append(s \o t, e)

LEMMA ConcatAppend ==
  ASSUME NEW S, NEW s \in Seq(S), NEW t \in Seq(S), NEW e \in S
  PROVE  AppendsLast(s, t, e)
  BY DEF AppendsLast

LEMMA ConcatEmpty ==
  ASSUME NEW S, NEW s \in Seq(S)
  PROVE  s \o <<>> = s /\ <<>> \o s = s
  OBVIOUS

LEMMA ConcatTail ==
  ASSUME NEW S, NEW s \in Seq(S), NEW t \in Seq(S), s # <<>>
  PROVE  /\ s \o t # <<>> /\ Head(s \o t) = Head(s)
         /\ Tail(s \o t) = Tail(s) \o t
  OBVIOUS

LEMMA FlattenEmpty ==
  ASSUME NEW S, NEW n \in Nat, n # 0, NEW seqs \in [1..n -> Seq(S)],
         \A i \in 1..n : seqs[i] = <<>>
  PROVE  FlattenSeq(seqs) = <<>>
<1>1. PICK f : /\ f[1] = seqs[1] /\ FlattenSeq(seqs) = f[n]
              /\ \A i \in 1..(n - 1) : Adds(f, seqs, i, n, S)
  BY FlattenJoins
<1> DEFINE Empty == {i \in 1..n : f[i] = <<>>}
<1>2. 1 \in Empty
  BY <1>1, FlattenJoins
<1>3. ASSUME NEW i \in 1..(n - 1), f[i] = <<>>
      PROVE  i + 1 \in 1..n /\ f[i + 1] = <<>>
  <2>1. i + 1 \in 1..n /\ f[i + 1] = f[i] \o seqs[i + 1]
    BY <1>1, Zenon DEF Adds
  <2>2. f[i + 1] = <<>> \o <<>>
    BY <1>3, <2>1
  <2> QED
    BY <2>1, <2>2
<1>4. 1..n \subseteq Empty
  BY <1>2, <1>3, Upward
<1> QED
  BY <1>1, <1>4, FlattenJoins

\* e is appended to the sequence at j, after which there are only empty ones.
AppendedAt(more, seqs, j, e, n) ==
  /\ more[j] = Append(seqs[j], e)
  /\ \A i \in 1..n : i # j => more[i] = seqs[i]
  /\ \A i \in 1..n : i > j => seqs[i] = <<>>

\* What the concatenations up to i are before (s) and after it (t).
Longer(t, s, i, j, e) == t = IF i < j THEN s ELSE Append(s, e)

LEMMA AppendStep ==
  ASSUME NEW S, NEW n \in Nat, n # 0, NEW seqs \in [1..n -> Seq(S)], NEW e \in S,
         NEW more, NEW j \in 1..n, AppendedAt(more, seqs, j, e, n),
         NEW i \in 1..(n - 1), NEW s \in Seq(S), NEW t,
         Longer(t, s, i, j, e)
  PROVE  Longer(t \o more[i + 1], s \o seqs[i + 1], i + 1, j, e)
<1>1. i + 1 \in 1..n /\ seqs[i + 1] \in Seq(S)
  OBVIOUS
<1>2. CASE i + 1 < j
  <2>1. i < j /\ i + 1 # j
    BY <1>2
  <2>2. t = s
    BY <2>1, Zenon DEF Longer
  <2>3. more[i + 1] = seqs[i + 1]
    BY <1>1, <2>1, Zenon DEF AppendedAt
  <2> QED
    BY <1>2, <2>2, <2>3, Zenon DEF Longer
<1>3. CASE i + 1 = j
  <2>1. i < j /\ ~(i + 1 < j)
    BY <1>3
  <2>2. t = s
    BY <2>1, Zenon DEF Longer
  <2>3. more[i + 1] = Append(seqs[i + 1], e)
    BY <1>3, Zenon DEF AppendedAt
  <2>4. AppendsLast(s, seqs[i + 1], e)
    BY <1>1, ConcatAppend
  <2> QED
    BY <2>1, <2>2, <2>3, <2>4, Zenon DEF Longer, AppendsLast
<1>4. CASE i + 1 > j
  <2>1. ~(i < j) /\ ~(i + 1 < j) /\ i + 1 # j
    BY <1>4
  <2>2. t = Append(s, e)
    BY <2>1, Zenon DEF Longer
  <2>3. more[i + 1] = <<>> /\ seqs[i + 1] = <<>>
    BY <1>1, <1>4, <2>1, Zenon DEF AppendedAt
  <2>4. Append(s, e) \in Seq(S)
    BY AppendType, Zenon
  <2>5. Append(s, e) \o <<>> = Append(s, e) /\ s \o <<>> = s
    BY <2>4, ConcatEmpty, Zenon
  <2> QED
    BY <2>1, <2>2, <2>3, <2>5, Zenon DEF Longer
<1>5. i + 1 < j \/ i + 1 = j \/ i + 1 > j
  OBVIOUS
<1> QED
  BY <1>2, <1>3, <1>4, <1>5, Zenon

\* What is appended to the last sequence that is not empty comes last.
FlattensTo(more, seqs, e) == FlattenSeq(more) = Append(FlattenSeq(seqs), e)

LEMMA FlattenAppend ==
  ASSUME NEW S, NEW n \in Nat, n # 0, NEW seqs \in [1..n -> Seq(S)], NEW e \in S,
         NEW more \in [1..n -> Seq(S)], NEW j \in 1..n,
         AppendedAt(more, seqs, j, e, n)
  PROVE  FlattensTo(more, seqs, e)
<1>1. PICK f : /\ f[1] = seqs[1] /\ FlattenSeq(seqs) = f[n]
              /\ \A i \in 1..(n - 1) : Adds(f, seqs, i, n, S)
  BY FlattenJoins
<1>2. PICK g : /\ g[1] = more[1] /\ FlattenSeq(more) = g[n]
              /\ \A i \in 1..(n - 1) : Adds(g, more, i, n, S)
  BY FlattenJoins
<1> DEFINE Held(i) == Longer(g[i], f[i], i, j, e)
           Good == {i \in 1..n : Held(i)}
<1>3. 1 \in 1..n /\ Held(1)
  <2>1. f[1] = seqs[1] /\ 1 \in 1..n
    BY <1>1, FlattenJoins
  <2>2. g[1] = more[1]
    BY <1>2, FlattenJoins
  <2>3. CASE 1 < j
    <3>1. 1 # j
      BY <2>3
    <3>2. more[1] = seqs[1]
      BY <2>1, <3>1, Zenon DEF AppendedAt
    <3> QED
      BY <2>1, <2>2, <2>3, <3>2, Zenon DEF Longer
  <2>4. CASE ~(1 < j)
    <3>1. 1 = j
      BY <2>4
    <3> QED
      BY <2>1, <2>2, <2>4, <3>1, Zenon DEF AppendedAt, Longer
  <2> QED
    BY <2>3, <2>4, Zenon
<1>4. ASSUME NEW i \in 1..(n - 1), Held(i) PROVE i + 1 \in 1..n /\ Held(i + 1)
  <2>1. i + 1 \in 1..n /\ f[i + 1] = f[i] \o seqs[i + 1] /\ f[i] \in Seq(S)
    BY <1>1, Zenon DEF Adds
  <2>2. g[i + 1] = g[i] \o more[i + 1]
    BY <1>2, Zenon DEF Adds
  <2>3. Longer(g[i] \o more[i + 1], f[i] \o seqs[i + 1], i + 1, j, e)
    BY <1>4, <2>1, AppendStep, Zenon
  <2> QED
    BY <2>1, <2>2, <2>3, Zenon
<1>5. \A i \in 1..(n - 1) : i \in Good => i + 1 \in Good
  <2> HIDE DEF Held
  <2> QED
    BY <1>4
<1>6. 1..n \subseteq Good
  <2>1. 1 \in Good
    BY <1>3
  <2> HIDE DEF Good
  <2> QED
    BY <1>5, <2>1, Upward
<1>7. n \in 1..n /\ ~(n < j)
  OBVIOUS
<1> QED
  BY <1>1, <1>2, <1>6, <1>7 DEF Longer, FlattensTo

\* The first of them loses its first element.
TailOf(rest, seqs, n) ==
  /\ seqs[1] # <<>> /\ rest[1] = Tail(seqs[1])
  /\ \A i \in 1..n : i # 1 => rest[i] = seqs[i]

LEMMA FlattenTail ==
  ASSUME NEW S, NEW n \in Nat, n # 0, NEW seqs \in [1..n -> Seq(S)],
         NEW rest \in [1..n -> Seq(S)], TailOf(rest, seqs, n)
  PROVE  /\ FlattenSeq(seqs) # <<>>
         /\ Head(FlattenSeq(seqs)) = Head(seqs[1])
         /\ FlattenSeq(rest) = Tail(FlattenSeq(seqs))
<1>1. PICK f : /\ f[1] = seqs[1] /\ FlattenSeq(seqs) = f[n]
              /\ \A i \in 1..(n - 1) : Adds(f, seqs, i, n, S)
  BY FlattenJoins
<1>2. PICK g : /\ g[1] = rest[1] /\ FlattenSeq(rest) = g[n]
              /\ \A i \in 1..(n - 1) : Adds(g, rest, i, n, S)
  BY FlattenJoins
<1> DEFINE Held(i) == /\ f[i] # <<>> /\ Head(f[i]) = Head(seqs[1])
                      /\ g[i] = Tail(f[i])
           Good == {i \in 1..n : Held(i)}
<1>3. 1 \in 1..n /\ Held(1)
  <2>1. f[1] = seqs[1] /\ g[1] = rest[1] /\ 1 \in 1..n
    BY <1>1, <1>2, FlattenJoins
  <2> QED
    BY <2>1 DEF TailOf
<1>4. ASSUME NEW i \in 1..(n - 1), Held(i) PROVE i + 1 \in 1..n /\ Held(i + 1)
  <2> HIDE DEF Held
  <2>1. /\ i + 1 \in 1..n /\ f[i + 1] = f[i] \o seqs[i + 1]
        /\ f[i] \in Seq(S) /\ seqs[i + 1] \in Seq(S)
    BY <1>1, Zenon DEF Adds
  <2>2. g[i + 1] = g[i] \o seqs[i + 1]
    <3>1. i + 1 # 1
      OBVIOUS
    <3>2. rest[i + 1] = seqs[i + 1]
      BY <2>1, <3>1, Zenon DEF TailOf
    <3> QED
      BY <1>2, <3>2, Zenon DEF Adds
  <2>3. f[i] # <<>> /\ Head(f[i]) = Head(seqs[1]) /\ g[i] = Tail(f[i])
    BY <1>4 DEF Held
  <2>4. /\ f[i] \o seqs[i + 1] # <<>> /\ Head(f[i] \o seqs[i + 1]) = Head(f[i])
        /\ Tail(f[i] \o seqs[i + 1]) = Tail(f[i]) \o seqs[i + 1]
    BY <2>1, <2>3, ConcatTail, Zenon
  <2> QED
    BY <2>1, <2>2, <2>3, <2>4, Zenon DEF Held
<1>5. \A i \in 1..(n - 1) : i \in Good => i + 1 \in Good
  <2> HIDE DEF Held
  <2> QED
    BY <1>4
<1>6. 1..n \subseteq Good
  <2>1. 1 \in Good
    BY <1>3
  <2> HIDE DEF Good
  <2> QED
    BY <1>5, <2>1, Upward
<1>7. n \in 1..n
  OBVIOUS
<1> QED
  BY <1>1, <1>2, <1>6, <1>7

\* The first of them is empty and goes to the end.
ShiftOf(left, seqs, n) ==
  /\ seqs[1] = <<>> /\ left[n] = <<>>
  /\ \A i \in 1..(n - 1) : left[i] = seqs[i + 1]

LEMMA FlattenShift ==
  ASSUME NEW S, NEW n \in Nat, n # 0, NEW seqs \in [1..n -> Seq(S)],
         NEW left \in [1..n -> Seq(S)], ShiftOf(left, seqs, n)
  PROVE  FlattenSeq(left) = FlattenSeq(seqs)
<1>1. PICK f : /\ f[1] = seqs[1] /\ FlattenSeq(seqs) = f[n]
              /\ \A i \in 1..(n - 1) : Adds(f, seqs, i, n, S)
  BY FlattenJoins
<1>2. PICK g : /\ g[1] = left[1] /\ FlattenSeq(left) = g[n]
              /\ \A i \in 1..(n - 1) : Adds(g, left, i, n, S)
  BY FlattenJoins
<1> DEFINE Held(i) == g[i] = IF i = n THEN f[n] ELSE f[i + 1]
           Good == {i \in 1..n : Held(i)}
<1>3. 1 \in 1..n /\ Held(1)
  <2>1. f[1] = <<>> /\ g[1] = left[1] /\ 1 \in 1..n
    BY <1>1, <1>2, FlattenJoins DEF ShiftOf
  <2>2. CASE n = 1
    BY <2>1, <2>2 DEF ShiftOf
  <2>3. CASE n # 1
    <3>1. 1 \in 1..(n - 1)
      BY <2>3
    <3>2. f[1 + 1] = f[1] \o seqs[1 + 1] /\ seqs[1 + 1] \in Seq(S)
      BY <1>1, <3>1, Zenon DEF Adds
    <3>3. f[1 + 1] = seqs[1 + 1]
      BY <2>1, <3>2, ConcatEmpty, Zenon
    <3>4. left[1] = seqs[1 + 1]
      BY <3>1, Zenon DEF ShiftOf
    <3>5. 1 # n /\ g[1] = f[1 + 1]
      BY <2>1, <2>3, <3>3, <3>4, Zenon
    <3> QED
      BY <2>1, <3>5, Zenon
  <2> QED
    BY <2>2, <2>3
<1>4. ASSUME NEW i \in 1..(n - 1), Held(i) PROVE i + 1 \in 1..n /\ Held(i + 1)
  <2> HIDE DEF Held
  <2>1. i + 1 \in 1..n /\ f[i + 1] \in Seq(S)
    BY <1>1, Zenon DEF Adds
  <2>2. g[i + 1] = f[i + 1] \o left[i + 1]
    <3>1. i # n
      OBVIOUS
    <3>2. g[i] = f[i + 1]
      BY <1>4, <3>1, Zenon DEF Held
    <3> QED
      BY <1>2, <3>2, Zenon DEF Adds
  <2>3. CASE i + 1 = n
    <3>1. left[i + 1] = <<>>
      BY <2>3 DEF ShiftOf
    <3>2. g[i + 1] = f[i + 1]
      BY <2>1, <2>2, <3>1, ConcatEmpty, Zenon
    <3> QED
      BY <2>1, <2>3, <3>2, Zenon DEF Held
  <2>4. CASE i + 1 # n
    <3>1. i + 1 \in 1..(n - 1)
      BY <2>4
    <3>2. f[(i + 1) + 1] = f[i + 1] \o seqs[(i + 1) + 1]
      BY <1>1, <3>1, Zenon DEF Adds
    <3>3. left[i + 1] = seqs[(i + 1) + 1]
      BY <3>1, Zenon DEF ShiftOf
    <3>4. g[i + 1] = f[(i + 1) + 1]
      BY <2>1, <2>2, <3>2, <3>3, Zenon
    <3> QED
      BY <2>1, <2>4, <3>4, Zenon DEF Held
  <2> QED
    BY <2>3, <2>4
<1>5. \A i \in 1..(n - 1) : i \in Good => i + 1 \in Good
  <2> HIDE DEF Held
  <2> QED
    BY <1>4
<1>6. 1..n \subseteq Good
  <2>1. 1 \in Good
    BY <1>3
  <2> HIDE DEF Good
  <2> QED
    BY <1>5, <2>1, Upward
<1>7. n \in 1..n
  OBVIOUS
<1> QED
  BY <1>1, <1>2, <1>6, <1>7

LEMMA FlattenType ==
  ASSUME NEW S, NEW n \in Nat, n # 0, NEW seqs \in [1..n -> Seq(S)]
  PROVE  FlattenSeq(seqs) \in Seq(S)
<1>1. seqs \in Seq(Seq(S)) /\ Len(seqs) = n /\ seqs # <<>>
  OBVIOUS
<1>2. PICK f : Runs(f, seqs, n, S) /\ FlattenSeq(seqs) = f[n]
  BY <1>1, FlattenSeqRuns
<1> QED
  BY <1>2 DEF Runs

-----------------------------------------------------------------------------
(* The ring *)

\* The remainder of a sum that is less than twice the divisor.
LEMMA Modulo ==
  ASSUME NEW n \in Nat, n # 0, NEW b \in 0..(n - 1), NEW k \in 0..n
  PROVE  (b + k) % n = IF b + k < n THEN b + k ELSE b + k - n
<1>1. ASSUME NEW x \in 0..(n - 1) PROVE x % n = x
  OBVIOUS
<1>2. ASSUME NEW x \in n..(2 * n - 1) PROVE x % n = x - n
  OBVIOUS
<1>3. CASE b + k < n
  <2>1. b + k \in 0..(n - 1)
    BY <1>3
  <2> QED
    BY <1>1, <1>3, <2>1
<1>4. CASE b + k >= n
  <2>1. b + k \in n..(2 * n - 1)
    BY <1>4
  <2>2. (b + k) % n = (b + k) - n
    BY <1>2, <2>1
  <2> QED
    BY <1>4, <2>2
<1> QED
  BY <1>3, <1>4

LEMMA PlaceEq ==
  ASSUME NEW b \in Blocks, NEW k \in 0..RingBlocks
  PROVE  Place(b, k) = IF b + k < RingBlocks THEN b + k ELSE b + k - RingBlocks
  BY Modulo, ListenerAssumption DEF Place, Blocks

\* The blocks in the order of Place: each of them once, and all of them.
LEMMA Places ==
  ASSUME NEW b \in Blocks
  PROVE  /\ \A k \in 0..RingBlocks : Place(b, k) \in Blocks
         /\ Place(b, 0) = b /\ Place(b, RingBlocks) = b
         /\ \A k, l \in 0..(RingBlocks - 1) : Place(b, k) = Place(b, l) => k = l
         /\ \A k \in 0..(RingBlocks - 1) :
              /\ Place(After(b), k) = Place(b, k + 1)
              /\ After(Place(b, k)) = Place(b, k + 1)
<1> DEFINE N == RingBlocks
<1>1. N \in Nat /\ N # 0 /\ b \in 0..(N - 1) /\ Blocks = 0..(N - 1)
  BY ListenerAssumption DEF Blocks
<1>2. \A k \in 0..N : Place(b, k) = IF b + k < N THEN b + k ELSE b + k - N
  BY PlaceEq
<1>3. \A k \in 0..N : Place(b, k) \in Blocks
  BY <1>1, <1>2
<1>4. Place(b, 0) = b /\ Place(b, N) = b
  BY <1>1, <1>2
<1>5. \A k, l \in 0..(N - 1) : Place(b, k) = Place(b, l) => k = l
  BY <1>1, <1>2
<1>6. \A c \in Blocks : After(c) = IF c + 1 < N THEN c + 1 ELSE 0
  <2>1. \A c \in Blocks : After(c) = Place(c, 1)
    BY DEF After, Place
  <2> QED
    BY <1>1, <2>1, PlaceEq
<1>7. \A k \in 0..(N - 1) : After(Place(b, k)) = Place(b, k + 1)
  <2> TAKE k \in 0..(N - 1)
  <2>1. Place(b, k) \in Blocks /\ k \in 0..N /\ k + 1 \in 0..N
    BY <1>1, <1>3
  <2>2. After(Place(b, k)) = IF Place(b, k) + 1 < N THEN Place(b, k) + 1 ELSE 0
    BY <1>6, <2>1
  <2>3. /\ Place(b, k) = IF b + k < N THEN b + k ELSE b + k - N
        /\ Place(b, k + 1) = IF b + (k + 1) < N THEN b + (k + 1) ELSE b + (k + 1) - N
    BY <1>2, <2>1
  <2> QED
    BY <1>1, <2>1, <2>2, <2>3
<1>8. \A k \in 0..(N - 1) : Place(After(b), k) = Place(b, k + 1)
  <2>1. After(b) \in Blocks
    BY <1>1, <1>6
  <2>2. \A k \in 0..N :
          Place(After(b), k) = IF After(b) + k < N THEN After(b) + k
                               ELSE After(b) + k - N
    BY <2>1, PlaceEq
  <2> QED
    <3> TAKE k \in 0..(N - 1)
    <3>1. k \in 0..N /\ k + 1 \in 0..N
      BY <1>1
    <3>2. /\ After(b) = IF b + 1 < N THEN b + 1 ELSE 0
          /\ Place(After(b), k) = IF After(b) + k < N THEN After(b) + k
                                  ELSE After(b) + k - N
          /\ Place(b, k + 1) = IF b + (k + 1) < N THEN b + (k + 1) ELSE b + (k + 1) - N
      BY <1>2, <1>6, <2>2, <3>1
    <3> QED
      BY <1>1, <2>1, <3>1, <3>2
<1> QED
  BY <1>3, <1>4, <1>5, <1>7, <1>8

\* The h blocks from the one the thread reads are its own, the kernel fills the
\* one after them, and those beyond are empty.
Given(h) ==
  /\ head = Place(current, h)
  /\ \A k \in 0..(RingBlocks - 1) :
       /\ ring[Place(current, k)].status = IF k < h THEN "user" ELSE "kernel"
       /\ k > h => ring[Place(current, k)].packets = <<>>

AllEmpty == ring = [b \in Blocks |-> EmptyBlock]

RingInv ==
  /\ socketType # "RingBuffer" => current = head /\ AllEmpty
  /\ thread \in {"open", "map", "close", "ended"} => AllEmpty
  /\ socketType = "RingBuffer" /\ thread \notin {"close", "ended"} =>
       \E h \in 0..RingBlocks : Given(h)
  /\ thread = "block" => ring[current].status = "user"

LEMMA EmptyGiven ==
  ASSUME TypeOK, AllEmpty, current = head
  PROVE  \E h \in 0..RingBlocks : Given(h)
<1>1. Given(0)
  <2>1. RingBlocks \in Nat /\ current \in Blocks
    BY ListenerAssumption DEF TypeOK
  <2>2. \A k \in 0..(RingBlocks - 1) : Place(current, k) \in Blocks /\ ~(k < 0)
    BY <2>1, Places
  <2>3. current = Place(current, 0)
    BY <2>1, Places
  <2> QED
    BY <2>2, <2>3 DEF Given, AllEmpty, EmptyBlock
<1> QED
  BY <1>1, ListenerAssumption

\* The kernel fills a block the thread does not have.
LEMMA KernelHead ==
  ASSUME TypeOK, NEW h \in 0..RingBlocks, Given(h), ring[head].status = "kernel"
  PROVE  h \in 0..(RingBlocks - 1)
<1>1. RingBlocks \in Nat /\ RingBlocks # 0 /\ current \in Blocks
  BY ListenerAssumption DEF TypeOK
<1> SUFFICES ASSUME h = RingBlocks
             PROVE  FALSE
  BY <1>1
<1>2. head = Place(current, 0) /\ 0 \in 0..(RingBlocks - 1) /\ 0 < h
  BY <1>1, Places DEF Given
<1> QED
  BY <1>2 DEF Given

\* The ring keeps its order: RingInv is inductive.
LEMMA RingInit == Init => RingInv
  BY DEF Init, RingInv, AllEmpty

\* The steps that leave the ring as it is.
LEMMA RingProgram ==
  RingInv /\ (Program \/ AcceptFrom \/ Destroy \/ SpuriousWake)
          /\ EndInv /\ SocketInv
    => RingInv'
<1> SUFFICES ASSUME RingInv, Program \/ AcceptFrom \/ Destroy \/ SpuriousWake,
                    EndInv, SocketInv
             PROVE  RingInv'
  OBVIOUS
<1>1. UNCHANGED <<ring, current, head, socketType>>
  BY DEF Program, Listen, ListenReturns, SetFilter, Join, AcceptFrom, Destroy,
         SpuriousWake, sockets, datagrams
<1>2. (\A h : Given(h)' <=> Given(h)) /\ (AllEmpty' <=> AllEmpty)
  BY <1>1 DEF Given, AllEmpty, Place
<1>3. UNCHANGED thread \/ (thread = "none" /\ thread' = "lock")
  <2>1. CASE Listen
    BY <2>1 DEF Listen, EndInv
  <2>2. CASE ListenReturns \/ SetFilter \/ Join
    BY <2>2 DEF ListenReturns, SetFilter, Join
  <2>3. CASE AcceptFrom \/ Destroy \/ SpuriousWake
    BY <2>3 DEF AcceptFrom, Destroy, SpuriousWake
  <2> QED
    BY <2>1, <2>2, <2>3 DEF Program
<1> QED
  BY <1>1, <1>2, <1>3 DEF RingInv, SocketInv

LEMMA RingStart ==
  ASSUME TypeOK, SocketInv, RingInv,
         \/ Lock \/ Bind \/ Notify \/ EnterRing \/ EnterUser \/ OpenRaw \/ MapRing
         \/ UserLoop \/ PollTimeout \/ Close \/ Read \/ RingLoop \/ HandlePacket
  PROVE  RingInv'
<1>1. UNCHANGED <<ring, current, head>>
  BY DEF Lock, Bind, Notify, EnterRing, EnterUser, UserLoop, PollTimeout, Read,
         OpenRaw, MapRing, RingLoop, HandlePacket, Close, datagrams
<1>2. (\A h : Given(h)' <=> Given(h)) /\ (AllEmpty' <=> AllEmpty)
  BY <1>1 DEF Given, AllEmpty, Place
<1> USE <1>1, <1>2 DEF RingInv, SocketInv, Goto, sockets
<1>3. CASE Lock \/ Bind \/ Notify
  BY <1>3 DEF Lock, Bind, Notify
<1>4. CASE EnterRing
  BY <1>4, EmptyGiven DEF EnterRing
<1>5. CASE EnterUser
  BY <1>5 DEF EnterUser
<1>6. CASE OpenRaw \/ MapRing
  BY <1>6 DEF OpenRaw, MapRing
<1>7. CASE UserLoop \/ PollTimeout \/ Close \/ Read
  BY <1>7 DEF UserLoop, PollTimeout, Close, Read
<1>8. CASE RingLoop \/ HandlePacket
  BY <1>8 DEF RingLoop, HandlePacket
<1> QED
  BY <1>3, <1>4, <1>5, <1>6, <1>7, <1>8

\* The thread gives a block back: it is the last of those the kernel fills.
LEMMA RingRelease == TypeOK /\ SocketInv /\ RingInv /\ Release => RingInv'
<1> SUFFICES ASSUME TypeOK, SocketInv, RingInv, Release
             PROVE  RingInv'
  OBVIOUS
<1>1. /\ socketType = "RingBuffer" /\ UNCHANGED socketType
      /\ thread = "block" /\ thread' = "loop"
      /\ ring' = [ring EXCEPT ![current] = EmptyBlock]
      /\ current' = After(current) /\ UNCHANGED head
  BY DEF Release, SocketInv, Goto, sockets
<1>2. PICK h \in 0..RingBlocks : Given(h)
  BY <1>1 DEF RingInv
<1>3. /\ RingBlocks \in Nat \ {0} /\ current \in Blocks
      /\ ring \in [Blocks -> [status : {"kernel", "user"}, packets : Seq(Datagrams)]]
  BY ListenerAssumption DEF TypeOK
<1>4. h # 0
  <2>1. ring[Place(current, 0)].status = "user" /\ 0 \in 0..(RingBlocks - 1)
    BY <1>1, <1>3, Places DEF RingInv
  <2> QED
    BY <1>2, <2>1 DEF Given
<1>5. \A k \in 0..RingBlocks :
        k # RingBlocks => Place(current', k) = Place(current, k + 1)
  BY <1>1, <1>3, Places
<1>6. Given(h - 1)'
  <2>1. head' = Place(current', h - 1)
    BY <1>1, <1>2, <1>3, <1>4, <1>5 DEF Given
  <2>2. ASSUME NEW k \in 0..(RingBlocks - 1)
        PROVE  /\ ring'[Place(current', k)].status =
                    IF k < h - 1 THEN "user" ELSE "kernel"
               /\ k > h - 1 => ring'[Place(current', k)].packets = <<>>
    <3>1. CASE k = RingBlocks - 1
      <4>1. Place(current', k) = current
        BY <1>3, <1>5, <3>1, Places
      <4>2. ring'[Place(current', k)] = EmptyBlock
        BY <1>1, <1>3, <4>1
      <4> QED
        BY <1>3, <3>1, <4>2 DEF EmptyBlock
    <3>2. CASE k # RingBlocks - 1
      <4>1. k + 1 \in 0..(RingBlocks - 1) /\ k + 1 # 0 /\ 0 \in 0..(RingBlocks - 1)
        BY <1>3, <3>2
      <4>2. Place(current', k) = Place(current, k + 1)
        BY <1>3, <1>5
      <4>3. Place(current, k + 1) # current /\ Place(current, k + 1) \in Blocks
        BY <1>3, <4>1, Places
      <4>4. ring'[Place(current', k)] = ring[Place(current, k + 1)]
        BY <1>1, <1>3, <4>2, <4>3
      <4>5. /\ ring[Place(current, k + 1)].status = IF k + 1 < h THEN "user" ELSE "kernel"
            /\ k + 1 > h => ring[Place(current, k + 1)].packets = <<>>
        BY <1>2, <4>1 DEF Given
      <4> QED
        BY <4>4, <4>5
    <3> QED
      BY <3>1, <3>2
  <2> QED
    BY <2>1, <2>2 DEF Given
<1>7. h - 1 \in 0..RingBlocks
  BY <1>3, <1>4
<1> QED
  BY <1>1, <1>6, <1>7 DEF RingInv

LEMMA RingLeave == RingInv /\ LeaveRing => RingInv'
<1> SUFFICES ASSUME RingInv, LeaveRing
             PROVE  RingInv'
  OBVIOUS
<1>1. AllEmpty' /\ thread' = "close" /\ socketType' = "RingBuffer"
  BY DEF LeaveRing, AllEmpty, Goto
<1> QED
  BY <1>1 DEF RingInv

\* The kernel moves on to the block after the one it gives to the thread.
LEMMA RingRetire == TypeOK /\ RingInv /\ Retire => RingInv'
<1> SUFFICES ASSUME TypeOK, RingInv, Retire
             PROVE  RingInv'
  OBVIOUS
<1>1. /\ socketType = "RingBuffer" /\ thread \in {"loop", "block"}
      /\ ring' = [ring EXCEPT ![head].status = "user"] /\ head' = After(head)
      /\ ring[head].status = "kernel"
      /\ UNCHANGED <<socketType, thread, current>>
  BY DEF Retire, Mapped, sockets
<1>2. PICK h \in 0..RingBlocks : Given(h)
  BY <1>1 DEF RingInv
<1>3. /\ RingBlocks \in Nat \ {0} /\ current \in Blocks /\ head \in Blocks
      /\ ring \in [Blocks -> [status : {"kernel", "user"}, packets : Seq(Datagrams)]]
  BY ListenerAssumption DEF TypeOK
<1>5. h \in 0..(RingBlocks - 1) /\ h + 1 \in 0..RingBlocks
  BY <1>1, <1>2, <1>3, KernelHead
<1>6. Given(h + 1)'
  <2>1. head' = Place(current', h + 1)
    BY <1>1, <1>2, <1>3, <1>5, Places DEF Given
  <2>2. ASSUME NEW k \in 0..(RingBlocks - 1)
        PROVE  /\ ring'[Place(current', k)].status =
                    IF k < h + 1 THEN "user" ELSE "kernel"
               /\ k > h + 1 => ring'[Place(current', k)].packets = <<>>
    <3>1. Place(current, k) \in Blocks
      BY <1>3, Places
    <3>2. CASE k = h
      BY <1>1, <1>2, <1>3, <3>1, <3>2 DEF Given
    <3>3. CASE k # h
      <4>1. Place(current, k) # head
        BY <1>2, <1>3, <1>5, <3>3, Places DEF Given
      <4>2. ring'[Place(current', k)] = ring[Place(current, k)]
        BY <1>1, <1>3, <3>1, <4>1
      <4>3. /\ ring[Place(current, k)].status = IF k < h THEN "user" ELSE "kernel"
            /\ k > h => ring[Place(current, k)].packets = <<>>
        BY <1>2 DEF Given
      <4> QED
        BY <1>3, <1>5, <3>3, <4>2, <4>3
    <3> QED
      BY <3>2, <3>3
  <2> QED
    BY <2>1, <2>2 DEF Given
<1>7. ring'[current'].status = "user" \/ thread # "block"
  BY <1>1, <1>3 DEF RingInv
<1> QED
  BY <1>1, <1>5, <1>6, <1>7 DEF RingInv

\* A datagram for the block the kernel fills.
LEMMA RingArrive ==
  ASSUME TypeOK, RingInv, NEW from \in Senders, ArriveRing(from)
  PROVE  RingInv'
<1>1. /\ socketType = "RingBuffer" /\ thread \in {"loop", "block"}
      /\ UNCHANGED <<socketType, thread, current, head>>
  BY DEF ArriveRing, Mapped, sockets
<1>2. PICK h \in 0..RingBlocks : Given(h)
  BY <1>1 DEF RingInv
<1>3. /\ RingBlocks \in Nat \ {0} /\ current \in Blocks /\ head \in Blocks
      /\ ring \in [Blocks -> [status : {"kernel", "user"}, packets : Seq(Datagrams)]]
  BY ListenerAssumption DEF TypeOK
<1>4. /\ \A b \in Blocks : ring'[b].status = ring[b].status
      /\ \A b \in Blocks : b # head => ring'[b] = ring[b]
      /\ ring' # ring => ring[head].status = "kernel"
  <2> DEFINE filled == Append(ring[head].packets, Datagram(from))
  <2>1. \/ ring' = ring
        \/ ring' = [ring EXCEPT ![head].packets = filled] /\ ring[head].status = "kernel"
    BY DEF ArriveRing
  <2> HIDE DEF filled
  <2> QED
    BY <1>3, <2>1
<1>5. Given(h)'
  <2> SUFFICES ASSUME NEW k \in 0..(RingBlocks - 1)
               PROVE  /\ ring'[Place(current, k)].status =
                           IF k < h THEN "user" ELSE "kernel"
                      /\ k > h => ring'[Place(current, k)].packets = <<>>
    BY <1>1, <1>2 DEF Given
  <2>1. Place(current, k) \in Blocks
    BY <1>3, Places
  <2>2. /\ ring[Place(current, k)].status = IF k < h THEN "user" ELSE "kernel"
        /\ k > h => ring[Place(current, k)].packets = <<>>
    BY <1>2 DEF Given
  <2>3. k > h /\ ring' # ring => Place(current, k) # head
    <3> SUFFICES ASSUME k > h
                 PROVE  Place(current, k) # head
      OBVIOUS
    <3>1. h \in 0..(RingBlocks - 1) /\ k # h
      BY <1>3
    <3> QED
      BY <1>2, <1>3, <3>1, Places DEF Given
  <2> QED
    BY <1>4, <2>1, <2>2, <2>3
<1> QED
  BY <1>1, <1>3, <1>4, <1>5 DEF RingInv

-----------------------------------------------------------------------------
(* What the thread has not read *)

\* The end of a sequence.
LEMMA SubSeqType ==
  ASSUME NEW S, NEW s \in Seq(S), NEW n \in Nat, n # 0
  PROVE  /\ SubSeq(s, n, Len(s)) \in Seq(S)
         /\ SubSeq(s, 1, Len(s)) = s
         /\ n > Len(s) => SubSeq(s, n, Len(s)) = <<>>
         /\ n <= Len(s) => /\ SubSeq(s, n, Len(s)) # <<>>
                           /\ Head(SubSeq(s, n, Len(s))) = s[n]
                           /\ SubSeq(s, n + 1, Len(s)) = Tail(SubSeq(s, n, Len(s)))
<1>1. SubSeq(s, n, Len(s)) \in Seq(S) /\ SubSeq(s, 1, Len(s)) = s
  OBVIOUS
<1>2. n > Len(s) => SubSeq(s, n, Len(s)) = <<>>
  OBVIOUS
<1>3. ASSUME n <= Len(s) PROVE SubSeq(s, n, Len(s)) # <<>>
  <2>1. Len(s) \in Nat /\ \A i \in n..Len(s) : s[i] \in S
    OBVIOUS
  <2>2. Len(SubSeq(s, n, Len(s))) = Len(s) - n + 1
    BY <1>3, <2>1, SubSeqProperties
  <2>3. Len(SubSeq(s, n, Len(s))) # 0
    BY <1>3, <2>1, <2>2
  <2>4. Len(<<>>) = 0
    OBVIOUS
  <2> QED
    BY <2>3, <2>4, Zenon
<1>4. ASSUME n <= Len(s)
      PROVE  /\ Head(SubSeq(s, n, Len(s))) = s[n]
             /\ SubSeq(s, n + 1, Len(s)) = Tail(SubSeq(s, n, Len(s)))
  <2>1. n \in 1..Len(s) /\ Len(s) \in n..Len(s)
    BY <1>4
  <2> QED
    BY <2>1, HeadTailOfSubSeq
<1> QED
  BY <1>1, <1>2, <1>3, <1>4

LEMMA PartsType == TypeOK => Parts \in [1..RingBlocks -> Seq(Datagrams)]
<1> SUFFICES ASSUME TypeOK, NEW i \in 1..RingBlocks
             PROVE  Unread(i - 1) \in Seq(Datagrams)
  BY DEF Parts
<1>1. i - 1 \in 0..RingBlocks /\ next \in Nat /\ next # 0
  BY ListenerAssumption DEF TypeOK
<1>2. Place(current, i - 1) \in Blocks
  BY <1>1, Places DEF TypeOK
<1>3. ring[Place(current, i - 1)].packets \in Seq(Datagrams)
  BY <1>2 DEF TypeOK
<1> QED
  BY <1>1, <1>3, SubSeqType DEF Unread

LEMMA PartsTypeNext == (TypeOK => Parts \in [1..RingBlocks -> Seq(Datagrams)])'
  BY PartsType, PTL


\* Nothing waits in an empty ring.
LEMMA WaitingEmpty ==
  TypeOK /\ AllEmpty /\ socketType = "RingBuffer" /\ thread # "block" => Waiting = <<>>
<1> SUFFICES ASSUME TypeOK, AllEmpty, socketType = "RingBuffer", thread # "block"
             PROVE  FlattenSeq(Parts) = <<>>
  BY DEF Waiting
<1>1. RingBlocks \in Nat /\ RingBlocks # 0 /\ current \in Blocks
  BY ListenerAssumption DEF TypeOK
<1>2. ASSUME NEW i \in 1..RingBlocks PROVE Parts[i] = <<>>
  <2>1. Parts[i] = Unread(i - 1) /\ i - 1 \in 0..RingBlocks
    BY <1>1 DEF Parts
  <2>2. Place(current, i - 1) \in Blocks
    BY <1>1, <2>1, Places
  <2> QED
    BY <2>1, <2>2 DEF AllEmpty, EmptyBlock, Unread
<1> QED
  BY <1>1, <1>2, PartsType, FlattenEmpty

LEMMA WaitingEmptyNext ==
  (TypeOK /\ AllEmpty /\ socketType = "RingBuffer" /\ thread # "block" => Waiting = <<>>)'
  BY WaitingEmpty, PTL

\* A step that keeps what is in the ring and what of it has been read.
LEMMA WaitingKept ==
  ASSUME TypeOK, UNCHANGED <<socketType, queue, current>>,
         \A b \in Blocks : ring'[b].packets = ring[b].packets,
         \/ UNCHANGED <<thread, next>>
         \/ thread # "block" /\ (thread' # "block" \/ next' = 1)
  PROVE  Waiting' = Waiting
<1>1. RingBlocks \in Nat /\ RingBlocks # 0 /\ current \in Blocks
  BY ListenerAssumption DEF TypeOK
<1>2. ASSUME NEW k \in 0..RingBlocks PROVE Unread(k)' = Unread(k)
  <2> DEFINE p == ring[Place(current, k)].packets
  <2>1. ring'[Place(current', k)].packets = p /\ p \in Seq(Datagrams)
    BY <1>1, Places DEF TypeOK
  <2>2. CASE UNCHANGED <<thread, next>>
    BY <2>1, <2>2 DEF Unread, Place
  <2>3. CASE thread # "block" /\ thread' # "block"
    BY <2>1, <2>3 DEF Unread, Place
  <2>4. CASE thread # "block" /\ next' = 1
    <3>1. SubSeq(p, 1, Len(p)) = p
      BY <2>1, SubSeqFull
    <3> HIDE DEF p
    <3>2. Unread(k) = p
      BY <2>4 DEF Unread, p
    <3>3. Unread(k)' = p
      BY <2>1, <2>4, <3>1 DEF Unread
    <3> QED
      BY <3>2, <3>3
  <2> QED
    BY <2>2, <2>3, <2>4
<1>3. Parts' = Parts
  BY <1>1, <1>2 DEF Parts
<1> QED
  BY <1>3 DEF Waiting

\* A datagram the kernel puts into the ring comes after all that wait.
LEMMA WaitingArrive ==
  ASSUME TypeOK, TypeOK', RingInv, NEW from \in Senders, ArriveRing(from)
  PROVE  Waiting' = Waiting \/ Waiting' = Append(Waiting, Datagram(from))
<1> DEFINE e == Datagram(from)
<1>1. /\ socketType = "RingBuffer" /\ thread \in {"loop", "block"}
      /\ UNCHANGED <<socketType, thread, current, next, head, queue>>
      /\ e \in Datagrams
  BY DatagramType DEF ArriveRing, Mapped, sockets
<1>2. PICK h \in 0..RingBlocks : Given(h)
  BY <1>1 DEF RingInv
<1>3. /\ RingBlocks \in Nat /\ RingBlocks # 0 /\ current \in Blocks /\ head \in Blocks
      /\ ring \in [Blocks -> [status : {"kernel", "user"}, packets : Seq(Datagrams)]]
  BY ListenerAssumption DEF TypeOK
<1>4. CASE ring' = ring
  BY <1>1, <1>4, WaitingKept
<1>5. CASE ring' # ring
  <2>1. /\ ring' = [ring EXCEPT ![head].packets = Append(ring[head].packets, e)]
        /\ ring[head].status = "kernel"
    BY <1>5 DEF ArriveRing
  <2> HIDE DEF e
  <2>2. h \in 0..(RingBlocks - 1)
    BY <1>2, <1>3, <2>1, KernelHead
  <2>3. head = Place(current, h)
    BY <1>2 DEF Given
  <2>4. ASSUME NEW k \in 0..(RingBlocks - 1), k # h
        PROVE  Unread(k)' = Unread(k)
    <3>1. Place(current, k) # head /\ Place(current, k) \in Blocks
      <4>1. current \in Blocks /\ k \in 0..RingBlocks
        BY <1>3
      <4>2. Place(current, k) \in Blocks
        BY <4>1, Places
      <4>3. Place(current, k) = Place(current, h) => k = h
        BY <2>2, <4>1, Places
      <4> QED
        BY <2>3, <2>4, <4>2, <4>3
    <3>2. ring'[Place(current, k)] = ring[Place(current, k)]
      BY <1>3, <2>1, <3>1
    <3> QED
      BY <1>1, <3>2 DEF Unread, Place
  <2>5. h # 0 \/ thread # "block"
    BY <1>1, <1>3, <2>1, <2>3, Places DEF RingInv
  <2>6. Unread(h) = ring[head].packets /\ Unread(h)' = ring'[head].packets
    BY <1>1, <2>3, <2>5 DEF Unread, Place
  <2>7. Unread(h)' = Append(Unread(h), e)
    BY <1>3, <2>1, <2>6
  <2>8. ASSUME NEW k \in 0..(RingBlocks - 1), k > h
        PROVE  Unread(k) = <<>>
    <3>1. ring[Place(current, k)].packets = <<>> /\ k # 0
      BY <1>2, <2>8 DEF Given
    <3> QED
      BY <3>1 DEF Unread
  <2>9. h + 1 \in 1..RingBlocks /\ (h + 1) - 1 = h
    BY <1>3, <2>2
  <2>10. AppendedAt(Parts', Parts, h + 1, e, RingBlocks)
    <3>1. \A i \in 1..RingBlocks : Parts[i] = Unread(i - 1) /\ Parts'[i] = Unread(i - 1)'
      BY <1>3 DEF Parts
    <3>2. Parts'[h + 1] = Append(Parts[h + 1], e)
      BY <2>7, <2>9, <3>1
    <3>3. ASSUME NEW i \in 1..RingBlocks, i # h + 1 PROVE Parts'[i] = Parts[i]
      <4>1. i - 1 \in 0..(RingBlocks - 1) /\ i - 1 # h
        BY <1>3, <2>2, <3>3
      <4> QED
        BY <2>4, <3>1, <4>1
    <3>4. ASSUME NEW i \in 1..RingBlocks, i > h + 1 PROVE Parts[i] = <<>>
      <4>1. i - 1 \in 0..(RingBlocks - 1) /\ i - 1 > h
        BY <1>3, <2>2, <3>4
      <4> QED
        BY <2>8, <3>1, <4>1
    <3> QED
      BY <3>2, <3>3, <3>4 DEF AppendedAt
  <2>11. FlattenSeq(Parts') = Append(FlattenSeq(Parts), e)
    <3>1. /\ Parts \in [1..RingBlocks -> Seq(Datagrams)]
          /\ Parts' \in [1..RingBlocks -> Seq(Datagrams)]
      BY PartsType, PartsTypeNext
    <3>2. RingBlocks \in Nat /\ RingBlocks # 0 /\ e \in Datagrams
      BY <1>1, <1>3
    <3>3. PICK j \in 1..RingBlocks : AppendedAt(Parts', Parts, j, e, RingBlocks)
      BY <2>9, <2>10
    <3>4. FlattensTo(Parts', Parts, e)
      BY <3>1, <3>2, <3>3, FlattenAppend
    <3> QED
      BY <3>4 DEF FlattensTo
  <2> QED
    BY <1>1, <2>11 DEF Waiting, e
<1> QED
  BY <1>4, <1>5

LEMMA ReadBlock ==
  ASSUME TypeOK
  PROVE  /\ RingBlocks \in Nat /\ RingBlocks # 0 /\ current \in Blocks
         /\ ring[current].packets \in Seq(Datagrams) /\ next \in Nat /\ next # 0
         /\ ring \in [Blocks -> [status : {"kernel", "user"}, packets : Seq(Datagrams)]]
<1>1. RingBlocks \in Nat /\ RingBlocks # 0 /\ next \in Nat /\ next # 0
  BY ListenerAssumption DEF TypeOK
<1>2. /\ current \in Blocks
      /\ ring \in [Blocks -> [status : {"kernel", "user"}, packets : Seq(Datagrams)]]
  BY Zenon DEF TypeOK
<1>3. ring[current].packets \in Seq(Datagrams)
  BY <1>2
<1> QED
  BY <1>1, <1>2, <1>3, Zenon

\* The thread handles the first of those that wait.
LEMMA WaitingHandled ==
  ASSUME TypeOK, TypeOK', SocketInv, HandlePacket
  PROVE  /\ Waiting # <<>> /\ Waiting' = Tail(Waiting)
         /\ handled' = Append(handled, Head(Waiting))
<1> DEFINE p == ring[current].packets
<1>1. /\ socketType = "RingBuffer" /\ thread = "block" /\ UNCHANGED <<socketType, thread>>
      /\ UNCHANGED <<ring, current>> /\ next' = next + 1 /\ next <= Len(p)
      /\ handled' = Append(handled, p[next])
  BY DEF HandlePacket, SocketInv, sockets
<1>2. /\ RingBlocks \in Nat /\ RingBlocks # 0 /\ current \in Blocks
      /\ p \in Seq(Datagrams) /\ next \in Nat /\ next # 0
  BY ReadBlock
<1>3. Unread(0) = SubSeq(p, next, Len(p)) /\ Unread(0)' = SubSeq(p, next + 1, Len(p))
  <2>1. Place(current, 0) = current
    BY <1>2, Places
  <2> QED
    BY <1>1, <2>1 DEF Unread, Place
<1> HIDE DEF p
<1>4. Unread(0) # <<>> /\ Head(Unread(0)) = p[next] /\ Unread(0)' = Tail(Unread(0))
  BY <1>1, <1>2, <1>3, SubSeqType
<1>5. \A i \in 1..RingBlocks : Parts[i] = Unread(i - 1) /\ Parts'[i] = Unread(i - 1)'
  BY <1>2 DEF Parts
<1>6. \A k : k # 0 => Unread(k)' = Unread(k)
  BY <1>1 DEF Unread, Place
<1>7. 1 \in 1..RingBlocks /\ 1 - 1 = 0 /\ \A i \in 1..RingBlocks : i # 1 => i - 1 # 0
  BY <1>2
<1>8. Parts[1] = Unread(0) /\ Parts'[1] = Unread(0)'
  BY <1>5, <1>7
<1>9. TailOf(Parts', Parts, RingBlocks)
  BY <1>4, <1>5, <1>6, <1>7, <1>8 DEF TailOf
<1>10. /\ FlattenSeq(Parts) # <<>>
       /\ Head(FlattenSeq(Parts)) = Head(Parts[1])
       /\ FlattenSeq(Parts') = Tail(FlattenSeq(Parts))
  <2>1. /\ Parts \in [1..RingBlocks -> Seq(Datagrams)]
        /\ Parts' \in [1..RingBlocks -> Seq(Datagrams)]
    BY PartsType, PartsTypeNext
  <2> QED
    BY <1>2, <1>9, <2>1, FlattenTail
<1> QED
  BY <1>1, <1>4, <1>8, <1>10 DEF Waiting

\* The thread gives back a block of which it has read everything.
LEMMA WaitingReleased ==
  ASSUME TypeOK, TypeOK', SocketInv, Release
  PROVE  Waiting' = Waiting
<1> DEFINE p == ring[current].packets
<1>1. /\ socketType = "RingBuffer" /\ UNCHANGED socketType
      /\ thread = "block" /\ thread' = "loop" /\ next > Len(p)
      /\ ring' = [ring EXCEPT ![current] = EmptyBlock] /\ current' = After(current)
  BY DEF Release, SocketInv, Goto, sockets
<1>2. /\ RingBlocks \in Nat /\ RingBlocks # 0 /\ current \in Blocks
      /\ p \in Seq(Datagrams) /\ next \in Nat /\ next # 0
      /\ ring \in [Blocks -> [status : {"kernel", "user"}, packets : Seq(Datagrams)]]
  BY ReadBlock
<1>3. Unread(0) = <<>>
  <2>1. Place(current, 0) = current
    BY <1>2, Places
  <2>2. Unread(0) = SubSeq(p, next, Len(p))
    BY <1>1, <2>1 DEF Unread
  <2> QED
    BY <1>1, <1>2, <2>2, SubSeqType
<1>4. Unread(RingBlocks - 1)' = <<>>
  <2>1. RingBlocks - 1 \in 0..(RingBlocks - 1) /\ (RingBlocks - 1) + 1 = RingBlocks
    BY <1>2
  <2>2. Place(current', RingBlocks - 1) = current
    BY <1>1, <1>2, <2>1, Places
  <2>3. ring'[current].packets = <<>>
    BY <1>1, <1>2 DEF EmptyBlock
  <2> QED
    BY <1>1, <2>2, <2>3 DEF Unread, Place
<1>5. ASSUME NEW i \in 1..(RingBlocks - 1) PROVE Unread(i - 1)' = Unread(i)
  <2>1. /\ i \in 0..(RingBlocks - 1) /\ i - 1 \in 0..(RingBlocks - 1) /\ (i - 1) + 1 = i
        /\ i # 0 /\ 0 \in 0..(RingBlocks - 1)
    BY <1>2
  <2>2. Place(current', i - 1) = Place(current, i)
    BY <1>1, <1>2, <2>1, Places
  <2>3. Place(current, i) # current /\ Place(current, i) \in Blocks
    BY <1>2, <2>1, Places
  <2>4. ring'[Place(current, i)] = ring[Place(current, i)]
    BY <1>1, <1>2, <2>3
  <2> QED
    BY <1>1, <2>1, <2>2, <2>4 DEF Unread, Place
<1>6. \A i \in 1..RingBlocks : Parts[i] = Unread(i - 1) /\ Parts'[i] = Unread(i - 1)'
  BY <1>2 DEF Parts
<1>7. ShiftOf(Parts', Parts, RingBlocks)
  <2>1. Parts[1] = <<>> /\ Parts'[RingBlocks] = <<>>
    BY <1>2, <1>3, <1>4, <1>6
  <2>2. ASSUME NEW i \in 1..(RingBlocks - 1) PROVE Parts'[i] = Parts[i + 1]
    <3>1. i \in 1..RingBlocks /\ i + 1 \in 1..RingBlocks /\ (i + 1) - 1 = i
      BY <1>2
    <3> QED
      BY <1>5, <1>6, <3>1
  <2> QED
    BY <2>1, <2>2 DEF ShiftOf
<1>8. FlattenSeq(Parts') = FlattenSeq(Parts)
  <2>1. /\ Parts \in [1..RingBlocks -> Seq(Datagrams)]
        /\ Parts' \in [1..RingBlocks -> Seq(Datagrams)]
    BY PartsType, PartsTypeNext
  <2> QED
    BY <1>2, <1>7, <2>1, FlattenShift
<1> QED
  BY <1>1, <1>8 DEF Waiting

LEMMA WaitingType == TypeOK => Waiting \in Seq(Datagrams)
  BY PartsType, FlattenType, ListenerAssumption DEF Waiting, TypeOK

-----------------------------------------------------------------------------
(* The queue *)

\* One more waits.
LEMMA QueueTake ==
  ASSUME TypeOK, NEW e \in Datagrams, Waiting' = Append(Waiting, e), UNCHANGED handled
  PROVE  Queue!Take
<1>1. Waiting \in Seq(Datagrams)
  BY WaitingType
<1>2. ASSUME NEW s \in Seq(Datagrams)
      PROVE  /\ Append(s, e) # <<>>
             /\ SubSeq(Append(s, e), 1, Len(Append(s, e)) - 1) = s
             /\ Append(s, e)[Len(Append(s, e))] = e
  OBVIOUS
<1> QED
  BY <1>1, <1>2 DEF Queue!Take, Queue!Front, Queue!Last

LEMMA QueueInit == Init => Queue!Init
  BY DEF Init, Queue!Init, Waiting

\* The program, and the kernel when it gives a block to the thread.
LEMMA QueueProgram ==
  ASSUME TypeOK, SocketInv, EndInv,
         Program \/ AcceptFrom \/ Destroy \/ SpuriousWake \/ Retire
  PROVE  Waiting' = Waiting /\ handled' = handled
<1>1. CASE Retire
  <2>1. /\ UNCHANGED <<socketType, queue, current, thread, next, handled>>
        /\ \A b \in Blocks : ring'[b].packets = ring[b].packets
    BY <1>1 DEF Retire, TypeOK, sockets
  <2> QED
    BY <2>1, WaitingKept
<1>2. CASE Listen
  <2>1. UNCHANGED <<socketType, queue, handled>> /\ socketType = "NoType"
    BY <1>2 DEF Listen, EndInv, SocketInv, sockets, datagrams
  <2> QED
    BY <2>1 DEF Waiting
<1>3. CASE ListenReturns \/ SetFilter \/ Join \/ AcceptFrom \/ Destroy \/ SpuriousWake
  <2>1. UNCHANGED <<socketType, queue, ring, current, thread, next, handled>>
    BY <1>3 DEF ListenReturns, SetFilter, Join, AcceptFrom, Destroy, SpuriousWake,
                sockets, datagrams
  <2> QED
    BY <2>1, WaitingKept
<1> QED
  BY <1>1, <1>2, <1>3 DEF Program

\* The thread, while it takes nothing from a socket.
LEMMA QueueStart ==
  ASSUME TypeOK, TypeOK', SocketInv, RingInv,
         \/ Lock \/ Bind \/ Notify \/ EnterRing \/ EnterUser \/ OpenRaw \/ MapRing
         \/ UserLoop \/ PollTimeout \/ RingLoop \/ Close \/ LeaveRing
  PROVE  Waiting' \in {Waiting, <<>>} /\ handled' = handled
<1> USE DEF Goto, SocketInv, sockets, datagrams
<1>1. CASE Lock \/ Bind \/ Notify \/ EnterUser
  BY <1>1 DEF Lock, Bind, Notify, EnterUser, Waiting
<1>2. CASE EnterRing
  BY <1>2, WaitingEmptyNext DEF EnterRing, RingInv, AllEmpty
<1>3. CASE OpenRaw \/ MapRing \/ UserLoop \/ PollTimeout \/ RingLoop
  <2>1. /\ UNCHANGED <<socketType, queue, ring, current, handled>>
        /\ thread # "block" /\ (thread' # "block" \/ next' = 1)
    BY <1>3 DEF OpenRaw, MapRing, UserLoop, PollTimeout, RingLoop
  <2> QED
    BY <2>1, WaitingKept
<1>4. CASE Close
  <2>1. CASE socketType = "RingBuffer"
    BY <1>4, <2>1, WaitingEmptyNext DEF Close, RingInv, AllEmpty
  <2>2. CASE socketType # "RingBuffer"
    BY <1>4, <2>2 DEF Close, Waiting
  <2> QED
    BY <2>1, <2>2
<1>5. CASE LeaveRing
  BY <1>5, WaitingEmptyNext DEF LeaveRing, AllEmpty
<1> QED
  BY <1>1, <1>2, <1>3, <1>4, <1>5

\* The UDP socket.
LEMMA QueueRead ==
  ASSUME TypeOK, SocketInv, Read
  PROVE  Queue!Handle \/ Queue!Ignore
<1>1. Waiting = queue /\ Waiting' = queue'
  BY DEF Read, SocketInv, Waiting, sockets
<1>2. \/ handled' = Append(handled, Head(queue))
      \/ handled' = handled /\ ~FromTransmitter(Head(queue).from)
  BY DEF Read
<1>3. queue # <<>> /\ queue' = Tail(queue)
  BY DEF Read
<1>4. CASE handled' = Append(handled, Head(queue))
  BY <1>1, <1>3, <1>4 DEF Queue!Handle
<1>5. CASE handled' = handled /\ ~FromTransmitter(Head(queue).from)
  BY <1>1, <1>3, <1>5 DEF Queue!Ignore, FromTransmitter
<1> QED
  BY <1>2, <1>4, <1>5

LEMMA QueueSocket ==
  ASSUME TypeOK, NEW from \in Senders, ArriveSocket(from)
  PROVE  Queue!Take \/ (Waiting' = Waiting /\ handled' = handled)
<1>1. Waiting = queue /\ Waiting' = queue' /\ handled' = handled
  BY DEF ArriveSocket, Waiting, sockets
<1>2. \/ queue' = queue
      \/ queue' = Append(queue, Datagram(from)) /\ Datagram(from) \in Datagrams
  BY DatagramType DEF ArriveSocket
<1> QED
  BY <1>1, <1>2, QueueTake

LEMMA QueueStep ==
  TypeOK /\ TypeOK' /\ EndInv /\ SocketInv /\ RingInv /\ [Next]_vars =>
    [Queue!Next]_(Queue!vars)
<1> SUFFICES ASSUME TypeOK, TypeOK', EndInv, SocketInv, RingInv, [Next]_vars
             PROVE  [Queue!Next]_(Queue!vars)
  OBVIOUS
<1>1. Waiting' = Waiting /\ handled' = handled => [Queue!Next]_(Queue!vars)
  BY DEF Queue!vars
<1>2. Waiting' = <<>> /\ handled' = handled => Queue!Next
  BY DEF Queue!Next, Queue!Discard
<1>3. CASE Program \/ AcceptFrom \/ Destroy \/ SpuriousWake \/ Retire
  BY <1>1, <1>3, QueueProgram
<1>4. CASE \/ Lock \/ Bind \/ Notify \/ EnterRing \/ EnterUser \/ OpenRaw \/ MapRing
           \/ UserLoop \/ PollTimeout \/ RingLoop \/ Close \/ LeaveRing
  BY <1>1, <1>2, <1>4, QueueStart
<1>5. CASE Read
  BY <1>5, QueueRead DEF Queue!Next
<1>6. CASE HandlePacket
  BY <1>6, WaitingHandled DEF Queue!Next, Queue!Handle
<1>7. CASE Release
  <2>1. handled' = handled
    BY <1>7 DEF Release
  <2> QED
    BY <1>1, <1>7, <2>1, WaitingReleased
<1>8. ASSUME NEW from \in Senders, ArriveSocket(from)
      PROVE  [Queue!Next]_(Queue!vars)
  BY <1>1, <1>8, QueueSocket DEF Queue!Next
<1>9. ASSUME NEW from \in Senders, ArriveRing(from)
      PROVE  [Queue!Next]_(Queue!vars)
  <2>1. Datagram(from) \in Datagrams /\ handled' = handled
    BY <1>9, DatagramType DEF ArriveRing
  <2> QED
    BY <1>1, <1>9, <2>1, WaitingArrive, QueueTake DEF Queue!Next
<1>10. CASE UNCHANGED vars
  <2>1. UNCHANGED <<socketType, queue, ring, current, thread, next, handled>>
    BY <1>10 DEF vars, sockets, datagrams
  <2> QED
    BY <1>1, <2>1, WaitingKept
<1> QED
  BY <1>3, <1>4, <1>5, <1>6, <1>7, <1>8, <1>9, <1>10 DEF Next, Thread, Arrive

LEMMA RingNext ==
  TypeOK /\ EndInv /\ SocketInv /\ RingInv /\ [Next]_vars => RingInv'
<1> SUFFICES ASSUME TypeOK, EndInv, SocketInv, RingInv, [Next]_vars
             PROVE  RingInv'
  OBVIOUS
<1>1. ASSUME NEW from \in Senders, ArriveSocket(from)
      PROVE  RingInv'
  BY <1>1 DEF ArriveSocket, RingInv, AllEmpty, Given, Place, sockets
<1>2. CASE UNCHANGED vars
  BY <1>2 DEF vars, RingInv, AllEmpty, Given, Place, sockets, datagrams
<1> QED
  BY <1>1, <1>2, RingProgram, RingStart, RingRelease, RingLeave, RingRetire, RingArrive
     DEF Next, Thread, Arrive

\* The receive thread implements GvspQueue: on the UDP socket and on a ring of any
\* size every datagram is handled at most once, in the order of arrival, and the
\* thread never reads a block that the kernel fills.
THEOREM Implements == Spec => ImplementsQueue
<1>1. Inv => EndInv
  BY DEF Inv
<1>2. OwnInv => SocketInv
  BY DEF OwnInv
<1> QED
  BY InitInv, NextInv, OwnInit, TypeCorrect, RingInit, RingNext, QueueInit, QueueStep,
     OwnNext, <1>1, <1>2, PTL DEF Spec, ImplementsQueue, Queue!Spec
=============================================================================
