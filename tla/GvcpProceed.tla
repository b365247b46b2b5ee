---------------------------- MODULE GvcpProceed ----------------------------
(***************************************************************************)
(* GvcpClientImpl::proceed (gvcpclient.cpp) and the four register and      *)
(* memory helpers around it: application threads and the heartbeat thread  *)
(* share a client, every client of the process shares one static buffer,   *)
(* and commands and acknowledgements are datagrams that the network loses, *)
(* delays and reorders.                                                    *)
(*                                                                         *)
(* A command has a number seq, counted per client from 1, which the code   *)
(* does not have: it only sends the 16-bit id.  Payloads are left out; the *)
(* seq of an acknowledgement stands for the payload it carries.            *)
(***************************************************************************)
EXTENDS Integers, Sequences

CONSTANTS
  Threads,      \* the threads that issue commands
  Clients,      \* the GvcpClientImpl objects of the process
  ClientOf,     \* the client each thread works for
  Kinds,        \* the kinds of command in use
  CmdRetry,     \* _cmdRetry, how often a command is sent
  IdMax,        \* the last request id before it wraps to 1 (0xFFFF)
  RxCapacity,   \* datagrams the socket's receive buffer holds
  Lifetime,     \* a command is answered before this many later ones start
  MaxCommands,  \* bound: commands per client
  MaxStrays,    \* bound: stray datagrams in a behaviour
  None          \* no thread, no client

Reads == {"READREG", "READMEM"}
Writes == {"WRITEREG", "WRITEMEM"}

ASSUME ProceedAssumption ==
  /\ ClientOf \in [Threads -> Clients]
  /\ None \notin Threads \cup Clients
  /\ Kinds \subseteq Reads \cup Writes
  /\ CmdRetry \in Nat \ {0}
  /\ IdMax \in Nat \ {0}
  /\ RxCapacity \in Nat
  /\ Lifetime \in Nat \ {0}
  /\ Lifetime + RxCapacity <= IdMax
  /\ MaxCommands \in Nat
  /\ MaxStrays \in Nat

VARIABLES
  pc,        \* where each thread stands in proceed
  cmd,       \* the thread's last command: its number, id and kind
  retry,     \* sends left
  sound,     \* the datagram just received is well formed and from the device
  verdict,   \* what proceed returned last
  mutex,     \* _proceedMutex
  nextId,    \* _id
  issued,    \* how many commands the client has started
  buffer,    \* the static GvcpBuffer
  rx,        \* the receive buffer of each client's socket
  net,       \* commands on their way to the devices
  executed,  \* the commands each client's device has executed
  strays     \* stray datagrams so far

threadVars == <<pc, cmd, retry, sound, verdict>>
clientVars == <<mutex, nextId, issued>>
deviceVars == <<net, executed>>
vars == <<threadVars, clientVars, buffer, rx, deviceVars, strays>>

Inside == {"send", "poll", "check"}      \* between lock and unlock

Command == [seq : Nat, id : 0..IdMax, kind : Kinds \cup {"none"}]
Datagram == [from : Clients, seq : Nat, id : 0..IdMax, kind : Kinds \cup {"none"},
             try : 0..CmdRetry, held : BOOLEAN]
Ack == [from : Clients \cup {None}, seq : Nat, id : 0..IdMax,
        type : Kinds \cup {"none", "PENDING"}, ok : BOOLEAN, sound : BOOLEAN]

NoCommand == [seq |-> 0, id |-> 0, kind |-> "none"]
NoAck == [from |-> None, seq |-> 0, id |-> 0, type |-> "none",
          ok |-> TRUE, sound |-> FALSE]

(* The acknowledgement of type the device sends for the datagram d.        *)
AckOf(d, type, ok) ==
  [from |-> d.from, seq |-> d.seq, id |-> d.id, type |-> type,
   ok |-> ok, sound |-> TRUE]

Init ==
  /\ pc = [t \in Threads |-> "idle"]
  /\ cmd = [t \in Threads |-> NoCommand]
  /\ retry = [t \in Threads |-> 0]
  /\ sound = [t \in Threads |-> FALSE]
  /\ verdict = [t \in Threads |-> "none"]
  /\ mutex = [c \in Clients |-> None]
  /\ nextId = [c \in Clients |-> 1]
  /\ issued = [c \in Clients |-> 0]
  /\ buffer = NoAck
  /\ rx = [c \in Clients |-> <<>>]
  /\ net = {}
  /\ executed = [c \in Clients |-> {}]
  /\ strays = 0

-----------------------------------------------------------------------------
(* The thread's steps                                                      *)

(* Mutant: the id runs on past 0xFFFF.                                      *)
AdvanceNoWrap(id) == id + 1

Advance(id) == IF id = IdMax THEN 1 ELSE id + 1

(* One helper forges a command and proceed takes the lock and an id.  What *)
(* the network still holds of commands Lifetime ago is lost by then.       *)
Begin(t, kind) ==
  LET c == ClientOf[t] IN
  /\ pc[t] = "idle"
  /\ mutex[c] = None
  /\ issued[c] < MaxCommands
  /\ pc' = [pc EXCEPT ![t] = "send"]
  /\ cmd' = [cmd EXCEPT ![t] =
               [seq |-> issued[c] + 1, id |-> nextId[c], kind |-> kind]]
  /\ retry' = [retry EXCEPT ![t] = CmdRetry]
  /\ verdict' = [verdict EXCEPT ![t] = "none"]
  /\ mutex' = [mutex EXCEPT ![c] = t]
  /\ nextId' = [nextId EXCEPT ![c] = Advance(@)]
  /\ issued' = [issued EXCEPT ![c] = @ + 1]
  /\ net' = {d \in net : d.from = c => issued[c] + 1 - d.seq < Lifetime}
  /\ UNCHANGED <<sound, buffer, rx, executed, strays>>

(* Mutant: a send does not count as a try.                                 *)
SendForever(t) ==
  /\ pc[t] = "send"
  /\ net' = net \cup {[from |-> ClientOf[t], seq |-> cmd[t].seq,
                       id |-> cmd[t].id, kind |-> cmd[t].kind,
                       try |-> retry[t], held |-> FALSE]}
  /\ pc' = [pc EXCEPT ![t] = "poll"]
  /\ UNCHANGED <<cmd, retry, sound, verdict, clientVars, buffer, rx,
                 executed, strays>>

Send(t) ==
  /\ pc[t] = "send"
  /\ retry[t] > 0
  /\ retry' = [retry EXCEPT ![t] = @ - 1]
  /\ net' = net \cup {[from |-> ClientOf[t], seq |-> cmd[t].seq,
                       id |-> cmd[t].id, kind |-> cmd[t].kind,
                       try |-> retry[t], held |-> FALSE]}
  /\ pc' = [pc EXCEPT ![t] = "poll"]
  /\ UNCHANGED <<cmd, sound, verdict, clientVars, buffer, rx,
                 executed, strays>>

(* proceed returns: the lock and its local variables go with it.           *)
Return(t, result, next) ==
  /\ verdict' = [verdict EXCEPT ![t] = result]
  /\ mutex' = [mutex EXCEPT ![ClientOf[t]] = None]
  /\ pc' = [pc EXCEPT ![t] = next]
  /\ retry' = [retry EXCEPT ![t] = 0]
  /\ sound' = [sound EXCEPT ![t] = FALSE]
  /\ UNCHANGED <<cmd, nextId, issued, buffer, rx,
                 deviceVars, strays>>

GiveUp(t) == pc[t] = "send" /\ retry[t] = 0 /\ Return(t, "failed", "idle")

(* 200 ms without a datagram.                                              *)
PollTimeout(t) ==
  /\ pc[t] = "poll"
  /\ rx[ClientOf[t]] = <<>>
  /\ pc' = [pc EXCEPT ![t] = "send"]
  /\ UNCHANGED <<cmd, retry, sound, verdict, clientVars, buffer, rx,
                 deviceVars, strays>>

Receive(t) ==
  LET c == ClientOf[t] IN
  /\ pc[t] = "poll"
  /\ rx[c] # <<>>
  /\ buffer' = Head(rx[c])
  /\ rx' = [rx EXCEPT ![c] = Tail(@)]
  /\ sound' = [sound EXCEPT ![t] = Head(rx[c]).sound]
  /\ pc' = [pc EXCEPT ![t] = "check"]
  /\ UNCHANGED <<cmd, retry, verdict, clientVars, deviceVars, strays>>

(* Mutants: a check on the acknowledgement is missing.                     *)
MatchesAnyId(t) == sound[t] /\ buffer.type = cmd[t].kind
MatchesAnyType(t) == sound[t] /\ buffer.id = cmd[t].id

(* The length and the peer are the thread's own, the rest of what it       *)
(* checks is in the buffer.                                                *)
Matches(t) ==
  /\ sound[t]
  /\ buffer.id = cmd[t].id
  /\ buffer.type = cmd[t].kind

Reject(t) ==
  /\ pc[t] = "check"
  /\ ~Matches(t)
  /\ pc' = [pc EXCEPT ![t] = "send"]
  /\ UNCHANGED <<cmd, retry, sound, verdict, clientVars, buffer, rx,
                 deviceVars, strays>>

Refuse(t) ==
  /\ pc[t] = "check"
  /\ Matches(t)
  /\ ~buffer.ok
  /\ Return(t, "failed", "idle")

(* A write is over, a read still has to fetch its answer.                  *)
Accept(t) ==
  /\ pc[t] = "check"
  /\ Matches(t)
  /\ buffer.ok
  /\ Return(t, "ok", IF cmd[t].kind \in Reads THEN "copy" ELSE "idle")

(* The helper copies the answer out of the static buffer: whatever is in   *)
(* there now, for proceed has let the lock go.                             *)
Copy(t) ==
  /\ pc[t] = "copy"
  /\ pc' = [pc EXCEPT ![t] = "idle"]
  /\ UNCHANGED <<cmd, retry, sound, verdict, clientVars, buffer, rx,
                 deviceVars, strays>>

Step(t) ==
  \/ Send(t) \/ GiveUp(t) \/ PollTimeout(t) \/ Receive(t)
  \/ Reject(t) \/ Refuse(t) \/ Accept(t) \/ Copy(t)

-----------------------------------------------------------------------------
(* The device and the network                                              *)

(* What becomes of the receive buffer when a is sent to client c: a may be *)
(* lost on the way, and is when the buffer is full.                        *)
Arrivals(c, a) ==
  {rx[c]} \cup (IF Len(rx[c]) < RxCapacity THEN {Append(rx[c], a)} ELSE {})

Deliver(a) ==
  \E q \in Arrivals(a.from, a) : rx' = [rx EXCEPT ![a.from] = q]

(* The device executes a command and acknowledges it; a retransmission it  *)
(* executes again.                                                         *)
Execute(d) ==
  /\ executed' = [executed EXCEPT ![d.from] = @ \cup {d.seq}]
  /\ Deliver(AckOf(d, d.kind, TRUE))
  /\ net' = net \ {d}
  /\ UNCHANGED <<threadVars, clientVars, buffer, strays>>

(* The device answers with an error status.                                *)
Decline(d) ==
  /\ Deliver(AckOf(d, d.kind, FALSE))
  /\ net' = net \ {d}
  /\ UNCHANGED <<threadVars, clientVars, buffer, executed, strays>>

(* A busy device asks for more time and keeps the command.                 *)
Pending(d) ==
  /\ ~d.held
  /\ Deliver(AckOf(d, "PENDING", TRUE))
  /\ net' = (net \ {d}) \cup {[d EXCEPT !.held = TRUE]}
  /\ UNCHANGED <<threadVars, clientVars, buffer, executed, strays>>

Lose(d) ==
  /\ net' = net \ {d}
  /\ UNCHANGED <<threadVars, clientVars, buffer, rx, executed, strays>>

(* A datagram that is malformed or comes from elsewhere, and carries the   *)
(* id and type the client is waiting for.                                  *)
Stray(t) ==
  /\ strays < MaxStrays
  /\ pc[t] \in Inside
  /\ Deliver([from |-> ClientOf[t], seq |-> 0, id |-> cmd[t].id,
              type |-> cmd[t].kind, ok |-> TRUE, sound |-> FALSE])
  /\ strays' = strays + 1
  /\ UNCHANGED <<threadVars, clientVars, buffer, deviceVars>>

Next ==
  \/ \E t \in Threads : (\E kind \in Kinds : Begin(t, kind)) \/ Step(t) \/ Stray(t)
  \/ \E d \in net : Execute(d) \/ Decline(d) \/ Pending(d) \/ Lose(d)

Spec == Init /\ [][Next]_vars

(* A thread inside proceed is scheduled, and its polls time out.           *)
FairSpec == Spec /\ \A t \in Threads : WF_vars(Step(t))

-----------------------------------------------------------------------------
(* Type correctness: every variable of the model has its type.             *)
TypeOK ==
  /\ pc \in [Threads -> Inside \cup {"idle", "copy"}]
  /\ cmd \in [Threads -> Command]
  /\ retry \in [Threads -> 0..CmdRetry]
  /\ sound \in [Threads -> BOOLEAN]
  /\ verdict \in [Threads -> {"none", "ok", "failed"}]
  /\ mutex \in [Clients -> Threads \cup {None}]
  /\ nextId \in [Clients -> 1..IdMax]
  /\ issued \in [Clients -> Nat]
  /\ buffer \in Ack
  /\ rx \in [Clients -> Seq(Ack)]
  /\ net \in SUBSET Datagram
  /\ executed \in [Clients -> SUBSET Nat]
  /\ strays \in Nat

(* When proceed reports success, the device has executed that very command *)
(* and not an earlier one whose late acknowledgement was taken for its own,*)
(* whatever the wrap of the 16-bit id and the backlog in the socket.       *)
SuccessMeansExecuted ==
  \A t \in Threads : verdict[t] = "ok" => cmd[t].seq \in executed[ClientOf[t]]

(* What a read helper finds in the shared buffer when it comes to copy it  *)
(* out is the answer to its own command, not one another thread received   *)
(* there after proceed returned.                                           *)
OwnAnswer ==
  \A t \in Threads :
    pc[t] = "copy" => buffer.from = ClientOf[t] /\ buffer.seq = cmd[t].seq

(* Every command comes to an end and gives the lock back, however many     *)
(* datagrams are lost and however many stale ones are queued.              *)
EveryCallReturns == \A t \in Threads : pc[t] # "idle" ~> pc[t] = "idle"

-----------------------------------------------------------------------------
(* The inductive invariant behind SuccessMeansExecuted                     *)

(* The id given out k commands before id.                                  *)
Back(id, k) == IF id > k THEN id - k ELSE id + IdMax - k

Age(c, seq) == issued[c] - seq

(* The lock's holder is the thread inside, and it runs the last command.   *)
LockInv ==
  /\ \A c \in Clients :
       mutex[c] # None => ClientOf[mutex[c]] = c /\ pc[mutex[c]] \in Inside
  /\ \A t \in Threads :
       LET c == ClientOf[t] IN
       pc[t] \in Inside => /\ mutex[c] = t
                           /\ cmd[t].seq = issued[c]
                           /\ cmd[t].seq > 0
                           /\ cmd[t].id = Back(nextId[c], 1)
                           /\ cmd[t].kind \in Kinds

(* The command in progress on c, if any, has not seen the end of its first *)
(* poll, which is what takes a stale datagram out of the socket.           *)
FirstPoll(t) ==
  \/ pc[t] = "send" /\ retry[t] = CmdRetry
  \/ pc[t] = "poll" /\ retry[t] = CmdRetry - 1

Unpolled(c) == mutex[c] # None /\ FirstPoll(mutex[c])

(* The i-th datagram of the receive buffer is at most so many commands old.*)
MaxAge(c, i) ==
  Lifetime - 1 + RxCapacity - i + (IF Unpolled(c) THEN 1 ELSE 0)

NetInv ==
  \A d \in net :
    /\ d.seq \in 1..issued[d.from]
    /\ Age(d.from, d.seq) < Lifetime
    /\ d.id = Back(nextId[d.from], Age(d.from, d.seq) + 1)
    /\ d.kind \in Kinds

(* The acknowledgement a belongs to the command of c its id stands for.    *)
Genuine(c, a) ==
  /\ a.seq \in 1..issued[c]
  /\ a.id = Back(nextId[c], Age(c, a.seq) + 1)
  /\ a.ok /\ a.type \in Kinds => a.seq \in executed[c]

RxOf(c) ==
  /\ Len(rx[c]) <= RxCapacity
  /\ \A i \in 1..Len(rx[c]) :
       rx[c][i].sound => /\ Genuine(c, rx[c][i])
                         /\ Age(c, rx[c][i].seq) <= MaxAge(c, i)

RxInv == \A c \in Clients : RxOf(c)

BufferInv ==
  \A t \in Threads :
    pc[t] = "check" /\ sound[t] => /\ Genuine(ClientOf[t], buffer)
                                   /\ Age(ClientOf[t], buffer.seq) < IdMax

(* With one client in the process this is inductive: ids identify commands *)
(* because no datagram outlives IdMax commands, neither in the network nor *)
(* in the socket, from which every command takes at least one.             *)
IndInv ==
  /\ LockInv
  /\ NetInv
  /\ RxInv
  /\ BufferInv
  /\ SuccessMeansExecuted

-----------------------------------------------------------------------------
(* The abstract calls this implements: a thread waits while inside, and a  *)
(* verdict is what its last call returned.                                 *)
Rpc == INSTANCE GvcpRpc WITH
  call <- [t \in Threads |-> IF pc[t] \in Inside THEN cmd[t].seq ELSE 0],
  outcome <- verdict

(* proceed implements the calls of GvcpRpc: one at a time per client, and  *)
(* none succeeds that the device has not executed.                         *)
ImplementsRpc == Rpc!Spec
=============================================================================
