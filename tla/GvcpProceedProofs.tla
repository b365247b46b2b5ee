------------------------- MODULE GvcpProceedProofs -------------------------
(***************************************************************************)
(* Proofs about GvcpProceed, for every number of threads, retries, ids,    *)
(* datagrams and commands.                                                 *)
(***************************************************************************)
EXTENDS GvcpProceed, SequenceTheorems, TLAPS

USE DEF Inside, Reads, Writes

LEMMA TypeInit == Init => TypeOK
  BY ProceedAssumption DEF Init, TypeOK, Command, Ack, NoCommand, NoAck

LEMMA TypeNext == TypeOK /\ [Next]_vars => TypeOK'
<1> SUFFICES ASSUME TypeOK, [Next]_vars PROVE TypeOK'
  OBVIOUS
<1> USE ProceedAssumption DEF TypeOK, clientVars, deviceVars, threadVars
<1>1. ASSUME NEW t \in Threads, NEW kind \in Kinds, Begin(t, kind)
      PROVE TypeOK'
  <2>1. net' \in SUBSET Datagram
    BY <1>1 DEF Begin
  <2>2. nextId' \in [Clients -> 1..IdMax] /\ issued' \in [Clients -> Nat]
    BY <1>1 DEF Begin, Advance
  <2>3. cmd' \in [Threads -> Command]
    BY <1>1 DEF Begin, Command
  <2>4. mutex' \in [Clients -> Threads \cup {None}]
    BY <1>1 DEF Begin
  <2> QED BY <1>1, <2>1, <2>2, <2>3, <2>4, SMTT(30) DEF Begin
<1>2. ASSUME NEW t \in Threads, Send(t)
      PROVE TypeOK'
  <2>1. [from |-> ClientOf[t], seq |-> cmd[t].seq, id |-> cmd[t].id,
         kind |-> cmd[t].kind, try |-> retry[t], held |-> FALSE] \in Datagram
    BY DEF Datagram, Command
  <2>2. retry' \in [Threads -> 0..CmdRetry]
    BY <1>2 DEF Send
  <2> QED BY <1>2, <2>1, <2>2 DEF Send
<1>3. ASSUME NEW t \in Threads, NEW r \in {"ok", "failed"},
             NEW next \in {"idle", "copy"}, Return(t, r, next)
      PROVE TypeOK'
  BY <1>3 DEF Return
<1>4. ASSUME NEW t \in Threads, PollTimeout(t) \/ Reject(t) \/ Copy(t)
      PROVE TypeOK'
  BY <1>4 DEF PollTimeout, Reject, Copy
<1>5. ASSUME NEW t \in Threads, Receive(t)
      PROVE TypeOK'
  <2>1. rx[ClientOf[t]] \in Seq(Ack) /\ rx[ClientOf[t]] # <<>>
    BY <1>5 DEF Receive
  <2>2. Head(rx[ClientOf[t]]) \in Ack /\ Tail(rx[ClientOf[t]]) \in Seq(Ack)
    BY <2>1, HeadTailProperties
  <2> QED BY <1>5, <2>2 DEF Receive, Ack
<1>6. ASSUME NEW a \in Ack, a.from \in Clients, Deliver(a)
      PROVE rx' \in [Clients -> Seq(Ack)]
  <2>1. Append(rx[a.from], a) \in Seq(Ack)
    BY <1>6, AppendProperties
  <2>2. PICK q \in Arrivals(a.from, a) : rx' = [rx EXCEPT ![a.from] = q]
    BY <1>6 DEF Deliver
  <2>3. q = rx[a.from] \/ q = Append(rx[a.from], a)
    BY <2>2, Zenon DEF Arrivals
  <2>4. rx[a.from] \in Seq(Ack)
    BY <1>6
  <2>5. q \in Seq(Ack)
    BY <2>1, <2>3, <2>4, Zenon
  <2> QED BY <1>6, <2>2, <2>5
<1>7. ASSUME NEW d \in net, Execute(d) \/ Decline(d) \/ Pending(d) \/ Lose(d)
      PROVE TypeOK'
  <2>1. d \in Datagram
    OBVIOUS
  <2>2. \A type \in Kinds \cup {"none", "PENDING"}, ok \in BOOLEAN :
          AckOf(d, type, ok) \in Ack /\ AckOf(d, type, ok).from \in Clients
    BY <2>1 DEF AckOf, Ack, Datagram
  <2>3. d.kind \in Kinds \cup {"none"} /\ d.seq \in Nat /\ d.from \in Clients
    BY <2>1 DEF Datagram
  <2>4. CASE Execute(d)
    BY <1>6, <2>2, <2>3, <2>4 DEF Execute
  <2>5. CASE Decline(d)
    BY <1>6, <2>2, <2>3, <2>5 DEF Decline
  <2>6. CASE Pending(d)
    <3>1. [d EXCEPT !.held = TRUE] \in Datagram
      BY <2>1 DEF Datagram
    <3> QED BY <1>6, <2>2, <2>3, <2>6, <3>1 DEF Pending
  <2>7. CASE Lose(d)
    BY <2>7 DEF Lose
  <2> QED BY <1>7, <2>4, <2>5, <2>6, <2>7
<1>8. ASSUME NEW t \in Threads, Stray(t)
      PROVE TypeOK'
  <2> DEFINE a == [from |-> ClientOf[t], seq |-> 0, id |-> cmd[t].id,
                   type |-> cmd[t].kind, ok |-> TRUE, sound |-> FALSE]
  <2>1. a \in Ack /\ a.from \in Clients
    BY DEF Ack, Command
  <2> QED BY <1>6, <1>8, <2>1 DEF Stray
<1>9. CASE UNCHANGED vars
  BY <1>9 DEF vars
<1> QED
  BY <1>1, <1>2, <1>3, <1>4, <1>5, <1>7, <1>8, <1>9
     DEF Next, Step, GiveUp, Refuse, Accept

(* Every variable keeps its type, for every value of the constants.        *)
THEOREM TypeCorrect == Spec => []TypeOK
<1>1. Init => TypeOK
  BY TypeInit
<1>2. TypeOK /\ [Next]_vars => TypeOK'
  BY TypeNext
<1> QED
  BY <1>1, <1>2, PTL DEF Spec

-----------------------------------------------------------------------------
(* Request ids                                                             *)

(* Taking an id moves every earlier one a place further back.              *)
LEMMA BackAdvance ==
  ASSUME NEW id \in 1..IdMax, NEW k \in 1..IdMax, k < IdMax
  PROVE  /\ Advance(id) \in 1..IdMax
         /\ Back(Advance(id), 1) = id
         /\ Back(Advance(id), k + 1) = Back(id, k)
  BY ProceedAssumption DEF Advance, Back

(* Within IdMax commands an id stands for one command.                     *)
LEMMA BackInjective ==
  ASSUME NEW id \in 1..IdMax, NEW j \in 1..IdMax, NEW k \in 1..IdMax,
         Back(id, j) = Back(id, k)
  PROVE  j = k
  BY ProceedAssumption DEF Back

-----------------------------------------------------------------------------
(* The invariant is preserved, part by part                                *)

LEMMA LockNext == TypeOK /\ LockInv /\ [Next]_vars => LockInv'
<1> SUFFICES ASSUME TypeOK, LockInv, [Next]_vars PROVE LockInv'
  OBVIOUS
<1> USE ProceedAssumption DEF LockInv, clientVars, deviceVars, threadVars
<1>1. ASSUME NEW t \in Threads, NEW kind \in Kinds, Begin(t, kind)
      PROVE LockInv'
  <2> DEFINE c == ClientOf[t]
  <2>1. c \in Clients /\ issued[c] \in Nat /\ nextId[c] \in 1..IdMax
    BY DEF TypeOK
  <2>2. Back(Advance(nextId[c]), 1) = nextId[c]
    BY <2>1 DEF Back, Advance
  <2>3. \A u \in Threads : ClientOf[u] = c => pc[u] \notin Inside
    BY <1>1, <2>1 DEF Begin
  <2>4. /\ cmd'[t] = [seq |-> issued[c] + 1, id |-> nextId[c], kind |-> kind]
        /\ \A u \in Threads : u # t => cmd'[u] = cmd[u] /\ pc'[u] = pc[u]
        /\ pc'[t] = "send"
    BY <1>1 DEF Begin, TypeOK
  <2>5. /\ mutex'[c] = t /\ issued'[c] = issued[c] + 1
        /\ nextId'[c] = Advance(nextId[c])
        /\ \A b \in Clients : b # c => /\ mutex'[b] = mutex[b]
                                       /\ issued'[b] = issued[b]
                                       /\ nextId'[b] = nextId[b]
    BY <1>1, <2>1 DEF Begin, TypeOK
  <2>6. ASSUME NEW b \in Clients, mutex'[b] # None
        PROVE ClientOf[mutex'[b]] = b /\ pc'[mutex'[b]] \in Inside
    <3>1. CASE b = c
      BY <2>4, <2>5, <3>1
    <3>2. CASE b # c
      <4>1. mutex[b] \in Threads
        BY <2>5, <2>6, <3>2 DEF TypeOK
      <4> QED BY <1>1, <2>4, <2>5, <2>6, <3>2, <4>1
    <3> QED BY <3>1, <3>2
  <2>7. ASSUME NEW u \in Threads, pc'[u] \in Inside
        PROVE /\ mutex'[ClientOf[u]] = u
              /\ cmd'[u].seq = issued'[ClientOf[u]]
              /\ cmd'[u].seq > 0
              /\ cmd'[u].id = Back(nextId'[ClientOf[u]], 1)
              /\ cmd'[u].kind \in Kinds
    <3>1. CASE u = t
      BY <2>1, <2>2, <2>4, <2>5, <3>1
    <3>2. CASE u # t
      <4>1. ClientOf[u] \in Clients /\ ClientOf[u] # c
        BY <2>3, <2>4, <2>7, <3>2
      <4> QED BY <2>4, <2>5, <2>7, <3>2, <4>1
    <3> QED BY <3>1, <3>2
  <2> QED BY <2>6, <2>7 DEF Back
<1>2. ASSUME NEW t \in Threads, pc[t] \in Inside, pc' = [pc EXCEPT ![t] = pc'[t]],
             pc'[t] \in Inside, UNCHANGED <<cmd, clientVars>>
      PROVE LockInv'
  <2>1. \A u \in Threads : pc'[u] \in Inside <=> pc[u] \in Inside
    BY <1>2 DEF TypeOK
  <2>2. ASSUME NEW b \in Clients, mutex'[b] # None
        PROVE ClientOf[mutex'[b]] = b /\ pc'[mutex'[b]] \in Inside
    BY <1>2, <2>1, <2>2 DEF TypeOK
  <2> QED BY <1>2, <2>1, <2>2 DEF Back
<1>3. ASSUME NEW t \in Threads, NEW r \in {"ok", "failed"}, pc[t] \in Inside,
             NEW next \in {"idle", "copy"}, Return(t, r, next)
      PROVE LockInv'
  <2>1. mutex[ClientOf[t]] = t
    BY <1>3
  <2> QED BY <1>3, <2>1 DEF TypeOK, Return, Back
<1>4. ASSUME NEW t \in Threads, Step(t)
      PROVE LockInv'
  <2>1. CASE Send(t)
    BY <1>2, <2>1 DEF Send, TypeOK
  <2>2. CASE GiveUp(t) \/ Refuse(t) \/ Accept(t)
    BY <1>3, <2>2 DEF GiveUp, Refuse, Accept
  <2>3. CASE PollTimeout(t)
    BY <1>2, <2>3 DEF PollTimeout, TypeOK
  <2>4. CASE Receive(t)
    BY <1>2, <2>4, SMTT(30) DEF Receive, TypeOK
  <2>5. CASE Reject(t)
    BY <1>2, <2>5 DEF Reject, TypeOK
  <2>6. CASE Copy(t)
    BY <2>6 DEF Copy, TypeOK, Back
  <2> QED BY <1>4, <2>1, <2>2, <2>3, <2>4, <2>5, <2>6 DEF Step
<1>5. CASE UNCHANGED <<threadVars, clientVars>>
  BY <1>5 DEF Back
<1> QED
  BY <1>1, <1>4, <1>5 DEF Next, vars, Stray, Execute, Decline, Pending, Lose

(* What one client's counters need for its old datagrams to stay as they   *)
(* are: nothing but new executions.                                        *)
Frame(c) ==
  /\ issued'[c] = issued[c]
  /\ nextId'[c] = nextId[c]
  /\ executed[c] \subseteq executed'[c]

LEMMA FrameNext ==
  ASSUME TypeOK, NEW c \in Clients, [Next]_vars,
         ~\E t \in Threads, kind \in Kinds : Begin(t, kind) /\ ClientOf[t] = c
  PROVE  Frame(c)
<1> USE ProceedAssumption DEF clientVars, deviceVars, threadVars
<1>1. ASSUME NEW t \in Threads, NEW kind \in Kinds, Begin(t, kind)
      PROVE Frame(c)
  <2>1. ClientOf[t] # c /\ ClientOf[t] \in Clients
    BY <1>1
  <2> QED BY <1>1, <2>1 DEF Begin, Frame, TypeOK
<1>2. ASSUME NEW t \in Threads, Step(t) \/ Stray(t)
      PROVE Frame(c)
  <2>1. issued' = issued /\ nextId' = nextId /\ executed' = executed
    BY <1>2 DEF Step, Send, GiveUp, PollTimeout, Receive, Reject, Refuse,
                Accept, Copy, Return, Stray
  <2> QED BY <2>1 DEF Frame
<1>3. ASSUME NEW d \in net, Execute(d) \/ Decline(d) \/ Pending(d) \/ Lose(d)
      PROVE Frame(c)
  <2>1. issued' = issued /\ nextId' = nextId
    BY <1>3 DEF Execute, Decline, Pending, Lose
  <2>2. executed[c] \subseteq executed'[c]
    <3>1. CASE Execute(d)
      BY <3>1 DEF Execute, TypeOK
    <3> QED BY <1>3, <3>1 DEF Decline, Pending, Lose
  <2> QED BY <2>1, <2>2 DEF Frame
<1>4. CASE UNCHANGED vars
  BY <1>4 DEF vars, Frame
<1> QED
  BY <1>1, <1>2, <1>3, <1>4 DEF Next

LEMMA GenuineFrame ==
  ASSUME TypeOK, NEW c \in Clients, Frame(c), NEW a \in Ack, Genuine(c, a)
  PROVE  Genuine(c, a)' /\ Age(c, a.seq)' = Age(c, a.seq)
  BY DEF Frame, Genuine, Age, Back

(* The same across a command that starts, if the datagram is young enough. *)
LEMMA GenuineBegin ==
  ASSUME TypeOK, NEW t \in Threads, NEW kind \in Kinds, Begin(t, kind),
         NEW a \in Ack, Genuine(ClientOf[t], a),
         Age(ClientOf[t], a.seq) + 1 < IdMax
  PROVE  /\ Genuine(ClientOf[t], a)'
         /\ Age(ClientOf[t], a.seq)' = Age(ClientOf[t], a.seq) + 1
<1> DEFINE c == ClientOf[t]
           k == Age(c, a.seq) + 1
<1>1. /\ c \in Clients /\ issued[c] \in Nat /\ nextId[c] \in 1..IdMax
      /\ a.seq \in 1..issued[c] /\ k \in 1..IdMax /\ k < IdMax
  <2>1. c \in Clients /\ issued[c] \in Nat /\ nextId[c] \in 1..IdMax
    BY ProceedAssumption DEF TypeOK
  <2>2. a.seq \in 1..issued[c]
    BY DEF Genuine
  <2> QED BY <2>1, <2>2, ProceedAssumption DEF Age
<1>2. /\ issued'[c] = issued[c] + 1 /\ nextId'[c] = Advance(nextId[c])
      /\ executed' = executed
  BY <1>1 DEF Begin, TypeOK
<1>3. Age(c, a.seq)' = k
  BY <1>1, <1>2 DEF Age
<1>4. Back(nextId'[c], k + 1) = Back(nextId[c], k)
  BY <1>1, <1>2, BackAdvance
<1> QED
  BY <1>1, <1>2, <1>3, <1>4 DEF Genuine, Back

LEMMA NetNext ==
  TypeOK /\ LockInv /\ NetInv /\ [Next]_vars => NetInv'
<1> SUFFICES ASSUME TypeOK, LockInv, NetInv, [Next]_vars, NEW d \in net'
             PROVE  /\ d.seq \in 1..issued'[d.from]
                    /\ Age(d.from, d.seq)' < Lifetime
                    /\ d.id = Back(nextId'[d.from], Age(d.from, d.seq)' + 1)
                    /\ d.kind \in Kinds
  BY DEF NetInv, Back
<1> USE ProceedAssumption DEF clientVars, deviceVars, threadVars
<1>1. ASSUME NEW e \in net, d = e \/ d = [e EXCEPT !.held = TRUE]
      PROVE  /\ d.from = e.from /\ d.seq = e.seq /\ d.id = e.id
             /\ d.kind = e.kind /\ d.from \in Clients /\ d.seq \in Nat
  BY <1>1 DEF TypeOK, Datagram
<1>2. ASSUME NEW t \in Threads, NEW kind \in Kinds, Begin(t, kind),
             d.from = ClientOf[t]
      PROVE  /\ d.seq \in 1..issued'[d.from]
             /\ Age(d.from, d.seq)' < Lifetime
             /\ d.id = Back(nextId'[d.from], Age(d.from, d.seq)' + 1)
             /\ d.kind \in Kinds
  <2> DEFINE c == ClientOf[t]
             k == Age(c, d.seq) + 1
  <2>1. d \in net /\ issued[c] + 1 - d.seq < Lifetime
    BY <1>2 DEF Begin
  <2>2. /\ d.seq \in 1..issued[c] /\ d.id = Back(nextId[c], k) /\ d.kind \in Kinds
        /\ c \in Clients /\ issued[c] \in Nat /\ nextId[c] \in 1..IdMax
    BY <1>2, <2>1 DEF NetInv, TypeOK
  <2>3. issued'[c] = issued[c] + 1 /\ nextId'[c] = Advance(nextId[c])
    BY <1>2, <2>2 DEF Begin, TypeOK
  <2>4. k \in 1..IdMax /\ k < IdMax /\ k < Lifetime
    BY <2>1, <2>2 DEF Age
  <2>5. Age(c, d.seq)' = k
    BY <2>2, <2>3 DEF Age
  <2>6. Back(nextId'[c], k + 1) = Back(nextId[c], k)
    BY <2>2, <2>3, <2>4, BackAdvance
  <2> QED BY <1>2, <2>2, <2>3, <2>4, <2>5, <2>6
<1>3. ASSUME NEW e \in net, d = e \/ d = [e EXCEPT !.held = TRUE], Frame(d.from)
      PROVE  /\ d.seq \in 1..issued'[d.from]
             /\ Age(d.from, d.seq)' < Lifetime
             /\ d.id = Back(nextId'[d.from], Age(d.from, d.seq)' + 1)
             /\ d.kind \in Kinds
  BY <1>1, <1>3 DEF NetInv, Frame, Age
<1>4. ASSUME NEW t \in Threads, Send(t), d \notin net
      PROVE  /\ d.seq \in 1..issued'[d.from]
             /\ Age(d.from, d.seq)' < Lifetime
             /\ d.id = Back(nextId'[d.from], Age(d.from, d.seq)' + 1)
             /\ d.kind \in Kinds
  <2>1. /\ d.from = ClientOf[t] /\ d.seq = cmd[t].seq
        /\ d.id = cmd[t].id /\ d.kind = cmd[t].kind
    BY <1>4 DEF Send
  <2>2. issued' = issued /\ nextId' = nextId /\ pc[t] \in Inside
    BY <1>4 DEF Send
  <2>3. /\ cmd[t].seq = issued[ClientOf[t]] /\ cmd[t].seq > 0
        /\ cmd[t].id = Back(nextId[ClientOf[t]], 1) /\ cmd[t].kind \in Kinds
        /\ issued[ClientOf[t]] \in Nat
    BY <2>2 DEF LockInv, TypeOK
  <2> QED BY <2>1, <2>2, <2>3 DEF Age
<1>5. ASSUME NEW t \in Threads, Send(t), d \in net
      PROVE  Frame(d.from)
  BY <1>5 DEF Send, Frame
<1>6. CASE \E t \in Threads, kind \in Kinds : Begin(t, kind) /\ d.from = ClientOf[t]
  BY <1>2, <1>6
<1>7. CASE ~\E t \in Threads, kind \in Kinds : Begin(t, kind) /\ d.from = ClientOf[t]
  <2>1. (\E e \in net : d = e \/ d = [e EXCEPT !.held = TRUE])
        \/ (\E t \in Threads : Send(t) /\ d \notin net)
    BY DEF Next, vars, Step, Begin, Send, GiveUp, PollTimeout, Receive, Reject,
           Refuse, Accept, Copy, Return, Stray, Execute, Decline, Pending, Lose
  <2>2. ASSUME NEW e \in net, d = e \/ d = [e EXCEPT !.held = TRUE]
        PROVE  Frame(d.from)
    <3>1. d.from \in Clients
      BY <1>1, <2>2
    <3> QED BY <1>7, <3>1, FrameNext
  <2> QED BY <1>3, <1>4, <2>1, <2>2
<1> QED BY <1>6, <1>7

(* A socket nobody reads from keeps its invariant.                         *)
LEMMA RxFrame ==
  ASSUME TypeOK, NEW c \in Clients, RxOf(c), Frame(c),
         rx'[c] = rx[c], rx[c] = <<>> \/ (Unpolled(c) => Unpolled(c)')
  PROVE  RxOf(c)'
<1>1. Len(rx'[c]) = Len(rx[c]) /\ Len(rx'[c]) <= RxCapacity
  BY DEF RxOf
<1>2. ASSUME NEW i \in 1..Len(rx[c]), NEW a \in Ack, a = rx[c][i], a.sound
      PROVE  Genuine(c, a)' /\ Age(c, a.seq)' <= MaxAge(c, i)'
  <2>1. Len(rx[c]) \in Nat /\ rx[c] # <<>>
    <3>1. rx[c] \in Seq(Ack)
      BY DEF TypeOK
    <3> QED BY <3>1, LenProperties, EmptySeq
  <2>2. Genuine(c, a) /\ Age(c, a.seq) <= MaxAge(c, i)
    BY <1>2 DEF RxOf
  <2>3. Genuine(c, a)' /\ Age(c, a.seq)' = Age(c, a.seq)
    BY <2>2, GenuineFrame
  <2>4. MaxAge(c, i) <= MaxAge(c, i)'
    BY <2>1, ProceedAssumption DEF MaxAge
  <2>5. MaxAge(c, i) \in Int /\ MaxAge(c, i)' \in Int /\ Age(c, a.seq) \in Int
    BY <2>1, ProceedAssumption DEF MaxAge, Age, TypeOK, Ack
  <2> QED BY <2>2, <2>3, <2>4, <2>5
<1>3. \A i \in 1..Len(rx[c]) : rx[c][i] \in Ack
  BY ElementOfSeq DEF TypeOK
<1> QED BY <1>1, <1>2, <1>3 DEF RxOf

(* A thread's step leaves the other threads and the other clients alone.   *)
LEMMA StepLocal ==
  ASSUME TypeOK, NEW t \in Threads,
         Step(t) \/ (\E kind \in Kinds : Begin(t, kind)),
         NEW b \in Clients, b # ClientOf[t]
  PROVE  /\ \A u \in Threads : u # t => pc'[u] = pc[u] /\ retry'[u] = retry[u]
         /\ mutex'[b] = mutex[b] /\ rx'[b] = rx[b]
<1> USE ProceedAssumption DEF clientVars, deviceVars, TypeOK
<1>1. CASE \E kind \in Kinds : Begin(t, kind)
  BY <1>1 DEF Begin
<1>2. CASE Send(t)
  BY <1>2 DEF Send
<1>3. CASE GiveUp(t) \/ Refuse(t) \/ Accept(t)
  BY <1>3 DEF GiveUp, Refuse, Accept, Return
<1>4. CASE PollTimeout(t) \/ Reject(t) \/ Copy(t)
  BY <1>4 DEF PollTimeout, Reject, Copy
<1>5. CASE Receive(t)
  BY <1>5 DEF Receive
<1> QED BY <1>1, <1>2, <1>3, <1>4, <1>5 DEF Step

LEMMA RxOther ==
  ASSUME TypeOK, LockInv, [Next]_vars, NEW t \in Threads,
         Step(t) \/ (\E kind \in Kinds : Begin(t, kind)),
         NEW b \in Clients, b # ClientOf[t], RxOf(b), Frame(b)
  PROVE  RxOf(b)'
<1>1. /\ \A u \in Threads : u # t => pc'[u] = pc[u] /\ retry'[u] = retry[u]
      /\ mutex'[b] = mutex[b] /\ rx'[b] = rx[b]
  BY StepLocal
<1>2. mutex[b] # None => mutex[b] \in Threads /\ mutex[b] # t
  BY DEF LockInv, TypeOK
<1>3. Unpolled(b)' <=> Unpolled(b)
  BY <1>1, <1>2 DEF Unpolled, FirstPoll
<1> QED BY <1>1, <1>3, RxFrame

(* The receive buffer of the client whose thread takes the step.           *)
LEMMA RxStep ==
  ASSUME TypeOK, LockInv, RxInv, [Next]_vars, NEW t \in Threads, Step(t),
         Frame(ClientOf[t])
  PROVE  RxOf(ClientOf[t])'
<1> DEFINE c == ClientOf[t]
<1> USE ProceedAssumption DEF clientVars, deviceVars
<1>1. c \in Clients /\ RxOf(c) /\ CmdRetry \in Nat \ {0} /\ retry[t] \in 0..CmdRetry
  BY DEF RxInv, TypeOK
<1>2. CASE Send(t)
  <2>1. mutex[c] = t
    BY <1>2 DEF LockInv, Send
  <2>2. FirstPoll(t) => FirstPoll(t)'
    <3>1. pc[t] = "send" /\ pc'[t] = "poll" /\ retry'[t] = retry[t] - 1
      BY <1>2 DEF Send, TypeOK
    <3> QED BY <3>1 DEF FirstPoll
  <2>3. mutex' = mutex /\ rx' = rx
    BY <1>2 DEF Send
  <2> QED BY <1>1, <2>1, <2>2, <2>3, RxFrame DEF Unpolled
<1>3. CASE GiveUp(t) \/ Refuse(t) \/ Accept(t)
  <2>1. mutex[c] = t /\ rx' = rx
    BY <1>3 DEF LockInv, GiveUp, Refuse, Accept, Return
  <2>2. ~FirstPoll(t)
    BY <1>1, <1>3 DEF GiveUp, Refuse, Accept, FirstPoll
  <2> QED BY <1>1, <2>1, <2>2, RxFrame DEF Unpolled
<1>4. CASE PollTimeout(t)
  BY <1>1, <1>4, RxFrame DEF PollTimeout
<1>5. CASE Reject(t)
  <2>1. mutex[c] = t /\ rx' = rx
    BY <1>5 DEF LockInv, Reject
  <2>2. ~FirstPoll(t)
    BY <1>1, <1>5 DEF Reject, FirstPoll
  <2> QED BY <1>1, <2>1, <2>2, RxFrame DEF Unpolled
<1>6. CASE Copy(t)
  <2>1. /\ mutex' = mutex /\ rx' = rx /\ retry' = retry
        /\ \A u \in Threads : u # t => pc'[u] = pc[u]
    BY <1>6 DEF Copy, TypeOK
  <2>2. mutex[c] # None => mutex[c] \in Threads /\ mutex[c] # t
    <3>1. mutex[c] # None => mutex[c] \in Threads
      BY <1>1 DEF TypeOK
    <3>2. mutex[c] # None => pc[mutex[c]] \in Inside
      BY <1>1 DEF LockInv
    <3>3. pc[t] \notin Inside
      BY <1>6 DEF Copy
    <3> QED BY <3>1, <3>2, <3>3
  <2> QED BY <1>1, <2>1, <2>2, RxFrame DEF Unpolled, FirstPoll
<1>7. CASE Receive(t)
  <2>1. /\ rx[c] \in Seq(Ack) /\ rx[c] # <<>> /\ rx'[c] = Tail(rx[c])
        /\ mutex[c] = t /\ mutex'[c] = t /\ pc'[t] = "check"
    BY <1>1, <1>7 DEF Receive, TypeOK, LockInv
  <2>2. /\ Len(rx[c]) \in Nat /\ Len(rx'[c]) = Len(rx[c]) - 1
        /\ \A i \in 1..Len(rx'[c]) : rx'[c][i] = rx[c][i + 1]
    BY <2>1, HeadTailProperties, LenProperties
  <2>3. ASSUME NEW i \in 1..Len(rx'[c]), NEW a \in Ack, a = rx'[c][i], a.sound
        PROVE  Genuine(c, a)' /\ Age(c, a.seq)' <= MaxAge(c, i)'
    <3>1. i + 1 \in 1..Len(rx[c]) /\ rx[c][i + 1] = a
      BY <2>2, <2>3
    <3>2. Genuine(c, a) /\ Age(c, a.seq) <= MaxAge(c, i + 1)
      BY <1>1, <2>3, <3>1 DEF RxOf
    <3>3. Genuine(c, a)' /\ Age(c, a.seq)' = Age(c, a.seq)
      BY <1>1, <3>2, GenuineFrame
    <3>4. MaxAge(c, i + 1) <= MaxAge(c, i)'
      BY <2>2 DEF MaxAge
    <3>5. MaxAge(c, i + 1) \in Int /\ MaxAge(c, i)' \in Int /\ Age(c, a.seq) \in Int
      BY <1>1, <2>2 DEF MaxAge, Age, TypeOK, Ack
    <3> QED BY <3>2, <3>3, <3>4, <3>5
  <2>4. \A i \in 1..Len(rx'[c]) : rx'[c][i] \in Ack
    BY <2>1, <2>2, ElementOfSeq
  <2>5. Len(rx'[c]) <= RxCapacity
    BY <1>1, <2>2 DEF RxOf
  <2> QED BY <2>3, <2>4, <2>5 DEF RxOf
<1> QED BY <1>2, <1>3, <1>4, <1>5, <1>6, <1>7 DEF Step

(* ... of the client that starts a command: all it holds is one older.     *)
LEMMA RxBegin ==
  ASSUME TypeOK, LockInv, RxInv, NEW t \in Threads, NEW kind \in Kinds,
         Begin(t, kind)
  PROVE  RxOf(ClientOf[t])'
<1> DEFINE c == ClientOf[t]
<1> USE ProceedAssumption
<1>1. c \in Clients /\ RxOf(c) /\ rx[c] \in Seq(Ack)
  BY DEF RxInv, TypeOK
<1>2. /\ rx' = rx /\ mutex[c] = None /\ mutex'[c] = t
      /\ pc'[t] = "send" /\ retry'[t] = CmdRetry
  BY <1>1 DEF Begin, TypeOK
<1>3. ~Unpolled(c) /\ Unpolled(c)'
  BY <1>2 DEF Unpolled, FirstPoll
<1>4. Len(rx[c]) \in Nat /\ \A i \in 1..Len(rx[c]) : rx[c][i] \in Ack
  BY <1>1, LenProperties, ElementOfSeq
<1>5. ASSUME NEW i \in 1..Len(rx[c]), NEW a \in Ack, a = rx[c][i], a.sound
      PROVE  Genuine(c, a)' /\ Age(c, a.seq)' <= MaxAge(c, i)'
  <2>1. Genuine(c, a) /\ Age(c, a.seq) <= MaxAge(c, i)
    BY <1>1, <1>5 DEF RxOf
  <2>2. /\ MaxAge(c, i) = Lifetime - 1 + RxCapacity - i
        /\ MaxAge(c, i)' = Lifetime + RxCapacity - i
    BY <1>3, <1>4 DEF MaxAge
  <2>3. Age(c, a.seq) \in Int
    BY <1>1 DEF Age, TypeOK, Ack
  <2>4. Age(c, a.seq) + 1 < IdMax
    BY <1>4, <2>1, <2>2, <2>3
  <2>5. Genuine(c, a)' /\ Age(c, a.seq)' = Age(c, a.seq) + 1
    BY <2>1, <2>4, GenuineBegin
  <2> QED BY <1>4, <2>1, <2>2, <2>3, <2>5
<1> QED BY <1>1, <1>2, <1>4, <1>5 DEF RxOf

(* A datagram that arrives is the youngest.                                *)
LEMMA RxDeliver ==
  ASSUME TypeOK, RxInv, NEW b \in Clients, Frame(b), Unpolled(b)' = Unpolled(b),
         NEW a \in Ack, a.from \in Clients, Deliver(a),
         a.sound /\ a.from = b => /\ Genuine(b, a)'
                                  /\ Age(b, a.seq)' < Lifetime
  PROVE  RxOf(b)'
<1> USE ProceedAssumption
<1>1. RxOf(b) /\ rx[b] \in Seq(Ack) /\ Len(rx[b]) \in Nat
  BY LenProperties DEF RxInv, TypeOK
<1>2. PICK q \in Arrivals(a.from, a) : rx' = [rx EXCEPT ![a.from] = q]
  BY DEF Deliver
<1>3. q = rx[a.from] \/ (Len(rx[a.from]) < RxCapacity /\ q = Append(rx[a.from], a))
  BY <1>2, Zenon DEF Arrivals
<1>4. CASE rx'[b] = rx[b]
  BY <1>1, <1>4, RxFrame
<1>5. CASE a.from = b /\ Len(rx[b]) < RxCapacity /\ rx'[b] = Append(rx[b], a)
  <2>0. PICK n \in Nat : n = Len(rx[b])
    BY <1>1
  <2>1. /\ Len(rx'[b]) = n + 1 /\ rx'[b][n + 1] = a
        /\ \A i \in 1..n : rx'[b][i] = rx[b][i] /\ rx[b][i] \in Ack
    BY <1>1, <1>5, <2>0, AppendProperties, ElementOfSeq
  <2>2. ASSUME NEW i \in 1..n, NEW e \in Ack, e = rx[b][i], e.sound
        PROVE  Genuine(b, e)' /\ Age(b, e.seq)' <= MaxAge(b, i)'
    <3>1. Genuine(b, e) /\ Age(b, e.seq) <= MaxAge(b, i)
      BY <1>1, <2>0, <2>2 DEF RxOf
    <3>2. Genuine(b, e)' /\ Age(b, e.seq)' = Age(b, e.seq)
      BY <3>1, GenuineFrame
    <3>3. MaxAge(b, i)' = MaxAge(b, i)
      BY DEF MaxAge
    <3> QED BY <3>1, <3>2, <3>3
  <2>3. a.sound => Genuine(b, a)' /\ Age(b, a.seq)' <= MaxAge(b, n + 1)'
    <3>1. Lifetime - 1 <= MaxAge(b, n + 1)' /\ MaxAge(b, n + 1)' \in Int
      BY <1>5, <2>0 DEF MaxAge
    <3>2. issued'[b] \in Nat /\ a.seq \in Nat
      BY DEF TypeOK, Ack, Frame
    <3> QED BY <1>5, <3>1, <3>2 DEF Age
  <2>4. \A i \in 1..n + 1 : i \in 1..n \/ i = n + 1
    OBVIOUS
  <2> QED BY <1>1, <1>5, <2>0, <2>1, <2>2, <2>3, <2>4 DEF RxOf
<1> QED BY <1>2, <1>3, <1>4, <1>5 DEF TypeOK

LEMMA RxNext ==
  TypeOK /\ LockInv /\ NetInv /\ RxInv /\ [Next]_vars => RxInv'
<1> SUFFICES ASSUME TypeOK, LockInv, NetInv, RxInv, [Next]_vars,
                    NEW b \in Clients
             PROVE  RxOf(b)'
  BY DEF RxInv
<1> USE ProceedAssumption DEF clientVars, deviceVars, threadVars
<1>1. RxOf(b)
  BY DEF RxInv
<1>2. ASSUME NEW t \in Threads, Step(t)
      PROVE  RxOf(b)'
  <2>1. Frame(b)
    BY <1>2 DEF Step, Send, GiveUp, PollTimeout, Receive, Reject, Refuse,
                Accept, Copy, Return, Frame
  <2> QED BY <1>1, <1>2, <2>1, RxStep, RxOther
<1>3. ASSUME NEW t \in Threads, NEW kind \in Kinds, Begin(t, kind)
      PROVE  RxOf(b)'
  <2>1. CASE b = ClientOf[t]
    BY <1>3, <2>1, RxBegin
  <2>2. CASE b # ClientOf[t]
    <3>1. ClientOf[t] \in Clients
      OBVIOUS
    <3>2. Frame(b)
      BY <1>3, <2>2, <3>1 DEF Begin, Frame, TypeOK
    <3> QED BY <1>1, <1>3, <2>2, <3>2, RxOther
  <2> QED BY <2>1, <2>2
<1>4. ASSUME UNCHANGED <<threadVars, clientVars>>
      PROVE  Unpolled(b)' = Unpolled(b)
  BY <1>4 DEF Unpolled, FirstPoll
<1>5. ASSUME NEW t \in Threads, Stray(t)
      PROVE  RxOf(b)'
  <2> DEFINE a == [from |-> ClientOf[t], seq |-> 0, id |-> cmd[t].id,
                   type |-> cmd[t].kind, ok |-> TRUE, sound |-> FALSE]
  <2>1. a \in Ack /\ a.from \in Clients /\ ~a.sound
    BY DEF Ack, Command, TypeOK
  <2>2. Frame(b) /\ Unpolled(b)' = Unpolled(b) /\ Deliver(a)
    BY <1>4, <1>5 DEF Stray, Frame
  <2> QED BY <2>1, <2>2, RxDeliver
<1>6. ASSUME NEW d \in net, Execute(d) \/ Decline(d) \/ Pending(d)
      PROVE  RxOf(b)'
  <2>1. /\ d.from \in Clients /\ d.seq \in Nat /\ d.id \in 0..IdMax
        /\ d.kind \in Kinds
    BY DEF TypeOK, Datagram, NetInv
  <2>2. /\ issued' = issued /\ nextId' = nextId
        /\ Frame(b) /\ Unpolled(b)' = Unpolled(b)
    <3>1. UNCHANGED <<threadVars, clientVars>>
      BY <1>6 DEF Execute, Decline, Pending
    <3>2. executed[b] \subseteq executed'[b]
      <4>1. CASE Execute(d)
        BY <4>1 DEF Execute, TypeOK
      <4> QED BY <1>6, <4>1 DEF Decline, Pending
    <3> QED BY <1>4, <3>1, <3>2 DEF Frame
  <2>3. PICK type \in {d.kind, "PENDING"}, ok \in BOOLEAN :
          /\ Deliver(AckOf(d, type, ok))
          /\ ok /\ type \in Kinds => executed' = [executed EXCEPT ![d.from] = @ \cup {d.seq}]
    <3>1. "PENDING" \notin Kinds
      OBVIOUS
    <3> QED BY <1>6, <3>1 DEF Execute, Decline, Pending
  <2> DEFINE a == AckOf(d, type, ok)
  <2>4. /\ a \in Ack /\ a.from = d.from /\ a.seq = d.seq /\ a.id = d.id
        /\ a.type = type /\ a.ok = ok
    BY <2>1 DEF AckOf, Ack
  <2>5. ASSUME d.from = b
        PROVE  Genuine(b, a)' /\ Age(b, a.seq)' < Lifetime
    <3>1. /\ d.seq \in 1..issued[b] /\ Age(b, d.seq) < Lifetime
          /\ d.id = Back(nextId[b], Age(b, d.seq) + 1)
      BY <2>5 DEF NetInv
    <3>2. ok /\ type \in Kinds => d.seq \in executed'[b]
      BY <2>1, <2>3, <2>5 DEF TypeOK
    <3> HIDE DEF a
    <3> QED BY <2>2, <2>4, <3>1, <3>2 DEF Genuine, Age, Back
  <2> HIDE DEF a
  <2>6. Deliver(a)
    BY <2>3 DEF a
  <2> QED BY <2>1, <2>2, <2>4, <2>5, <2>6, RxDeliver
<1>7. ASSUME NEW d \in net, Lose(d)
      PROVE  RxOf(b)'
  <2>1. Frame(b) /\ Unpolled(b)' = Unpolled(b) /\ rx' = rx
    BY <1>4, <1>7 DEF Lose, Frame
  <2> QED BY <1>1, <2>1, RxFrame
<1>8. CASE UNCHANGED vars
  <2>1. Frame(b) /\ Unpolled(b)' = Unpolled(b) /\ rx' = rx
    BY <1>4, <1>8 DEF vars, Frame
  <2> QED BY <1>1, <2>1, RxFrame
<1> QED BY <1>2, <1>3, <1>5, <1>6, <1>7, <1>8 DEF Next

(* From here on the process has one client, so that the static buffer is   *)
(* written under that client's lock alone.                                 *)
OneClient == \A c, d \in Clients : c = d

LEMMA BufferNext ==
  OneClient /\ TypeOK /\ LockInv /\ RxInv /\ BufferInv /\ [Next]_vars
    => BufferInv'
<1> SUFFICES ASSUME OneClient, TypeOK, LockInv, RxInv, BufferInv, [Next]_vars,
                    NEW t \in Threads, pc'[t] = "check", sound'[t]
             PROVE  Genuine(ClientOf[t], buffer)' /\ Age(ClientOf[t], buffer.seq)' < IdMax
  BY DEF BufferInv
<1> DEFINE c == ClientOf[t]
<1> USE ProceedAssumption DEF clientVars, deviceVars, threadVars
<1>1. c \in Clients /\ \A u \in Threads : ClientOf[u] = c
  BY DEF OneClient
<1>2. \A u \in Threads : pc[t] \in Inside /\ pc[u] \in Inside => u = t
  BY <1>1 DEF LockInv
<1>3. ASSUME NEW kind \in Kinds, NEW u \in Threads, Begin(u, kind)
      PROVE  FALSE
  <2>1. mutex[c] = None /\ pc'[u] = "send" /\ (u # t => pc'[t] = pc[t])
    BY <1>1, <1>3 DEF Begin, TypeOK
  <2> QED BY <2>1 DEF LockInv
<1>4. Frame(c)
  BY <1>1, <1>3, FrameNext
<1>5. CASE Receive(t)
  <2>1. /\ rx[c] \in Seq(Ack) /\ rx[c] # <<>> /\ buffer' = Head(rx[c])
        /\ Head(rx[c]).sound /\ RxOf(c)
    BY <1>5 DEF Receive, RxInv, TypeOK
  <2>2. PICK a \in Ack : a = rx[c][1] /\ buffer' = a /\ 1 \in 1..Len(rx[c]) /\ a.sound
    BY <2>1, EmptySeq, ElementOfSeq
  <2>3. Genuine(c, a) /\ Age(c, a.seq) <= MaxAge(c, 1)
    BY <2>1, <2>2 DEF RxOf
  <2>4. MaxAge(c, 1) < IdMax /\ MaxAge(c, 1) \in Int /\ Age(c, a.seq) \in Int
    BY SMTT(30) DEF MaxAge, Age, TypeOK, Ack
  <2>5. Genuine(c, a)' /\ Age(c, a.seq)' = Age(c, a.seq)
    BY <1>4, <2>3, GenuineFrame
  <2> QED BY <2>2, <2>3, <2>4, <2>5 DEF Genuine, Age
<1>6. CASE pc[t] = "check" /\ sound[t] /\ buffer' = buffer
  <2>1. Genuine(c, buffer) /\ Age(c, buffer.seq) < IdMax /\ buffer \in Ack
    BY <1>6 DEF BufferInv, TypeOK
  <2>2. PICK a \in Ack : a = buffer /\ buffer' = a
    BY <1>6, <2>1
  <2>3. Genuine(c, a)' /\ Age(c, a.seq)' = Age(c, a.seq)
    BY <1>4, <2>1, <2>2, GenuineFrame
  <2> QED BY <2>1, <2>2, <2>3 DEF Genuine, Age
<1>7. ASSUME NEW u \in Threads, Step(u), ~Receive(t)
      PROVE  pc[t] = "check" /\ sound[t] /\ buffer' = buffer
  <2>1. CASE u = t
    <3>1. pc'[t] # "check"
      BY <1>7, <2>1 DEF Step, Send, GiveUp, PollTimeout, Reject, Refuse, Accept,
                        Copy, Return, TypeOK
    <3> QED BY <3>1
  <2>2. CASE u # t
    <3>1. pc[t] = "check" /\ sound[t]
      <4>1. CASE Send(u)
        BY <2>2, <4>1 DEF Send, TypeOK
      <4>2. CASE GiveUp(u) \/ Refuse(u) \/ Accept(u)
        BY <2>2, <4>2 DEF GiveUp, Refuse, Accept, Return, TypeOK
      <4>3. CASE PollTimeout(u) \/ Reject(u) \/ Copy(u)
        BY <2>2, <4>3 DEF PollTimeout, Reject, Copy, TypeOK
      <4>4. CASE Receive(u)
        BY <2>2, <4>4 DEF Receive, TypeOK
      <4> QED BY <1>7, <4>1, <4>2, <4>3, <4>4 DEF Step
    <3>2. ~Receive(u)
      BY <1>2, <2>2, <3>1 DEF Receive
    <3>3. buffer' = buffer
      BY <1>7, <3>2 DEF Step, Send, GiveUp, PollTimeout, Reject, Refuse, Accept,
                        Copy, Return
    <3> QED BY <3>1, <3>3
  <2> QED BY <2>1, <2>2
<1>8. ASSUME NEW d \in net, Execute(d) \/ Decline(d) \/ Pending(d) \/ Lose(d)
      PROVE  pc[t] = "check" /\ sound[t] /\ buffer' = buffer
  BY <1>8 DEF Execute, Decline, Pending, Lose
<1>9. ASSUME NEW u \in Threads, Stray(u)
      PROVE  pc[t] = "check" /\ sound[t] /\ buffer' = buffer
  BY <1>9 DEF Stray
<1> QED
  BY <1>3, <1>5, <1>6, <1>7, <1>8, <1>9 DEF Next, vars

LEMMA SuccessNext ==
  /\ TypeOK /\ LockInv /\ BufferInv /\ SuccessMeansExecuted /\ [Next]_vars
  => SuccessMeansExecuted'
<1> SUFFICES ASSUME TypeOK, LockInv, BufferInv, SuccessMeansExecuted, [Next]_vars,
                    NEW t \in Threads, verdict'[t] = "ok"
             PROVE  cmd'[t].seq \in executed'[ClientOf[t]]
  BY DEF SuccessMeansExecuted
<1> DEFINE c == ClientOf[t]
<1> USE ProceedAssumption DEF clientVars, deviceVars, threadVars
<1>1. CASE Accept(t)
  <2>1. /\ cmd' = cmd /\ executed' = executed /\ pc[t] = "check" /\ sound[t]
        /\ buffer.ok /\ buffer.id = cmd[t].id /\ buffer.type = cmd[t].kind
    BY <1>1 DEF Accept, Return, Matches
  <2>2. /\ Genuine(c, buffer) /\ Age(c, buffer.seq) < IdMax
        /\ issued[c] \in Nat /\ nextId[c] \in 1..IdMax /\ buffer.seq \in Nat
    BY <2>1 DEF BufferInv, TypeOK, Ack
  <2>3. /\ cmd[t].seq = issued[c] /\ cmd[t].id = Back(nextId[c], 1)
        /\ cmd[t].kind \in Kinds
    BY <2>1 DEF LockInv
  <2>4. /\ buffer.seq \in 1..issued[c]
        /\ Back(nextId[c], Age(c, buffer.seq) + 1) = Back(nextId[c], 1)
        /\ buffer.seq \in executed[c]
    BY <2>1, <2>2, <2>3 DEF Genuine
  <2>5. Age(c, buffer.seq) + 1 \in 1..IdMax
    BY <2>2, <2>4 DEF Age
  <2>6. Age(c, buffer.seq) + 1 = 1
    BY <2>2, <2>4, <2>5, BackInjective
  <2>7. buffer.seq = issued[c]
    BY <2>2, <2>6 DEF Age
  <2> QED BY <2>1, <2>3, <2>4, <2>7
<1>2. ASSUME verdict[t] = "ok", cmd'[t] = cmd[t], executed[c] \subseteq executed'[c]
      PROVE  cmd'[t].seq \in executed'[c]
  BY <1>2 DEF SuccessMeansExecuted
<1>3. ASSUME NEW u \in Threads, NEW kind \in Kinds, Begin(u, kind)
      PROVE  verdict[t] = "ok" /\ cmd'[t] = cmd[t] /\ executed' = executed
  BY <1>3 DEF Begin, TypeOK
<1>4. ASSUME NEW u \in Threads, Step(u), ~Accept(t)
      PROVE  verdict[t] = "ok" /\ cmd'[t] = cmd[t] /\ executed' = executed
  <2>1. CASE GiveUp(u) \/ Refuse(u)
    BY <2>1 DEF GiveUp, Refuse, Return, TypeOK
  <2>2. CASE Accept(u)
    BY <1>4, <2>2 DEF Accept, Return, TypeOK
  <2>3. CASE Send(u) \/ PollTimeout(u) \/ Receive(u) \/ Reject(u) \/ Copy(u)
    BY <2>3 DEF Send, PollTimeout, Receive, Reject, Copy
  <2> QED BY <1>4, <2>1, <2>2, <2>3 DEF Step
<1>5. ASSUME NEW d \in net, Execute(d)
      PROVE  cmd'[t].seq \in executed'[c]
  BY <1>2, <1>5 DEF Execute, TypeOK
<1>6. ASSUME NEW d \in net, Decline(d) \/ Pending(d) \/ Lose(d)
      PROVE  verdict[t] = "ok" /\ cmd'[t] = cmd[t] /\ executed' = executed
  BY <1>6 DEF Decline, Pending, Lose
<1>7. ASSUME NEW u \in Threads, Stray(u)
      PROVE  verdict[t] = "ok" /\ cmd'[t] = cmd[t] /\ executed' = executed
  BY <1>7 DEF Stray
<1> QED
  BY <1>1, <1>2, <1>3, <1>4, <1>5, <1>6, <1>7 DEF Next, vars

LEMMA IndInvInit == Init => IndInv
<1> SUFFICES ASSUME Init PROVE IndInv
  OBVIOUS
<1> USE ProceedAssumption DEF Init
<1>1. RxInv
  <2>1. \A c \in Clients : rx[c] = <<>> /\ Len(rx[c]) = 0
    BY EmptySeq
  <2> QED BY <2>1 DEF RxInv, RxOf
<1>2. LockInv /\ NetInv /\ BufferInv /\ SuccessMeansExecuted
  BY DEF LockInv, NetInv, BufferInv, SuccessMeansExecuted
<1> QED BY <1>1, <1>2 DEF IndInv

(* With one client IndInv is an invariant.                                 *)
THEOREM Invariance == ASSUME OneClient PROVE Spec => []IndInv
<1>1. Init => IndInv
  BY IndInvInit
<1>2. TypeOK /\ IndInv /\ [Next]_vars => IndInv'
  BY OneClient, LockNext, NetNext, RxNext, BufferNext, SuccessNext DEF IndInv
<1> QED
  BY <1>1, <1>2, TypeCorrect, PTL DEF Spec

(* With one client, proceed never takes another acknowledgement for its    *)
(* own: what it reports successful the device has executed.                *)
THEOREM Success == ASSUME OneClient PROVE Spec => []SuccessMeansExecuted
<1>1. IndInv => SuccessMeansExecuted
  BY DEF IndInv
<1> QED
  BY <1>1, Invariance, PTL

-----------------------------------------------------------------------------
(* proceed implements GvcpRpc                                              *)

(* The calls in progress, as the refinement mapping sees them.             *)
CallOf == [t \in Threads |-> IF pc[t] \in Inside THEN cmd[t].seq ELSE 0]

LEMMA CallsUnchanged ==
  ASSUME TypeOK, TypeOK', cmd' = cmd,
         \A t \in Threads : pc'[t] \in Inside <=> pc[t] \in Inside
  PROVE  CallOf' = CallOf
  BY DEF CallOf

LEMMA RpcNext ==
  /\ TypeOK /\ TypeOK' /\ LockInv /\ NetInv /\ SuccessMeansExecuted'
  /\ [Next]_vars
  => [Rpc!Next]_(Rpc!vars)
<1> SUFFICES ASSUME TypeOK, TypeOK', LockInv, NetInv, SuccessMeansExecuted', [Next]_vars
             PROVE  [Rpc!Next]_(Rpc!vars)
  OBVIOUS
<1> USE ProceedAssumption DEF clientVars, deviceVars, threadVars
<1>1. ASSUME NEW t \in Threads, NEW kind \in Kinds, Begin(t, kind)
      PROVE  Rpc!Call(t)
  <2> DEFINE c == ClientOf[t]
  <2>1. /\ c \in Clients /\ issued[c] \in Nat
        /\ pc' = [pc EXCEPT ![t] = "send"]
        /\ cmd'[t].seq = issued[c] + 1
        /\ \A u \in Threads : u # t => cmd'[u] = cmd[u]
    BY <1>1 DEF Begin, TypeOK
  <2>2. \A u \in Threads : ClientOf[u] = c => CallOf[u] = 0
    BY <1>1 DEF Begin, LockInv, CallOf
  <2>3. CallOf' = [CallOf EXCEPT ![t] = issued[c] + 1]
    BY <2>1 DEF CallOf, TypeOK
  <2> QED BY <1>1, <2>2, <2>3 DEF Rpc!Call, CallOf, Begin
<1>2. ASSUME NEW t \in Threads, NEW r \in {"ok", "failed"}, pc[t] \in Inside,
             NEW next \in {"idle", "copy"}, Return(t, r, next)
      PROVE  Rpc!Succeed(t) \/ Rpc!Fail(t)
  <2>1. cmd[t].seq # 0 /\ CallOf[t] = cmd[t].seq
    BY <1>2 DEF LockInv, CallOf, TypeOK, Command
  <2>2. CallOf' = [CallOf EXCEPT ![t] = 0]
    BY <1>2 DEF CallOf, Return, TypeOK
  <2>3. r = "ok" => cmd[t].seq \in executed[ClientOf[t]]
    BY <1>2 DEF SuccessMeansExecuted, Return, TypeOK
  <2>4. /\ verdict' = [verdict EXCEPT ![t] = r]
        /\ UNCHANGED <<issued, executed>>
    BY <1>2 DEF Return
  <2> QED BY <2>1, <2>2, <2>3, <2>4 DEF Rpc!Succeed, Rpc!Fail, CallOf
<1>3. ASSUME CallOf' = CallOf, UNCHANGED <<issued, executed, verdict>>
      PROVE  UNCHANGED Rpc!vars
  BY <1>3 DEF Rpc!vars, CallOf
<1>4. ASSUME NEW t \in Threads, Step(t)
      PROVE  Rpc!Succeed(t) \/ Rpc!Fail(t) \/ UNCHANGED Rpc!vars
  <2>1. CASE GiveUp(t) \/ Refuse(t) \/ Accept(t)
    BY <1>2, <2>1 DEF GiveUp, Refuse, Accept
  <2>2. CASE Send(t) \/ PollTimeout(t) \/ Receive(t) \/ Reject(t) \/ Copy(t)
    <3>1. cmd' = cmd /\ UNCHANGED <<issued, executed, verdict>>
      BY <2>2 DEF Send, PollTimeout, Receive, Reject, Copy
    <3>2. \E p \in Inside \cup {"idle"} :
            /\ pc[t] \in Inside <=> p \in Inside
            /\ pc' = [pc EXCEPT ![t] = p]
      <4>1. CASE Send(t)
        BY <4>1 DEF Send
      <4>2. CASE PollTimeout(t)
        BY <4>2 DEF PollTimeout
      <4>3. CASE Receive(t)
        BY <4>3 DEF Receive
      <4>4. CASE Reject(t)
        BY <4>4 DEF Reject
      <4>5. CASE Copy(t)
        BY <4>5 DEF Copy
      <4> QED
        BY <2>2, <4>1, <4>2, <4>3, <4>4, <4>5
    <3>3. \A u \in Threads : pc'[u] \in Inside <=> pc[u] \in Inside
      <4>1. PICK p \in Inside \cup {"idle"} :
              /\ pc[t] \in Inside <=> p \in Inside
              /\ pc' = [pc EXCEPT ![t] = p]
        BY <3>2
      <4>2. DOMAIN pc = Threads
        BY DEF TypeOK
      <4>3. TAKE u \in Threads
      <4>4. CASE u = t
        BY <4>1, <4>2, <4>4
      <4>5. CASE u # t
        BY <4>1, <4>2, <4>5
      <4> QED
        BY <4>4, <4>5
    <3> QED BY <1>3, <3>1, <3>3, CallsUnchanged
  <2> QED BY <1>4, <2>1, <2>2 DEF Step
<1>5. ASSUME NEW d \in net, Execute(d)
      PROVE  d.from \in Clients /\ Rpc!Execute(d.from, d.seq)
  <2>1. CallOf' = CallOf
    BY <1>5, CallsUnchanged DEF Execute
  <2> QED BY <1>5, <2>1 DEF Execute, NetInv, Rpc!Execute, CallOf, TypeOK, Datagram
<1>6. ASSUME UNCHANGED <<threadVars, issued, executed>>
      PROVE  UNCHANGED Rpc!vars
  BY <1>3, <1>6, CallsUnchanged
<1>7. ASSUME NEW d \in net, Decline(d) \/ Pending(d) \/ Lose(d)
      PROVE  UNCHANGED Rpc!vars
  BY <1>6, <1>7 DEF Decline, Pending, Lose
<1>8. ASSUME NEW t \in Threads, Stray(t)
      PROVE  UNCHANGED Rpc!vars
  BY <1>6, <1>8 DEF Stray
<1>9. CASE UNCHANGED vars
  BY <1>6, <1>9 DEF vars
<1> QED
  <2>1. ASSUME NEW d \in net, Execute(d)
        PROVE  Rpc!Next
    BY <1>5, <2>1 DEF Rpc!Next, NetInv
  <2> QED
    BY <1>1, <1>4, <1>7, <1>8, <1>9, <2>1 DEF Next, Rpc!Next

(* With one client, every behaviour of proceed, with its retries, ids and  *)
(* stale datagrams, is a behaviour of the one-command-at-a-time calls of   *)
(* GvcpRpc.                                                                *)
THEOREM Refinement == ASSUME OneClient PROVE Spec => ImplementsRpc
<1>1. Init => Rpc!Init
  BY DEF Init, Rpc!Init, Inside
<1>2. TypeOK /\ TypeOK' /\ IndInv /\ IndInv' /\ [Next]_vars => [Rpc!Next]_(Rpc!vars)
  BY RpcNext DEF IndInv
<1> QED
  BY <1>1, <1>2, TypeCorrect, Invariance, PTL DEF Spec, ImplementsRpc, Rpc!Spec
=============================================================================
