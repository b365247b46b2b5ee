---------------------------- MODULE GvcpHeartbeat ----------------------------
(***************************************************************************)
(* The heartbeat of a session against the clock: doHeartbeat, proceed and  *)
(* what controlDevice hands them (gvcpclient.cpp), with the timer of the   *)
(* device that takes the privilege back.  GvcpSession says when the thread *)
(* runs; here it runs, and the question is whether it beats in time.  No   *)
(* name here is one of GvcpSession's, so that a module may extend both.    *)
(*                                                                         *)
(* Time passes by Tick, while nothing is due; what takes no time compared  *)
(* to a poll (a lock, a send, an answer that is not late) is done between  *)
(* two ticks.  A request arrives at once or is lost; its acknowledgement   *)
(* arrives at once, is lost, or comes so late that it is lost on the poll. *)
(***************************************************************************)
EXTENDS Integers

CONSTANTS
  Timeouts,   \* what the timeout register of the device may be set to
  Poll,       \* how long proceed waits for an answer, 200 ms
  Margin,     \* what the client keeps off the timeout, 400 ms
  Default,    \* _heartbeatTimeout when the register could not be read, 500 ms
  Wrap,       \* the word it is stored in, 2^32 ms
  CmdRetry,   \* _cmdRetry
  Garbage,    \* what another answer may hold where the timeout is read
  MaxLost,    \* bound: exchanges spoilt one after the other
  MaxLate,    \* bound: late acknowledgements
  MaxRequests    \* bound: calls of the application

ASSUME HeartbeatAssumption ==
  /\ Poll \in Nat \ {0} /\ Margin \in Nat /\ CmdRetry \in Nat \ {0}
  /\ Default \in Nat \ {0} /\ Wrap \in Nat /\ Default < Wrap
  /\ Timeouts \subseteq (1..(Wrap - 1)) \ {Margin}
  /\ Garbage \subseteq 0..(Wrap - 1)
  /\ MaxLost \in Nat /\ MaxLate \in Nat /\ MaxRequests \in Nat

VARIABLES
  controlled, \* the device counts us as its controller
  timeout,    \* its heartbeat timeout register
  countdown,  \* what is left of it
  at,         \* where the two threads stand
  tries,      \* retry, of the thread that has _proceedMutex
  poll,       \* what is left of its poll
  command,    \* what the application sends: a new timeout, or 0 for a read
  period,     \* _heartbeatTimeout
  wait,       \* what is left of the heartbeat's wait_for
  answer,     \* the timeout in the heartbeat's answer
  foreign,    \* another datagram was received over it
  basis,      \* history: the timeout that period was computed from
  lost,       \* exchanges spoilt since one was not
  own, old,   \* acknowledgements in the socket, of this command or before
  late,       \* one that is late: "none", "own" or "old"
  lates,      \* how many have been
  requests

deviceVars == <<controlled, timeout, countdown>>
beatVars == <<period, wait, answer, foreign, basis>>
netVars == <<lost, own, old, late, lates>>
clockVars == <<deviceVars, at, tries, poll, command, beatVars, netVars, requests>>

Threads == {"app", "heartbeat"}

(* Mutants: the timeout is taken as it is, or the difference is signed.    *)
PeriodWithoutMargin(value) == value
PeriodSigned(value) == value - Margin

(* regs.at(0) - 400 in 32 bits.                                            *)
Period(value) == (value - Margin) % Wrap

(* After the handshake: the privilege has been written, then the timeout   *)
(* read or not, and the thread started.                                    *)
ClockInit ==
  /\ controlled = TRUE
  /\ timeout \in Timeouts
  /\ countdown = timeout
  /\ \/ period = Period(timeout) /\ basis = timeout
     \/ period = Default /\ basis = Default + Margin
  /\ wait = period
  /\ at = [t \in Threads |-> IF t = "app" THEN "idle" ELSE "wait"]
  /\ tries = 0 /\ poll = 0 /\ command = 0
  /\ answer = 0 /\ foreign = FALSE
  /\ lost = 0 /\ own = 0 /\ old = 0 /\ late = "none" /\ lates = 0
  /\ requests = 0

-----------------------------------------------------------------------------
(* proceed                                                                 *)

Move(t, next) == at' = [at EXCEPT ![t] = next]

MutexFree == \A t \in Threads : at[t] \notin {"send", "poll"}

(* The lock, the notification that restarts a wait, the new id that makes  *)
(* an old acknowledgement of what the socket holds.                        *)
Lock(t) ==
  /\ at[t] = "lock"
  /\ MutexFree
  /\ Move(t, "send")
  /\ tries' = CmdRetry
  /\ wait' = IF at["heartbeat"] = "wait" THEN period ELSE wait
  /\ old' = old + own
  /\ own' = 0
  /\ late' = IF late = "own" THEN "old" ELSE late
  /\ UNCHANGED <<deviceVars, poll, command, period, answer, foreign, basis,
                 lost, lates, requests>>

(* The device has received a command: its timer starts anew.  It writes    *)
(* for its controller only.                                                *)
Execute(t) ==
  /\ timeout' = IF t = "app" /\ command \in Timeouts /\ controlled THEN command
               ELSE timeout
  /\ countdown' = IF controlled THEN timeout' ELSE countdown
  /\ UNCHANGED controlled

(* The datagram is sent, and the poll begins.                              *)
Send(t) ==
  /\ at[t] = "send"
  /\ Move(t, "poll")
  /\ tries' = tries - 1
  /\ poll' = Poll
  /\ \/ /\ lost < MaxLost /\ lost' = lost + 1           \* the request is lost
        /\ UNCHANGED <<deviceVars, own, late, lates>>
     \/ /\ Execute(t)
        /\ \/ own' = own + 1 /\ lost' = 0 /\ UNCHANGED <<late, lates>>
           \/ /\ lost < MaxLost /\ lost' = lost + 1     \* its answer is
              /\ UNCHANGED <<own, late, lates>>
           \/ /\ lost < MaxLost /\ lost' = lost + 1     \* its answer is late
              /\ late = "none" /\ late' = "own"
              /\ lates < MaxLate /\ lates' = lates + 1
              /\ UNCHANGED own
  /\ UNCHANGED <<command, beatVars, old, requests>>

(* The call is over, with its answer or without; the mutex is released.    *)
Leave(t, ok) ==
  /\ Move(t, CASE t = "app" -> "idle"
               [] t = "heartbeat" /\ ok -> "copy"
               [] t = "heartbeat" /\ ~ok -> "wait")
  /\ wait' = IF t = "heartbeat" THEN period ELSE wait

Retry(t) ==
  IF tries > 0 THEN Move(t, "send") /\ UNCHANGED wait ELSE Leave(t, FALSE)

(* Whatever is received is received into the shared buffer.                *)
Overwrite(t) ==
  foreign' = IF t = "heartbeat" THEN FALSE
             ELSE foreign \/ at["heartbeat"] = "copy"

(* An acknowledgement with another id uses the try up.                     *)
ReceiveOld(t) ==
  /\ at[t] = "poll"
  /\ old > 0
  /\ old' = old - 1
  /\ Retry(t)
  /\ Overwrite(t)
  /\ UNCHANGED <<deviceVars, tries, poll, command, period, answer, basis,
                 lost, own, late, lates, requests>>

ReceiveOwn(t) ==
  /\ at[t] = "poll"
  /\ old = 0 /\ own > 0
  /\ own' = own - 1
  /\ Leave(t, TRUE)
  /\ answer' = IF t = "heartbeat" THEN timeout ELSE answer
  /\ Overwrite(t)
  /\ UNCHANGED <<deviceVars, tries, poll, command, period, basis,
                 lost, old, late, lates, requests>>

PollEnds(t) ==
  /\ at[t] = "poll"
  /\ own + old = 0 /\ poll = 0
  /\ Retry(t)
  /\ UNCHANGED <<deviceVars, tries, poll, command, period, answer, foreign, basis,
                 netVars, requests>>

-----------------------------------------------------------------------------
(* The heartbeat thread                                                    *)

WaitEnds ==
  /\ at["heartbeat"] = "wait"
  /\ wait = 0
  /\ Move("heartbeat", "lock")
  /\ UNCHANGED <<deviceVars, tries, poll, command, beatVars, netVars, requests>>

(* Mutant: the answer is not looked at.                                    *)
TakeNothing ==
  /\ at["heartbeat"] = "copy"
  /\ wait' = period
  /\ Move("heartbeat", "wait")
  /\ UNCHANGED <<deviceVars, tries, poll, command, period, answer, foreign,
                 basis, netVars, requests>>

(* The period is set from the buffer, which another thread may have        *)
(* received into since proceed returned, and the next wait begins.  What   *)
(* is there then may say that it holds no register: the period is kept.    *)
TakeTimeout ==
  /\ at["heartbeat"] = "copy"
  /\ \/ /\ basis' \in IF foreign THEN Garbage ELSE {answer}
        /\ period' = Period(basis')
     \/ foreign /\ UNCHANGED <<period, basis>>
  /\ wait' = period'
  /\ Move("heartbeat", "wait")
  /\ UNCHANGED <<deviceVars, tries, poll, command, answer, foreign, netVars, requests>>

-----------------------------------------------------------------------------
(* The application, the network, the device, the clock                     *)

Call ==
  /\ at["app"] = "idle"
  /\ requests < MaxRequests
  /\ requests' = requests + 1
  /\ command' \in {0} \cup Timeouts
  /\ Move("app", "lock")
  /\ UNCHANGED <<deviceVars, tries, poll, beatVars, netVars>>

Deliver ==
  /\ late # "none"
  /\ IF late = "own" THEN own' = own + 1 /\ UNCHANGED old
     ELSE old' = old + 1 /\ UNCHANGED own
  /\ late' = "none"
  /\ UNCHANGED <<deviceVars, at, tries, poll, command, beatVars, lost, lates, requests>>

(* Nobody has been heard of for as long as the device waits.               *)
Expire ==
  /\ controlled
  /\ countdown = 0
  /\ controlled' = FALSE
  /\ UNCHANGED <<timeout, countdown, at, tries, poll, command, beatVars,
                 netVars, requests>>

Due ==
  \/ controlled /\ countdown = 0
  \/ at["heartbeat"] = "wait" /\ wait = 0
  \/ at["heartbeat"] = "copy"
  \/ \E t \in Threads :
       \/ at[t] = "lock" /\ MutexFree
       \/ at[t] = "send"
       \/ at[t] = "poll" /\ (own + old > 0 \/ poll = 0)

Tick ==
  /\ ~Due
  /\ countdown' = IF controlled THEN countdown - 1 ELSE countdown
  /\ wait' = IF at["heartbeat"] = "wait" THEN wait - 1 ELSE wait
  /\ poll' = IF MutexFree THEN poll ELSE poll - 1
  /\ UNCHANGED <<controlled, timeout, at, tries, command, period, answer, foreign,
                 basis, netVars, requests>>

Proceed(t) == Lock(t) \/ Send(t) \/ ReceiveOld(t) \/ ReceiveOwn(t) \/ PollEnds(t)

HeartbeatThread == WaitEnds \/ Proceed("heartbeat") \/ TakeTimeout

ClockNext == HeartbeatThread \/ Proceed("app") \/ Call \/ Deliver \/ Expire \/ Tick

ClockSpec == ClockInit /\ [][ClockNext]_clockVars

(* Both threads are scheduled and the clock runs.                          *)
FairClockSpec ==
  /\ ClockSpec
  /\ WF_clockVars(HeartbeatThread) /\ WF_clockVars(Proceed("app"))
  /\ WF_clockVars(Expire) /\ WF_clockVars(Tick)

-----------------------------------------------------------------------------
(* The variables have their types.                                         *)
ClockTypeOK ==
  /\ controlled \in BOOLEAN
  /\ timeout \in Timeouts
  /\ countdown \in 0..(Wrap - 1)
  /\ at \in [Threads -> {"idle", "wait", "lock", "send", "poll", "copy"}]
  /\ tries \in 0..CmdRetry
  /\ poll \in 0..Poll
  /\ command \in {0} \cup Timeouts
  /\ period \in 0..(Wrap - 1)
  /\ wait \in 0..(Wrap - 1)
  /\ answer \in Timeouts \cup {0}
  /\ foreign \in BOOLEAN
  /\ basis \in Nat
  /\ lost \in 0..MaxLost
  /\ own \in Nat /\ old \in Nat
  /\ late \in {"none", "own", "old"}
  /\ lates \in 0..MaxLate
  /\ requests \in 0..MaxRequests

(* The period in use was computed from a timeout the device allows, and    *)
(* one that leaves a period at all.                                        *)
Fits == Margin < basis /\ basis <= timeout

(* A session whose period fits never lets the device's timer run out, with *)
(* a datagram lost in each exchange, old acknowledgements in the socket    *)
(* and calls of the application that put the next beat off.                *)
PrivilegeKept == [][controlled /\ ~controlled' => ~Fits]_clockVars

(* When the application writes the timeout register, or another answer was *)
(* taken for the heartbeat's, the period comes to fit again: at the next   *)
(* beat, which after a timeout below the margin is 2^32 ms away.           *)
Adapts == []<>(Fits \/ timeout < Margin)
=============================================================================
