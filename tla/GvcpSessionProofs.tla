------------------------- MODULE GvcpSessionProofs -------------------------
(***************************************************************************)
(* Proofs about the session and its heartbeat: GvcpSession, for any        *)
(* devices and any number of calls, then GvcpHeartbeat, for any timeouts,  *)
(* polls, margin and retries.                                              *)
(***************************************************************************)
EXTENDS GvcpSession, GvcpHeartbeat, TLAPS

USE SessionAssumption

LEMMA TypeNext == TypeOK /\ [Next]_vars => TypeOK'
<1> SUFFICES ASSUME TypeOK, [Next]_vars PROVE TypeOK'
  OBVIOUS
<1> USE DEF TypeOK, appVars, sessionVars, threadVars
<1>1. ASSUME NEW d \in Devices,
             ControlAgain(d) \/ Control(d) \/ MonitorAgain(d) \/ Monitor(d)
      PROVE  TypeOK'
  BY <1>1 DEF ControlAgain, Control, MonitorAgain, Monitor, Called
<1>2. ASSUME NEW d \in Devices, Device(d)
      PROVE  TypeOK'
  BY <1>2 DEF Device
<1>3. CASE Release \/ Copy \/ Destroy \/ Free \/ Command
  <2>1. CASE Release \/ Destroy
    BY <2>1 DEF Release, Destroy, Called
  <2>2. CASE Copy \/ Free
    <3>1. handles' \in Nat
      BY <2>2 DEF Copy, Free
    <3> QED BY <2>2, <3>1 DEF Copy, Free
  <2>3. CASE Command
    BY <2>3 DEF Command, Notify, Notified
  <2> QED BY <1>3, <2>1, <2>2, <2>3
<1>4. CASE BindController \/ BindMonitor
  <2>1. enable' \in BOOLEAN /\ granted' \in BOOLEAN /\ broken' \in BOOLEAN
    BY <1>4, Zenon DEF BindController, BindMonitor, Escape
  <2>2. CASE BindController
    BY <2>1, <2>2 DEF BindController, Goto, Escape
  <2>3. CASE BindMonitor
    BY <2>1, <2>3 DEF BindMonitor, Goto, Return
  <2> QED BY <1>4, <2>2, <2>3
<1>5. CASE ReadCCP \/ ReadTimeout \/ ReadMonitored
  <2>1. enable' \in BOOLEAN /\ granted' \in BOOLEAN /\ broken' \in BOOLEAN
    BY <1>5, Zenon DEF ReadCCP, ReadTimeout, ReadMonitored, Escape, Notify
  <2> QED
    BY <1>5, <2>1 DEF ReadCCP, ReadTimeout, ReadMonitored, Goto, Return,
                      ReleaseThen, Escape, Notify, Notified
<1>6. CASE WriteCCP
  <2>1. enable' \in BOOLEAN /\ granted' \in BOOLEAN /\ broken' \in BOOLEAN
    BY <1>6, Zenon DEF WriteCCP, Notify, Escape
  <2>2. ccp' \in [Devices -> {"open", "us", "rival"}]
    BY <1>6 DEF WriteCCP
  <2> QED
    BY <1>6, <2>1, <2>2 DEF WriteCCP, Goto, ReleaseThen, Escape, Notify, Notified
<1>7. CASE Spawn \/ Stop \/ Join
  <2>1. enable' \in BOOLEAN /\ granted' \in BOOLEAN /\ broken' \in BOOLEAN
    BY <1>7, Zenon DEF Spawn, Stop, Join
  <2>2. CASE Spawn \/ Join
    BY <2>1, <2>2 DEF Spawn, Join, Goto, Return
  <2>3. CASE Stop
    BY <2>1, <2>3 DEF Stop, Goto, Notified
  <2> QED BY <1>7, <2>2, <2>3
<1>8. CASE Clear \/ Close
  <2>1. enable' \in BOOLEAN /\ granted' \in BOOLEAN /\ broken' \in BOOLEAN
    BY <1>8, Zenon DEF Clear, Close, Escape
  <2>2. CASE Clear
    <3>1. ccp' \in [Devices -> {"open", "us", "rival"}]
      BY <2>2 DEF Clear
    <3> QED BY <2>1, <2>2, <3>1 DEF Clear, Goto, Escape
  <2>3. CASE Close
    BY <2>1, <2>3 DEF Close, Goto
  <2> QED BY <1>8, <2>2, <2>3
<1>9. CASE Heartbeat \/ HbSpurious
  BY <1>9 DEF Heartbeat, HbCheck, HbEnter, HbTimeout, HbBeat, HbThrows, HbSpurious
<1>10. CASE UNCHANGED vars
  BY <1>10 DEF vars
<1> QED
  BY <1>1, <1>2, <1>3, <1>4, <1>5, <1>6, <1>7, <1>8, <1>9, <1>10 DEF Next, App

(* Every variable keeps its type, for any set of devices.                  *)
THEOREM TypeCorrect == Spec => []TypeOK
<1>1. Init => TypeOK
  <2>1. Init => enable \in BOOLEAN /\ granted \in BOOLEAN /\ broken \in BOOLEAN
    BY Zenon DEF Init
  <2> QED BY <2>1 DEF Init, TypeOK
<1> QED
  BY <1>1, TypeNext, PTL DEF Spec

LEMMA SessionNext == TypeOK /\ SessionInv /\ [Next]_vars => SessionInv'
<1> SUFFICES ASSUME TypeOK, SessionInv, [Next]_vars PROVE SessionInv'
  OBVIOUS
<1> USE DEF SessionInv, appVars, sessionVars, threadVars
<1>1. ASSUME NEW d \in Devices, ControlAgain(d) \/ MonitorAgain(d)
      PROVE  SessionInv'
  BY <1>1 DEF ControlAgain, MonitorAgain, Called
<1>2. ASSUME NEW d \in Devices, Control(d)
      PROVE  SessionInv'
  BY <1>2 DEF Control, Called
<1>3. ASSUME NEW d \in Devices, Monitor(d)
      PROVE  SessionInv'
  BY <1>3 DEF Monitor, Called
<1>4. ASSUME NEW d \in Devices, Device(d)
      PROVE  SessionInv'
  BY <1>4 DEF Device
<1>5. CASE Release \/ Destroy
  BY <1>5 DEF Release, Destroy, Called
<1>6. CASE Command
  BY <1>6 DEF Command, Notify, Notified
<1>7. CASE BindController
  BY <1>7 DEF BindController, Goto, Escape
<1>8. CASE ReadCCP
  BY <1>8 DEF ReadCCP, Goto, ReleaseThen, Escape, Notify, Notified
<1>9. CASE WriteCCP
  BY <1>9 DEF WriteCCP, Goto, ReleaseThen, Escape, Notify, Notified
<1>10. CASE ReadTimeout
  BY <1>10 DEF ReadTimeout, Goto, Escape, Notify, Notified
<1>11. CASE Spawn
  BY <1>11 DEF Spawn, Goto, Return
<1>12. CASE BindMonitor
  BY <1>12 DEF BindMonitor, Goto, Return
<1>13. CASE ReadMonitored
  BY <1>13 DEF ReadMonitored, Return, ReleaseThen, Escape, Notify, Notified
<1>14. CASE Stop
  BY <1>14 DEF Stop, Goto, Notified
<1>15. CASE Join
  BY <1>15 DEF Join, Goto
<1>16. CASE Clear
  BY <1>16 DEF Clear, Goto, Escape
<1>17. CASE Close
  BY <1>17 DEF Close, Goto, TypeOK
<1>18. CASE HbCheck \/ HbEnter \/ HbTimeout \/ HbSpurious
  BY <1>18 DEF HbCheck, HbEnter, HbTimeout, HbSpurious
<1>19. CASE HbBeat
  BY <1>19 DEF HbBeat, TypeOK
<1>20. CASE HbThrows
  BY <1>20 DEF HbThrows, Running
<1>21. CASE Copy
  BY <1>21 DEF Copy
<1>22. CASE Free
  BY <1>22 DEF Free
<1>23. CASE UNCHANGED vars
  BY <1>23 DEF vars
<1> QED
  BY <1>1, <1>2, <1>3, <1>4, <1>5, <1>6, <1>7, <1>8, <1>9, <1>10, <1>11, <1>12,
     <1>13, <1>14, <1>15, <1>16, <1>17, <1>18, <1>19, <1>20, <1>21, <1>22, <1>23
     DEF Next, App, Heartbeat

(* SessionInv is an invariant, for any set of devices.                     *)
THEOREM Invariance == Spec => []SessionInv
<1>1. Init => SessionInv
  BY DEF Init, SessionInv
<1>2. TypeOK /\ SessionInv /\ [Next]_vars => SessionInv'
  BY SessionNext
<1> QED
  BY <1>1, <1>2, TypeCorrect, PTL DEF Spec

(* No heartbeat thread is overwritten, none outlives the implementation,  *)
(* and none sends outside its session.                                     *)
THEOREM ThreadSafety == Spec => []ThreadEndsFirst
<1>1. SessionInv => ThreadEndsFirst
  BY DEF SessionInv, ThreadEndsFirst
<1> QED
  BY <1>1, Invariance, PTL

(* A controller no exception has left half made was granted its privilege  *)
(* and has its socket and its thread, for any set of devices.              *)
THEOREM SessionSafety == Spec => []ControllerIsWhole
<1>1. SessionInv => ControllerIsWhole
  BY DEF SessionInv, ControllerIsWhole
<1> QED
  BY <1>1, Invariance, PTL

(* A call that returns false leaves no session, no socket, no thread.      *)
THEOREM FailureIsClean == Spec => []FailureReleases
<1>1. SessionInv => FailureReleases
  BY DEF SessionInv, FailureReleases
<1> QED
  BY <1>1, Invariance, PTL

(* A heartbeat thread told to stop sends once more at most.                *)
THEOREM HeartbeatStops == Spec => []OneLateBeat
<1>1. TypeOK /\ SessionInv => OneLateBeat
  BY DEF TypeOK, SessionInv, OneLateBeat
<1> QED
  BY <1>1, TypeCorrect, Invariance, PTL
-----------------------------------------------------------------------------
(* The heartbeat against the clock.  The argument is on two amounts: what   *)
(* is left of the device's timer, and what the polls lost since the device  *)
(* was last heard of have cost.                                             *)

Exchange == {"send", "poll"}

LEMMA ClockConstants ==
  /\ Poll \in Nat /\ Poll > 0 /\ Margin \in Nat /\ CmdRetry \in Nat /\ CmdRetry > 0
  /\ Default \in Nat /\ Wrap \in Nat /\ Default < Wrap
  /\ \A t \in Timeouts : t \in 1..(Wrap - 1)
  /\ \A g \in Garbage : g \in 0..(Wrap - 1)
  /\ MaxLost \in Nat /\ MaxLate \in Nat /\ MaxRequests \in Nat
BY HeartbeatAssumption

\* What is taken for the timeout fits in the word it is stored in.
LEMMA Values ==
  /\ \A value \in Garbage : value \in 0..(Wrap - 1)
  /\ \A value \in Timeouts \cup {0} : value \in 0..(Wrap - 1)
BY ClockConstants

\* A period fits in the word too.
LEMMA PeriodFits ==
  ASSUME NEW value \in 0..(Wrap - 1)
  PROVE  Period(value) \in 0..(Wrap - 1)
<1>1. value - Margin \in Int /\ Wrap \in Nat /\ Wrap > 0
  BY ClockConstants
<1>2. (value - Margin) % Wrap \in 0..(Wrap - 1)
  BY <1>1
<1> QED
  BY <1>2 DEF Period

\* Where the two threads may stand: one at a time is between a command and its
\* answer.
Places ==
  /\ at["app"] \in {"idle", "lock", "send", "poll"}
  /\ at["heartbeat"] \in {"wait", "lock", "send", "poll", "copy"}
  /\ ~(at["app"] \in Exchange /\ at["heartbeat"] \in Exchange)
  /\ "send" \in {at["app"], at["heartbeat"]} => tries > 0

LEMMA PlacesNext ==
  ASSUME ClockTypeOK, Places, [ClockNext]_clockVars
  PROVE  Places'
<1>0. at \in [Threads -> {"idle", "wait", "lock", "send", "poll", "copy"}]
      /\ Threads = {"app", "heartbeat"}
  BY DEF ClockTypeOK, Threads
<1> USE DEF Move
<1>1. ASSUME NEW t \in Threads, Lock(t)
      PROVE  Places'
  BY <1>0, <1>1, ClockConstants DEF Places, Exchange, Lock, MutexFree
<1>2. ASSUME NEW t \in Threads, Send(t)
      PROVE  Places'
  BY <1>0, <1>2 DEF Places, Exchange, Send
<1>3. ASSUME NEW t \in Threads, ReceiveOld(t) \/ PollEnds(t) \/ ReceiveOwn(t)
      PROVE  Places'
  <2>1. /\ at[t] = "poll"
        /\ at' = [at EXCEPT ![t] = at'[t]]
        /\ \/ at'[t] = "send"
           \/ t = "app" /\ at'[t] = "idle"
           \/ t = "heartbeat" /\ at'[t] \in {"copy", "wait"}
        /\ at'[t] = "send" => tries > 0
        /\ tries' = tries
    BY <1>0, <1>3 DEF ReceiveOld, PollEnds, ReceiveOwn, Retry, Leave
  <2> QED
    BY <1>0, <2>1 DEF Places, Exchange
<1>4. CASE WaitEnds \/ TakeTimeout \/ Call
  BY <1>0, <1>4 DEF Places, Exchange, WaitEnds, TakeTimeout, Call
<1>5. CASE Deliver \/ Expire \/ Tick \/ UNCHANGED clockVars
  BY <1>5 DEF Places, Deliver, Expire, Tick, clockVars
<1> QED
  BY <1>0, <1>1, <1>2, <1>3, <1>4, <1>5 DEF ClockNext, HeartbeatThread, Proceed

LEMMA ClockTypeNext ==
  ASSUME ClockTypeOK, Places, [ClockNext]_clockVars
  PROVE  ClockTypeOK'
<1>0. /\ at \in [Threads -> {"idle", "wait", "lock", "send", "poll", "copy"}]
      /\ Threads = {"app", "heartbeat"}
  BY DEF ClockTypeOK, Threads
<1> USE DEF Move, deviceVars, beatVars, netVars
<1>1. ASSUME NEW t \in Threads, Lock(t)
      PROVE  ClockTypeOK'
  <2>1. late' \in {"none", "own", "old"} /\ own' \in Nat /\ old' \in Nat
    BY <1>1 DEF Lock, ClockTypeOK
  <2>2. wait' \in 0..(Wrap - 1) /\ tries' \in 0..CmdRetry
    BY <1>1, ClockConstants DEF Lock, ClockTypeOK
  <2> QED
    BY <1>0, <1>1, <2>1, <2>2 DEF Lock, ClockTypeOK
<1>2. ASSUME NEW t \in Threads, Send(t)
      PROVE  ClockTypeOK'
  <2>1. poll' \in 0..Poll
    BY <1>2, ClockConstants DEF Send
  <2>2. timeout' \in Timeouts /\ countdown' \in 0..(Wrap - 1)
    <3>1. CASE UNCHANGED <<timeout, countdown>>
      BY <3>1 DEF ClockTypeOK
    <3>2. CASE Execute(t)
      <4>1. timeout' \in Timeouts
        BY <3>2 DEF Execute, ClockTypeOK
      <4> QED
        BY <3>2, <4>1, ClockConstants DEF Execute, ClockTypeOK
    <3> QED
      BY <1>2, <3>1, <3>2 DEF Send
  <2>3. /\ lost' \in 0..MaxLost /\ lates' \in 0..MaxLate
        /\ own' \in Nat /\ late' \in {"none", "own", "old"}
    BY <1>2, ClockConstants DEF Send, ClockTypeOK
  <2>4. UNCHANGED <<controlled, command, period, wait, answer, foreign, basis, old,
                    requests>>
    BY <1>2 DEF Send, Execute
  <2>5. at' \in [Threads -> {"idle", "wait", "lock", "send", "poll", "copy"}]
    BY <1>0, <1>2 DEF Send
  <2>6. tries' \in 0..CmdRetry
    BY <1>0, <1>2, ClockConstants DEF Send, Places, ClockTypeOK
  <2> QED
    BY <2>1, <2>2, <2>3, <2>4, <2>5, <2>6 DEF ClockTypeOK
<1>3. ASSUME NEW t \in Threads, ReceiveOld(t) \/ PollEnds(t) \/ ReceiveOwn(t)
      PROVE  ClockTypeOK'
  <2>1. at' \in [Threads -> {"idle", "wait", "lock", "send", "poll", "copy"}]
    BY <1>0, <1>3 DEF ReceiveOld, PollEnds, ReceiveOwn, Retry, Leave
  <2>2. wait' \in {wait, period}
    BY <1>3 DEF ReceiveOld, PollEnds, ReceiveOwn, Retry, Leave
  <2>3. foreign' \in BOOLEAN
    <3>1. foreign \in BOOLEAN
      BY DEF ClockTypeOK
    <3>2. CASE ReceiveOld(t) \/ ReceiveOwn(t)
      BY <3>1, <3>2, Zenon DEF ReceiveOld, ReceiveOwn, Overwrite
    <3>3. CASE PollEnds(t)
      BY <3>1, <3>3 DEF PollEnds
    <3> QED
      BY <1>3, <3>2, <3>3
  <2>4. own' \in Nat /\ old' \in Nat /\ answer' \in Timeouts \cup {0}
    <3>1. CASE ReceiveOld(t)
      BY <3>1 DEF ReceiveOld, ClockTypeOK
    <3>2. CASE PollEnds(t)
      BY <3>2 DEF PollEnds, ClockTypeOK
    <3>3. CASE ReceiveOwn(t)
      BY <3>3 DEF ReceiveOwn, ClockTypeOK
    <3> QED
      BY <1>3, <3>1, <3>2, <3>3
  <2>5. UNCHANGED <<controlled, timeout, countdown, tries, poll, command, period, basis,
                    lost, late, lates, requests>>
    BY <1>3 DEF ReceiveOld, PollEnds, ReceiveOwn
  <2> QED
    BY <2>1, <2>2, <2>3, <2>4, <2>5 DEF ClockTypeOK
<1>4. CASE WaitEnds
  BY <1>0, <1>4 DEF WaitEnds, ClockTypeOK
<1>5. CASE TakeTimeout
  <2>1. basis' \in Nat /\ period' \in 0..(Wrap - 1)
    <3>1. CASE UNCHANGED <<period, basis>>
      BY <3>1 DEF ClockTypeOK
    <3>2. CASE period' = Period(basis') /\ basis' \in Garbage \cup Timeouts \cup {0}
      BY <3>2, Values, PeriodFits, ClockConstants
    <3> QED
      BY <1>5, <3>1, <3>2 DEF TakeTimeout, ClockTypeOK
  <2> QED
    BY <1>0, <1>5, <2>1 DEF TakeTimeout, ClockTypeOK
<1>6. CASE Call
  BY <1>0, <1>6, ClockConstants DEF Call, ClockTypeOK
<1>7. CASE Deliver
  BY <1>7 DEF Deliver, ClockTypeOK
<1>8. CASE Expire
  BY <1>8 DEF Expire, ClockTypeOK
<1>9. CASE Tick
  <2>1. countdown' \in 0..(Wrap - 1) /\ wait' \in 0..(Wrap - 1)
    BY <1>9, ClockConstants DEF Tick, Due, ClockTypeOK
  <2>2. poll' \in 0..Poll
    <3>1. CASE MutexFree
      BY <1>9, <3>1 DEF Tick, ClockTypeOK
    <3>2. CASE ~MutexFree
      <4>1. PICK t \in Threads : at[t] \in {"send", "poll"}
        BY <3>2 DEF MutexFree
      <4>2. poll # 0
        BY <1>9, <4>1 DEF Tick, Due
      <4> QED
        BY <1>9, <3>2, <4>2, ClockConstants DEF Tick, ClockTypeOK
    <3> QED
      BY <3>1, <3>2
  <2> QED
    BY <1>9, <2>1, <2>2 DEF Tick, ClockTypeOK
<1>10. CASE UNCHANGED clockVars
  BY <1>10 DEF clockVars, ClockTypeOK
<1> QED
  BY <1>1, <1>2, <1>3, <1>4, <1>5, <1>6, <1>7, <1>8, <1>9, <1>10
     DEF ClockNext, HeartbeatThread, Proceed, Threads

LEMMA ClockStarts == ClockInit => ClockTypeOK /\ Places
<1> SUFFICES ASSUME ClockInit PROVE ClockTypeOK /\ Places
  OBVIOUS
<1>1. at = [t \in {"app", "heartbeat"} |-> IF t = "app" THEN "idle" ELSE "wait"]
  BY DEF ClockInit, Threads
<1>2. Places
  BY <1>1 DEF Places, Exchange
<1>3. timeout \in Timeouts /\ countdown \in 0..(Wrap - 1)
  BY ClockConstants DEF ClockInit
<1>4. period \in 0..(Wrap - 1) /\ wait \in 0..(Wrap - 1) /\ basis \in Nat
  BY <1>3, ClockConstants DEF ClockInit, Period
<1>5. controlled \in BOOLEAN /\ foreign \in BOOLEAN
  BY Zenon DEF ClockInit
<1>6. /\ poll \in 0..Poll /\ tries \in 0..CmdRetry /\ command \in {0} \cup Timeouts
      /\ answer \in Timeouts \cup {0} /\ lost \in 0..MaxLost /\ own \in Nat
      /\ old \in Nat /\ late \in {"none", "own", "old"} /\ lates \in 0..MaxLate
      /\ requests \in 0..MaxRequests
  BY ClockConstants DEF ClockInit
<1> QED
  BY <1>1, <1>2, <1>3, <1>4, <1>5, <1>6 DEF ClockTypeOK, Threads

LEMMA ClockPlaces == ClockSpec => [](ClockTypeOK /\ Places)
BY ClockStarts, PlacesNext, ClockTypeNext, PTL DEF ClockSpec

(* Every variable keeps its type: no count goes below 0 and the period fits  *)
(* in its word, whatever answers are lost, late or taken for another.       *)
THEOREM ClockTypeCorrect == ClockSpec => []ClockTypeOK
BY ClockPlaces, PTL

\* The period is what the timeout it was computed from leaves, when it leaves any.
PeriodInv ==
  /\ wait <= period
  /\ Margin < basis => period = basis - Margin

LEMMA Leaves ==
  ASSUME NEW value \in 0..(Wrap - 1), Margin < value
  PROVE  Period(value) = value - Margin
<1>1. value - Margin \in 0..(Wrap - 1) /\ Wrap \in Nat \ {0}
  BY ClockConstants
<1> QED
  BY <1>1 DEF Period

LEMMA PeriodNext ==
  ASSUME ClockTypeOK, PeriodInv, [ClockNext]_clockVars
  PROVE  PeriodInv'
<1>0. period \in Nat /\ wait \in Nat /\ period <= period
  BY ClockConstants DEF ClockTypeOK
<1> USE DEF beatVars
<1>1. CASE UNCHANGED <<period, basis>> /\ wait' \in {wait, wait - 1, period}
  BY <1>0, <1>1 DEF PeriodInv
<1>2. CASE TakeTimeout
  <2>1. wait' = period'
    BY <1>2 DEF TakeTimeout
  <2>2. CASE UNCHANGED <<period, basis>>
    BY <1>1, <2>1, <2>2
  <2>3. CASE period' = Period(basis') /\ basis' \in Garbage \cup Timeouts \cup {0}
    <3>1. basis' \in 0..(Wrap - 1)
      BY <2>3, Values
    <3>2. period' \in Nat
      BY <2>3, <3>1, PeriodFits
    <3> QED
      BY <2>1, <2>3, <3>1, <3>2, Leaves DEF PeriodInv
  <2> QED
    BY <1>2, <2>2, <2>3 DEF TakeTimeout, ClockTypeOK
<1>3. ASSUME NEW t \in Threads, Proceed(t)
      PROVE  UNCHANGED <<period, basis>> /\ wait' \in {wait, period}
  BY <1>3 DEF Proceed, Lock, Send, ReceiveOld, ReceiveOwn, PollEnds, Retry, Leave
<1>4. CASE WaitEnds \/ Call \/ Deliver \/ Expire \/ UNCHANGED clockVars
  <2>1. UNCHANGED beatVars
    BY <1>4 DEF WaitEnds, Call, Deliver, Expire, clockVars
  <2> QED
    BY <1>1, <2>1
<1>5. CASE Tick
  BY <1>1, <1>5 DEF Tick
<1> QED
  BY <1>1, <1>2, <1>3, <1>4, <1>5 DEF ClockNext, HeartbeatThread, Threads
-----------------------------------------------------------------------------
\* The margin covers the polls that can be lost one after the other, and a
\* command is sent once more than that.
Spared == Poll * MaxLost < Margin /\ MaxLost < CmdRetry

\* What the polls lost so far have cost, and what they may cost at most.
Spent == Poll * lost
Budget == Poll * MaxLost

LEMMA Costs ==
  ASSUME ClockTypeOK
  PROVE  /\ Spent \in Nat /\ Budget \in Nat /\ Spent <= Budget
         /\ lost' = lost => Spent' = Spent
         /\ lost' = 0 => Spent' = 0
         /\ lost' = lost + 1 => Spent' = Spent + Poll
<1> DEFINE rest == MaxLost - lost
<1>1. Poll \in Nat /\ lost \in Nat /\ MaxLost \in Nat /\ rest \in Nat
      /\ MaxLost = lost + rest
  BY ClockConstants DEF ClockTypeOK
<1> HIDE DEF rest
<1>2. Poll * (lost + rest) = Poll * lost + Poll * rest
      /\ Poll * lost \in Nat /\ Poll * rest \in Nat
  BY <1>1
<1>3. Poll * (lost + 1) = Poll * lost + Poll /\ Poll * 0 = 0
  BY <1>1
<1> QED
  BY <1>1, <1>2, <1>3 DEF Spent, Budget

\* What is left of the poll in which nothing has come yet.
Left ==
  IF "poll" \in {at["app"], at["heartbeat"]} /\ own + old = 0 THEN poll ELSE 0

\* Since the device last heard of its controller no more time has passed than
\* the polls lost since.
Executed == countdown >= timeout - Spent + Left

\* The device has not heard of the exchange that goes on, and will in time.
Unheard == own = 0 /\ late # "own"
InTime == countdown > Left + Budget - Spent
Enough == tries > MaxLost - lost

ClockInv ==
  controlled =>
    /\ at["heartbeat"] = "wait" /\ Fits =>
         \/ countdown >= wait + Margin - Spent + Left
         \/ at["app"] \in Exchange /\ Unheard /\ InTime /\ Enough
    /\ at["heartbeat"] = "lock" /\ Fits => InTime
    /\ at["heartbeat"] \in Exchange =>
         \/ Executed
         \/ Unheard /\ (Fits => InTime /\ Enough)
    /\ at["heartbeat"] = "copy" => Executed


\* The numbers that ClockInv compares.
LEMMA Amounts ==
  ASSUME ClockTypeOK, Spared
  PROVE  /\ Spent \in Nat /\ Budget \in Nat /\ Left \in Nat
         /\ Spent <= Budget /\ Budget < Margin /\ Margin \in Nat
         /\ countdown \in Nat /\ timeout \in Nat /\ wait \in Nat
         /\ period \in Nat /\ basis \in Nat /\ tries \in Nat
         /\ MaxLost - lost \in Nat /\ CmdRetry > MaxLost - lost
<1>1. Spent \in Nat /\ Spent <= Budget /\ Budget \in Nat
  BY Costs
<1>2. Budget < Margin
  BY DEF Spared, Budget
<1>3. Left \in Nat
  BY ClockConstants DEF Left, ClockTypeOK
<1>4. /\ countdown \in Nat /\ timeout \in Nat /\ wait \in Nat /\ Margin \in Nat
      /\ period \in Nat /\ basis \in Nat /\ tries \in Nat
  BY ClockConstants DEF ClockTypeOK
<1>5. MaxLost - lost \in Nat /\ CmdRetry > MaxLost - lost
  BY ClockConstants DEF ClockTypeOK, Spared
<1> QED
  BY <1>1, <1>2, <1>3, <1>4, <1>5

\* The device has just been heard of.
LEMMA Heard ==
  ASSUME ClockTypeOK, PeriodInv, Spared, countdown = timeout, Left <= Spent
  PROVE  ClockInv
<1>1. Executed
  BY Amounts DEF Executed
<1>2. ASSUME Fits
      PROVE  InTime /\ countdown >= wait + Margin - Spent + Left
  BY <1>2, Amounts DEF Fits, InTime, PeriodInv
<1> QED
  BY <1>1, <1>2 DEF ClockInv

LEMMA Expired ==
  ASSUME ClockTypeOK, Places, Spared, ClockInv, Expire
  PROVE  ~Fits
<1>1. controlled /\ countdown = 0
  BY DEF Expire
<1> QED
  BY <1>1, Amounts DEF ClockInv, Fits, Places, InTime, Executed, Exchange

\* A thread that is polling is the only one between a command and its answer.
LEMMA Alone ==
  ASSUME ClockTypeOK, Places, NEW t \in Threads, at[t] \in Exchange
  PROVE  /\ at \in [{"app", "heartbeat"} ->
                     {"idle", "wait", "lock", "send", "poll", "copy"}]
         /\ t \in {"app", "heartbeat"}
         /\ t = "app" => at["heartbeat"] \notin Exchange
         /\ t = "heartbeat" => at["app"] \notin Exchange
         /\ "poll" \in {at["app"], at["heartbeat"]} <=> at[t] = "poll"
BY DEF ClockTypeOK, Places, Exchange, Threads

LEMMA ClockLock ==
  ASSUME ClockTypeOK, Places, Spared, ClockInv, NEW t \in Threads, Lock(t)
  PROVE  ClockInv'
<1>1. /\ at \in [{"app", "heartbeat"} -> {"idle", "wait", "lock", "send", "poll", "copy"}]
      /\ t \in {"app", "heartbeat"} /\ at[t] = "lock"
      /\ at["app"] \notin Exchange /\ at["heartbeat"] \notin Exchange
      /\ at' = [at EXCEPT ![t] = "send"]
  BY DEF ClockTypeOK, Threads, Lock, MutexFree, Exchange, Move
<1>2. Left = 0 /\ Left' = 0
  BY <1>1 DEF Left, Exchange
<1>3. UNCHANGED <<controlled, timeout, countdown, lost, basis>> /\ tries' = CmdRetry
      /\ Unheard'
  BY DEF Lock, deviceVars, Unheard
<1>4. Spent' = Spent /\ Budget' = Budget /\ (Fits' <=> Fits) /\ Enough'
  BY <1>3, Amounts, Costs DEF Budget, Fits, Enough
<1>5. (InTime => InTime') /\ (Executed => Executed')
  BY <1>2, <1>3, <1>4 DEF InTime, Executed
<1>6. CASE t = "app"
  <2>1. at["heartbeat"] = "wait" /\ Fits /\ controlled => InTime
    BY <1>1, <1>2, <1>6, Amounts DEF ClockInv, InTime
  <2> QED
    BY <1>1, <1>3, <1>4, <1>5, <1>6, <2>1 DEF ClockInv, Exchange
<1>7. CASE t = "heartbeat"
  BY <1>1, <1>3, <1>4, <1>5, <1>7 DEF ClockInv, Exchange
<1> QED
  BY <1>1, <1>6, <1>7

LEMMA HeardNext ==
  (/\ ClockTypeOK /\ PeriodInv /\ Spared
   /\ countdown = timeout /\ Left <= Spent
   => ClockInv)'
<1>1. /\ ClockTypeOK /\ PeriodInv /\ Spared
      /\ countdown = timeout /\ Left <= Spent
      => ClockInv
  BY Heard
<1> QED
  BY <1>1, PTL

\* The arithmetic of a poll that begins: what it may last is what it costs when
\* nothing is heard.
LEMMA Polled ==
  \A clock, due, off, spent, left, cost \in Nat :
    left <= cost =>
      /\ clock >= due - spent => clock >= due - (spent + cost) + left
      /\ clock > due - spent => clock > left + due - (spent + cost)
      /\ clock >= due + off - spent => clock >= due + off - (spent + cost) + left
OBVIOUS

LEMMA Received == \A one, other \in Nat : one > 0 => one + other # 0
OBVIOUS

LEMMA ClockSend ==
  ASSUME ClockTypeOK, Places, PeriodInv, Spared, ClockInv, NEW t \in Threads, Send(t)
  PROVE  ClockInv'
<1>1. ClockTypeOK' /\ PeriodInv'
  BY ClockTypeNext, PeriodNext DEF ClockNext, HeartbeatThread, Proceed, Threads
<1>2. at[t] = "send" /\ at' = [at EXCEPT ![t] = "poll"] /\ tries' = tries - 1
      /\ poll' = Poll /\ UNCHANGED <<basis, wait, period, controlled>>
  BY DEF Send, Move, beatVars, deviceVars, Execute
<1>3. /\ at \in [{"app", "heartbeat"} -> {"idle", "wait", "lock", "send", "poll", "copy"}]
      /\ t \in {"app", "heartbeat"}
      /\ t = "app" => at["heartbeat"] \notin Exchange
      /\ t = "heartbeat" => at["app"] \notin Exchange
      /\ "poll" \notin {at["app"], at["heartbeat"]}
  <2>1. at[t] \in Exchange /\ at[t] # "poll"
    BY <1>2 DEF Exchange
  <2> QED
    BY <2>1, Alone, Zenon
<1>4. Left = 0
  BY <1>3 DEF Left
<1>5. Poll \in Nat /\ own' \in Nat /\ old' \in Nat
  BY <1>1, ClockConstants DEF ClockTypeOK
<1>6. own' > 0 => own' + old' # 0
  BY <1>5, Received
<1>7. Left' = IF "poll" \in {at'["app"], at'["heartbeat"]} /\ own' + old' = 0
              THEN Poll ELSE 0
  BY <1>2 DEF Left
<1>8. Left' \in {0, Poll} /\ (own' > 0 => Left' = 0)
  BY <1>6, <1>7
<1>9. Left' \in Nat /\ Left' <= Poll
  <2>1. 0 \in Nat /\ 0 <= Poll /\ Poll <= Poll
    BY <1>5
  <2> QED
    BY <1>8, <1>5, <2>1
<1>10. Budget' = Budget
  BY DEF Budget
<1>11. ASSUME UNCHANGED <<deviceVars, own, late>>, lost < MaxLost, lost' = lost + 1
      PROVE  ClockInv'
  <2>1. Spent' = Spent + Poll
    BY <1>11, Costs
  <2>2. (InTime => InTime') /\ (Executed => Executed')
    <3>1. countdown > Budget - Spent => countdown > Left' + Budget - (Spent + Poll)
      BY <1>5, <1>9, Amounts, Polled
    <3>2. countdown >= timeout - Spent => countdown >= timeout - (Spent + Poll) + Left'
      BY <1>5, <1>9, Amounts, Polled
    <3>3. InTime => countdown > Budget - Spent
      BY <1>4, Amounts DEF InTime
    <3>4. Executed => countdown >= timeout - Spent
      BY <1>4, Amounts DEF Executed
    <3> QED
      BY <1>10, <1>11, <2>1, <3>1, <3>2, <3>3, <3>4 DEF InTime, Executed, deviceVars
  <2>3. (Enough => Enough') /\ (Unheard => Unheard') /\ (Fits' <=> Fits)
    BY <1>2, <1>11, ClockConstants DEF Enough, Unheard, Fits, deviceVars, ClockTypeOK
  <2>4. countdown >= wait + Margin - Spent + Left
        => countdown' >= wait' + Margin - Spent' + Left'
    <3>1. countdown >= wait + Margin - Spent
          => countdown >= wait + Margin - (Spent + Poll) + Left'
      BY <1>5, <1>9, Amounts, Polled
    <3>2. countdown >= wait + Margin - Spent + Left => countdown >= wait + Margin - Spent
      BY <1>4, Amounts
    <3> QED
      BY <1>2, <1>11, <2>1, <3>1, <3>2 DEF deviceVars
  <2> QED
    BY <1>2, <1>3, <1>11, <2>2, <2>3, <2>4 DEF ClockInv, Exchange, deviceVars
<1>12. ASSUME Execute(t), own' = own + 1, lost' = 0
      PROVE  ClockInv'
  <2>1. Spent' = 0 /\ Left' = 0
    BY <1>8, <1>12, <1>5, Costs DEF ClockTypeOK
  <2> QED
    BY <1>1, <1>2, <1>12, <2>1, HeardNext DEF Execute, ClockInv
<1>13. ASSUME Execute(t), lost' = lost + 1
      PROVE  ClockInv'
  <2>1. Spent' = Spent + Poll /\ Spent \in Nat
    BY <1>13, Costs
  <2>2. Left' <= Spent'
    <3>1. \A spent, left \in Nat : left <= Poll => left <= spent + Poll
      BY <1>5
    <3> QED
      BY <1>9, <2>1, <3>1
  <2> QED
    BY <1>1, <1>2, <1>13, <2>2, HeardNext DEF Execute, ClockInv
<1> QED
  BY <1>11, <1>12, <1>13 DEF Send

\* A try is over without an answer to the command.
LEMMA ClockRetry ==
  ASSUME ClockTypeOK, Places, PeriodInv, Spared, ClockInv, NEW t \in Threads,
         ReceiveOld(t) \/ PollEnds(t)
  PROVE  ClockInv'
<1>1. /\ at[t] = "poll" /\ Retry(t) /\ Left = 0 /\ own' = own
      /\ UNCHANGED <<deviceVars, tries, period, basis, lost, late>>
  BY DEF ReceiveOld, PollEnds, netVars, Left, ClockTypeOK
<1>2. /\ at \in [{"app", "heartbeat"} -> {"idle", "wait", "lock", "send", "poll", "copy"}]
      /\ t \in {"app", "heartbeat"}
      /\ t = "app" => at["heartbeat"] \notin Exchange
      /\ t = "heartbeat" => at["app"] \notin Exchange
  BY <1>1, Alone, Zenon DEF Exchange
<1>3. Left' = 0
  BY <1>1, <1>2 DEF Left, Retry, Leave, Move, Exchange
<1>4. Spent' = Spent /\ Budget' = Budget /\ (Fits' <=> Fits) /\ (Unheard' <=> Unheard)
      /\ (Enough' <=> Enough) /\ (InTime' <=> InTime) /\ (Executed' <=> Executed)
  BY <1>1, <1>3, Costs DEF Budget, Fits, Unheard, Enough, InTime, Executed, deviceVars,
                            Spent
<1>5. CASE tries > 0
  BY <1>1, <1>2, <1>3, <1>4, <1>5 DEF Retry, Move, ClockInv, Exchange, deviceVars
<1>6. CASE ~(tries > 0)
  <2>1. ~Enough
    BY <1>6, Amounts DEF Enough
  <2>2. CASE t = "app"
    BY <1>1, <1>2, <1>3, <1>4, <1>6, <2>1, <2>2
       DEF Retry, Leave, Move, ClockInv, Exchange, deviceVars
  <2>3. CASE t = "heartbeat"
    <3>1. controlled /\ Fits => countdown >= period + Margin - Spent
      BY <1>1, <2>1, <2>3, Amounts
         DEF ClockInv, Executed, Fits, PeriodInv, Exchange
    <3>2. wait' = period /\ at' = [at EXCEPT !["heartbeat"] = "wait"]
      BY <1>1, <1>6, <2>3 DEF Retry, Leave, Move
    <3>3. controlled' /\ Fits' => countdown' >= wait' + Margin - Spent' + Left'
      BY <1>1, <1>3, <1>4, <3>1, <3>2, Amounts DEF deviceVars
    <3> QED
      BY <1>1, <1>2, <1>4, <2>3, <3>2, <3>3 DEF ClockInv, Exchange
  <2> QED
    BY <1>2, <2>2, <2>3
<1> QED
  BY <1>5, <1>6

LEMMA ClockReceiveOwn ==
  ASSUME ClockTypeOK, Places, Spared, ClockInv, NEW t \in Threads, ReceiveOwn(t)
  PROVE  ClockInv'
<1>1. own \in Nat /\ old \in Nat
  BY DEF ClockTypeOK
<1>2. /\ at[t] = "poll" /\ Leave(t, TRUE) /\ own > 0
      /\ UNCHANGED <<deviceVars, tries, period, basis, lost, late>>
  BY DEF ReceiveOwn
<1>3. Left = 0
  <2>1. own + old # 0
    BY <1>1, <1>2
  <2> QED
    BY <2>1 DEF Left
<1>4. /\ at \in [{"app", "heartbeat"} -> {"idle", "wait", "lock", "send", "poll", "copy"}]
      /\ t \in {"app", "heartbeat"}
      /\ t = "app" => at["heartbeat"] \notin Exchange
      /\ t = "heartbeat" => at["app"] \notin Exchange
  BY <1>2, Alone, Zenon DEF Exchange
<1>5. Left' = 0 /\ ~Unheard
  BY <1>1, <1>2, <1>4 DEF Left, Leave, Move, Exchange, Unheard
<1>6. Spent' = Spent /\ Budget' = Budget /\ (Fits' <=> Fits)
      /\ (InTime' <=> InTime) /\ (Executed' <=> Executed)
  BY <1>2, <1>5, <1>3, Costs DEF Budget, Fits, InTime, Executed, deviceVars, Spent
<1>7. CASE t = "app"
  <2>1. at' = [at EXCEPT !["app"] = "idle"] /\ wait' = wait
    BY <1>2, <1>7 DEF Leave, Move
  <2> QED
    BY <1>2, <1>4, <1>5, <1>6, <1>3, <1>7, <2>1 DEF ClockInv, Exchange, deviceVars
<1>8. CASE t = "heartbeat"
  <2>1. at' = [at EXCEPT !["heartbeat"] = "copy"]
    BY <1>2, <1>8 DEF Leave, Move
  <2> QED
    BY <1>2, <1>4, <1>5, <1>6, <1>8, <2>1 DEF ClockInv, Exchange, deviceVars
<1> QED
  BY <1>4, <1>7, <1>8

LEMMA ClockWaitEnds ==
  ASSUME ClockTypeOK, Places, Spared, ClockInv, WaitEnds
  PROVE  ClockInv'
<1>1. /\ at \in [{"app", "heartbeat"} -> {"idle", "wait", "lock", "send", "poll", "copy"}]
      /\ at["heartbeat"] = "wait" /\ wait = 0 /\ at' = [at EXCEPT !["heartbeat"] = "lock"]
      /\ UNCHANGED <<deviceVars, tries, poll, basis, netVars>>
  BY DEF ClockTypeOK, WaitEnds, Move, Threads, beatVars
<1>2. Left' = Left /\ Spent' = Spent /\ Budget' = Budget
  BY <1>1, Costs DEF Left, netVars, Budget
<1>3. (Fits' <=> Fits) /\ (InTime' <=> InTime)
  BY <1>1, <1>2 DEF Fits, InTime, deviceVars
<1>4. controlled /\ Fits => InTime
  BY <1>1, Amounts DEF ClockInv, InTime
<1> QED
  BY <1>1, <1>3, <1>4 DEF ClockInv, Exchange, deviceVars

\* The arithmetic of a wait that begins anew.
LEMMA Restart ==
  \A left, clock, spent, polled, base, next, off \in Nat :
    left >= clock - spent + polled /\ next = base - off /\ base <= clock
      => left >= next + off - spent + polled
OBVIOUS

LEMMA ClockCopy ==
  ASSUME ClockTypeOK, Places, PeriodInv, Spared, ClockInv, TakeTimeout
  PROVE  ClockInv'
<1>0. ClockTypeOK' /\ PeriodInv'
  BY ClockTypeNext, PeriodNext DEF ClockNext, HeartbeatThread
<1>1. /\ at \in [{"app", "heartbeat"} -> {"idle", "wait", "lock", "send", "poll", "copy"}]
      /\ at["heartbeat"] = "copy" /\ at' = [at EXCEPT !["heartbeat"] = "wait"]
      /\ wait' = period'
      /\ UNCHANGED <<deviceVars, tries, poll, netVars>>
  BY DEF ClockTypeOK, TakeTimeout, Move, Threads
<1>2. Left' = Left /\ Spent' = Spent
  BY <1>1, Costs DEF Left, netVars
<1>3. Spent' \in Nat /\ Left' \in Nat /\ timeout' \in Nat /\ wait' \in Nat
      /\ Margin \in Nat /\ countdown \in Nat /\ countdown' = countdown
      /\ timeout' = timeout /\ timeout \in Nat /\ basis' \in Nat
  BY <1>0, <1>1, <1>2, Amounts, ClockConstants DEF deviceVars, ClockTypeOK
<1>4. controlled => countdown >= timeout - Spent + Left
  BY <1>1 DEF ClockInv, Executed
<1>5. Fits' => wait' = basis' - Margin /\ basis' <= timeout'
  BY <1>0, <1>1 DEF Fits, PeriodInv
<1>6. ASSUME controlled, Fits'
      PROVE  countdown' >= wait' + Margin - Spent' + Left'
  <2>1. countdown >= timeout - Spent + Left
    BY <1>4, <1>6
  <2>2. wait' = basis' - Margin /\ basis' <= timeout
    BY <1>3, <1>5, <1>6
  <2>3. countdown >= wait' + Margin - Spent + Left
    BY <1>3, <2>1, <2>2, Amounts, Restart
  <2> QED
    BY <1>2, <1>3, <2>3
<1> QED
  BY <1>1, <1>6 DEF ClockInv, Exchange, deviceVars

LEMMA ClockCall ==
  ASSUME ClockTypeOK, Places, Spared, ClockInv, Call
  PROVE  ClockInv'
<1>1. /\ at \in [{"app", "heartbeat"} -> {"idle", "wait", "lock", "send", "poll", "copy"}]
      /\ at["app"] = "idle" /\ at' = [at EXCEPT !["app"] = "lock"]
      /\ UNCHANGED <<deviceVars, tries, poll, beatVars, netVars>>
  BY DEF ClockTypeOK, Call, Move, Threads
<1>2. Left' = Left /\ Spent' = Spent /\ Budget' = Budget
  BY <1>1, Costs DEF Left, netVars, Budget
<1>3. (Fits' <=> Fits) /\ (InTime' <=> InTime) /\ (Executed' <=> Executed)
      /\ (Unheard' <=> Unheard) /\ (Enough' <=> Enough)
  BY <1>1, <1>2 DEF Fits, InTime, Executed, Unheard, Enough, deviceVars, beatVars, netVars
<1> QED
  BY <1>1, <1>2, <1>3 DEF ClockInv, Exchange, deviceVars, beatVars

LEMMA ClockDeliver ==
  ASSUME ClockTypeOK, Places, Spared, ClockInv, Deliver
  PROVE  ClockInv'
<1>1. UNCHANGED <<deviceVars, at, tries, poll, beatVars, lost>>
  BY DEF Deliver
<1>2. Left' \in {0, Left}
  BY <1>1 DEF Deliver, Left, ClockTypeOK
<1>3. Spent' = Spent /\ Budget' = Budget /\ (Fits' <=> Fits) /\ (Enough' <=> Enough)
  BY <1>1, Costs DEF Budget, Fits, deviceVars, beatVars, Enough
<1>4. (InTime => InTime') /\ (Executed => Executed')
  BY <1>1, <1>2, <1>3, Amounts DEF InTime, Executed, deviceVars
<1>5. Unheard => Unheard'
  BY DEF Unheard, Deliver
<1>6. countdown >= wait + Margin - Spent + Left
      => countdown' >= wait' + Margin - Spent' + Left'
  BY <1>1, <1>2, <1>3, Amounts DEF deviceVars, beatVars
<1> QED
  BY <1>1, <1>3, <1>4, <1>5, <1>6 DEF ClockInv, deviceVars

LEMMA ClockTick ==
  ASSUME ClockTypeOK, Places, Spared, ClockInv, Tick
  PROVE  ClockInv'
<1> SUFFICES ASSUME controlled PROVE ClockInv'
  BY DEF Tick, ClockInv
<1>1. /\ at \in [{"app", "heartbeat"} -> {"idle", "wait", "lock", "send", "poll", "copy"}]
      /\ Threads = {"app", "heartbeat"}
  BY DEF ClockTypeOK, Threads
<1>2. UNCHANGED <<controlled, timeout, at, tries, basis, netVars>>
      /\ countdown' = countdown - 1
  BY DEF Tick
<1>3. /\ at["heartbeat"] = "wait" => wait' = wait - 1
      /\ at["heartbeat"] # "copy"
      /\ \A t \in Threads : at[t] # "send" /\ (at[t] = "poll" => own + old = 0 /\ poll # 0)
      /\ \A t \in Threads : at[t] = "lock" => ~MutexFree
  BY DEF Tick, Due, ClockTypeOK
<1>4. Spent' = Spent /\ Budget' = Budget /\ (Fits' <=> Fits)
      /\ (Unheard' <=> Unheard) /\ (Enough' <=> Enough)
  BY <1>2, Costs DEF Budget, Fits, netVars, Enough, Unheard
<1>5. CASE MutexFree
  <2>1. /\ at["app"] \notin Exchange /\ at["heartbeat"] = "wait"
        /\ Left = 0 /\ Left' = 0
    BY <1>1, <1>2, <1>3, <1>5 DEF MutexFree, Exchange, Left, Places
  <2>2. countdown >= wait + Margin - Spent + Left
        => countdown' >= wait' + Margin - Spent' + Left'
    BY <1>2, <1>3, <1>4, <2>1, Amounts
  <2> QED
    BY <1>2, <1>4, <2>1, <2>2 DEF ClockInv, Exchange
<1>6. CASE ~MutexFree
  <2>1. PICK t \in Threads : at[t] = "poll"
    BY <1>3, <1>6 DEF MutexFree
  <2>2. own + old = 0 /\ poll # 0 /\ poll' = poll - 1
    BY <1>3, <1>6, <2>1 DEF Tick
  <2>3. "poll" \in {at["app"], at["heartbeat"]}
    BY <1>1, <2>1
  <2>4. Left = poll /\ Left' = Left - 1
    BY <1>2, <2>2, <2>3 DEF Left, netVars
  <2>5. (InTime => InTime') /\ (Executed => Executed')
    BY <1>2, <1>4, <2>4, Amounts DEF InTime, Executed
  <2>6. at["heartbeat"] = "wait" /\ countdown >= wait + Margin - Spent + Left
        => countdown' >= wait' + Margin - Spent' + Left'
    BY <1>2, <1>3, <1>4, <2>4, Amounts
  <2> QED
    BY <1>2, <1>3, <1>4, <2>5, <2>6 DEF ClockInv
<1> QED
  BY <1>5, <1>6

BeatInv == ClockTypeOK /\ Places /\ PeriodInv /\ ClockInv

LEMMA BeatInit ==
  ASSUME ClockInit, Spared
  PROVE  BeatInv
<1>1. ClockTypeOK /\ Places
  BY ClockStarts
<1>2. PeriodInv
  <2>1. timeout \in 0..(Wrap - 1) /\ Margin \in Nat /\ Default \in Nat
    BY ClockConstants, <1>1 DEF ClockTypeOK
  <2>2. wait = period /\ period \in Nat
    BY <1>1, ClockConstants DEF ClockInit, ClockTypeOK
  <2>3. CASE period = Default /\ basis = Default + Margin
    BY <2>1, <2>2, <2>3 DEF PeriodInv
  <2>4. CASE period = Period(timeout) /\ basis = timeout
    BY <2>1, <2>2, <2>4, Leaves DEF PeriodInv
  <2> QED
    BY <2>3, <2>4 DEF ClockInit
<1>3. countdown = timeout /\ Left = 0 /\ 0 <= Spent
  BY <1>1, Amounts DEF ClockInit, Left
<1>4. ClockInv
  BY <1>1, <1>2, <1>3, Heard
<1> QED
  BY <1>1, <1>2, <1>4 DEF BeatInv

LEMMA BeatNext ==
  ASSUME BeatInv, Spared, [ClockNext]_clockVars
  PROVE  BeatInv'
<1>0. ClockTypeOK /\ Places /\ PeriodInv /\ ClockInv
  BY DEF BeatInv
<1>1. ClockTypeOK' /\ Places' /\ PeriodInv'
  BY <1>0, ClockTypeNext, PlacesNext, PeriodNext
<1> SUFFICES ClockInv'
  BY <1>1 DEF BeatInv
<1>2. ASSUME NEW t \in Threads, Proceed(t)
      PROVE  ClockInv'
  <2>1. CASE Send(t)
    BY <1>0, <1>1, <2>1, ClockSend
  <2>2. CASE ReceiveOld(t) \/ PollEnds(t)
    BY <1>0, <2>2, ClockRetry
  <2>3. CASE Lock(t) \/ ReceiveOwn(t)
    BY <1>0, <2>3, ClockLock, ClockReceiveOwn
  <2> QED
    BY <1>2, <2>1, <2>2, <2>3 DEF Proceed
<1>3. CASE Expire
  BY <1>3 DEF Expire, ClockInv
<1>4. CASE UNCHANGED clockVars
  BY <1>0, <1>4 DEF clockVars, deviceVars, beatVars, netVars, ClockInv, Fits, InTime,
             Executed, Unheard, Enough, Left, Spent, Budget
<1>5. CASE WaitEnds \/ Call \/ Deliver \/ Tick
  BY <1>0, <1>5, ClockWaitEnds, ClockCall, ClockDeliver, ClockTick
<1>6. CASE TakeTimeout
  BY <1>0, <1>1, <1>6, ClockCopy
<1> QED
  BY <1>2, <1>3, <1>4, <1>5, <1>6 DEF ClockNext, HeartbeatThread, Threads

(* When the margin covers the polls that can be lost one after the other,   *)
(* and a command has a try for each and one more, the device's timer never  *)
(* runs out on a session whose period was computed from the timeout the     *)
(* device still has, or a shorter one above the margin: whatever late       *)
(* acknowledgements use tries up, and however often the application's calls *)
(* put the next beat off or hold the mutex.                                 *)
THEOREM BeatsInTime == Spared /\ ClockSpec => PrivilegeKept
<1> SUFFICES ASSUME Spared PROVE ClockSpec => PrivilegeKept
  OBVIOUS
<1>1. ClockInit => BeatInv
  BY BeatInit
<1>2. BeatInv /\ [ClockNext]_clockVars => BeatInv'
  BY BeatNext
<1>3. BeatInv /\ [ClockNext]_clockVars => [controlled /\ ~controlled' => ~Fits]_clockVars
  <2> SUFFICES ASSUME BeatInv, [ClockNext]_clockVars, controlled, ~controlled' PROVE ~Fits
    OBVIOUS
  <2>1. ASSUME NEW t \in Threads, Proceed(t)
        PROVE  controlled' = controlled
    BY <2>1 DEF Proceed, Lock, Send, Execute, ReceiveOld, ReceiveOwn, PollEnds, deviceVars
  <2>2. CASE WaitEnds \/ TakeTimeout \/ Call \/ Deliver \/ Tick \/ UNCHANGED clockVars
    BY <2>2 DEF WaitEnds, TakeTimeout, Call, Deliver, Tick, clockVars, deviceVars
  <2>3. CASE Expire
    BY <2>3, Expired DEF BeatInv
  <2> QED
    BY <2>1, <2>2, <2>3 DEF ClockNext, HeartbeatThread, Threads
<1> QED
  BY <1>1, <1>2, <1>3, PTL DEF ClockSpec, PrivilegeKept
=============================================================================
