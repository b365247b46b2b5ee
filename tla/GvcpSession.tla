---------------------------- MODULE GvcpSession ----------------------------
(***************************************************************************)
(* controlDevice, monitorDevice, releaseDevice and doHeartbeat of          *)
(* GvcpClientImpl, and the counted handles GvcpClient (gvcpclient.cpp):    *)
(* the application thread that calls them and the heartbeat thread it      *)
(* starts, against devices that other hosts want too.                      *)
(*                                                                         *)
(* A command is one step, as GvcpRpc allows: the device executes it or     *)
(* not, and the caller learns of it or not; it fails always when refused.  *)
(* It may throw as well, where the network refuses what sendTo gives it:   *)
(* out of a call, the exception leaves the session as far as it had come;  *)
(* out of the heartbeat thread or a destructor, it ends the process.       *)
(***************************************************************************)
EXTENDS Naturals

CONSTANTS
  Devices,
  NoDevice,
  MaxCalls,     \* bound: calls of the application
  MaxHandles    \* bound: copies of the client at a time

ASSUME SessionAssumption ==
  /\ NoDevice \notin Devices
  /\ MaxCalls \in Nat
  /\ MaxHandles \in Nat

VARIABLES
  pc,        \* where the application thread stands
  then,      \* what it does once releaseDevice has returned
  wanted,    \* the device the call is about
  result,    \* what the last call returned; "threw" for an exception
  handles,   \* GvcpClient objects that share the implementation
  state,     \* _state
  target,    \* _deviceIP
  socket,    \* "closed", "bound", or "unbound" after a failed bind
  enable,    \* _heartbeatEnable
  timer,     \* _timerPtr: empty, a running thread, a joined one
  hb,        \* where the heartbeat thread stands
  lateBeats, \* heartbeats sent since the thread was told to stop
  granted,   \* the device has acknowledged the privilege in this session
  broken,    \* an exception left a handshake or a release of it half done
  ccp,       \* who has the control privilege of each device
  calls

appVars == <<pc, then, wanted, result, calls, handles>>
sessionVars == <<state, target, socket, granted, broken>>
threadVars == <<enable, timer, hb, lateBeats>>
vars == <<appVars, sessionVars, threadVars, ccp>>

Init ==
  /\ pc = "idle" /\ then = "idle" /\ wanted = NoDevice /\ result = "none"
  /\ handles = 1 /\ broken = FALSE
  /\ state = "none" /\ target = NoDevice /\ socket = "closed" /\ granted = FALSE
  /\ enable = TRUE /\ timer = "empty" /\ hb = "none" /\ lateBeats = 0
  /\ ccp \in [Devices -> {"open", "rival"}]
  /\ calls = 0

-----------------------------------------------------------------------------
(* Pieces of the calls                                                     *)

Goto(next) == pc' = next /\ UNCHANGED <<then, wanted, result, calls, handles>>

Return(r) ==
  pc' = "idle" /\ result' = r /\ UNCHANGED <<then, wanted, calls, handles>>

(* An exception leaves the call; out of a destructor it ends the process.  *)
Escape ==
  /\ pc' = IF then = "free" THEN "uncaught" ELSE "idle"
  /\ result' = "threw"
  /\ broken' = TRUE
  /\ UNCHANGED <<then, wanted, calls, handles>>

(* Where the process still runs.                                           *)
Running == pc \notin {"uncaught", "aborted"}

(* releaseDevice is called, and next is what follows it.                   *)
ReleaseThen(next, r) ==
  /\ pc' = "stop" /\ then' = next /\ result' = r
  /\ UNCHANGED <<wanted, calls, handles>>

(* cv.notify_all: wakes the heartbeat thread if it waits, and only then.   *)
Notified == IF hb = "wait" THEN "check" ELSE hb

(* proceed restarts the heartbeat's wait before it sends.                  *)
Notify == hb' = Notified /\ UNCHANGED <<enable, timer, lateBeats>>

-----------------------------------------------------------------------------
(* The application calls                                                   *)

Called(d) ==
  /\ pc = "idle"
  /\ calls < MaxCalls
  /\ calls' = calls + 1
  /\ wanted' = d
  /\ handles' = handles

(* The same device again: nothing to do.                                   *)
ControlAgain(d) ==
  /\ Called(d)
  /\ state = "controller" /\ target = d
  /\ result' = "true"
  /\ UNCHANGED <<pc, then, sessionVars, threadVars, ccp>>

Control(d) ==
  /\ Called(d)
  /\ ~(state = "controller" /\ target = d)
  /\ pc' = IF state = "none" THEN "control" ELSE "stop"
  /\ then' = "control"
  /\ result' = "none"
  /\ UNCHANGED <<sessionVars, threadVars, ccp>>

MonitorAgain(d) ==
  /\ Called(d)
  /\ state = "monitor" /\ target = d
  /\ result' = "true"
  /\ UNCHANGED <<pc, then, sessionVars, threadVars, ccp>>

(* From another device monitored there is no release.                      *)
Monitor(d) ==
  /\ Called(d)
  /\ ~(state = "monitor" /\ target = d)
  /\ pc' = IF state = "controller" THEN "stop" ELSE "monitor"
  /\ then' = "monitor"
  /\ result' = "none"
  /\ UNCHANGED <<sessionVars, threadVars, ccp>>

(* A copy of the client shares its implementation.                         *)
Copy ==
  /\ pc = "idle"
  /\ handles < MaxHandles
  /\ handles' = handles + 1
  /\ UNCHANGED <<pc, then, wanted, result, calls, sessionVars, threadVars, ccp>>

(* Mutant: the destructor only lets go of the implementation.             *)
DestroyOnly ==
  /\ Called(NoDevice)
  /\ pc' = "free"
  /\ then' = "free"
  /\ result' = "none"
  /\ UNCHANGED <<sessionVars, threadVars, ccp>>

(* The destructor of a copy, the one an assignment replaces too, releases  *)
(* the device, whoever shares the implementation; then it lets go of it.   *)
Destroy ==
  /\ Called(NoDevice)
  /\ pc' = IF state = "none" THEN "free" ELSE "stop"
  /\ then' = "free"
  /\ result' = "none"
  /\ UNCHANGED <<sessionVars, threadVars, ccp>>

(* The last one deletes the implementation, with _timerPtr and the socket. *)
Free ==
  /\ pc = "free"
  /\ handles' = handles - 1
  /\ pc' = IF handles > 1 THEN "idle"
           ELSE IF timer = "joinable" THEN "aborted" ELSE "freed"
  /\ socket' = IF handles > 1 THEN socket ELSE "closed"
  /\ UNCHANGED <<then, wanted, result, calls, state, target, granted, broken,
                 threadVars, ccp>>

(* The call by itself.                                                     *)
Release ==
  /\ Called(NoDevice)
  /\ pc' = IF state = "none" THEN "idle" ELSE "stop"
  /\ then' = "idle"
  /\ result' = "none"
  /\ UNCHANGED <<sessionVars, threadVars, ccp>>

(* The state is set before the bind that may throw.                        *)
BindController ==
  /\ pc = "control"
  /\ state' = "controller"
  /\ target' = wanted
  /\ granted' = FALSE
  /\ \/ socket' = "bound" /\ Goto("readCCP") /\ broken' = FALSE
     \/ socket' = "unbound" /\ Escape
  /\ UNCHANGED <<threadVars, ccp>>

(* The privilege register is read: no answer, or not open, ends the call.  *)
ReadCCP ==
  /\ pc = "readCCP"
  /\ \/ ccp[target] = "open" /\ Goto("writeCCP") /\ UNCHANGED broken
     \/ ReleaseThen("idle", "false") /\ UNCHANGED broken
     \/ Escape
  /\ Notify
  /\ UNCHANGED <<state, target, socket, granted, ccp>>

(* Mutant: a write that failed leaves the state as it is.                  *)
WriteCCPKeeps ==
  /\ pc = "writeCCP"
  /\ \/ /\ ccp[target] # "rival"
        /\ ccp' = [ccp EXCEPT ![target] = "us"]
        /\ granted' = TRUE /\ Goto("readTimeout")
     \/ UNCHANGED <<ccp, granted>> /\ Return("false")
  /\ Notify
  /\ UNCHANGED <<state, target, socket, broken>>

(* The write may be lost, refused, or done and its acknowledgement lost;   *)
(* it may throw when it is sent, or when it is sent again.                 *)
WriteCCP ==
  /\ pc = "writeCCP"
  /\ ccp' \in {ccp} \cup (IF ccp[target] = "rival" THEN {}
                         ELSE {[ccp EXCEPT ![target] = "us"]})
  /\ \/ /\ ccp'[target] = "us"
        /\ granted' = TRUE /\ Goto("readTimeout") /\ UNCHANGED broken
     \/ ReleaseThen("idle", "false") /\ UNCHANGED <<granted, broken>>
     \/ Escape /\ UNCHANGED granted
  /\ Notify
  /\ UNCHANGED <<state, target, socket>>

(* Whether the timeout register can be read or not.                        *)
ReadTimeout ==
  /\ pc = "readTimeout"
  /\ \/ Goto("spawn") /\ UNCHANGED broken
     \/ Escape
  /\ Notify
  /\ UNCHANGED <<state, target, socket, granted, ccp>>

(* Resetting _timerPtr over a joinable thread would end the process.       *)
Spawn ==
  /\ pc = "spawn"
  /\ timer' = "joinable"
  /\ hb' = "check"
  /\ IF timer = "joinable" THEN Goto("aborted") ELSE Return("true")
  /\ UNCHANGED <<enable, lateBeats, sessionVars, ccp>>

(* The socket of a device monitored is bound and cannot be again; a fresh  *)
(* one is bound to the address _controllerIP has before it is assigned,    *)
(* the empty one: the library refuses the address, or the bind, which      *)
(* leaves the descriptor open; nothing closes it while there is no session.*)
BindMonitor ==
  /\ pc = "monitor"
  /\ \/ /\ socket # "bound"
        /\ state' = "monitor" /\ target' = wanted /\ socket' = "bound"
        /\ Goto("readMonitored")
        /\ UNCHANGED <<granted, broken>>
     \/ /\ socket' \in {socket, IF socket = "bound" THEN "bound" ELSE "unbound"}
        /\ Return("threw")
        /\ UNCHANGED <<state, target, granted, broken>>
  /\ UNCHANGED <<threadVars, ccp>>

ReadMonitored ==
  /\ pc = "readMonitored"
  /\ \/ Return("true") /\ UNCHANGED broken
     \/ ReleaseThen("idle", "false") /\ UNCHANGED broken
     \/ Escape
  /\ Notify
  /\ UNCHANGED <<state, target, socket, granted, ccp>>

-----------------------------------------------------------------------------
(* releaseDevice                                                           *)

(* Mutant: the thread is not told to stop.                                 *)
StopQuietly ==
  /\ pc = "stop"
  /\ Goto(IF timer = "joinable" THEN "join" ELSE "clear")
  /\ hb' = Notified
  /\ UNCHANGED <<enable, timer, lateBeats, sessionVars, ccp>>

Stop ==
  /\ pc = "stop"
  /\ IF timer = "joinable"
     THEN Goto("join") /\ enable' = FALSE /\ hb' = Notified
     ELSE Goto("clear") /\ UNCHANGED <<enable, hb>>
  /\ UNCHANGED <<timer, lateBeats, sessionVars, ccp>>

(* Mutant: the thread is detached.                                         *)
JoinDetaches ==
  /\ pc = "join"
  /\ timer' = "detached"
  /\ Goto("clear")
  /\ UNCHANGED <<enable, hb, lateBeats, sessionVars, ccp>>

Join ==
  /\ pc = "join"
  /\ hb = "exit"
  /\ timer' = "joined"
  /\ hb' = "none"
  /\ lateBeats' = 0
  /\ Goto("clear")
  /\ UNCHANGED <<enable, sessionVars, ccp>>

(* A controller gives the privilege back, if the write gets there.         *)
Clear ==
  /\ pc = "clear"
  /\ ccp' \in {ccp} \cup (IF state = "controller" /\ ccp[target] = "us"
                           THEN {[ccp EXCEPT ![target] = "open"]} ELSE {})
  /\ \/ Goto("close") /\ UNCHANGED broken
     \/ state = "controller" /\ Escape
  /\ UNCHANGED <<state, target, socket, granted, threadVars>>

(* Mutant: the socket stays open.                                          *)
CloseKeepsSocket ==
  /\ pc = "close"
  /\ state' = "none" /\ target' = NoDevice /\ granted' = FALSE
  /\ broken' = FALSE
  /\ Goto(then)
  /\ UNCHANGED <<socket, threadVars, ccp>>

Close ==
  /\ pc = "close"
  /\ state' = "none" /\ target' = NoDevice /\ socket' = "closed"
  /\ granted' = FALSE /\ broken' = FALSE
  /\ Goto(then)
  /\ UNCHANGED <<threadVars, ccp>>

-----------------------------------------------------------------------------
(* The other calls, the heartbeat thread, the device                       *)

(* readRegisters, writeRegisters, readMemory, writeMemory.                 *)
Command ==
  /\ pc = "idle"
  /\ state # "none"
  /\ result' \in {result, "threw"}
  /\ Notify
  /\ UNCHANGED <<pc, then, wanted, calls, handles, sessionVars, ccp>>

(* Mutant: the thread does not look at _heartbeatEnable.                   *)
HbCheckNever ==
  /\ Running /\ hb = "check"
  /\ hb' = "enter"
  /\ UNCHANGED <<enable, timer, lateBeats, appVars, sessionVars, ccp>>

HbCheck ==
  /\ Running /\ hb = "check"
  /\ hb' = IF enable THEN "enter" ELSE "exit"
  /\ UNCHANGED <<enable, timer, lateBeats, appVars, sessionVars, ccp>>

HbEnter ==
  /\ Running /\ hb = "enter"
  /\ hb' = "wait"
  /\ UNCHANGED <<enable, timer, lateBeats, appVars, sessionVars, ccp>>

(* The period is over, or the wait ends early for no reason.               *)
HbTimeout ==
  /\ Running /\ hb = "wait"
  /\ hb' = "beat"
  /\ UNCHANGED <<enable, timer, lateBeats, appVars, sessionVars, ccp>>

HbSpurious ==
  /\ Running /\ hb = "wait"
  /\ hb' = "check"
  /\ UNCHANGED <<enable, timer, lateBeats, appVars, sessionVars, ccp>>

(* An exception out of the thread ends the process.                        *)
HbThrows ==
  /\ Running /\ hb = "beat"
  /\ pc' = "uncaught"
  /\ UNCHANGED <<then, wanted, result, calls, handles, sessionVars, threadVars, ccp>>

(* The timeout register is read from _deviceIP through the socket.         *)
HbBeat ==
  /\ Running /\ hb = "beat"
  /\ hb' = "check"
  /\ lateBeats' = IF enable THEN 0 ELSE lateBeats + 1
  /\ UNCHANGED <<enable, timer, appVars, sessionVars, ccp>>

(* A device's own heartbeat timer ran out, another host comes or goes.     *)
Device(d) ==
  /\ \/ ccp[d] \in {"us", "rival"} /\ ccp' = [ccp EXCEPT ![d] = "open"]
     \/ ccp[d] = "open" /\ ccp' = [ccp EXCEPT ![d] = "rival"]
  /\ UNCHANGED <<appVars, sessionVars, threadVars>>

App ==
  \/ BindController \/ ReadCCP \/ WriteCCP \/ ReadTimeout \/ Spawn
  \/ BindMonitor \/ ReadMonitored
  \/ Stop \/ Join \/ Clear \/ Close \/ Free

Heartbeat == HbCheck \/ HbEnter \/ HbTimeout \/ HbBeat \/ HbThrows

Next ==
  \/ \E d \in Devices : \/ ControlAgain(d) \/ Control(d)
                        \/ MonitorAgain(d) \/ Monitor(d)
                        \/ Device(d)
  \/ Release \/ Copy \/ Destroy \/ Command
  \/ App \/ Heartbeat \/ HbSpurious

Spec == Init /\ [][Next]_vars

(* Both threads are scheduled, and the heartbeat's wait times out.         *)
FairSpec == Spec /\ WF_vars(App) /\ WF_vars(Heartbeat)

-----------------------------------------------------------------------------
(* Type correctness: every variable of the model has its type.             *)
TypeOK ==
  /\ pc \in {"idle", "control", "readCCP", "writeCCP", "readTimeout", "spawn",
             "monitor", "readMonitored", "stop", "join", "clear", "close",
             "free", "freed", "uncaught", "aborted"}
  /\ then \in {"idle", "control", "monitor", "free"}
  /\ wanted \in Devices \cup {NoDevice}
  /\ result \in {"none", "true", "false", "threw"}
  /\ state \in {"none", "controller", "monitor"}
  /\ target \in Devices \cup {NoDevice}
  /\ socket \in {"closed", "bound", "unbound"}
  /\ enable \in BOOLEAN
  /\ timer \in {"empty", "joinable", "joined"}
  /\ hb \in {"none", "check", "enter", "wait", "beat", "exit"}
  /\ lateBeats \in Nat
  /\ granted \in BOOLEAN
  /\ broken \in BOOLEAN
  /\ ccp \in [Devices -> {"open", "us", "rival"}]
  /\ calls \in Nat
  /\ handles \in Nat
  /\ handles = 0 => pc \in {"freed", "uncaught", "aborted"}

(* The heartbeat thread ends before what it uses: controlDevice overwrites *)
(* no thread that has not been joined, and the last copy of the client     *)
(* deletes the implementation, socket and all, under no running thread:    *)
(* either would end the process, or have the thread use freed memory.  It  *)
(* sends only through the bound socket of the device it was started for:   *)
(* releaseDevice has joined it before it clears either.                    *)
ThreadEndsFirst ==
  /\ pc # "aborted"
  /\ pc = "freed" => hb = "none" /\ state = "none"
  /\ hb = "beat" => state = "controller" /\ socket = "bound" /\ target # NoDevice

(* Between calls a controller is whole: the device has granted it the      *)
(* privilege, its socket is bound, and it has a thread that goes on        *)
(* beating unless an earlier release has cleared the flag for good.  No    *)
(* failed step of the handshake is left half done, but one that throws:    *)
(* its session counts as controller, and controlDevice returns true.       *)
ControllerIsWhole ==
  pc = "idle" /\ state = "controller" /\ ~broken =>
    /\ granted /\ socket = "bound" /\ timer = "joinable"
    /\ enable => hb \notin {"none", "exit"}

(* A call that returns false has undone everything: no session, no socket, *)
(* no heartbeat thread.                                                    *)
FailureReleases ==
  pc = "idle" /\ result = "false" =>
    state = "none" /\ socket = "closed" /\ timer # "joinable" /\ hb = "none"

(* Told to stop, the heartbeat sends once more at most, even when the      *)
(* notification finds it on its way into the wait and is lost.             *)
OneLateBeat == lateBeats <= 1

(* Every controller has a thread that beats, as the comment where it is started says.      *)
HeartbeatRuns ==
  pc = "idle" /\ state = "controller" /\ ~broken =>
    hb # "exit"

(* Every call returns, unless an exception ends the process: the heartbeat *)
(* thread it joins comes to its end.                                       *)
AtRest == pc \in {"idle", "freed", "uncaught", "aborted"}

EveryCallReturns == ~AtRest ~> AtRest

-----------------------------------------------------------------------------
(* The inductive invariant behind the safety properties.                   *)
SessionInv ==
  /\ pc # "aborted"
  /\ hb # "none" <=> timer = "joinable"
  /\ timer = "joinable" =>
       /\ state = "controller" /\ socket = "bound" /\ granted /\ ~broken
       /\ pc \in {"idle", "stop", "join", "uncaught"}
  /\ hb = "exit" => ~enable
  /\ lateBeats > 0 => lateBeats = 1 /\ ~enable /\ hb \in {"check", "exit"}
  /\ pc = "join" => timer = "joinable" /\ ~enable
  /\ pc \in {"readCCP", "writeCCP", "readTimeout", "spawn"} =>
       state = "controller" /\ socket = "bound" /\ ~broken
  /\ pc \in {"readTimeout", "spawn"} => granted
  /\ pc = "readMonitored" => state = "monitor"
  /\ pc = "idle" /\ state = "controller" /\ ~broken =>
       granted /\ socket = "bound" /\ timer = "joinable"
  /\ pc = "idle" /\ result = "false" => state = "none" /\ socket = "closed"
  /\ pc \in {"control", "free", "freed"} => state = "none"
  /\ pc = "control" => wanted # NoDevice
  /\ pc = "monitor" => state # "controller" /\ wanted # NoDevice
  /\ then \in {"control", "monitor"} /\ pc \in {"stop", "join", "clear", "close"} =>
       wanted # NoDevice
  /\ pc = "free" \/ (then = "free" /\ pc \in {"stop", "join", "clear", "close"}) =>
       result = "none"
  /\ state = "none" <=> target = NoDevice
  /\ state = "none" => socket # "bound"
  /\ pc \in {"idle", "control", "readCCP", "writeCCP", "readTimeout", "spawn",
             "monitor", "readMonitored", "stop", "join", "clear", "close",
             "free", "freed", "uncaught"}
=============================================================================
