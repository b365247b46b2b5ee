------------------------------ MODULE GvcpRpc ------------------------------
(***************************************************************************)
(* What GvcpClientImpl::proceed promises to its callers, without sockets,  *)
(* request ids or retries: a client runs one command at a time, and a      *)
(* command reported successful has been executed by the device.  A command *)
(* reported failed may have been executed all the same.                    *)
(***************************************************************************)
EXTENDS Naturals

CONSTANTS Threads, Clients, ClientOf

VARIABLES
  issued,     \* issued[c]: how many commands client c has started
  executed,   \* executed[c]: the commands of c its device has executed
  call,       \* call[t]: the command t is waiting for, 0 when there is none
  outcome     \* outcome[t]: how t's last command ended

vars == <<issued, executed, call, outcome>>

Outcomes == {"none", "ok", "failed"}

Init ==
  /\ issued = [c \in Clients |-> 0]
  /\ executed = [c \in Clients |-> {}]
  /\ call = [t \in Threads |-> 0]
  /\ outcome = [t \in Threads |-> "none"]

(* A thread starts the next command of its client, which is idle.          *)
Call(t) ==
  LET c == ClientOf[t] IN
  /\ \A u \in Threads : ClientOf[u] = c => call[u] = 0
  /\ issued' = [issued EXCEPT ![c] = @ + 1]
  /\ call' = [call EXCEPT ![t] = issued[c] + 1]
  /\ outcome' = [outcome EXCEPT ![t] = "none"]
  /\ UNCHANGED executed

(* The device executes a command, perhaps one whose caller has given up.   *)
Execute(c, s) ==
  /\ s \in 1..issued[c]
  /\ executed' = [executed EXCEPT ![c] = @ \cup {s}]
  /\ UNCHANGED <<issued, call, outcome>>

Succeed(t) ==
  /\ call[t] # 0
  /\ call[t] \in executed[ClientOf[t]]
  /\ call' = [call EXCEPT ![t] = 0]
  /\ outcome' = [outcome EXCEPT ![t] = "ok"]
  /\ UNCHANGED <<issued, executed>>

Fail(t) ==
  /\ call[t] # 0
  /\ call' = [call EXCEPT ![t] = 0]
  /\ outcome' = [outcome EXCEPT ![t] = "failed"]
  /\ UNCHANGED <<issued, executed>>

Next ==
  \/ \E t \in Threads : Call(t) \/ Succeed(t) \/ Fail(t)
  \/ \E c \in Clients : \E s \in 1..issued[c] : Execute(c, s)

Spec == Init /\ [][Next]_vars
=============================================================================
