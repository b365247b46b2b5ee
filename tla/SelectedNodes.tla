---------------------------- MODULE SelectedNodes ----------------------------
(***************************************************************************)
(* Features computed from several registers (src/genicam/converter.cpp,    *)
(* swissknife.cpp, intswissknife.cpp, swissknifehelper.cpp, floatjgv.cpp,  *)
(* intreg.cpp and node.cpp).  A formula has variables, which are registers *)
(* of the camera; the address of a register may itself be a formula.  The  *)
(* Gain of the repository's description is both: GainSelectorReg is read   *)
(* once for the formula that converts the gain and once more, in another   *)
(* command, for the address where the gain is.  Nothing keeps the selector *)
(* still in between, and a read that fails counts as a 0.                  *)
(*                                                                         *)
(* A formula is a function of the words of its variables, in their order   *)
(* in the description: module Formula evaluates them.  A command is one    *)
(* step with the outcomes GvcpRpc allows, and its answer stays in the      *)
(* buffer all threads share until the caller copies it.                    *)
(***************************************************************************)
EXTENDS Integers, Sequences, FiniteSets, Functions

CONSTANTS
  Threads,      \* the threads of the application
  Registers,    \* the addresses of the camera, one word each
  Size,         \* the values of a word, 2^32
  Nodes,        \* the features
  WriteAck,     \* what an acknowledge of WRITEREG leaves where data is read
  Strays,       \* what the heartbeat's answer, a refusal or a stray leaves there
  Initial,      \* what the registers may hold at first
  MaxLate,      \* bound: the copies of write commands late on the network
  MaxCalls      \* bound: the calls of all threads

Words == 0..(Size - 1)

\* The words of a sequence of variables.
Valuation(variables) == [1..Len(variables) -> Words]

\* A node is a feature and the nodes its pValue leads to.  variables are those
\* of its formula, addressed those of the formula of its address; value is the
\* address as a function of the latter, and has no meaning in a SwissKnife,
\* which has no pValue.  to is FormulaTo and its cast to uint64_t, from is
\* FormulaFrom, or Formula; both are the identity where there is no formula.
\* The choices of the caller are the domain of to.
ASSUME SelectedNodesAssumption ==
  /\ Size \in Nat \ {0} /\ MaxLate \in Nat /\ MaxCalls \in Nat
  /\ Initial \subseteq [Registers -> Words]
  /\ Strays \subseteq Words /\ WriteAck \in Words
  /\ \A n \in Nodes :
       /\ n.variables \in Seq(Registers) /\ n.addressed \in Seq(Registers)
       /\ n.register \in [Valuation(n.addressed) -> Registers]
       /\ n.hasValue \in BOOLEAN /\ n.choices \subseteq Nat
       /\ n.hasValue \/ n.variables # <<>>
       /\ n.to \in [Valuation(n.variables) -> [n.choices -> Nat]]
       /\ DOMAIN n.from = Valuation(n.variables)
       /\ \A words \in Valuation(n.variables) : DOMAIN n.from[words] = Words

VARIABLES
  registers,    \* the camera's
  wire,         \* late copies of write commands
  buffer,       \* the data of the last answer received
  pc,           \* where each thread is: "idle", "read", "copy" or "write"
  task,         \* the feature it gets or sets and to what, NoTask when idle
  words,        \* the words it has read so far
  answer,       \* what its last getValue returned
  calls,        \* how many calls were made
  expected,     \* history: what each register should hold
  spoilt,       \* history: the registers that something else overwrote
  upset         \* history: the threads that hold what is not in the camera

camera == <<registers, wire>>
threads == <<pc, task, words, answer, calls>>
history == <<expected, spoilt, upset>>
vars == <<camera, buffer, threads, history>>

Copy == [register : Registers, word : Words]

NoTask == [set |-> FALSE]

Init ==
  /\ registers \in Initial
  /\ wire = {}
  /\ buffer = 0
  /\ pc = [t \in Threads |-> "idle"]
  /\ task = [t \in Threads |-> NoTask]
  /\ words = [t \in Threads |-> <<>>]
  /\ answer = [t \in Threads |-> 0]
  /\ calls = 0
  /\ expected = registers
  /\ spoilt = {}
  /\ upset = {}
-----------------------------------------------------------------------------
(* The words of a call *)

\* The registers a call reads before the one of its value: those of its
\* formula (SwissKnifeHelper::initFormula), then those of its address, whose
\* node is created and evaluated anew (Node::address).
Variables(n) == n.variables \o (IF n.hasValue THEN n.addressed ELSE <<>>)

\* The words of the formula and those of the address.
FormulaWords(n, read) == SubSeq(read, 1, Len(n.variables))
AddressWords(n, read) ==
  SubSeq(read, Len(n.variables) + 1, Len(n.variables) + Len(n.addressed))

\* Where the value of the feature is.
Address(n, read) == n.register[AddressWords(n, read)]

\* Mutant: the value is sent on as many bits as it has.
Value32Whole(value) == value

\* value32: IntRegNode::setValue keeps the low bits.
Value32(value) == value % Size

\* Mutant: the variables of the formula are left at 0.
ConvertedUnread(n, read, choice) == n.to[[i \in 1..Len(n.variables) |-> 0]][choice]

\* What setValue sends for a choice, before it is cut to the register.
Converted(n, read, choice) == n.to[FormulaWords(n, read)][choice]

\* Mutant: a value is returned as it is in the register.
ResultRaw(n, read, word) == word

\* What getValue returns.
Result(n, read, word) == n.from[FormulaWords(n, read)][word]

\* The register a thread reads next, or has just read.
Looked(t) ==
  LET n == task[t].node
      next == Len(words[t]) + 1
  IN  IF next <= Len(Variables(n)) THEN Variables(n)[next]
      ELSE Address(n, words[t])

\* The words registers hold for some variables.
Held(variables) == [i \in 1..Len(variables) |-> registers[variables[i]]]

\* The register that is selected, and what a choice should leave in it.
Meant(n) == n.register[Held(n.addressed)]
Wanted(n, choice) == n.to[Held(n.variables)][choice]

\* The registers a thread has read, and still goes by.
GoesBy(t) == {Variables(task[t].node)[i] : i \in 1..Len(words[t])}
             \cup IF pc[t] = "copy" THEN {Looked(t)} ELSE {}
-----------------------------------------------------------------------------
(* The threads *)

\* Where a thread goes with the words it has: to the next variable, to the
\* register of the value, or nowhere when a SwissKnife has all its words.
Step(n, set, read) ==
  IF Len(read) = Len(Variables(n)) /\ n.hasValue /\ set THEN "write" ELSE "read"

Call(t, n, set, choice) ==
  /\ pc[t] = "idle" /\ calls < MaxCalls
  /\ calls' = calls + 1
  /\ task' = [task EXCEPT ![t] = [node |-> n, set |-> set, choice |-> choice]]
  /\ words' = [words EXCEPT ![t] = <<>>]
  /\ pc' = [pc EXCEPT ![t] = Step(n, set, <<>>)]
  /\ answer' = [answer EXCEPT ![t] = 0]
  /\ UNCHANGED <<camera, buffer, history>>

\* A SwissKnife is only warned of when it is set, and has no effect.
Get(t, n) == Call(t, n, FALSE, 0)
Set(t, n) == \E choice \in n.choices : n.hasValue /\ Call(t, n, TRUE, choice)

Ends(t) ==
  /\ pc' = [pc EXCEPT ![t] = "idle"]
  /\ task' = [task EXCEPT ![t] = NoTask]
  /\ words' = [words EXCEPT ![t] = <<>>]

\* The threads that were to copy the answer that buffer' replaces.
Overwritten(t) ==
  IF buffer' = buffer THEN {} ELSE {u \in Threads \ {t} : pc[u] = "copy"}

\* A command that fails has received nothing, or a datagram it refused.
Refused == buffer' \in {buffer, WriteAck} \cup Strays

\* The command has its answer, still in the buffer.
ReadRegister(t) ==
  /\ pc[t] = "read"
  /\ buffer' = registers[Looked(t)]
  /\ pc' = [pc EXCEPT ![t] = "copy"]
  /\ upset' = upset \cup Overwritten(t)
  /\ UNCHANGED <<camera, task, words, answer, calls, expected, spoilt>>

\* What a thread does with the word it has read: one more word, or the end.
Use(t, word) ==
  LET n == task[t].node
      all == Len(Variables(n))
      read == Append(words[t], word)
      last == Len(read) = all + (IF n.hasValue THEN 1 ELSE 0)
  IN  \/ /\ last
         /\ answer' = [answer EXCEPT ![t] =
              Result(n, read, IF n.hasValue THEN word ELSE 0)]
         /\ Ends(t)
      \/ /\ ~last
         /\ words' = [words EXCEPT ![t] = read]
         /\ pc' = [pc EXCEPT ![t] = Step(n, task[t].set, read)]
         /\ UNCHANGED <<task, answer>>

CopyAnswer(t) ==
  /\ pc[t] = "copy"
  /\ Use(t, buffer)
  /\ upset' = IF pc'[t] = "idle" THEN upset \ {t} ELSE upset
  /\ UNCHANGED <<camera, buffer, calls, expected, spoilt>>

\* Without an answer value keeps its initial 0, and the call goes on.
ReadFails(t) ==
  /\ pc[t] = "read"
  /\ Use(t, 0)
  /\ Refused
  /\ upset' = Overwritten(t) \cup
       IF pc'[t] = "idle" THEN upset \ {t} ELSE upset \cup {t}
  /\ UNCHANGED <<camera, calls, expected, spoilt>>
-----------------------------------------------------------------------------
(* Writing *)

\* The threads that have read another word in r than the one it now holds.
Outdated(t, r) ==
  IF registers'[r] = registers[r] THEN {}
  ELSE {u \in Threads \ {t} : r \in GoesBy(u)}

\* The camera executes the command of thread t.  The feature asked for is the
\* one its variables select now, and it has what was asked, as long as the
\* thread went by them and the value fits.
Stored(t) ==
  LET n == task[t].node
      r == Address(n, words[t])
      meant == Meant(n)
      value == Converted(n, words[t], task[t].choice)
      wanted == Wanted(n, task[t].choice)
      wrong == IF t \in upset THEN {r, meant}
               ELSE IF wanted \in Words THEN {} ELSE {meant}
  IN  /\ registers' = [registers EXCEPT ![r] = Value32(value)]
      /\ expected' =
           IF wanted \in Words THEN [expected EXCEPT ![meant] = wanted]
           ELSE expected
      /\ spoilt' = (spoilt \ {meant}) \cup wrong
      /\ upset' = (upset \ {t}) \cup Outdated(t, r) \cup Overwritten(t)

\* A copy sent again may still be on the network.
Leaves(t) ==
  LET n == task[t].node
      copy == [register |-> Address(n, words[t]),
               word |-> Value32(Converted(n, words[t], task[t].choice))]
  IN  \/ UNCHANGED wire
      \/ Cardinality(wire) < MaxLate /\ wire' = wire \cup {copy}

WriteRegister(t) ==
  /\ pc[t] = "write"
  /\ buffer' = WriteAck
  /\ Stored(t)
  /\ Leaves(t)
  /\ Ends(t)
  /\ UNCHANGED <<answer, calls>>

\* setValue does not tell its caller.
WriteFails(t) ==
  /\ pc[t] = "write"
  /\ Refused
  /\ \/ Stored(t)
     \/ /\ upset' = (upset \ {t}) \cup Overwritten(t)
        /\ UNCHANGED <<registers, expected, spoilt>>
  /\ Leaves(t)
  /\ Ends(t)
  /\ UNCHANGED <<answer, calls>>

\* A late copy is executed.
ExecuteLate(copy) ==
  /\ wire' = wire \ {copy}
  /\ registers' = [registers EXCEPT ![copy.register] = copy.word]
  /\ spoilt' = spoilt \cup {copy.register}
  /\ upset' = upset \cup
       (IF registers' = registers THEN {}
        ELSE {u \in Threads : copy.register \in GoesBy(u)})
  /\ UNCHANGED <<buffer, threads, expected>>

\* The heartbeat reads HeartbeatTimeout with the same buffer, and receives there
\* whatever else arrives first.
Heartbeat ==
  /\ buffer' \in Strays
  /\ upset' = upset \cup {u \in Threads : pc[u] = "copy"}
  /\ UNCHANGED <<camera, threads, expected, spoilt>>

Next ==
  \/ \E t \in Threads :
       \/ \E n \in Nodes : Get(t, n) \/ Set(t, n)
       \/ ReadRegister(t)
       \/ ReadFails(t)
       \/ CopyAnswer(t)
       \/ WriteRegister(t)
       \/ WriteFails(t)
  \/ \E copy \in wire : ExecuteLate(copy)
  \/ Heartbeat

Spec == Init /\ [][Next]_vars
-----------------------------------------------------------------------------
(* Properties *)

\* Every variable keeps its type: a register is never given more than its 32
\* bits (IntRegNode::setValue), and a thread never has more words than its
\* feature has variables.
TypeOK ==
  /\ registers \in [Registers -> Words]
  /\ wire \subseteq Copy
  /\ buffer \in Words
  /\ pc \in [Threads -> {"idle", "read", "copy", "write"}]
  /\ DOMAIN task = Threads /\ DOMAIN words = Threads /\ DOMAIN answer = Threads
  /\ \A t \in {u \in Threads : pc[u] # "idle"} :
       /\ task[t].node \in Nodes /\ task[t].set \in BOOLEAN
       /\ task[t].set => task[t].choice \in task[t].node.choices
       /\ words[t] \in Seq(Words)
       /\ Len(words[t]) <= Len(Variables(task[t].node))
  /\ calls \in 0..MaxCalls
  /\ expected \in [Registers -> Words]
  /\ spoilt \subseteq Registers /\ upset \subseteq Threads

\* A gain set is the gain of the selected channel, in the units of that
\* channel: the register written and the formula used are those of the same
\* selection, and no other register is touched.  It fails of a register only
\* after a read that failed, an answer overwritten before it was copied, a
\* selection changed during the call, a value wider than the register, or a
\* late copy of a write (ConverterNode::setValue, IntRegNode::setValue).
SelectionKept ==
  \A r \in Registers \ spoilt : registers[r] = expected[r]

\* A gain read is that of the selected channel: the formula used is the one of
\* the channel the register belongs to, and the register holds what was last
\* set, under the same conditions (ConverterNode::getValue,
\* IntRegNode::getValue, SwissKnifeNode::getValue).
SelectionRead ==
  [][\A t \in Threads :
       pc[t] = "copy" /\ pc'[t] = "idle" /\ t \notin upset =>
       LET n == task[t].node
           from == Range(Variables(n)) \cup (IF n.hasValue THEN {Meant(n)} ELSE {})
           variables == [i \in 1..Len(n.variables) |-> expected[n.variables[i]]]
           word == IF n.hasValue THEN expected[Meant(n)] ELSE 0
       IN  from \cap spoilt = {} => answer'[t] = n.from[variables][word]]_vars
=============================================================================
