---------------------------- MODULE RegisterNodes ----------------------------
(***************************************************************************)
(* The features of a GenICam description, read and set through the         *)
(* registers of the camera (src/genicam/integer.cpp, boolean.cpp,          *)
(* enumeration.cpp, command.cpp, intreg.cpp, maskedintreg.cpp and the      *)
(* IPort methods of src/gvcp/gvcpclient.cpp).  Several features share a    *)
(* register: setting one is a READREG command, a change of some bits and a *)
(* WRITEREG command, and nothing holds the register in between.            *)
(*                                                                         *)
(* A word is the set of its bits at 1.  A command is one step, with the    *)
(* outcomes GvcpRpc allows; its answer stays in the buffer that all        *)
(* threads share until the caller copies it.  Registers are one word long  *)
(* (Length 4, the only length the repository's description masks).         *)
(***************************************************************************)
EXTENDS Integers, FiniteSets

CONSTANTS
  Threads,      \* the threads of the application
  Registers,    \* the addresses of the camera
  Width,        \* the bits of a register, 32
  Nodes,        \* the features
  WriteAck,     \* what an acknowledge of WRITEREG leaves where data is read
  Strays,       \* what the heartbeat's answer, a refusal or a stray leaves there
  Initial,      \* what the registers may hold at first
  MaxLate,      \* bound: the copies of write commands late on the network
  MaxCalls      \* bound: the calls of all threads

Bits == 0..(Width - 1)
Words == SUBSET Bits

\* The bits of a big-endian register are numbered from the most significant.
Lowest(n) == IF n.little THEN n.lsb ELSE Width - 1 - n.lsb
Highest(n) == IF n.little THEN n.msb ELSE Width - 1 - n.msb

\* A node is a feature and the register node at the end of its pValue chain.
\* values is what each choice of the caller writes: the two values of a
\* boolean, the entries of an enumeration by their place in the description,
\* the value of a command, the number itself for an integer.
ASSUME RegisterNodesAssumption ==
  /\ Width \in Nat \ {0} /\ MaxLate \in Nat /\ MaxCalls \in Nat
  /\ Initial \subseteq Words
  /\ Strays \subseteq Words /\ WriteAck \in Words
  /\ \A n \in Nodes :
       /\ n.kind \in {"Integer", "Boolean", "Enumeration", "Command"}
       /\ n.masked \in BOOLEAN /\ n.little \in BOOLEAN
       /\ n.register \in Registers
       /\ n.lsb \in Bits /\ n.msb \in Bits /\ Lowest(n) <= Highest(n)
       /\ \A choice \in DOMAIN n.values : n.values[choice] \in Words
       /\ n.kind = "Enumeration" => DOMAIN n.values \subseteq Nat

VARIABLES
  registers,    \* the camera's
  buffer,       \* the data of the last answer received
  wire,         \* late copies of write commands
  pc,           \* where each thread is: "idle", "read", "copy" or "write"
  task,         \* what it gets or sets
  held,         \* value32, the word it is about to write
  answer,       \* what its last getValue returned
  calls,        \* how many calls were made
  expected,     \* history: the word each register should hold
  disturbed,    \* history: the bits of it that something else overwrote
  stale         \* history: the bits each thread may have wrong

camera == <<registers, wire>>
threads == <<pc, task, held, answer, calls>>
history == <<expected, disturbed, stale>>
vars == <<camera, buffer, threads, history>>

Task == [node : Nodes, set : BOOLEAN, value : Words]
Copy == [register : Registers, word : Words]

Init ==
  /\ registers \in [Registers -> Initial]
  /\ wire = {}
  /\ buffer = {}
  /\ pc = [t \in Threads |-> "idle"]
  /\ task \in [Threads -> {[node |-> n, set |-> FALSE, value |-> {}] : n \in Nodes}]
  /\ held = [t \in Threads |-> {}]
  /\ answer = [t \in Threads |-> {}]
  /\ calls = 0
  /\ expected = registers
  /\ disturbed = [r \in Registers |-> {}]
  /\ stale = [t \in Threads |-> {}]
-----------------------------------------------------------------------------
(* The bits of a node *)

Mask(n) == Lowest(n)..Highest(n)

\* Mutant: the bits above the field are left in the value.
GetFrom32Unmasked(n, word) ==
  {b - Lowest(n) : b \in word \cap (Lowest(n)..Width)}

\* getFrom32LE and getFrom32BE
GetFrom32(n, word) == {b - Lowest(n) : b \in word \cap Mask(n)}

\* Mutant: the word is larger than the register.
AlignedValueWide(n, value) == {b + Lowest(n) : b \in value}

AlignedValue(n, value) == {b + Lowest(n) : b \in value} \cap Bits

\* Mutant: the old value of the bits is not cleared.
SetTo32Or(n, word, value) == word \cup AlignedValue(n, value)

\* setTo32LE and setTo32BE: nothing cuts a value too wide for its bits.
SetTo32(n, word, value) == (word \ Mask(n)) \cup AlignedValue(n, value)

Value(n, word) == IF n.masked THEN GetFrom32(n, word) ELSE word

\* The bits a node owns, what they should be, and the others it changes.
Own(n) == IF n.masked THEN Mask(n) ELSE Bits
Asked(n, value) == IF n.masked THEN AlignedValue(n, value) ELSE value
Spilled(n, value) == Asked(n, value) \ Own(n)

\* The entries of an enumeration that have a value, of which the first counts.
Matching(n, value) == {entry \in DOMAIN n.values : n.values[entry] = value}

\* A boolean that is not at its OnValue is false; the name of an enumeration is
\* that of the first entry with the value, and empty if there is none.
Answer(n, value) ==
  CASE n.kind = "Boolean" -> {value = n.values[TRUE]}
    [] n.kind = "Enumeration" ->
         {entry \in Matching(n, value) :
            \A other \in Matching(n, value) : entry <= other}
    [] OTHER -> value
-----------------------------------------------------------------------------
(* The threads *)

Register(t) == task[t].node.register

\* What a thread has read it keeps until it writes.
Holds(t) == pc[t] \in {"copy", "write"}

\* A thread loses the answer it has not copied to what another received.
Loses(u) == pc[u] = "copy" /\ buffer' # buffer

\* A command that fails has received nothing, or a datagram it refused.
Refused == buffer' \in {buffer, WriteAck} \cup Strays

\* What a thread has wrong after a call of t, which itself has no bits wrong.
Overwritten(t) ==
  stale' = [u \in Threads |->
    IF u = t THEN {} ELSE IF Loses(u) THEN Bits ELSE stale[u]]

Get(t, n) ==
  /\ pc[t] = "idle" /\ calls < MaxCalls
  /\ calls' = calls + 1
  /\ n.kind # "Command"
  /\ pc' = [pc EXCEPT ![t] = "read"]
  /\ task' = [task EXCEPT ![t] = [node |-> n, set |-> FALSE, value |-> {}]]
  /\ UNCHANGED <<camera, buffer, held, answer, history>>

\* A masked register is read first, the other ones are written at once.
Set(t, n, choice) ==
  /\ pc[t] = "idle" /\ calls < MaxCalls
  /\ calls' = calls + 1
  /\ pc' = [pc EXCEPT ![t] = IF n.masked THEN "read" ELSE "write"]
  /\ task' = [task EXCEPT ![t] =
       [node |-> n, set |-> TRUE, value |-> n.values[choice]]]
  /\ held' = [held EXCEPT ![t] = IF n.masked THEN {} ELSE n.values[choice]]
  /\ UNCHANGED <<camera, buffer, answer, history>>

\* The command has its answer, still in the buffer.
ReadRegister(t) ==
  /\ pc[t] = "read"
  /\ buffer' = registers[Register(t)]
  /\ pc' = [pc EXCEPT ![t] = "copy"]
  /\ Overwritten(t)
  /\ UNCHANGED <<camera, task, held, answer, calls, expected, disturbed>>

\* What a thread does with the word it has read.
Use(t, word) ==
  LET n == task[t].node
  IN  IF task[t].set
      THEN /\ held' = [held EXCEPT ![t] = SetTo32(n, word, task[t].value)]
           /\ pc' = [pc EXCEPT ![t] = "write"]
           /\ UNCHANGED answer
      ELSE /\ answer' = [answer EXCEPT ![t] = Answer(n, Value(n, word))]
           /\ pc' = [pc EXCEPT ![t] = "idle"]
           /\ UNCHANGED held

\* Without an answer value64 keeps its initial value.
ReadFails(t) ==
  /\ pc[t] = "read"
  /\ Use(t, {})
  /\ Refused
  /\ stale' = [u \in Threads |-> IF u = t \/ Loses(u) THEN Bits ELSE stale[u]]
  /\ UNCHANGED <<camera, task, calls, expected, disturbed>>

CopyAnswer(t) ==
  /\ pc[t] = "copy"
  /\ Use(t, buffer)
  /\ UNCHANGED <<camera, buffer, task, calls, history>>
-----------------------------------------------------------------------------
(* Writing *)

\* The camera executes the command of thread t, on what it read.
Stored(t) ==
  LET n == task[t].node
      r == n.register
      wrong == (stale[t] \cup Spilled(n, task[t].value)) \ Own(n)
  IN  /\ registers' = [registers EXCEPT ![r] = held[t]]
      /\ expected' = [expected EXCEPT ![r] =
           (@ \ Own(n)) \cup (Asked(n, task[t].value) \cap Own(n))]
      /\ disturbed' = [disturbed EXCEPT ![r] = (@ \ Own(n)) \cup wrong]
      /\ stale' = [u \in Threads |->
           IF u = t THEN {}
           ELSE IF Loses(u) THEN Bits
           ELSE IF Holds(u) /\ Register(u) = r
                THEN stale[u] \cup Own(n) \cup wrong
           ELSE stale[u]]

\* A copy sent again may still be on the network.
Leaves(t) ==
  \/ UNCHANGED wire
  \/ /\ Cardinality(wire) < MaxLate
     /\ wire' = wire \cup {[register |-> Register(t), word |-> held[t]]}

WriteRegister(t) ==
  /\ pc[t] = "write"
  /\ buffer' = WriteAck
  /\ Stored(t)
  /\ Leaves(t)
  /\ pc' = [pc EXCEPT ![t] = "idle"]
  /\ held' = [held EXCEPT ![t] = {}]
  /\ UNCHANGED <<task, answer, calls>>

\* setValue does not tell its caller.
WriteFails(t) ==
  /\ pc[t] = "write"
  /\ Refused
  /\ \/ Stored(t)
     \/ Overwritten(t) /\ UNCHANGED <<registers, expected, disturbed>>
  /\ Leaves(t)
  /\ pc' = [pc EXCEPT ![t] = "idle"]
  /\ held' = [held EXCEPT ![t] = {}]
  /\ UNCHANGED <<task, answer, calls>>

\* A late copy is executed.
ExecuteLate(copy) ==
  /\ wire' = wire \ {copy}
  /\ registers' = [registers EXCEPT ![copy.register] = copy.word]
  /\ disturbed' = [disturbed EXCEPT ![copy.register] = Bits]
  /\ stale' = [u \in Threads |->
       IF Holds(u) /\ Register(u) = copy.register THEN Bits ELSE stale[u]]
  /\ UNCHANGED <<buffer, threads, expected>>

\* The heartbeat reads HeartbeatTimeout with the same buffer, and receives there
\* whatever else arrives first.
Heartbeat ==
  /\ buffer' \in Strays
  /\ stale' = [u \in Threads |-> IF pc[u] = "copy" THEN Bits ELSE stale[u]]
  /\ UNCHANGED <<camera, threads, expected, disturbed>>

Next ==
  \/ \E t \in Threads :
       \/ \E n \in Nodes :
            \/ Get(t, n)
            \/ \E choice \in DOMAIN n.values : Set(t, n, choice)
       \/ ReadRegister(t)
       \/ ReadFails(t)
       \/ CopyAnswer(t)
       \/ WriteRegister(t)
       \/ WriteFails(t)
  \/ \E copy \in wire : ExecuteLate(copy)
  \/ Heartbeat

Spec == Init /\ [][Next]_vars
-----------------------------------------------------------------------------
(* Properties *)

\* Every variable keeps its type: what a thread writes is a word, however wide
\* the value it was given (setTo32LE, setTo32BE).
TypeOK ==
  /\ registers \in [Registers -> Words]
  /\ wire \subseteq Copy
  /\ buffer \in Words
  /\ pc \in [Threads -> {"idle", "read", "copy", "write"}]
  /\ task \in [Threads -> Task]
  /\ held \in [Threads -> Words]
  /\ DOMAIN answer = Threads /\ calls \in 0..MaxCalls
  /\ expected \in [Registers -> Words]
  /\ disturbed \in [Registers -> Words]
  /\ stale \in [Threads -> Words]

\* Setting a feature changes its own bits and no other: a register holds what
\* was last set in each of its nodes, except in the bits spoilt by a failed
\* read, by an answer another thread or the heartbeat overwrote, by a write of
\* another thread since the read, by a value too wide, or by a late copy
\* (MaskedIntNode::setValue).
FieldsKept ==
  \A r \in Registers : registers[r] \ disturbed[r] = expected[r] \ disturbed[r]

\* What a thread is about to write is right in every bit it does not own, as
\* long as nothing came between its read and its write: the answer it copies
\* and the word it writes agree with the camera (GvcpClient::readreg,
\* MaskedIntNode::setValue).
HeldIsFresh ==
  \A t \in Threads :
    /\ pc[t] = "copy" => buffer \ stale[t] = registers[Register(t)] \ stale[t]
    /\ pc[t] = "write" =>
         LET n == task[t].node
             other == Bits \ (Own(n) \cup Spilled(n, task[t].value) \cup stale[t])
         IN  held[t] \cap other = registers[n.register] \cap other

\* The number the bits of a node make, least significant bit first.
FieldOf(n, word) ==
  IF n.masked
  THEN {i \in 0..(Highest(n) - Lowest(n)) : Lowest(n) + i \in word}
  ELSE word

\* A getValue returns what was last set in the node, provided its bits and its
\* answer were left alone; feature_test asserts it of a camera and a thread
\* (IntegerNode, BooleanNode, EnumerationNode, MaskedIntNode::getValue).
ReadsWhatWasSet ==
  [][\A t \in Threads :
       LET n == task[t].node
       IN  /\ pc[t] = "copy" /\ ~task[t].set /\ pc'[t] = "idle"
           /\ Own(n) \cap (stale[t] \cup disturbed[n.register]) = {}
           => answer'[t] = Answer(n, FieldOf(n, expected[n.register]))]_vars
=============================================================================
