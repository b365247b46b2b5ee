------------------------- MODULE RegisterNodesProofs -------------------------
(***************************************************************************)
(* What setting and reading features guarantees, for any number of         *)
(* threads, registers and features of any width.                           *)
(***************************************************************************)
EXTENDS RegisterNodes, TLAPS

\* What a thread holds is right outside the bits it may have wrong.
Fresh(t) ==
  /\ pc[t] = "copy" => buffer \ stale[t] = registers[Register(t)] \ stale[t]
  /\ pc[t] = "write" =>
       LET n == task[t].node
           other == Bits \ (Own(n) \cup Spilled(n, task[t].value) \cup stale[t])
       IN  held[t] \cap other = registers[n.register] \cap other

\* What a thread is about to write has its own bits as its caller asked, and
\* only masked registers are read to be set.
Asks(t) ==
  /\ pc[t] \in {"read", "copy"} /\ task[t].set => task[t].node.masked
  /\ pc[t] = "write" =>
       LET n == task[t].node
       IN  held[t] \cap Own(n) = Asked(n, task[t].value) \cap Own(n)

NodesInv == TypeOK /\ FieldsKept /\ \A t \in Threads : Fresh(t) /\ Asks(t)

USE RegisterNodesAssumption

\* The bits of a node are bits of its register.
LEMMA NodeBits ==
  ASSUME NEW n \in Nodes
  PROVE  /\ n.register \in Registers
         /\ Lowest(n) \in Bits /\ Highest(n) \in Bits
         /\ Lowest(n) <= Highest(n)
         /\ Mask(n) \subseteq Bits /\ Own(n) \subseteq Bits
<1>1. /\ n.register \in Registers /\ n.lsb \in Bits /\ n.msb \in Bits
      /\ n.little \in BOOLEAN /\ n.masked \in BOOLEAN
      /\ Lowest(n) <= Highest(n)
  OBVIOUS
<1>2. Lowest(n) \in Bits /\ Highest(n) \in Bits
  BY <1>1 DEF Lowest, Highest, Bits
<1>3. Mask(n) \subseteq Bits
  BY <1>2 DEF Mask, Bits
<1> QED
  BY <1>1, <1>2, <1>3 DEF Own

\* Whatever the value, what is asked and what is written are words.
LEMMA WordsWritten ==
  ASSUME NEW n \in Nodes, NEW word \in Words, NEW value \in Words
  PROVE  /\ Asked(n, value) \in Words
         /\ SetTo32(n, word, value) \in Words
         /\ n.masked =>
              /\ SetTo32(n, word, value) \cap Own(n) = Asked(n, value) \cap Own(n)
              /\ SetTo32(n, word, value) \ (Own(n) \cup Spilled(n, value))
                   = word \ (Own(n) \cup Spilled(n, value))
BY DEF Asked, SetTo32, AlignedValue, Own, Spilled, Words

\* A getter returns the number that the bits of its node make.
LEMMA FieldRead ==
  ASSUME NEW n \in Nodes, NEW word \in Words, NEW other \in Words,
         word \cap Own(n) = other \cap Own(n)
  PROVE  Value(n, word) = FieldOf(n, other)
<1>1. CASE n.masked
  <2> DEFINE L == Lowest(n)
             H == Highest(n)
  <2>1. L \in Int /\ H \in Int
    BY NodeBits DEF Bits
  <2>2. word \cap (L..H) = other \cap (L..H)
    BY <1>1 DEF Own, Mask
  <2>3. Value(n, word) = {b - L : b \in word \cap (L..H)}
    BY <1>1 DEF Value, GetFrom32, Mask
  <2>4. FieldOf(n, other) = {i \in 0..(H - L) : L + i \in other}
    BY <1>1 DEF FieldOf
  <2> HIDE DEF L, H
  <2>5. ASSUME NEW b \in word \cap (L..H)
        PROVE  b - L \in {i \in 0..(H - L) : L + i \in other}
    <3>1. b \in Int /\ L <= b /\ b <= H /\ b \in other
      BY <2>1, <2>2
    <3>2. b - L \in 0..(H - L) /\ L + (b - L) = b
      BY <2>1, <3>1
    <3> QED
      BY <3>1, <3>2
  <2>6. ASSUME NEW i \in 0..(H - L), L + i \in other
        PROVE  i \in {b - L : b \in word \cap (L..H)}
    <3>1. L + i \in L..H /\ (L + i) - L = i
      BY <2>1
    <3>2. L + i \in word \cap (L..H)
      BY <2>2, <2>6, <3>1
    <3> QED
      BY <3>1, <3>2
  <2>7. {b - L : b \in word \cap (L..H)}
          \subseteq {i \in 0..(H - L) : L + i \in other}
    BY <2>5
  <2>8. {i \in 0..(H - L) : L + i \in other}
          \subseteq {b - L : b \in word \cap (L..H)}
    BY <2>6
  <2> DEFINE read == {b - L : b \in word \cap (L..H)}
             field == {i \in 0..(H - L) : L + i \in other}
  <2> HIDE DEF read, field
  <2>9. read = field
    BY <2>7, <2>8, Zenon DEF read, field
  <2> QED
    BY <2>3, <2>4, <2>9 DEF read, field
<1>2. CASE ~n.masked
  <2>1. word \subseteq Bits /\ other \subseteq Bits
    BY DEF Words
  <2>2. word \cap Bits = other \cap Bits
    BY <1>2 DEF Own
  <2>3. word = other
    BY <2>1, <2>2, Zenon
  <2> QED
    BY <1>2, <2>3 DEF Value, FieldOf
<1> QED
  BY <1>1, <1>2

LEMMA InitNodes == Init => NodesInv
<1> SUFFICES ASSUME Init PROVE NodesInv
  OBVIOUS
<1>1. task \in [Threads -> Task]
  <2> DEFINE Idle(n) == [node |-> n, set |-> FALSE, value |-> {}]
  <2>1. \A n \in Nodes : Idle(n) \in Task
    BY DEF Task, Words
  <2>2. task \in [Threads -> {Idle(n) : n \in Nodes}]
    BY DEF Init
  <2> HIDE DEF Idle
  <2> QED
    BY <2>1, <2>2
<1>2. TypeOK
  <2>1. registers \in [Registers -> Words] /\ expected = registers
    BY DEF Init
  <2>2. {} \in Words
    BY DEF Words
  <2> QED
    BY <1>1, <2>1, <2>2 DEF Init, TypeOK
<1>3. FieldsKept
  BY DEF Init, FieldsKept
<1>4. \A t \in Threads : Fresh(t) /\ Asks(t)
  BY DEF Init, Fresh, Asks
<1> QED
  BY <1>2, <1>3, <1>4 DEF NodesInv

\* The registers change in the bits the history blames, and in no other.
LEMMA StoredKeeps ==
  ASSUME NodesInv, NEW t \in Threads, pc[t] = "write", Stored(t)
  PROVE  LET n == task[t].node
             r == n.register
             changed == Own(n) \cup stale[t] \cup Spilled(n, task[t].value)
         IN  /\ registers' \in [Registers -> Words]
             /\ expected' \in [Registers -> Words]
             /\ disturbed' \in [Registers -> Words]
             /\ stale' \in [Threads -> Words]
             /\ FieldsKept'
             /\ \A q \in Registers :
                  registers'[q] \ changed = registers[q] \ changed
             /\ \A q \in Registers \ {r} : registers'[q] = registers[q]
<1> DEFINE n == task[t].node
           r == n.register
           own == Own(n)
           asked == Asked(n, task[t].value)
           spilled == Spilled(n, task[t].value)
           wrong == (stale[t] \cup spilled) \ own
<1>1. n \in Nodes /\ task[t].value \in Words /\ held[t] \in Words /\ stale[t] \in Words
  BY DEF NodesInv, TypeOK, Task
<1>2. r \in Registers /\ own \subseteq Bits /\ asked \in Words
  BY <1>1, NodeBits, WordsWritten
<1>3. wrong \subseteq Bits
  BY <1>1, <1>2 DEF Spilled, Words
<1>4. /\ held[t] \cap own = asked \cap own
      /\ held[t] \ (own \cup spilled \cup stale[t])
           = registers[r] \ (own \cup spilled \cup stale[t])
  <2>1. registers[r] \in Words
    BY <1>2 DEF NodesInv, TypeOK
  <2>2. LET other == Bits \ (own \cup spilled \cup stale[t])
        IN  held[t] \cap other = registers[r] \cap other
    BY DEF NodesInv, Fresh
  <2>3. held[t] \cap own = asked \cap own
    BY DEF NodesInv, Asks
  <2> HIDE DEF n, r, own, asked, spilled, wrong
  <2> QED
    BY <1>1, <2>1, <2>2, <2>3 DEF Words
<1>5. /\ registers' = [registers EXCEPT ![r] = held[t]]
      /\ expected' = [expected EXCEPT ![r] = (@ \ own) \cup (asked \cap own)]
      /\ disturbed' = [disturbed EXCEPT ![r] = (@ \ own) \cup wrong]
      /\ stale' = [u \in Threads |->
           IF u = t THEN {}
           ELSE IF pc[u] = "copy" /\ buffer' # buffer THEN Bits
           ELSE IF Holds(u) /\ Register(u) = r
                THEN stale[u] \cup own \cup wrong
           ELSE stale[u]]
  BY DEF Stored, Loses
<1> HIDE DEF n, r, own, asked, spilled, wrong
<1>6. /\ registers \in [Registers -> Words] /\ expected \in [Registers -> Words]
      /\ disturbed \in [Registers -> Words] /\ stale \in [Threads -> Words]
  BY DEF NodesInv, TypeOK
<1>7. registers' \in [Registers -> Words]
  BY <1>1, <1>2, <1>5, <1>6
<1>8. expected' \in [Registers -> Words]
  <2>1. (expected[r] \ own) \cup (asked \cap own) \in Words
    BY <1>2, <1>6 DEF Words
  <2> QED
    BY <1>5, <1>6, <2>1
<1>9. disturbed' \in [Registers -> Words]
  <2>1. (disturbed[r] \ own) \cup wrong \in Words
    BY <1>2, <1>3, <1>6 DEF Words
  <2> QED
    BY <1>5, <1>6, <2>1
<1>10. stale' \in [Threads -> Words]
  <2>1. \A u \in Threads : stale[u] \cup own \cup wrong \in Words
    BY <1>2, <1>3, <1>6 DEF Words
  <2>2. {} \in Words /\ Bits \in Words
    BY DEF Words
  <2> QED
    BY <1>5, <1>6, <2>1, <2>2
<1>11. FieldsKept'
  <2> SUFFICES ASSUME NEW q \in Registers
               PROVE  registers'[q] \ disturbed'[q] = expected'[q] \ disturbed'[q]
    BY DEF FieldsKept
  <2>1. registers[q] \ disturbed[q] = expected[q] \ disturbed[q]
    BY DEF NodesInv, FieldsKept
  <2>2. CASE q # r
    BY <1>5, <1>6, <2>1, <2>2
  <2>3. CASE q = r
    <3>1. /\ registers'[q] = held[t]
          /\ expected'[q] = (expected[q] \ own) \cup (asked \cap own)
          /\ disturbed'[q] = (disturbed[q] \ own) \cup wrong
      BY <1>2, <1>5, <1>6, <2>3
    <3>2. held[t] \ (own \cup spilled \cup stale[t])
            = registers[q] \ (own \cup spilled \cup stale[t])
      BY <1>4, <2>3
    <3> QED
      BY <1>4, <2>1, <3>1, <3>2 DEF wrong
  <2> QED
    BY <2>2, <2>3
<1>12. \A q \in Registers \ {r} : registers'[q] = registers[q]
  BY <1>5, <1>6
<1>13. registers'[r] \ (own \cup stale[t] \cup spilled)
         = registers[r] \ (own \cup stale[t] \cup spilled)
  BY <1>2, <1>4, <1>5, <1>6
<1>14. \A q \in Registers :
         registers'[q] \ (own \cup stale[t] \cup spilled)
           = registers[q] \ (own \cup stale[t] \cup spilled)
  BY <1>12, <1>13
<1> QED
  BY <1>7, <1>8, <1>9, <1>10, <1>11, <1>12, <1>14 DEF n, r, own, spilled

\* A thread keeps what it holds when what changes is among its stale bits.
LEMMA StaysFresh ==
  ASSUME NodesInv, TypeOK', NEW u \in Threads,
         pc'[u] = pc[u], task'[u] = task[u], held'[u] = held[u],
         stale[u] \subseteq stale'[u],
         pc[u] = "copy" => buffer' = buffer \/ stale'[u] = Bits,
         Holds(u) => registers'[Register(u)] \ stale'[u]
                       = registers[Register(u)] \ stale'[u]
  PROVE  Fresh(u)' /\ Asks(u)'
<1> DEFINE n == task[u].node
           r == n.register
<1>1. n \in Nodes /\ r \in Registers
  BY NodeBits DEF NodesInv, TypeOK, Task
<1>2. Fresh(u) /\ Asks(u)
  BY DEF NodesInv
<1>3. /\ buffer \subseteq Bits /\ buffer' \subseteq Bits
      /\ registers[r] \subseteq Bits /\ registers'[r] \subseteq Bits
  BY <1>1 DEF NodesInv, TypeOK, Words
<1>4. Register(u)' = r /\ Register(u) = r
  BY DEF Register
<1>5. ASSUME pc[u] = "copy"
      PROVE  buffer' \ stale'[u] = registers'[r] \ stale'[u]
  <2>1. buffer \ stale[u] = registers[r] \ stale[u]
    BY <1>2, <1>4, <1>5 DEF Fresh
  <2>2. registers'[r] \ stale'[u] = registers[r] \ stale'[u]
    BY <1>4, <1>5 DEF Holds
  <2>3. CASE buffer' = buffer
    BY <2>1, <2>2, <2>3
  <2>4. CASE stale'[u] = Bits
    BY <1>3, <2>4
  <2> QED
    BY <1>5, <2>3, <2>4
<1>6. ASSUME pc[u] = "write"
      PROVE  LET mine == Own(n) \cup Spilled(n, task[u].value)
                 other == Bits \ (mine \cup stale'[u])
             IN  held[u] \cap other = registers'[r] \cap other
  <2> DEFINE mine == Own(n) \cup Spilled(n, task[u].value)
  <2>1. held[u] \cap (Bits \ (mine \cup stale[u]))
          = registers[r] \cap (Bits \ (mine \cup stale[u]))
    BY <1>2, <1>6 DEF Fresh
  <2>2. registers'[r] \ stale'[u] = registers[r] \ stale'[u]
    BY <1>4, <1>6 DEF Holds
  <2> HIDE DEF mine, n, r
  <2>3. held[u] \cap (Bits \ (mine \cup stale'[u]))
          = registers'[r] \cap (Bits \ (mine \cup stale'[u]))
    BY <2>1, <2>2
  <2> QED
    BY <2>3 DEF mine
<1>7. Fresh(u)'
  BY <1>4, <1>5, <1>6 DEF Fresh
<1>8. Asks(u)'
  BY <1>2 DEF Asks
<1> QED
  BY <1>7, <1>8

\* What a thread does with what it has read, when it is right outside its
\* stale bits.
LEMMA UseKeeps ==
  ASSUME NodesInv, TypeOK', NEW t \in Threads, NEW word \in Words,
         pc[t] \in {"read", "copy"}, Use(t, word),
         word \ stale'[t] = registers[Register(t)] \ stale'[t],
         UNCHANGED <<registers, task>>
  PROVE  Fresh(t)' /\ Asks(t)'
<1> DEFINE n == task[t].node
           r == n.register
           value == task[t].value
<1>1. n \in Nodes /\ value \in Words /\ r \in Registers
  BY NodeBits DEF NodesInv, TypeOK, Task
<1>2. CASE ~task[t].set
  <2>1. pc'[t] = "idle"
    BY <1>2 DEF Use, NodesInv, TypeOK
  <2> QED
    BY <2>1 DEF Fresh, Asks
<1>3. CASE task[t].set
  <2>1. pc'[t] = "write" /\ held'[t] = SetTo32(n, word, value)
    BY <1>3 DEF Use, NodesInv, TypeOK
  <2>2. n.masked
    BY <1>3 DEF NodesInv, Asks
  <2>3. /\ held'[t] \cap Own(n) = Asked(n, value) \cap Own(n)
        /\ held'[t] \ (Own(n) \cup Spilled(n, value))
             = word \ (Own(n) \cup Spilled(n, value))
    BY <1>1, <2>1, <2>2, WordsWritten
  <2>4. Asks(t)'
    BY <2>1, <2>3 DEF Asks
  <2> DEFINE mine == Own(n) \cup Spilled(n, value)
  <2>5. word \ stale'[t] = registers[r] \ stale'[t]
    BY DEF Register
  <2> HIDE DEF mine
  <2>6. held'[t] \ mine = word \ mine
    BY <2>3 DEF mine
  <2>7. held'[t] \cap (Bits \ (mine \cup stale'[t]))
          = registers[r] \cap (Bits \ (mine \cup stale'[t]))
    BY <2>5, <2>6
  <2>8. Fresh(t)'
    BY <2>1, <2>7 DEF Fresh, mine
  <2> QED
    BY <2>4, <2>8
<1> QED
  BY <1>2, <1>3

\* Each action keeps the types.
LEMMA TypeNext == NodesInv /\ [Next]_vars => TypeOK'
<1> SUFFICES ASSUME NodesInv, [Next]_vars PROVE TypeOK'
  OBVIOUS
<1> USE DEF TypeOK
<1>1. TypeOK /\ {} \in Words /\ Bits \in Words
  BY DEF NodesInv, Words
<1>2. ASSUME NEW t \in Threads, NEW n \in Nodes, Get(t, n)
      PROVE  TypeOK'
  <2>1. [node |-> n, set |-> FALSE, value |-> {}] \in Task
    BY <1>1 DEF Task
  <2> QED
    BY <1>1, <1>2, <2>1 DEF Get, camera, history
<1>3. ASSUME NEW t \in Threads, NEW n \in Nodes,
             NEW choice \in DOMAIN n.values, Set(t, n, choice)
      PROVE  TypeOK'
  <2>1. n.values[choice] \in Words
    OBVIOUS
  <2>2. [node |-> n, set |-> TRUE, value |-> n.values[choice]] \in Task
    BY <2>1 DEF Task
  <2> QED
    BY <1>1, <1>3, <2>1, <2>2 DEF Set, camera, history
<1>4. ASSUME NEW t \in Threads, NEW word \in Words, Use(t, word)
      PROVE  /\ held' \in [Threads -> Words]
             /\ pc' \in [Threads -> {"idle", "read", "copy", "write"}]
             /\ DOMAIN answer' = Threads
  <2>1. task[t].node \in Nodes /\ task[t].value \in Words
    BY <1>1 DEF Task
  <2>2. SetTo32(task[t].node, word, task[t].value) \in Words
    BY <2>1, WordsWritten
  <2> QED
    BY <1>1, <1>4, <2>2 DEF Use
<1>5. ASSUME NEW t \in Threads, ReadRegister(t)
      PROVE  TypeOK'
  <2>1. Register(t) \in Registers
    BY <1>1, NodeBits DEF Register, Task
  <2> QED
    BY <1>1, <1>5, <2>1 DEF ReadRegister, Overwritten, Loses, camera
<1>6. ASSUME NEW t \in Threads, ReadFails(t)
      PROVE  TypeOK'
  <2>1. /\ held' \in [Threads -> Words]
        /\ pc' \in [Threads -> {"idle", "read", "copy", "write"}]
        /\ DOMAIN answer' = Threads
    BY <1>1, <1>4, <1>6 DEF ReadFails
  <2>2. stale' \in [Threads -> Words] /\ buffer' \in Words
    BY <1>1, <1>6 DEF ReadFails, Refused, Loses
  <2> QED
    BY <1>1, <1>6, <2>1, <2>2 DEF ReadFails, camera
<1>7. ASSUME NEW t \in Threads, CopyAnswer(t)
      PROVE  TypeOK'
  <2>1. /\ held' \in [Threads -> Words]
        /\ pc' \in [Threads -> {"idle", "read", "copy", "write"}]
        /\ DOMAIN answer' = Threads
    BY <1>1, <1>4, <1>7 DEF CopyAnswer
  <2> QED
    BY <1>1, <1>7, <2>1 DEF CopyAnswer, camera, history
<1>8. ASSUME NEW t \in Threads, Leaves(t)
      PROVE  wire' \subseteq Copy
  <2>1. Register(t) \in Registers
    BY <1>1, NodeBits DEF Register, Task
  <2>2. [register |-> Register(t), word |-> held[t]] \in Copy
    BY <1>1, <2>1 DEF Copy
  <2> QED
    BY <1>1, <1>8, <2>2 DEF Leaves
<1>9. ASSUME NEW t \in Threads, WriteRegister(t)
      PROVE  TypeOK'
  BY <1>1, <1>8, <1>9, StoredKeeps DEF WriteRegister
<1>10. ASSUME NEW t \in Threads, WriteFails(t)
       PROVE  TypeOK'
  <2>0. buffer' \in Words
    BY <1>1, <1>10 DEF WriteFails, Refused
  <2>1. CASE Stored(t)
    BY <1>1, <1>8, <1>10, <2>0, <2>1, StoredKeeps DEF WriteFails
  <2>2. CASE Overwritten(t) /\ UNCHANGED <<registers, expected, disturbed>>
    <3>1. stale' \in [Threads -> Words]
      BY <1>1, <2>2 DEF Overwritten, Loses
    <3> QED
      BY <1>1, <1>8, <1>10, <2>0, <2>2, <3>1 DEF WriteFails
  <2> QED
    BY <1>10, <2>1, <2>2 DEF WriteFails
<1>11. ASSUME NEW copy \in wire, ExecuteLate(copy)
       PROVE  TypeOK'
  <2>1. copy.register \in Registers /\ copy.word \in Words
    BY <1>1 DEF Copy
  <2> QED
    BY <1>1, <1>11, <2>1 DEF ExecuteLate, threads
<1>12. CASE Heartbeat
  BY <1>1, <1>12 DEF Heartbeat, camera, threads
<1>13. CASE UNCHANGED vars
  BY <1>1, <1>13 DEF vars, camera, threads, history
<1> QED
  BY <1>2, <1>3, <1>5, <1>6, <1>7, <1>9, <1>10, <1>11, <1>12, <1>13 DEF Next

\* Where no register changes, what they should hold is what they held.
LEMMA FieldsStay ==
  ASSUME NodesInv, UNCHANGED <<registers, expected, disturbed>>
  PROVE  FieldsKept'
BY DEF NodesInv, FieldsKept

LEMMA NextNodes == NodesInv /\ [Next]_vars => NodesInv'
<1> SUFFICES ASSUME NodesInv, [Next]_vars PROVE NodesInv'
  OBVIOUS
<1>1. TypeOK /\ TypeOK'
  BY TypeNext DEF NodesInv
<1>2. ASSUME NEW t \in Threads, NEW n \in Nodes, Get(t, n)
      PROVE  NodesInv'
  <2>1. pc'[t] = "read" /\ ~task'[t].set
    BY <1>1, <1>2 DEF Get, TypeOK
  <2>2. Fresh(t)' /\ Asks(t)'
    BY <2>1 DEF Fresh, Asks
  <2>3. ASSUME NEW u \in Threads \ {t}
        PROVE  Fresh(u)' /\ Asks(u)'
    BY <1>1, <1>2, StaysFresh DEF Get, TypeOK, camera, history
  <2>4. FieldsKept'
    BY <1>2, FieldsStay DEF Get, camera, history
  <2> QED
    BY <1>1, <2>2, <2>3, <2>4 DEF NodesInv
<1>3. ASSUME NEW t \in Threads, NEW n \in Nodes,
             NEW choice \in DOMAIN n.values, Set(t, n, choice)
      PROVE  NodesInv'
  <2> DEFINE value == n.values[choice]
  <2>1. /\ pc'[t] = IF n.masked THEN "read" ELSE "write"
        /\ task'[t] = [node |-> n, set |-> TRUE, value |-> value]
        /\ held'[t] = IF n.masked THEN {} ELSE value
    BY <1>1, <1>3 DEF Set, TypeOK
  <2>2. Fresh(t)' /\ Asks(t)'
    <3>1. CASE n.masked
      <4>1. pc'[t] = "read" /\ task'[t].node = n
        BY <2>1, <3>1
      <4> QED
        BY <3>1, <4>1 DEF Fresh, Asks
    <3>2. CASE ~n.masked
      <4>1. Own(n) = Bits /\ Asked(n, value) = value
        BY <3>2 DEF Own, Asked
      <4>2. /\ pc'[t] = "write" /\ held'[t] = value
            /\ task'[t].node = n /\ task'[t].value = value
        BY <2>1, <3>2
      <4> HIDE DEF value
      <4>3. Asks(t)'
        BY <4>1, <4>2 DEF Asks
      <4>4. Bits \ (Own(n) \cup Spilled(n, value) \cup stale'[t]) = {}
        BY <4>1
      <4>5. Fresh(t)'
        BY <4>2, <4>4 DEF Fresh
      <4> QED
        BY <4>3, <4>5
    <3>3. n.masked \in BOOLEAN
      OBVIOUS
    <3> QED
      BY <3>1, <3>2, <3>3
  <2>3. ASSUME NEW u \in Threads \ {t}
        PROVE  Fresh(u)' /\ Asks(u)'
    <3>1. /\ pc'[u] = pc[u] /\ task'[u] = task[u] /\ held'[u] = held[u]
          /\ stale' = stale /\ buffer' = buffer /\ registers' = registers
      BY <1>1, <1>3 DEF Set, TypeOK, camera, history
    <3> QED
      BY <1>1, <3>1, StaysFresh
  <2>4. FieldsKept'
    BY <1>3, FieldsStay DEF Set, camera, history
  <2> QED
    BY <1>1, <2>2, <2>3, <2>4 DEF NodesInv
<1>4. ASSUME NEW t \in Threads, ReadRegister(t)
      PROVE  NodesInv'
  <2>1. /\ pc'[t] = "copy" /\ task'[t] = task[t]
        /\ buffer' = registers[Register(t)] /\ registers' = registers
    BY <1>1, <1>4 DEF ReadRegister, TypeOK, camera
  <2>2. Fresh(t)'
    BY <2>1 DEF Fresh, Register
  <2>3. Asks(t)'
    BY <1>4, <2>1 DEF NodesInv, Asks, ReadRegister
  <2>4. ASSUME NEW u \in Threads \ {t}
        PROVE  Fresh(u)' /\ Asks(u)'
    <3>1. /\ pc'[u] = pc[u] /\ task'[u] = task[u] /\ held'[u] = held[u]
          /\ stale'[u] = IF pc[u] = "copy" /\ buffer' # buffer THEN Bits ELSE stale[u]
      BY <1>1, <1>4 DEF ReadRegister, Overwritten, Loses, TypeOK
    <3>2. stale[u] \subseteq stale'[u]
      BY <1>1, <3>1 DEF TypeOK, Words
    <3> QED
      BY <1>1, <2>1, <3>1, <3>2, StaysFresh
  <2>5. FieldsKept'
    BY <1>4, FieldsStay DEF ReadRegister, camera
  <2> QED
    BY <1>1, <2>2, <2>3, <2>4, <2>5 DEF NodesInv
<1>5. ASSUME NEW t \in Threads, ReadFails(t)
      PROVE  NodesInv'
  <2>1. /\ pc[t] = "read" /\ Use(t, {}) /\ stale'[t] = Bits
        /\ registers' = registers /\ task' = task
    BY <1>1, <1>5 DEF ReadFails, TypeOK, camera
  <2>2. registers[Register(t)] \subseteq Bits /\ {} \in Words
    BY <1>1, NodeBits DEF TypeOK, Task, Register, Words
  <2>3. {} \ stale'[t] = registers[Register(t)] \ stale'[t]
    BY <2>1, <2>2
  <2>4. Fresh(t)' /\ Asks(t)'
    BY <1>1, <2>1, <2>2, <2>3, UseKeeps
  <2>5. ASSUME NEW u \in Threads \ {t}
        PROVE  Fresh(u)' /\ Asks(u)'
    <3>1. pc'[u] = pc[u] /\ held'[u] = held[u] /\ task'[u] = task[u]
      BY <1>1, <2>1 DEF Use, TypeOK
    <3>2. /\ stale'[u] \in {stale[u], Bits}
          /\ pc[u] = "copy" => buffer' = buffer \/ stale'[u] = Bits
      BY <1>1, <1>5 DEF ReadFails, Loses, TypeOK
    <3>3. stale[u] \subseteq stale'[u]
      BY <1>1, <3>2 DEF TypeOK, Words
    <3> QED
      BY <1>1, <2>1, <3>1, <3>2, <3>3, StaysFresh
  <2>6. FieldsKept'
    BY <1>5, FieldsStay DEF ReadFails, camera
  <2> QED
    BY <1>1, <2>4, <2>5, <2>6 DEF NodesInv
<1>6. ASSUME NEW t \in Threads, CopyAnswer(t)
      PROVE  NodesInv'
  <2>1. /\ pc[t] = "copy" /\ Use(t, buffer) /\ UNCHANGED <<registers, task>>
        /\ buffer' = buffer /\ stale' = stale
    BY <1>6 DEF CopyAnswer, camera, history
  <2>2. buffer \ stale[t] = registers[Register(t)] \ stale[t]
    BY <2>1 DEF NodesInv, Fresh
  <2>3. Fresh(t)' /\ Asks(t)'
    BY <1>1, <2>1, <2>2, UseKeeps DEF TypeOK
  <2>4. ASSUME NEW u \in Threads \ {t}
        PROVE  Fresh(u)' /\ Asks(u)'
    <3>1. pc'[u] = pc[u] /\ held'[u] = held[u] /\ task'[u] = task[u]
      BY <1>1, <2>1 DEF Use, TypeOK
    <3> QED
      BY <1>1, <2>1, <3>1, StaysFresh
  <2>5. FieldsKept'
    BY <1>6, FieldsStay DEF CopyAnswer, camera, history
  <2> QED
    BY <1>1, <2>3, <2>4, <2>5 DEF NodesInv
<1>7. ASSUME NEW t \in Threads, pc[t] = "write", pc' = [pc EXCEPT ![t] = "idle"],
             held' = [held EXCEPT ![t] = {}], UNCHANGED task, Stored(t)
      PROVE  NodesInv'
  <2> DEFINE n == task[t].node
             r == n.register
             changed == Own(n) \cup stale[t] \cup Spilled(n, task[t].value)
             wrong == (stale[t] \cup Spilled(n, task[t].value)) \ Own(n)
  <2>1. /\ FieldsKept'
        /\ \A q \in Registers : registers'[q] \ changed = registers[q] \ changed
        /\ \A q \in Registers \ {r} : registers'[q] = registers[q]
    BY <1>7, StoredKeeps
  <2>2. Fresh(t)' /\ Asks(t)'
    BY <1>1, <1>7 DEF Fresh, Asks, TypeOK
  <2>3. ASSUME NEW u \in Threads \ {t}
        PROVE  Fresh(u)' /\ Asks(u)'
    <3>1. pc'[u] = pc[u] /\ held'[u] = held[u] /\ task'[u] = task[u]
      BY <1>1, <1>7 DEF TypeOK
    <3>2. stale'[u] =
            IF pc[u] = "copy" /\ buffer' # buffer THEN Bits
            ELSE IF Holds(u) /\ Register(u) = r
                 THEN stale[u] \cup Own(n) \cup wrong
            ELSE stale[u]
      BY <1>7 DEF Stored, Loses
    <3>3. Register(u) \in Registers
      BY <1>1, NodeBits DEF TypeOK, Task, Register
    <3>4. /\ stale[u] \subseteq Bits /\ registers[Register(u)] \subseteq Bits
          /\ registers'[Register(u)] \subseteq Bits
      BY <1>1, <3>3 DEF TypeOK, Words
    <3> HIDE DEF n, r
    <3>5. stale[u] \subseteq stale'[u]
      BY <3>2, <3>4
    <3>6. ASSUME Holds(u)
          PROVE  registers'[Register(u)] \ stale'[u]
                   = registers[Register(u)] \ stale'[u]
      <4>1. CASE stale'[u] = Bits
        BY <3>4, <4>1
      <4>2. CASE Register(u) = r /\ stale'[u] = stale[u] \cup Own(n) \cup wrong
        <5>1. changed \subseteq stale'[u]
          BY <4>2
        <5>2. registers'[Register(u)] \ changed = registers[Register(u)] \ changed
          BY <2>1, <3>3
        <5> HIDE DEF changed
        <5> QED
          BY <5>1, <5>2
      <4>3. CASE Register(u) # r
        BY <2>1, <3>3, <4>3
      <4> QED
        BY <3>2, <3>6, <4>1, <4>2, <4>3
    <3>7. pc[u] = "copy" => buffer' = buffer \/ stale'[u] = Bits
      BY <3>2
    <3> QED
      BY <1>1, <3>1, <3>5, <3>6, <3>7, StaysFresh
  <2> QED
    BY <1>1, <2>1, <2>2, <2>3 DEF NodesInv
<1>8. ASSUME NEW t \in Threads, WriteRegister(t)
      PROVE  NodesInv'
  BY <1>7, <1>8 DEF WriteRegister
<1>9. ASSUME NEW t \in Threads, WriteFails(t)
      PROVE  NodesInv'
  <2>1. CASE Stored(t)
    BY <1>7, <1>9, <2>1 DEF WriteFails
  <2>2. CASE Overwritten(t) /\ UNCHANGED <<registers, expected, disturbed>>
    <3>1. Fresh(t)' /\ Asks(t)'
      BY <1>1, <1>9 DEF WriteFails, Fresh, Asks, TypeOK
    <3>2. ASSUME NEW u \in Threads \ {t}
          PROVE  Fresh(u)' /\ Asks(u)'
      <4>1. /\ pc'[u] = pc[u] /\ held'[u] = held[u] /\ task'[u] = task[u]
            /\ registers' = registers
            /\ stale'[u] = IF pc[u] = "copy" /\ buffer' # buffer THEN Bits
                           ELSE stale[u]
        BY <1>1, <1>9, <2>2 DEF WriteFails, Overwritten, Loses, TypeOK
      <4>2. stale[u] \subseteq stale'[u]
        BY <1>1, <4>1 DEF TypeOK, Words
      <4> QED
        BY <1>1, <4>1, <4>2, StaysFresh
    <3>3. FieldsKept'
      BY <2>2, FieldsStay
    <3> QED
      BY <1>1, <3>1, <3>2, <3>3 DEF NodesInv
  <2> QED
    BY <1>9, <2>1, <2>2 DEF WriteFails
<1>10. ASSUME NEW copy \in wire, ExecuteLate(copy)
       PROVE  NodesInv'
  <2>1. copy.register \in Registers
    BY <1>1 DEF TypeOK, Copy
  <2>2. \A q \in Registers :
          IF q = copy.register THEN disturbed'[q] = Bits
          ELSE /\ registers'[q] = registers[q] /\ disturbed'[q] = disturbed[q]
    BY <1>1, <1>10, <2>1 DEF ExecuteLate, TypeOK
  <2>3. \A q \in Registers :
          /\ registers[q] \subseteq Bits /\ registers'[q] \subseteq Bits
          /\ expected[q] \subseteq Bits
    BY <1>1 DEF TypeOK, Words
  <2>4. FieldsKept'
    <3> SUFFICES ASSUME NEW q \in Registers
                 PROVE  registers'[q] \ disturbed'[q] = expected'[q] \ disturbed'[q]
      BY DEF FieldsKept
    <3>1. expected' = expected
      BY <1>10 DEF ExecuteLate
    <3>2. registers[q] \ disturbed[q] = expected[q] \ disturbed[q]
      BY DEF NodesInv, FieldsKept
    <3> QED
      BY <2>2, <2>3, <3>1, <3>2
  <2>5. ASSUME NEW u \in Threads
        PROVE  Fresh(u)' /\ Asks(u)'
    <3>1. /\ pc' = pc /\ task' = task /\ held' = held /\ buffer' = buffer
          /\ stale'[u] = IF Holds(u) /\ Register(u) = copy.register
                         THEN Bits ELSE stale[u]
      BY <1>10 DEF ExecuteLate, threads
    <3>2. Register(u) \in Registers /\ stale[u] \subseteq Bits
      BY <1>1, NodeBits DEF TypeOK, Task, Register, Words
    <3>3. stale[u] \subseteq stale'[u]
      BY <3>1, <3>2
    <3>4. Holds(u) => registers'[Register(u)] \ stale'[u]
                        = registers[Register(u)] \ stale'[u]
      BY <2>2, <2>3, <3>1, <3>2
    <3> QED
      BY <1>1, <3>1, <3>3, <3>4, StaysFresh
  <2> QED
    BY <1>1, <2>4, <2>5 DEF NodesInv
<1>11. CASE Heartbeat
  <2>1. /\ pc' = pc /\ task' = task /\ held' = held /\ registers' = registers
        /\ stale' = [u \in Threads |-> IF pc[u] = "copy" THEN Bits ELSE stale[u]]
    BY <1>11 DEF Heartbeat, threads, camera
  <2>2. ASSUME NEW u \in Threads
        PROVE  Fresh(u)' /\ Asks(u)'
    <3>1. stale[u] \subseteq stale'[u]
      BY <1>1, <2>1 DEF TypeOK, Words
    <3> QED
      BY <1>1, <2>1, <3>1, StaysFresh
  <2>3. FieldsKept'
    BY <1>11, FieldsStay DEF Heartbeat, camera
  <2> QED
    BY <1>1, <2>2, <2>3 DEF NodesInv
<1>12. CASE UNCHANGED vars
  BY <1>1, <1>12, FieldsStay, StaysFresh
     DEF NodesInv, vars, camera, threads, history
<1> QED
  BY <1>2, <1>3, <1>4, <1>5, <1>6, <1>8, <1>9, <1>10, <1>11, <1>12 DEF Next
-----------------------------------------------------------------------------
\* Every variable keeps its type, whatever the values set (setTo32LE, setTo32BE).
THEOREM TypeCorrect == Spec => []TypeOK
<1>1. Init /\ [][Next]_vars => []NodesInv
  BY InitNodes, NextNodes, PTL
<1>2. NodesInv => TypeOK
  BY DEF NodesInv
<1> QED
  BY <1>1, <1>2, PTL DEF Spec

\* A feature changes its own bits and no other, except those the history
\* blames on a failure or on another actor, and what a thread is about to write
\* is right outside the bits it may have wrong (MaskedIntNode::setValue).
THEOREM Neighbours == Spec => []FieldsKept /\ []HeldIsFresh
<1>1. Init /\ [][Next]_vars => []NodesInv
  BY InitNodes, NextNodes, PTL
<1>2. NodesInv => FieldsKept /\ HeldIsFresh
  BY DEF NodesInv, Fresh, HeldIsFresh
<1> QED
  BY <1>1, <1>2, PTL DEF Spec

\* A getValue whose bits and answer were left alone returns what was last set
\* (MaskedIntNode::getValue, BooleanNode::getValue, EnumerationNode).
THEOREM ReadBack == Spec => ReadsWhatWasSet
<1> DEFINE Reads ==
      \A t \in Threads :
        LET n == task[t].node
        IN  /\ pc[t] = "copy" /\ ~task[t].set /\ pc'[t] = "idle"
            /\ Own(n) \cap (stale[t] \cup disturbed[n.register]) = {}
            => answer'[t] = Answer(n, FieldOf(n, expected[n.register]))
<1>1. Init /\ [][Next]_vars => []NodesInv
  BY InitNodes, NextNodes, PTL
<1>2. NodesInv /\ [Next]_vars => [Reads]_vars
  <2> SUFFICES ASSUME NodesInv, Next, NEW t \in Threads,
                      pc[t] = "copy", ~task[t].set, pc'[t] = "idle",
                      Own(task[t].node) \cap
                        (stale[t] \cup disturbed[task[t].node.register]) = {}
               PROVE  answer'[t] = Answer(task[t].node,
                        FieldOf(task[t].node, expected[task[t].node.register]))
    BY DEF Reads
  <2> DEFINE n == task[t].node
             r == n.register
  <2>1. /\ pc \in [Threads -> {"idle", "read", "copy", "write"}]
        /\ pc' # pc
    BY DEF NodesInv, TypeOK
  <2>2. ASSUME NEW u \in Threads, pc[u] # "copy",
               \/ \E m \in Nodes :
                    \/ Get(u, m)
                    \/ \E choice \in DOMAIN m.values : Set(u, m, choice)
               \/ ReadRegister(u) \/ ReadFails(u)
               \/ WriteRegister(u) \/ WriteFails(u)
        PROVE  pc'[t] = pc[t]
    <3>1. \E p : pc' = [pc EXCEPT ![u] = p]
      BY <2>2 DEF Get, Set, ReadRegister, ReadFails, Use, WriteRegister, WriteFails
    <3> QED
      BY <2>1, <2>2, <3>1
  <2>3. ASSUME NEW u \in Threads, CopyAnswer(u), u # t
        PROVE  pc'[t] = pc[t]
    <3>1. \E p : pc' = [pc EXCEPT ![u] = p]
      BY <2>3 DEF CopyAnswer, Use
    <3> QED
      BY <2>1, <2>3, <3>1
  <2>4. ASSUME Heartbeat \/ \E copy \in wire : ExecuteLate(copy)
        PROVE  pc' = pc
    BY <2>4 DEF Heartbeat, ExecuteLate, threads
  <2>5. CopyAnswer(t)
    <3>1. \A u \in Threads :
            \/ \E m \in Nodes :
                 \/ Get(u, m)
                 \/ \E choice \in DOMAIN m.values : Set(u, m, choice)
            \/ ReadRegister(u) \/ ReadFails(u)
            \/ WriteRegister(u) \/ WriteFails(u)
            => pc[u] # "copy"
      BY DEF Get, Set, ReadRegister, ReadFails, WriteRegister, WriteFails
    <3> QED
      BY <2>1, <2>2, <2>3, <2>4, <3>1 DEF Next
  <2>6. answer'[t] = Answer(n, Value(n, buffer))
    <3>1. answer' = [answer EXCEPT ![t] = Answer(n, Value(n, buffer))]
      BY <2>5 DEF CopyAnswer, Use
    <3>2. t \in DOMAIN answer
      BY DEF NodesInv, TypeOK
    <3> QED
      BY <3>1, <3>2
  <2>7. n \in Nodes /\ r \in Registers
    BY NodeBits DEF NodesInv, TypeOK, Task
  <2>8. buffer \in Words /\ expected[r] \in Words
    BY <2>7 DEF NodesInv, TypeOK
  <2>9. buffer \cap Own(n) = expected[r] \cap Own(n)
    <3>1. buffer \ stale[t] = registers[r] \ stale[t]
      BY DEF NodesInv, Fresh, Register
    <3>2. registers[r] \ disturbed[r] = expected[r] \ disturbed[r]
      BY <2>7 DEF NodesInv, FieldsKept
    <3>3. Own(n) \cap (stale[t] \cup disturbed[r]) = {}
      OBVIOUS
    <3> HIDE DEF n, r
    <3> QED
      BY <3>1, <3>2, <3>3
  <2>10. Value(n, buffer) = FieldOf(n, expected[r])
    BY <2>7, <2>8, <2>9, FieldRead
  <2> QED
    BY <2>6, <2>10
<1> QED
  BY <1>1, <1>2, PTL DEF Spec, ReadsWhatWasSet
=============================================================================
