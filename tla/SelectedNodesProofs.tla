------------------------- MODULE SelectedNodesProofs -------------------------
(***************************************************************************)
(* What setting and reading a selected feature guarantees, for any number  *)
(* of threads, registers and features, and formulas of any variables.      *)
(***************************************************************************)
EXTENDS SelectedNodes, SequenceTheorems, TLAPS

\* A thread in a call reads until it has all its words, and one that sets a
\* feature writes when it has them.
Shape(t) ==
  LET n == task[t].node
  IN  /\ task[t].set => n.hasValue
      /\ pc[t] = "write" =>
           task[t].set /\ Len(words[t]) = Len(Variables(n))
      /\ pc[t] \in {"read", "copy"} /\ Len(words[t]) = Len(Variables(n)) =>
           n.hasValue /\ ~task[t].set

\* What a thread has read is still in the camera, unless it is upset.
Fresh(t) ==
  LET n == task[t].node
  IN  t \notin upset =>
        /\ \A i \in 1..Len(words[t]) : words[t][i] = registers[Variables(n)[i]]
        /\ pc[t] = "copy" => buffer = registers[Looked(t)]

InCall == {t \in Threads : pc[t] # "idle"}

ShapeInv == TypeOK /\ \A t \in InCall : Shape(t)

SelectionInv == ShapeInv /\ SelectionKept /\ \A t \in InCall : Fresh(t)

\* A sequence and the one appended to it keep their elements.
LEMMA Joined ==
  ASSUME NEW S, NEW a \in Seq(S), NEW b \in Seq(S)
  PROVE  /\ a \o b \in Seq(S) /\ Len(a \o b) = Len(a) + Len(b)
         /\ \A i \in 1..Len(a) : (a \o b)[i] = a[i]
         /\ \A i \in 1..Len(b) : (a \o b)[Len(a) + i] = b[i]
<1>1. Len(a) \in Nat /\ Len(b) \in Nat
  BY LenProperties
<1>2. /\ a \o b \in Seq(S) /\ Len(a \o b) = Len(a) + Len(b)
      /\ \A i \in 1..(Len(a) + Len(b)) :
           (a \o b)[i] = IF i <= Len(a) THEN a[i] ELSE b[i - Len(a)]
  BY ConcatProperties
<1> DEFINE k == Len(a)
           m == Len(b)
           ab == a \o b
<1>3. k \in Nat /\ m \in Nat
      /\ \A i \in 1..(k + m) : ab[i] = IF i <= k THEN a[i] ELSE b[i - k]
  BY <1>1, <1>2
<1> HIDE DEF k, m, ab
<1>4. \A i \in 1..k : ab[i] = a[i]
  BY <1>3
<1>5. \A i \in 1..m : ab[k + i] = b[i]
  <2> TAKE i \in 1..m
  <2>1. k + i \in 1..(k + m) /\ ~(k + i <= k) /\ (k + i) - k = i
    BY <1>3
  <2> QED
    BY <1>3, <2>1
<1> QED
  BY <1>2, <1>4, <1>5 DEF k, m, ab

\* The registers a call reads are registers of the camera.
LEMMA VariablesType ==
  ASSUME NEW n \in Nodes
  PROVE  /\ Variables(n) \in Seq(Registers)
         /\ Len(Variables(n)) =
              Len(n.variables) + (IF n.hasValue THEN Len(n.addressed) ELSE 0)
         /\ \A i \in 1..Len(n.variables) : Variables(n)[i] = n.variables[i]
         /\ n.hasValue => \A i \in 1..Len(n.addressed) :
              Variables(n)[Len(n.variables) + i] = n.addressed[i]
<1> DEFINE rest == IF n.hasValue THEN n.addressed ELSE <<>>
<1>1. /\ n.variables \in Seq(Registers) /\ n.addressed \in Seq(Registers)
      /\ n.hasValue \in BOOLEAN
  BY SelectedNodesAssumption
<1>2. rest \in Seq(Registers) /\ Len(rest) = IF n.hasValue THEN Len(n.addressed) ELSE 0
  BY <1>1
<1>3. n.hasValue => rest = n.addressed
  OBVIOUS
<1>4. Variables(n) = n.variables \o rest
  BY DEF Variables
<1> HIDE DEF rest
<1>5. /\ n.variables \o rest \in Seq(Registers)
      /\ Len(n.variables \o rest) = Len(n.variables) + Len(rest)
      /\ \A i \in 1..Len(n.variables) : (n.variables \o rest)[i] = n.variables[i]
      /\ \A i \in 1..Len(rest) :
           (n.variables \o rest)[Len(n.variables) + i] = rest[i]
  <2> DEFINE first == n.variables
  <2>1. first \in Seq(Registers) /\ rest \in Seq(Registers)
    BY <1>1, <1>2
  <2> HIDE DEF first
  <2>2. /\ first \o rest \in Seq(Registers)
        /\ Len(first \o rest) = Len(first) + Len(rest)
        /\ \A i \in 1..Len(first) : (first \o rest)[i] = first[i]
        /\ \A i \in 1..Len(rest) : (first \o rest)[Len(first) + i] = rest[i]
    BY <2>1, Joined
  <2> QED
    BY <2>2 DEF first
<1>6. ASSUME n.hasValue
      PROVE  \A i \in 1..Len(n.addressed) :
               Variables(n)[Len(n.variables) + i] = n.addressed[i]
  BY <1>3, <1>4, <1>5, <1>6
<1> QED
  BY <1>2, <1>4, <1>5, <1>6

\* A part of the words read is a sequence of words.
LEMMA PartType ==
  ASSUME NEW read \in Seq(Words), NEW first \in Nat \ {0}, NEW count \in Nat,
         first + count - 1 <= Len(read)
  PROVE  /\ SubSeq(read, first, first + count - 1) \in [1..count -> Words]
         /\ \A i \in 1..count :
              SubSeq(read, first, first + count - 1)[i] = read[first + i - 1]
<1> DEFINE part == SubSeq(read, first, first + count - 1)
<1>1. \A i \in first..(first + count - 1) : read[i] \in Words
  BY ElementOfSeq, LenProperties
<1>2. /\ part \in Seq(Words)
      /\ Len(part) = IF first <= first + count - 1
                     THEN first + count - 1 - first + 1 ELSE 0
      /\ \A i \in 1..(first + count - 1 - first + 1) : part[i] = read[first + i - 1]
  BY <1>1, SubSeqProperties
<1> HIDE DEF part
<1>3. Len(part) = count
  BY <1>2
<1>4. part \in [1..count -> Words]
  BY <1>2, <1>3, LenProperties
<1>5. \A i \in 1..count : part[i] = read[first + i - 1]
  BY <1>2
<1> QED
  BY <1>4, <1>5 DEF part

\* The words of the formula and of the address.
LEMMA WordsType ==
  ASSUME NEW n \in Nodes, NEW read \in Seq(Words)
  PROVE  /\ Len(n.variables) <= Len(read) =>
              /\ FormulaWords(n, read) \in Valuation(n.variables)
              /\ \A i \in 1..Len(n.variables) : FormulaWords(n, read)[i] = read[i]
         /\ Len(n.variables) + Len(n.addressed) <= Len(read) =>
              /\ AddressWords(n, read) \in Valuation(n.addressed)
              /\ \A i \in 1..Len(n.addressed) :
                   AddressWords(n, read)[i] = read[Len(n.variables) + i]
              /\ Address(n, read) \in Registers
<1>1. /\ n.variables \in Seq(Registers) /\ n.addressed \in Seq(Registers)
      /\ n.register \in [Valuation(n.addressed) -> Registers]
  BY SelectedNodesAssumption
<1> DEFINE k == Len(n.variables)
           m == Len(n.addressed)
<1>2. k \in Nat /\ m \in Nat /\ Len(read) \in Nat
  BY <1>1, LenProperties
<1> HIDE DEF k, m
<1>3. ASSUME k <= Len(read)
      PROVE  /\ SubSeq(read, 1, k) \in [1..k -> Words]
             /\ \A i \in 1..k : SubSeq(read, 1, k)[i] = read[i]
  <2>1. 1 \in Nat \ {0} /\ 1 + k - 1 = k /\ 1 + k - 1 <= Len(read)
    BY <1>2, <1>3
  <2>2. /\ SubSeq(read, 1, 1 + k - 1) \in [1..k -> Words]
        /\ \A i \in 1..k : SubSeq(read, 1, 1 + k - 1)[i] = read[1 + i - 1]
    BY <1>2, <2>1, PartType
  <2>3. \A i \in 1..k : 1 + i - 1 = i
    BY <1>2
  <2> QED
    BY <2>1, <2>2, <2>3
<1>4. ASSUME k + m <= Len(read)
      PROVE  /\ SubSeq(read, k + 1, k + m) \in [1..m -> Words]
             /\ \A i \in 1..m : SubSeq(read, k + 1, k + m)[i] = read[k + i]
  <2>1. k + 1 \in Nat \ {0} /\ k + 1 + m - 1 = k + m /\ k + 1 + m - 1 <= Len(read)
    BY <1>2, <1>4
  <2>2. /\ SubSeq(read, k + 1, k + 1 + m - 1) \in [1..m -> Words]
        /\ \A i \in 1..m :
             SubSeq(read, k + 1, k + 1 + m - 1)[i] = read[k + 1 + i - 1]
    BY <1>2, <2>1, PartType
  <2>3. \A i \in 1..m : k + 1 + i - 1 = k + i
    BY <1>2
  <2> QED
    BY <2>1, <2>2, <2>3
<1> QED
  BY <1>1, <1>3, <1>4 DEF k, m, FormulaWords, AddressWords, Address, Valuation

\* The words the camera holds for the variables of a feature.
LEMMA HeldType ==
  ASSUME NEW n \in Nodes, registers \in [Registers -> Words]
  PROVE  /\ Held(n.variables) \in Valuation(n.variables)
         /\ Held(n.addressed) \in Valuation(n.addressed)
         /\ Meant(n) \in Registers
         /\ \A choice \in n.choices : Wanted(n, choice) \in Nat
<1>1. /\ n.variables \in Seq(Registers) /\ n.addressed \in Seq(Registers)
      /\ n.register \in [Valuation(n.addressed) -> Registers]
      /\ n.to \in [Valuation(n.variables) -> [n.choices -> Nat]]
  BY SelectedNodesAssumption
<1>2. ASSUME NEW variables \in Seq(Registers)
      PROVE  Held(variables) \in Valuation(variables)
  BY ElementOfSeq DEF Held, Valuation
<1>3. Held(n.variables) \in Valuation(n.variables)
  BY <1>1, <1>2
<1>4. Held(n.addressed) \in Valuation(n.addressed)
  BY <1>1, <1>2
<1> QED
  BY <1>1, <1>3, <1>4 DEF Meant, Wanted

LEMMA ConvertedType ==
  ASSUME NEW n \in Nodes, NEW read \in Seq(Words),
         Len(n.variables) <= Len(read), NEW choice \in n.choices
  PROVE  Converted(n, read, choice) \in Nat
<1>1. n.to \in [Valuation(n.variables) -> [n.choices -> Nat]]
  BY SelectedNodesAssumption
<1>2. FormulaWords(n, read) \in Valuation(n.variables)
  BY WordsType
<1> QED
  BY <1>1, <1>2 DEF Converted

LEMMA Value32Type ==
  ASSUME NEW value \in Nat
  PROVE  /\ Value32(value) \in Words
         /\ value \in Words => Value32(value) = value
<1>1. Size \in Nat \ {0}
  BY SelectedNodesAssumption
<1> QED
  BY <1>1 DEF Value32, Words

\* What is known of a thread in a call.
LEMMA InCallFacts ==
  ASSUME ShapeInv, NEW t \in InCall
  PROVE  /\ t \in Threads /\ task[t].node \in Nodes /\ words[t] \in Seq(Words)
         /\ Len(words[t]) \in Nat /\ Len(Variables(task[t].node)) \in Nat
         /\ Len(words[t]) <= Len(Variables(task[t].node))
         /\ task[t].set \in BOOLEAN /\ task[t].node.hasValue \in BOOLEAN
         /\ task[t].set => task[t].choice \in task[t].node.choices
         /\ Shape(t)
<1>1. /\ t \in Threads /\ task[t].node \in Nodes /\ words[t] \in Seq(Words)
      /\ Len(words[t]) <= Len(Variables(task[t].node))
      /\ task[t].set \in BOOLEAN
      /\ task[t].set => task[t].choice \in task[t].node.choices
      /\ Shape(t)
  BY DEF ShapeInv, TypeOK, InCall
<1>2. Len(words[t]) \in Nat
  BY <1>1, LenProperties
<1>3. Len(Variables(task[t].node)) \in Nat
  BY <1>1, VariablesType, LenProperties
<1>4. task[t].node.hasValue \in BOOLEAN
  BY <1>1, SelectedNodesAssumption
<1> QED
  BY <1>1, <1>2, <1>3, <1>4

\* A thread that writes knows where.
LEMMA AddressType ==
  ASSUME ShapeInv, NEW t \in InCall, task[t].node.hasValue,
         Len(words[t]) = Len(Variables(task[t].node))
  PROVE  /\ Address(task[t].node, words[t]) \in Registers
         /\ Len(task[t].node.variables) <= Len(words[t])
         /\ Len(task[t].node.variables) + Len(task[t].node.addressed)
              = Len(words[t])
<1> DEFINE n == task[t].node
           k == Len(n.variables)
           m == Len(n.addressed)
<1>1. n \in Nodes /\ words[t] \in Seq(Words) /\ n.hasValue
  BY InCallFacts
<1>2. n.variables \in Seq(Registers) /\ n.addressed \in Seq(Registers)
  BY <1>1, SelectedNodesAssumption
<1>3. k \in Nat /\ m \in Nat
  BY <1>2, LenProperties
<1>4. Len(Variables(n)) = k + m
  <2>1. Len(Variables(n)) = k + (IF n.hasValue THEN m ELSE 0)
    BY <1>1, VariablesType
  <2> QED
    BY <1>1, <2>1
<1> HIDE DEF k, m
<1>5. k <= Len(words[t]) /\ k + m <= Len(words[t]) /\ k + m = Len(words[t])
  BY <1>3, <1>4
<1> QED
  BY <1>1, <1>5, WordsType DEF k, m

\* A thread that reads does so at an address of the camera.
LEMMA LookedType ==
  ASSUME ShapeInv, NEW t \in InCall, pc[t] \in {"read", "copy"}
  PROVE  Looked(t) \in Registers
<1> DEFINE n == task[t].node
           next == Len(words[t]) + 1
<1>1. /\ n \in Nodes /\ Len(words[t]) \in Nat /\ Len(Variables(n)) \in Nat
      /\ Len(words[t]) <= Len(Variables(n)) /\ Shape(t)
  BY InCallFacts
<1>2. CASE next <= Len(Variables(n))
  <2>3. Variables(n) \in Seq(Registers)
    BY <1>1, VariablesType
  <2>1. Variables(n) \in Seq(Registers) /\ next \in 1..Len(Variables(n))
    BY <1>1, <1>2, <2>3
  <2>2. Variables(n)[next] \in Registers
    BY <2>1, ElementOfSeq
  <2> QED
    BY <1>2, <2>2 DEF Looked
<1>3. CASE ~(next <= Len(Variables(n)))
  <2>1. Len(words[t]) = Len(Variables(n))
    BY <1>1, <1>3
  <2>2. n.hasValue
    BY <1>1, <2>1 DEF Shape
  <2>3. Address(n, words[t]) \in Registers
    BY <2>1, <2>2, AddressType
  <2> QED
    BY <1>3, <2>3 DEF Looked
<1> QED
  BY <1>2, <1>3
-----------------------------------------------------------------------------
(* Type correctness *)

\* What TypeOK and Shape say of the threads.
Thread(t) ==
  /\ task[t].node \in Nodes /\ task[t].set \in BOOLEAN
  /\ task[t].set => task[t].choice \in task[t].node.choices
  /\ words[t] \in Seq(Words)
  /\ Len(words[t]) <= Len(Variables(task[t].node))
  /\ Shape(t)

Kinds == {"idle", "read", "copy", "write"}

ThreadsOK ==
  /\ pc \in [Threads -> Kinds]
  /\ DOMAIN task = Threads /\ DOMAIN words = Threads /\ DOMAIN answer = Threads
  /\ \A t \in InCall : Thread(t)

CameraOK ==
  /\ registers \in [Registers -> Words]
  /\ wire \subseteq Copy
  /\ buffer \in Words
  /\ calls \in 0..MaxCalls
  /\ expected \in [Registers -> Words]
  /\ spoilt \subseteq Registers /\ upset \subseteq Threads

LEMMA ShapeParts == ShapeInv <=> CameraOK /\ ThreadsOK
BY DEF ShapeInv, CameraOK, ThreadsOK, TypeOK, Thread, InCall, Kinds

\* A thread that begins.
LEMMA CallThreads ==
  ASSUME ShapeInv, NEW t \in Threads, NEW n \in Nodes, NEW set \in BOOLEAN,
         NEW choice, set => n.hasValue /\ choice \in n.choices,
         Call(t, n, set, choice)
  PROVE  ThreadsOK'
<1>1. /\ pc \in [Threads -> Kinds] /\ DOMAIN task = Threads
      /\ DOMAIN words = Threads /\ DOMAIN answer = Threads
      /\ \A u \in InCall : Thread(u)
  BY ShapeParts DEF ThreadsOK
<1>2. /\ pc' = [pc EXCEPT ![t] = Step(n, set, <<>>)]
      /\ task' = [task EXCEPT ![t] = [node |-> n, set |-> set, choice |-> choice]]
      /\ words' = [words EXCEPT ![t] = <<>>]
      /\ answer' = [answer EXCEPT ![t] = 0]
  BY DEF Call
<1>3. Step(n, set, <<>>) \in {"read", "write"}
  BY DEF Step
<1>4. pc' \in [Threads -> Kinds]
  BY <1>1, <1>2, <1>3 DEF Kinds
<1>5. /\ task'[t] = [node |-> n, set |-> set, choice |-> choice]
      /\ words'[t] = <<>> /\ pc'[t] = Step(n, set, <<>>)
  BY <1>1, <1>2
<1>6. Len(Variables(n)) \in Nat /\ n.hasValue \in BOOLEAN
  BY VariablesType, LenProperties, SelectedNodesAssumption
<1>7. Len(Variables(n)) = 0 => n.hasValue
  <2>1. n.hasValue \/ n.variables # <<>>
    BY SelectedNodesAssumption
  <2>2. n.variables \in Seq(Registers)
    BY SelectedNodesAssumption
  <2>3. n.variables # <<>> => Len(n.variables) > 0
    BY <2>2, EmptySeq
  <2>4. ~n.hasValue => Len(Variables(n)) = Len(n.variables)
    <3>1. Len(n.variables) \in Nat
      BY <2>2, LenProperties
    <3>2. Len(Variables(n)) =
            Len(n.variables) + (IF n.hasValue THEN Len(n.addressed) ELSE 0)
      BY VariablesType
    <3> QED
      BY <3>1, <3>2
  <2> QED
    BY <2>1, <2>3, <2>4
<1>8. Thread(t)'
  <2>1. <<>> \in Seq(Words) /\ Len(<<>>) = 0
    BY EmptySeq
  <2>2. words'[t] \in Seq(Words) /\ Len(words'[t]) = 0
    BY <1>5, <2>1
  <2>3. task'[t].node = n /\ task'[t].set = set /\ task'[t].choice = choice
    BY <1>5
  <2>4. Variables(task'[t].node) = Variables(n)
    BY <2>3
  <2>5. Variables(task[t].node)' = Variables(n)
    BY <2>3 DEF Variables
  <2>6. Shape(t)'
    BY <1>3, <1>5, <1>6, <1>7, <2>1, <2>2, <2>3, <2>5 DEF Shape, Step
  <2>7. Len(words'[t]) <= Len(Variables(n))
    BY <1>6, <2>2
  <2> QED
    BY <2>2, <2>3, <2>5, <2>6, <2>7 DEF Thread
<1>9. ASSUME NEW u \in InCall', u # t
      PROVE  Thread(u)'
  <2>1. /\ u \in InCall /\ pc'[u] = pc[u] /\ task'[u] = task[u]
        /\ words'[u] = words[u]
    BY <1>1, <1>2, <1>9 DEF InCall
  <2>2. Thread(u)
    BY <1>1, <2>1
  <2> QED
    BY <2>1, <2>2 DEF Thread, Shape, Variables
<1> QED
  BY <1>1, <1>2, <1>4, <1>8, <1>9 DEF ThreadsOK

\* A thread whose place and words are those of before is as it was.
LEMMA OtherThread ==
  ASSUME ThreadsOK, NEW u \in InCall',
         pc'[u] = pc[u], task'[u] = task[u], words'[u] = words[u]
  PROVE  Thread(u)'
<1>1. u \in InCall
  BY DEF InCall
<1>2. Thread(u)
  BY <1>1 DEF ThreadsOK
<1> QED
  BY <1>2 DEF Thread, Shape, Variables

LEMMA EndsThreads ==
  ASSUME ThreadsOK, NEW t \in Threads, Ends(t), DOMAIN answer' = Threads
  PROVE  ThreadsOK'
<1>1. /\ pc \in [Threads -> Kinds] /\ DOMAIN task = Threads
      /\ DOMAIN words = Threads
  BY DEF ThreadsOK
<1>2. /\ pc' = [pc EXCEPT ![t] = "idle"]
      /\ task' = [task EXCEPT ![t] = NoTask]
      /\ words' = [words EXCEPT ![t] = <<>>]
  BY DEF Ends
<1>3. pc' \in [Threads -> Kinds]
  BY <1>1, <1>2 DEF Kinds
<1>4. ASSUME NEW u \in InCall'
      PROVE  Thread(u)'
  <2>1. /\ pc'[u] = pc[u] /\ task'[u] = task[u] /\ words'[u] = words[u]
    BY <1>1, <1>2, <1>4 DEF InCall
  <2> QED
    BY <2>1, OtherThread
<1> QED
  BY <1>1, <1>2, <1>3, <1>4 DEF ThreadsOK

\* A thread that goes on has one word more, and no more than it has variables.
LEMMA UseThreads ==
  ASSUME ShapeInv, NEW t \in InCall, pc[t] \in {"read", "copy"},
         NEW word \in Words, Use(t, word)
  PROVE  ThreadsOK'
<1> DEFINE n == task[t].node
           all == Len(Variables(n))
           read == Append(words[t], word)
<1>1. ThreadsOK
  BY ShapeParts
<1>2. /\ t \in Threads /\ n \in Nodes /\ words[t] \in Seq(Words)
      /\ Len(words[t]) \in Nat /\ all \in Nat /\ Len(words[t]) <= all
      /\ task[t].set \in BOOLEAN /\ n.hasValue \in BOOLEAN
      /\ (task[t].set => task[t].choice \in n.choices) /\ Shape(t)
  BY InCallFacts
<1>3. read \in Seq(Words) /\ Len(read) = Len(words[t]) + 1
  BY <1>2, AppendProperties
<1>4. DOMAIN answer = Threads
  BY <1>1 DEF ThreadsOK
<1>5. CASE Len(read) = all + (IF n.hasValue THEN 1 ELSE 0)
  <2>1. Ends(t) /\ DOMAIN answer' = Threads
    BY <1>4, <1>5 DEF Use
  <2> QED
    BY <1>1, <1>2, <2>1, EndsThreads
<1>6. CASE Len(read) # all + (IF n.hasValue THEN 1 ELSE 0)
  <2>1. /\ words' = [words EXCEPT ![t] = read]
        /\ pc' = [pc EXCEPT ![t] = Step(n, task[t].set, read)]
        /\ task' = task /\ answer' = answer
    BY <1>6 DEF Use
  <2>2. Len(words[t]) = all => n.hasValue /\ ~task[t].set
    BY <1>2 DEF Shape
  <2>3. Len(words[t]) < all /\ Len(read) <= all
    BY <1>2, <1>3, <1>6, <2>2
  <2>4. Len(read) = all => n.hasValue
    BY <1>2, <1>3, <1>6, <2>3
  <2>5. /\ pc \in [Threads -> Kinds] /\ DOMAIN task = Threads
        /\ DOMAIN words = Threads
    BY <1>1 DEF ThreadsOK
  <2>6. Step(n, task[t].set, read) \in {"read", "write"}
    BY DEF Step
  <2>7. pc' \in [Threads -> Kinds]
    BY <2>1, <2>5, <2>6 DEF Kinds
  <2>8. /\ words'[t] = read /\ pc'[t] = Step(n, task[t].set, read)
        /\ task'[t] = task[t]
    BY <1>2, <2>1, <2>5
  <2>9. (task[t].set => n.hasValue) /\ Shape(t)'
    <3>1. task[t].set => n.hasValue
      BY <1>2 DEF Shape
    <3>2. Variables(task[t].node)' = Variables(n)
      BY <2>8 DEF Variables
    <3>3. pc'[t] = "write" => task[t].set /\ Len(read) = all
      BY <2>8 DEF Step
    <3>4. pc'[t] # "write" /\ Len(read) = all => ~task[t].set
      BY <2>4, <2>8 DEF Step
    <3> HIDE DEF read
    <3> QED
      BY <2>4, <2>8, <3>1, <3>2, <3>3, <3>4 DEF Shape
  <2>10. Thread(t)'
    <3>1. Variables(task[t].node)' = Variables(n)
      BY <2>8 DEF Variables
    <3> HIDE DEF read
    <3> QED
      BY <1>2, <1>3, <2>3, <2>8, <2>9, <3>1 DEF Thread
  <2>11. ASSUME NEW u \in InCall', u # t
         PROVE  Thread(u)'
    <3>1. u \in Threads
      BY DEF InCall
    <3>2. /\ pc'[u] = pc[u] /\ task'[u] = task[u] /\ words'[u] = words[u]
      BY <2>1, <2>5, <2>11, <3>1
    <3> QED
      BY <1>1, <3>2, OtherThread
  <2> QED
    BY <1>4, <2>1, <2>5, <2>7, <2>10, <2>11 DEF ThreadsOK
<1> QED
  BY <1>5, <1>6

\* What a thread sends is a word for a register of the camera.
LEMMA WriteType ==
  ASSUME ShapeInv, NEW t \in Threads, pc[t] = "write"
  PROVE  LET n == task[t].node
         IN  /\ t \in InCall /\ n \in Nodes
             /\ Address(n, words[t]) \in Registers
             /\ Converted(n, words[t], task[t].choice) \in Nat
             /\ Value32(Converted(n, words[t], task[t].choice)) \in Words
             /\ Meant(n) \in Registers
             /\ Wanted(n, task[t].choice) \in Nat
<1> DEFINE n == task[t].node
<1>1. t \in InCall
  BY DEF InCall
<1>2. /\ n \in Nodes /\ words[t] \in Seq(Words) /\ Shape(t)
      /\ task[t].set => task[t].choice \in n.choices
  BY <1>1, InCallFacts
<1>3. n.hasValue /\ task[t].choice \in n.choices
      /\ Len(words[t]) = Len(Variables(n))
  BY <1>2 DEF Shape
<1>4. Address(n, words[t]) \in Registers /\ Len(n.variables) <= Len(words[t])
  BY <1>1, <1>3, AddressType
<1>5. Converted(n, words[t], task[t].choice) \in Nat
  BY <1>2, <1>3, <1>4, ConvertedType
<1>6. registers \in [Registers -> Words]
  BY ShapeParts DEF CameraOK
<1>7. Meant(n) \in Registers /\ Wanted(n, task[t].choice) \in Nat
  BY <1>2, <1>3, <1>6, HeldType
<1> QED
  BY <1>1, <1>2, <1>4, <1>5, <1>7, Value32Type

LEMMA ShapeInit == Init => ShapeInv
<1> SUFFICES ASSUME Init PROVE CameraOK /\ ThreadsOK
  BY ShapeParts
<1>1. CameraOK
  <2>1. Initial \subseteq [Registers -> Words] /\ Size \in Nat \ {0}
        /\ MaxCalls \in Nat
    BY SelectedNodesAssumption
  <2>2. 0 \in Words /\ 0 \in 0..MaxCalls
    BY <2>1 DEF Words
  <2>3. registers \in [Registers -> Words]
    BY <2>1 DEF Init
  <2> QED
    BY <2>2, <2>3 DEF Init, CameraOK
<1>2. ThreadsOK
  BY DEF Init, ThreadsOK, Kinds, InCall
<1> QED
  BY <1>1, <1>2

\* A word stored in a register.
LEMMA StoredType ==
  ASSUME ShapeInv, NEW t \in Threads, pc[t] = "write", Stored(t)
  PROVE  /\ registers' \in [Registers -> Words]
         /\ expected' \in [Registers -> Words]
         /\ spoilt' \subseteq Registers /\ upset' \subseteq Threads
<1> DEFINE n == task[t].node
           r == Address(n, words[t])
           meant == Meant(n)
           value == Value32(Converted(n, words[t], task[t].choice))
           wanted == Wanted(n, task[t].choice)
           wrong == IF t \in upset THEN {r, meant}
                    ELSE IF wanted \in Words THEN {} ELSE {meant}
<1>1. r \in Registers /\ meant \in Registers /\ value \in Words
  BY WriteType
<1>2. /\ registers \in [Registers -> Words] /\ expected \in [Registers -> Words]
      /\ spoilt \subseteq Registers /\ upset \subseteq Threads
  BY ShapeParts DEF CameraOK
<1>3. /\ registers' = [registers EXCEPT ![r] = value]
      /\ expected' = IF wanted \in Words THEN [expected EXCEPT ![meant] = wanted]
                     ELSE expected
      /\ spoilt' = (spoilt \ {meant}) \cup wrong
      /\ upset' = (upset \ {t}) \cup Outdated(t, r) \cup Overwritten(t)
  BY DEF Stored
<1>4. wrong \subseteq Registers
  BY <1>1
<1>5. Outdated(t, r) \subseteq Threads /\ Overwritten(t) \subseteq Threads
  BY DEF Outdated, Overwritten
<1> HIDE DEF r, meant, value, wanted, wrong
<1> QED
  BY <1>1, <1>2, <1>3, <1>4, <1>5

LEMMA LeavesType ==
  ASSUME ShapeInv, NEW t \in Threads, pc[t] = "write", Leaves(t)
  PROVE  wire' \subseteq Copy
<1>1. wire \subseteq Copy
  BY ShapeParts DEF CameraOK
<1> QED
  BY <1>1, WriteType DEF Leaves, Copy

LEMMA OverwrittenType == ASSUME NEW t PROVE Overwritten(t) \subseteq Threads
BY DEF Overwritten

\* Every step keeps the types and the shape of the calls.
LEMMA ShapeStep == ShapeInv /\ [Next]_vars => ShapeInv'
<1> SUFFICES ASSUME ShapeInv, [Next]_vars
             PROVE  (CameraOK /\ ThreadsOK)'
  BY ShapeParts, PTL
<1>1. CameraOK /\ ThreadsOK
  BY ShapeParts
<1>2. /\ registers \in [Registers -> Words] /\ wire \subseteq Copy
      /\ buffer \in Words /\ calls \in 0..MaxCalls
      /\ expected \in [Registers -> Words]
      /\ spoilt \subseteq Registers /\ upset \subseteq Threads
  BY <1>1 DEF CameraOK
<1>3. DOMAIN answer = Threads
  BY <1>1 DEF ThreadsOK
<1>4. /\ 0 \in Words /\ WriteAck \in Words /\ Strays \subseteq Words
      /\ MaxCalls \in Nat
  BY SelectedNodesAssumption DEF Words
<1>5. ASSUME NEW t \in Threads, NEW n \in Nodes, NEW set \in BOOLEAN, NEW choice,
             set => n.hasValue /\ choice \in n.choices, Call(t, n, set, choice)
      PROVE  (CameraOK /\ ThreadsOK)'
  <2>1. ThreadsOK'
    BY <1>5, CallThreads
  <2>2. calls' \in 0..MaxCalls
    BY <1>2, <1>4, <1>5 DEF Call
  <2> QED
    BY <1>2, <1>5, <2>1, <2>2 DEF Call, CameraOK, camera, history
<1>6. ASSUME NEW t \in Threads, NEW n \in Nodes, Get(t, n)
      PROVE  (CameraOK /\ ThreadsOK)'
  BY <1>5, <1>6 DEF Get
<1>7. ASSUME NEW t \in Threads, NEW n \in Nodes, Set(t, n)
      PROVE  (CameraOK /\ ThreadsOK)'
  BY <1>5, <1>7 DEF Set
<1>8. ASSUME NEW t \in Threads, ReadRegister(t)
      PROVE  (CameraOK /\ ThreadsOK)'
  <2>1. t \in InCall /\ pc[t] = "read"
    BY <1>8 DEF ReadRegister, InCall
  <2>2. Looked(t) \in Registers
    BY <2>1, LookedType
  <2>3. buffer' \in Words
    BY <1>2, <1>8, <2>2 DEF ReadRegister
  <2>4. CameraOK'
    BY <1>2, <1>8, <2>3, OverwrittenType DEF ReadRegister, CameraOK, camera
  <2>5. pc' = [pc EXCEPT ![t] = "copy"] /\ UNCHANGED <<task, words, answer>>
    BY <1>8 DEF ReadRegister
  <2>6. pc \in [Threads -> Kinds]
    BY <1>1 DEF ThreadsOK
  <2>7. pc' \in [Threads -> Kinds]
    BY <2>5, <2>6 DEF Kinds
  <2>8. Thread(t)'
    <3>1. Thread(t) /\ pc'[t] = "copy"
      BY <1>1, <2>1, <2>5, <2>6 DEF ThreadsOK
    <3> QED
      BY <2>1, <2>5, <3>1 DEF Thread, Shape, Variables
  <2>9. ASSUME NEW u \in InCall', u # t
        PROVE  Thread(u)'
    <3>1. u \in Threads
      BY DEF InCall
    <3>2. pc'[u] = pc[u] /\ task'[u] = task[u] /\ words'[u] = words[u]
      BY <2>5, <2>6, <2>9, <3>1
    <3> QED
      BY <1>1, <3>2, OtherThread
  <2> QED
    BY <1>1, <2>4, <2>5, <2>7, <2>8, <2>9 DEF ThreadsOK
<1>9. ASSUME NEW t \in Threads, ReadFails(t)
      PROVE  (CameraOK /\ ThreadsOK)'
  <2>1. t \in InCall /\ pc[t] \in {"read", "copy"} /\ Use(t, 0)
    BY <1>9 DEF ReadFails, InCall
  <2>2. ThreadsOK'
    BY <1>4, <2>1, UseThreads
  <2> QED
    BY <1>2, <1>4, <1>9, <2>2, OverwrittenType DEF ReadFails, Refused, CameraOK, camera
<1>10. ASSUME NEW t \in Threads, CopyAnswer(t)
       PROVE  (CameraOK /\ ThreadsOK)'
  <2>1. t \in InCall /\ pc[t] \in {"read", "copy"} /\ Use(t, buffer)
    BY <1>10 DEF CopyAnswer, InCall
  <2>2. ThreadsOK'
    BY <1>2, <2>1, UseThreads
  <2> QED
    BY <1>2, <1>10, <2>2 DEF CopyAnswer, CameraOK, camera
<1>11. ASSUME NEW t \in Threads, WriteRegister(t)
       PROVE  (CameraOK /\ ThreadsOK)'
  <2>1. pc[t] = "write" /\ Stored(t) /\ Leaves(t) /\ Ends(t)
        /\ UNCHANGED <<answer, calls>> /\ buffer' = WriteAck
    BY <1>11 DEF WriteRegister
  <2>2. ThreadsOK'
    BY <1>1, <1>3, <2>1, EndsThreads
  <2> QED
    BY <1>2, <1>4, <2>1, <2>2, StoredType, LeavesType DEF CameraOK
<1>12. ASSUME NEW t \in Threads, WriteFails(t)
       PROVE  (CameraOK /\ ThreadsOK)'
  <2>1. /\ pc[t] = "write" /\ Leaves(t) /\ Ends(t)
        /\ UNCHANGED <<answer, calls>> /\ buffer' \in {buffer, WriteAck} \cup Strays
        /\ \/ Stored(t)
           \/ /\ upset' = (upset \ {t}) \cup Overwritten(t)
              /\ UNCHANGED <<registers, expected, spoilt>>
    BY <1>12 DEF WriteFails, Refused
  <2>2. ThreadsOK'
    BY <1>1, <1>3, <2>1, EndsThreads
  <2>3. buffer' \in Words
    BY <1>2, <1>4, <2>1
  <2>4. CASE Stored(t)
    BY <1>2, <2>1, <2>2, <2>3, <2>4, StoredType, LeavesType DEF CameraOK
  <2>5. CASE /\ upset' = (upset \ {t}) \cup Overwritten(t)
             /\ UNCHANGED <<registers, expected, spoilt>>
    BY <1>2, <2>1, <2>2, <2>3, <2>5, OverwrittenType, LeavesType DEF CameraOK
  <2> QED
    BY <2>1, <2>4, <2>5
<1>13. ASSUME NEW copy \in wire, ExecuteLate(copy)
       PROVE  (CameraOK /\ ThreadsOK)'
  <2>1. copy.register \in Registers /\ copy.word \in Words
    BY <1>2 DEF Copy
  <2>2. CameraOK'
    BY <1>2, <1>13, <2>1 DEF ExecuteLate, CameraOK, threads
  <2> QED
    BY <1>1, <1>13, <2>2, OtherThread DEF ExecuteLate, threads, ThreadsOK
<1>14. ASSUME Heartbeat
       PROVE  (CameraOK /\ ThreadsOK)'
  <2>1. CameraOK'
    BY <1>2, <1>4, <1>14 DEF Heartbeat, CameraOK, threads, camera
  <2> QED
    BY <1>1, <1>14, <2>1, OtherThread DEF Heartbeat, threads, ThreadsOK
<1>15. ASSUME UNCHANGED vars
       PROVE  (CameraOK /\ ThreadsOK)'
  <2>1. CameraOK'
    BY <1>2, <1>15 DEF vars, CameraOK, threads, camera, history
  <2> QED
    BY <1>1, <1>15, <2>1, OtherThread DEF vars, threads, ThreadsOK
<1> QED
  BY <1>6, <1>7, <1>8, <1>9, <1>10, <1>11, <1>12, <1>13, <1>14, <1>15 DEF Next

\* Types: the registers of the camera get words of their width, and a thread
\* has no more words than its feature has variables.
THEOREM TypeCorrect == Spec => []TypeOK
<1>1. ShapeInv => TypeOK
  BY DEF ShapeInv
<1> QED
  BY <1>1, ShapeInit, ShapeStep, PTL DEF Spec
-----------------------------------------------------------------------------
(* Selections *)

LEMMA SameFunction ==
  ASSUME NEW S, NEW T, NEW f \in [S -> T], NEW g \in [S -> T],
         \A i \in S : f[i] = g[i]
  PROVE  f = g
OBVIOUS

\* Words that are still those of the camera make the formula it would have now.
LEMMA FormulaRead ==
  ASSUME NEW n \in Nodes, NEW read \in Seq(Words),
         registers \in [Registers -> Words],
         Len(n.variables) <= Len(read),
         \A i \in 1..Len(n.variables) : read[i] = registers[n.variables[i]]
  PROVE  FormulaWords(n, read) = Held(n.variables)
<1> DEFINE k == Len(n.variables)
<1>1. /\ FormulaWords(n, read) \in [1..k -> Words]
      /\ \A i \in 1..k : FormulaWords(n, read)[i] = read[i]
  BY WordsType DEF Valuation
<1>2. Held(n.variables) \in [1..k -> Words]
  BY HeldType DEF Valuation
<1>3. \A i \in 1..k : Held(n.variables)[i] = registers[n.variables[i]]
  BY DEF Held
<1> HIDE DEF k
<1>4. \A i \in 1..k : FormulaWords(n, read)[i] = Held(n.variables)[i]
  BY <1>1, <1>3 DEF k
<1> DEFINE f == FormulaWords(n, read)
           g == Held(n.variables)
           S == 1..k
<1>5. f \in [S -> Words] /\ g \in [S -> Words] /\ \A i \in S : f[i] = g[i]
  BY <1>1, <1>2, <1>4
<1> HIDE DEF f, g, S
<1>6. f = g
  BY <1>5, SameFunction
<1> QED
  BY <1>6 DEF f, g

\* A thread that has all its words, and all of them fresh, goes to the register
\* that is selected, with the formula that is selected.
LEMMA AllRead ==
  ASSUME ShapeInv, NEW t \in InCall, t \notin upset, Fresh(t),
         task[t].node.hasValue, Len(words[t]) = Len(Variables(task[t].node))
  PROVE  LET n == task[t].node
         IN  /\ FormulaWords(n, words[t]) = Held(n.variables)
             /\ Address(n, words[t]) = Meant(n)
<1> DEFINE n == task[t].node
           k == Len(n.variables)
           m == Len(n.addressed)
<1>1. n \in Nodes /\ words[t] \in Seq(Words)
  BY InCallFacts
<1>2. k \in Nat /\ m \in Nat
  BY <1>1, SelectedNodesAssumption, LenProperties
<1>3. k <= Len(words[t]) /\ k + m = Len(words[t])
  BY AddressType
<1>4. /\ \A i \in 1..k : Variables(n)[i] = n.variables[i]
      /\ \A i \in 1..m : Variables(n)[k + i] = n.addressed[i]
  BY <1>1, VariablesType
<1>5. \A i \in 1..Len(words[t]) : words[t][i] = registers[Variables(n)[i]]
  BY DEF Fresh
<1>6. registers \in [Registers -> Words]
  BY ShapeParts DEF CameraOK
<1>7. /\ AddressWords(n, words[t]) \in [1..m -> Words]
      /\ \A i \in 1..m : AddressWords(n, words[t])[i] = words[t][k + i]
  <2> HIDE DEF k, m
  <2>1. k + m <= Len(words[t])
    BY <1>2, <1>3
  <2> QED
    BY <1>1, <2>1, WordsType DEF Valuation, k, m
<1>8. Held(n.addressed) \in [1..m -> Words]
  BY <1>1, <1>6, HeldType DEF Valuation
<1>9. \A i \in 1..m : Held(n.addressed)[i] = registers[n.addressed[i]]
  BY DEF Held
<1> HIDE DEF k, m
<1>10. \A i \in 1..k : words[t][i] = registers[n.variables[i]]
  BY <1>2, <1>3, <1>4, <1>5
<1>11. \A i \in 1..m : words[t][k + i] = registers[n.addressed[i]]
  <2> TAKE i \in 1..m
  <2>1. k + i \in 1..Len(words[t])
    BY <1>2, <1>3
  <2> QED
    BY <1>4, <1>5, <2>1
<1>12. \A i \in 1..m : AddressWords(n, words[t])[i] = Held(n.addressed)[i]
  BY <1>7, <1>9, <1>11
<1>13. AddressWords(n, words[t]) = Held(n.addressed)
  <2> DEFINE f == AddressWords(n, words[t])
             g == Held(n.addressed)
             S == 1..m
  <2>1. f \in [S -> Words] /\ g \in [S -> Words] /\ \A i \in S : f[i] = g[i]
    BY <1>7, <1>8, <1>12
  <2> HIDE DEF f, g, S
  <2>2. f = g
    BY <2>1, SameFunction
  <2> QED
    BY <2>2 DEF f, g
<1>14. FormulaWords(n, words[t]) = Held(n.variables)
  BY <1>1, <1>3, <1>6, <1>10, FormulaRead DEF k
<1> QED
  BY <1>13, <1>14 DEF Address, Meant

\* A thread stays fresh as long as what it goes by does not change.
LEMMA StaysFresh ==
  ASSUME NEW u \in InCall, Fresh(u), u \notin upset,
         pc'[u] = pc[u], task'[u] = task[u], words'[u] = words[u],
         \A r \in GoesBy(u) : registers'[r] = registers[r],
         pc[u] = "copy" => buffer' = buffer
  PROVE  Fresh(u)'
<1> DEFINE n == task[u].node
<1>1. Variables(task[u].node)' = Variables(n)
  BY DEF Variables
<1>2. Looked(u)' = Looked(u)
  BY DEF Looked, Variables, Address, AddressWords
<1>3. \A i \in 1..Len(words[u]) : Variables(n)[i] \in GoesBy(u)
  BY DEF GoesBy
<1>4. pc[u] = "copy" => Looked(u) \in GoesBy(u)
  BY DEF GoesBy
<1>5. \A i \in 1..Len(words[u]) : words[u][i] = registers[Variables(n)[i]]
  BY DEF Fresh
<1>6. pc[u] = "copy" => buffer = registers[Looked(u)]
  BY DEF Fresh
<1> QED
  BY <1>1, <1>2, <1>3, <1>4, <1>5, <1>6 DEF Fresh

\* A thread that goes on with the word the camera holds stays fresh.
LEMMA UseFresh ==
  ASSUME ShapeInv, NEW t \in InCall, pc[t] = "copy", Fresh(t), t \notin upset,
         Use(t, buffer), pc'[t] # "idle", UNCHANGED <<registers, buffer>>
  PROVE  Fresh(t)'
<1> DEFINE n == task[t].node
           all == Len(Variables(n))
           read == Append(words[t], buffer)
<1>1. /\ t \in Threads /\ words[t] \in Seq(Words) /\ Len(words[t]) \in Nat
      /\ all \in Nat /\ Len(words[t]) <= all /\ n.hasValue \in BOOLEAN
      /\ Shape(t)
  BY InCallFacts
<1>2. buffer \in Words
  BY ShapeParts DEF CameraOK
<1>3. /\ pc \in [Threads -> Kinds] /\ DOMAIN words = Threads
  BY ShapeParts DEF ThreadsOK
<1>4. /\ Len(read) = Len(words[t]) + 1 /\ read[Len(words[t]) + 1] = buffer
      /\ \A i \in 1..Len(words[t]) : read[i] = words[t][i]
  BY <1>1, <1>2, AppendProperties
<1>5. Len(read) # all + (IF n.hasValue THEN 1 ELSE 0)
  <2> SUFFICES ASSUME Len(read) = all + (IF n.hasValue THEN 1 ELSE 0) PROVE FALSE
    OBVIOUS
  <2>1. pc' = [pc EXCEPT ![t] = "idle"]
    BY DEF Use, Ends
  <2> QED
    BY <1>1, <1>3, <2>1
<1>6. /\ words' = [words EXCEPT ![t] = read] /\ task' = task
      /\ pc' = [pc EXCEPT ![t] = Step(n, task[t].set, read)]
  BY <1>5 DEF Use
<1>7. words'[t] = read /\ pc'[t] # "copy"
  BY <1>1, <1>3, <1>6 DEF Step
<1>8. Len(words[t]) + 1 <= all
  <2>1. Len(words[t]) = all => n.hasValue
    BY <1>1 DEF Shape
  <2> QED
    BY <1>1, <1>4, <1>5, <2>1
<1>9. Looked(t) = Variables(n)[Len(words[t]) + 1]
  BY <1>8 DEF Looked
<1>10. /\ \A i \in 1..Len(words[t]) : words[t][i] = registers[Variables(n)[i]]
       /\ buffer = registers[Looked(t)]
  BY DEF Fresh
<1> HIDE DEF read
<1>11. \A i \in 1..Len(read) : read[i] = registers[Variables(n)[i]]
  <2> TAKE i \in 1..Len(read)
  <2>1. CASE i \in 1..Len(words[t])
    BY <1>4, <1>10, <2>1
  <2>2. CASE i = Len(words[t]) + 1
    BY <1>4, <1>9, <1>10, <2>2
  <2> QED
    BY <1>1, <1>4, <2>1, <2>2
<1>12. Variables(task[t].node)' = Variables(n)
  BY <1>6 DEF Variables
<1> QED
  BY <1>7, <1>11, <1>12 DEF Fresh

\* A write of a thread that is not upset is one in the selected register, with
\* the selected formula; the history blames the other ones.
LEMMA StoredKept ==
  ASSUME SelectionInv, NEW t \in Threads, pc[t] = "write", Stored(t)
  PROVE  /\ SelectionKept'
         /\ \A u \in InCall : u # t /\ u \notin upset' =>
              /\ u \notin upset
              /\ \A r \in GoesBy(u) : registers'[r] = registers[r]
              /\ pc[u] = "copy" => buffer' = buffer
<1> DEFINE n == task[t].node
           r == Address(n, words[t])
           meant == Meant(n)
           sent == Converted(n, words[t], task[t].choice)
           wanted == Wanted(n, task[t].choice)
           wrong == IF t \in upset THEN {r, meant}
                    ELSE IF wanted \in Words THEN {} ELSE {meant}
<1>1. ShapeInv /\ SelectionKept /\ \A u \in InCall : Fresh(u)
  BY DEF SelectionInv
<1>2. /\ t \in InCall /\ r \in Registers /\ meant \in Registers
      /\ sent \in Nat /\ wanted \in Nat
  BY <1>1, WriteType
<1>3. /\ registers' = [registers EXCEPT ![r] = Value32(sent)]
      /\ expected' = IF wanted \in Words THEN [expected EXCEPT ![meant] = wanted]
                     ELSE expected
      /\ spoilt' = (spoilt \ {meant}) \cup wrong
      /\ upset' = (upset \ {t}) \cup Outdated(t, r) \cup Overwritten(t)
  BY DEF Stored
<1>4. ASSUME t \notin upset
      PROVE  r = meant /\ sent = wanted
  <2>1. Shape(t) /\ Fresh(t)
    BY <1>1, <1>2, InCallFacts
  <2>2. n.hasValue /\ Len(words[t]) = Len(Variables(n))
    BY <2>1 DEF Shape
  <2>3. FormulaWords(n, words[t]) = Held(n.variables) /\ r = meant
    BY <1>1, <1>2, <1>4, <2>1, <2>2, AllRead
  <2> QED
    BY <2>3 DEF Converted, Wanted
<1>5. registers \in [Registers -> Words] /\ expected \in [Registers -> Words]
  BY <1>1, ShapeParts DEF CameraOK
<1>6. wanted \in Words => Value32(wanted) = wanted
  BY <1>2, Value32Type
<1> DEFINE R == Outdated(t, r)
<1>7. \A u \in InCall : u # t /\ u \notin R =>
        \A x \in GoesBy(u) : registers'[x] = registers[x]
  <2> TAKE u \in InCall
  <2> SUFFICES ASSUME u # t, u \notin R, NEW x \in GoesBy(u)
               PROVE  registers'[x] = registers[x]
    OBVIOUS
  <2>1. u \in Threads
    BY DEF InCall
  <2>2. registers'[r] = registers[r] \/ r \notin GoesBy(u)
    BY <2>1 DEF Outdated
  <2> HIDE DEF r, sent, R
  <2>3. CASE x = r
    BY <2>2, <2>3
  <2>4. CASE x # r
    BY <1>3, <1>5, <2>4
  <2> QED
    BY <2>3, <2>4
<1>8. \A u \in InCall : u # t /\ u \notin Overwritten(t) /\ pc[u] = "copy" =>
        buffer' = buffer
  BY DEF Overwritten, InCall
<1>9. \A u \in InCall : u # t /\ u \notin upset' =>
        u \notin upset /\ u \notin R /\ u \notin Overwritten(t)
  <2> HIDE DEF r, meant, wanted, wrong
  <2> QED
    BY <1>3
<1> HIDE DEF r, meant, sent, wanted, R
<1>10. ASSUME NEW x \in Registers \ spoilt'
       PROVE  registers'[x] = expected'[x]
  <2>1. CASE t \in upset
    <3>1. x \notin {r, meant} /\ x \notin spoilt
      BY <1>3, <1>10, <2>1
    <3>2. registers[x] = expected[x]
      BY <1>1, <3>1 DEF SelectionKept
    <3>3. registers'[x] = registers[x] /\ expected'[x] = expected[x]
      BY <1>2, <1>3, <1>5, <3>1
    <3> QED
      BY <3>2, <3>3
  <2>2. CASE t \notin upset /\ x = meant
    <3>1. wanted \in Words
      BY <1>3, <1>10, <2>2
    <3>2. registers'[x] = Value32(wanted) /\ expected'[x] = wanted
      BY <1>2, <1>3, <1>4, <1>5, <2>2, <3>1
    <3> QED
      BY <1>6, <3>1, <3>2
  <2>3. CASE t \notin upset /\ x # meant
    <3>1. x \notin spoilt
      BY <1>3, <1>10, <2>3
    <3>2. registers[x] = expected[x]
      BY <1>1, <3>1 DEF SelectionKept
    <3>3. registers'[x] = registers[x] /\ expected'[x] = expected[x]
      BY <1>2, <1>3, <1>4, <1>5, <2>3
    <3> QED
      BY <3>2, <3>3
  <2> QED
    BY <2>1, <2>2, <2>3
<1>11. SelectionKept'
  BY <1>10 DEF SelectionKept
<1> QED
  BY <1>7, <1>8, <1>9, <1>11

\* Selections stay right at every step.
LEMMA SelectionStep == SelectionInv /\ [Next]_vars => SelectionInv'
<1> SUFFICES ASSUME SelectionInv, [Next]_vars
             PROVE  (SelectionKept /\ \A u \in InCall : Fresh(u))'
  BY ShapeStep DEF SelectionInv
<1>1. ShapeInv /\ SelectionKept /\ \A u \in InCall : Fresh(u)
  BY DEF SelectionInv
<1>2. /\ pc \in [Threads -> Kinds] /\ DOMAIN task = Threads
      /\ DOMAIN words = Threads /\ registers \in [Registers -> Words]
  BY <1>1, ShapeParts DEF CameraOK, ThreadsOK
<1>3. UNCHANGED <<registers, expected, spoilt>> => SelectionKept'
  BY <1>1 DEF SelectionKept
<1>4. ASSUME NEW u \in InCall', u \notin upset,
             pc'[u] = pc[u], task'[u] = task[u], words'[u] = words[u],
             \A r \in GoesBy(u) : registers'[r] = registers[r],
             pc[u] = "copy" => buffer' = buffer
      PROVE  Fresh(u)'
  <2>1. u \in InCall
    BY <1>4 DEF InCall
  <2> QED
    BY <1>1, <1>4, <2>1, StaysFresh
<1>5. ASSUME NEW t \in Threads, NEW n \in Nodes, NEW set, NEW choice,
             Call(t, n, set, choice)
      PROVE  (SelectionKept /\ \A u \in InCall : Fresh(u))'
  <2>1. /\ UNCHANGED <<registers, expected, spoilt, buffer, upset>>
        /\ pc' = [pc EXCEPT ![t] = Step(n, set, <<>>)]
        /\ task' = [task EXCEPT ![t] = [node |-> n, set |-> set, choice |-> choice]]
        /\ words' = [words EXCEPT ![t] = <<>>]
    BY <1>5 DEF Call, camera, history
  <2>2. Fresh(t)'
    <3>1. words'[t] = <<>> /\ pc'[t] # "copy"
      BY <1>2, <2>1 DEF Step
    <3>2. Len(words'[t]) = 0
      BY <3>1
    <3> QED
      BY <3>1, <3>2 DEF Fresh
  <2>3. ASSUME NEW u \in InCall', u # t
        PROVE  Fresh(u)'
    <3>1. u \in Threads
      BY DEF InCall
    <3>2. pc'[u] = pc[u] /\ task'[u] = task[u] /\ words'[u] = words[u]
      BY <1>2, <2>1, <2>3, <3>1
    <3> QED
      BY <1>4, <2>1, <3>2 DEF Fresh
  <2> QED
    BY <1>3, <2>1, <2>2, <2>3
<1>6. ASSUME NEW t \in Threads, ReadRegister(t)
      PROVE  (SelectionKept /\ \A u \in InCall : Fresh(u))'
  <2>1. /\ UNCHANGED <<registers, expected, spoilt, task, words>>
        /\ t \in InCall /\ pc[t] = "read" /\ pc' = [pc EXCEPT ![t] = "copy"]
        /\ buffer' = registers[Looked(t)]
        /\ upset' = upset \cup Overwritten(t)
    BY <1>6 DEF ReadRegister, camera, InCall
  <2>2. Fresh(t)'
    <3>1. /\ Looked(t)' = Looked(t)
          /\ Variables(task[t].node)' = Variables(task[t].node)
      BY <2>1 DEF Looked, Variables, Address, AddressWords
    <3> QED
      BY <1>1, <2>1, <3>1 DEF Fresh
  <2>3. ASSUME NEW u \in InCall', u # t
        PROVE  Fresh(u)'
    <3>1. u \in Threads /\ pc'[u] = pc[u]
      BY <1>2, <2>1, <2>3 DEF InCall
    <3>2. u \notin upset' => u \notin upset /\ (pc[u] = "copy" => buffer' = buffer)
      BY <2>1, <2>3, <3>1 DEF Overwritten
    <3> QED
      BY <1>4, <2>1, <3>1, <3>2 DEF Fresh
  <2> QED
    BY <1>3, <2>1, <2>2, <2>3
<1>7. ASSUME NEW t \in Threads, NEW word, Use(t, word)
      PROVE  \A u \in Threads : u # t =>
               pc'[u] = pc[u] /\ task'[u] = task[u] /\ words'[u] = words[u]
  BY <1>2, <1>7 DEF Use, Ends
<1>8. ASSUME NEW t \in Threads, ReadFails(t)
      PROVE  (SelectionKept /\ \A u \in InCall : Fresh(u))'
  <2>1. /\ UNCHANGED <<registers, expected, spoilt>> /\ Use(t, 0)
        /\ upset' = Overwritten(t) \cup
             IF pc'[t] = "idle" THEN upset \ {t} ELSE upset \cup {t}
    BY <1>8 DEF ReadFails, camera
  <2>2. t \in InCall' => Fresh(t)'
    BY <2>1 DEF Fresh, InCall
  <2>3. ASSUME NEW u \in InCall', u # t
        PROVE  Fresh(u)'
    <3>1. u \in Threads
      BY DEF InCall
    <3>2. pc'[u] = pc[u] /\ task'[u] = task[u] /\ words'[u] = words[u]
      BY <1>7, <2>1, <2>3, <3>1
    <3>3. u \notin upset' => u \notin upset /\ (pc[u] = "copy" => buffer' = buffer)
      BY <2>1, <2>3, <3>1 DEF Overwritten
    <3> QED
      BY <1>4, <2>1, <3>2, <3>3 DEF Fresh
  <2> QED
    BY <1>3, <2>1, <2>2, <2>3
<1>9. ASSUME NEW t \in Threads, CopyAnswer(t)
      PROVE  (SelectionKept /\ \A u \in InCall : Fresh(u))'
  <2>1. /\ UNCHANGED <<registers, expected, spoilt, buffer>> /\ Use(t, buffer)
        /\ upset' = IF pc'[t] = "idle" THEN upset \ {t} ELSE upset
        /\ pc[t] = "copy" /\ t \in InCall
    BY <1>9 DEF CopyAnswer, camera, InCall
  <2>2. t \in InCall' => Fresh(t)'
    <3>1. CASE t \in upset'
      BY <3>1 DEF Fresh
    <3>2. CASE t \in InCall' /\ t \notin upset'
      <4>1. pc'[t] # "idle" /\ t \notin upset
        BY <2>1, <3>2 DEF InCall
      <4> QED
        BY <1>1, <2>1, <4>1, UseFresh
    <3> QED
      BY <3>1, <3>2
  <2>3. ASSUME NEW u \in InCall', u # t
        PROVE  Fresh(u)'
    <3>1. u \in Threads
      BY DEF InCall
    <3>2. pc'[u] = pc[u] /\ task'[u] = task[u] /\ words'[u] = words[u]
      BY <1>7, <2>1, <2>3, <3>1
    <3> QED
      BY <1>4, <2>1, <2>3, <3>2 DEF Fresh
  <2> QED
    BY <1>3, <2>1, <2>2, <2>3
<1>10. ASSUME NEW t \in Threads, Ends(t), NEW u \in InCall',
              \A v \in InCall : v # t /\ v \notin upset' =>
                /\ v \notin upset
                /\ \A r \in GoesBy(v) : registers'[r] = registers[r]
                /\ pc[v] = "copy" => buffer' = buffer
       PROVE  Fresh(u)'
  <2>1. u \in Threads /\ pc'[u] # "idle"
    BY DEF InCall
  <2>2. /\ u # t /\ pc'[u] = pc[u] /\ task'[u] = task[u] /\ words'[u] = words[u]
    BY <1>2, <1>10, <2>1 DEF Ends
  <2>3. u \in InCall
    BY <2>1, <2>2 DEF InCall
  <2> QED
    BY <1>4, <1>10, <2>2, <2>3 DEF Fresh
<1>11. ASSUME NEW t \in Threads, WriteRegister(t)
       PROVE  (SelectionKept /\ \A u \in InCall : Fresh(u))'
  <2>1. pc[t] = "write" /\ Stored(t) /\ Ends(t)
    BY <1>11 DEF WriteRegister
  <2> QED
    BY <1>10, <2>1, StoredKept
<1>12. ASSUME NEW t \in Threads, WriteFails(t)
       PROVE  (SelectionKept /\ \A u \in InCall : Fresh(u))'
  <2>1. pc[t] = "write" /\ Ends(t)
    BY <1>12 DEF WriteFails
  <2>2. CASE Stored(t)
    BY <1>10, <2>1, <2>2, StoredKept
  <2>3. CASE /\ upset' = (upset \ {t}) \cup Overwritten(t)
             /\ UNCHANGED <<registers, expected, spoilt>>
    <3>1. ASSUME NEW v \in InCall, v # t, v \notin upset'
          PROVE  /\ v \notin upset
                 /\ \A r \in GoesBy(v) : registers'[r] = registers[r]
                 /\ pc[v] = "copy" => buffer' = buffer
      BY <2>3, <3>1 DEF Overwritten, InCall
    <3> QED
      BY <1>3, <1>10, <2>1, <2>3, <3>1
  <2> QED
    BY <1>12, <2>2, <2>3 DEF WriteFails
<1>13. ASSUME NEW copy \in wire, ExecuteLate(copy)
       PROVE  (SelectionKept /\ \A u \in InCall : Fresh(u))'
  <2>1. /\ registers' = [registers EXCEPT ![copy.register] = copy.word]
        /\ spoilt' = spoilt \cup {copy.register}
        /\ upset' = upset \cup
             (IF registers' = registers THEN {}
              ELSE {u \in Threads : copy.register \in GoesBy(u)})
        /\ UNCHANGED <<buffer, pc, task, words, expected>>
    BY <1>13 DEF ExecuteLate, threads
  <2>2. SelectionKept'
    BY <1>1, <1>2, <2>1 DEF SelectionKept
  <2>3. ASSUME NEW u \in InCall', u \notin upset'
        PROVE  Fresh(u)'
    <3>1. u \in Threads /\ u \notin upset
      BY <2>1, <2>3 DEF InCall
    <3>2. registers' = registers \/ copy.register \notin GoesBy(u)
      BY <2>1, <2>3, <3>1
    <3>3. \A r \in GoesBy(u) : registers'[r] = registers[r]
      BY <1>2, <2>1, <3>2
    <3> QED
      BY <1>4, <2>1, <3>1, <3>3
  <2> QED
    BY <2>2, <2>3 DEF Fresh
<1>14. ASSUME Heartbeat
       PROVE  (SelectionKept /\ \A u \in InCall : Fresh(u))'
  <2>1. /\ upset' = upset \cup {u \in Threads : pc[u] = "copy"}
        /\ UNCHANGED <<registers, pc, task, words, expected, spoilt>>
    BY <1>14 DEF Heartbeat, camera, threads
  <2>2. ASSUME NEW u \in InCall', u \notin upset'
        PROVE  Fresh(u)'
    <3>1. u \in Threads /\ u \notin upset /\ pc[u] # "copy"
      BY <2>1, <2>2 DEF InCall
    <3> QED
      BY <1>4, <2>1, <3>1
  <2> QED
    BY <1>3, <2>1, <2>2 DEF Fresh
<1>15. ASSUME UNCHANGED vars
       PROVE  (SelectionKept /\ \A u \in InCall : Fresh(u))'
  <2>1. UNCHANGED <<registers, buffer, pc, task, words, expected, spoilt, upset>>
    BY <1>15 DEF vars, camera, threads, history
  <2> QED
    BY <1>3, <1>4, <2>1 DEF Fresh
<1> QED
  BY <1>5, <1>6, <1>8, <1>9, <1>11, <1>12, <1>13, <1>14, <1>15 DEF Next, Get, Set

LEMMA SelectionInit == Init => SelectionInv
<1> SUFFICES ASSUME Init
             PROVE  SelectionInv
  OBVIOUS
<1>1. registers \in [Registers -> Words] /\ expected = registers /\ InCall = {}
  BY SelectedNodesAssumption DEF Init, InCall
<1> QED
  BY <1>1, ShapeInit DEF SelectionInv, SelectionKept

\* Setting a feature: the register that is selected gets the choice, by the
\* formula of that selection, and no other register is touched.
THEOREM Selection == Spec => []SelectionKept
<1>1. SelectionInv => SelectionKept
  BY DEF SelectionInv
<1> QED
  BY <1>1, SelectionInit, SelectionStep, PTL DEF Spec
-----------------------------------------------------------------------------
(* What getValue returns *)

\* The last word of a call that is not upset completes what the formulas of the
\* camera's registers would give now.
LEMMA LastWord ==
  ASSUME SelectionInv, NEW t \in InCall, t \notin upset, pc[t] = "copy",
         Use(t, buffer), pc'[t] = "idle"
  PROVE  LET n == task[t].node
         IN  /\ answer'[t] = n.from[Held(n.variables)]
                               [IF n.hasValue THEN registers[Meant(n)] ELSE 0]
             /\ Variables(n) \in Seq(Registers)
             /\ Meant(n) \in Registers
             /\ \A i \in 1..Len(n.variables) : Variables(n)[i] = n.variables[i]
             /\ Len(n.variables) <= Len(Variables(n))
             /\ Len(n.variables) \in Nat
<1> DEFINE n == task[t].node
           k == Len(n.variables)
           all == Len(Variables(n))
           read == Append(words[t], buffer)
           word == IF n.hasValue THEN buffer ELSE 0
<1>1. ShapeInv /\ Fresh(t)
  BY DEF SelectionInv
<1>2. /\ t \in Threads /\ n \in Nodes /\ words[t] \in Seq(Words)
      /\ Len(words[t]) \in Nat /\ all \in Nat /\ Len(words[t]) <= all
      /\ n.hasValue \in BOOLEAN /\ Shape(t)
  BY <1>1, InCallFacts
<1>3. /\ buffer \in Words /\ registers \in [Registers -> Words]
      /\ pc \in [Threads -> Kinds] /\ DOMAIN answer = Threads
  BY <1>1, ShapeParts DEF CameraOK, ThreadsOK
<1>4. /\ read \in Seq(Words) /\ Len(read) = Len(words[t]) + 1
      /\ read[Len(words[t]) + 1] = buffer
      /\ \A i \in 1..Len(words[t]) : read[i] = words[t][i]
  BY <1>2, <1>3, AppendProperties
<1>5. /\ Len(read) = all + (IF n.hasValue THEN 1 ELSE 0)
      /\ answer' = [answer EXCEPT ![t] = Result(n, read, word)]
  <2>1. pc' # [pc EXCEPT ![t] = Step(n, task[t].set, read)]
    BY <1>2, <1>3 DEF Step
  <2> QED
    BY <2>1 DEF Use
<1>6. /\ \A i \in 1..Len(words[t]) : words[t][i] = registers[Variables(n)[i]]
      /\ buffer = registers[Looked(t)]
  BY <1>1 DEF Fresh
<1>7. /\ Variables(n) \in Seq(Registers)
      /\ all = k + (IF n.hasValue THEN Len(n.addressed) ELSE 0)
      /\ \A i \in 1..k : Variables(n)[i] = n.variables[i]
  BY <1>2, VariablesType
<1>8. k \in Nat /\ Len(n.addressed) \in Nat
  BY <1>2, SelectedNodesAssumption, LenProperties
<1>9. k <= all /\ all <= Len(read) /\ k <= Len(read)
  <2>1. /\ all = k + (IF n.hasValue THEN Len(n.addressed) ELSE 0)
        /\ Len(read) = all + (IF n.hasValue THEN 1 ELSE 0)
        /\ all \in Nat /\ k \in Nat /\ Len(n.addressed) \in Nat
    BY <1>2, <1>5, <1>7, <1>8
  <2>2. CASE n.hasValue
    <3>1. all = k + Len(n.addressed) /\ Len(read) = all + 1
      BY <2>1, <2>2
    <3> HIDE DEF k, all, read, n
    <3> QED
      BY <2>1, <3>1
  <2>3. CASE ~n.hasValue
    <3>1. all = k + 0 /\ Len(read) = all + 0
      BY <2>1, <2>3
    <3> HIDE DEF k, all, read, n
    <3> QED
      BY <2>1, <3>1
  <2> QED
    BY <2>2, <2>3
<1>10. \A i \in 1..k : read[i] = registers[n.variables[i]]
  <2> TAKE i \in 1..k
  <2>1. i \in 1..all
    BY <1>8, <1>9, <1>2
  <2>2. CASE i \in 1..Len(words[t])
    BY <1>4, <1>6, <1>7, <2>2
  <2>3. CASE i = Len(words[t]) + 1
    <3>1. Looked(t) = Variables(n)[i]
      BY <2>1, <2>3 DEF Looked
    <3> HIDE DEF read
    <3> QED
      BY <1>4, <1>6, <1>7, <2>3, <3>1
  <2> HIDE DEF k, all, read
  <2> QED
    BY <1>2, <1>4, <1>9, <2>1, <2>2, <2>3, <1>5
<1>11. FormulaWords(n, read) = Held(n.variables)
  <2> HIDE DEF read
  <2> QED
    BY <1>2, <1>3, <1>4, <1>8, <1>9, <1>10, FormulaRead
<1>12. word = IF n.hasValue THEN registers[Meant(n)] ELSE 0
  <2> SUFFICES ASSUME n.hasValue PROVE buffer = registers[Meant(n)]
    OBVIOUS
  <2>1. Len(words[t]) = all
    BY <1>2, <1>4, <1>5
  <2>2. Looked(t) = Address(n, words[t])
    BY <1>2, <2>1 DEF Looked
  <2>3. Address(n, words[t]) = Meant(n)
    BY <1>1, <2>1, AllRead
  <2> QED
    BY <1>6, <2>2, <2>3
<1>13. answer'[t] = n.from[FormulaWords(n, read)][word]
  BY <1>2, <1>3, <1>5 DEF Result
<1>14. Meant(n) \in Registers
  BY <1>2, <1>3, HeldType
<1> HIDE DEF read, word
<1> QED
  BY <1>7, <1>8, <1>9, <1>11, <1>12, <1>13, <1>14

\* Only a word that is copied ends a call that had one to copy.
LEMMA EndsByCopy ==
  ASSUME ShapeInv, [Next]_vars, NEW t \in Threads, pc[t] = "copy", pc'[t] = "idle"
  PROVE  t \in InCall /\ Use(t, buffer)
<1>1. pc \in [Threads -> Kinds]
  BY ShapeParts DEF ThreadsOK
<1>2. pc' # pc
  OBVIOUS
<1>3. ASSUME NEW u \in Threads, NEW kind, pc' = [pc EXCEPT ![u] = kind],
             pc[u] # "copy"
      PROVE  FALSE
  BY <1>1, <1>3
<1>4. \A u \in Threads, n \in Nodes : ~Get(u, n) /\ ~Set(u, n)
  BY <1>3 DEF Get, Set, Call
<1>5. \A u \in Threads : ~ReadRegister(u)
  BY <1>3 DEF ReadRegister
<1>6. \A u \in Threads : ~ReadFails(u)
  BY <1>3 DEF ReadFails, Use, Ends
<1>7. \A u \in Threads : ~WriteRegister(u) /\ ~WriteFails(u)
  BY <1>3 DEF WriteRegister, WriteFails, Ends
<1>8. ~Heartbeat /\ \A copy \in wire : ~ExecuteLate(copy)
  BY <1>2 DEF Heartbeat, ExecuteLate, threads
<1>9. vars' # vars
  BY <1>2 DEF vars, threads
<1>10. PICK u \in Threads : CopyAnswer(u)
  BY <1>4, <1>5, <1>6, <1>7, <1>8, <1>9 DEF Next
<1>11. u = t
  BY <1>1, <1>10 DEF CopyAnswer, Use, Ends
<1> QED
  BY <1>10, <1>11 DEF CopyAnswer, InCall

\* What is in the registers is what should be, where nothing is spoilt.
LEMMA AsExpected ==
  ASSUME SelectionInv, NEW variables \in Seq(Registers), NEW k \in Nat,
         k <= Len(variables), Range(variables) \cap spoilt = {}
  PROVE  \A i \in 1..k : registers[variables[i]] = expected[variables[i]]
<1> TAKE i \in 1..k
<1>1. i \in 1..Len(variables) /\ i \in DOMAIN variables
  BY LenProperties
<1>2. variables[i] \in Registers
  BY <1>1, ElementOfSeq
<1>3. variables[i] \in Range(variables)
  BY <1>1 DEF Range
<1>4. variables[i] \notin spoilt
  BY <1>3
<1> QED
  BY <1>2, <1>4 DEF SelectionInv, SelectionKept

\* Reading a feature: the answer is the formula of what was last set in the
\* variables and in the register they select, where nothing is spoilt.
THEOREM SelectedAnswer == Spec => SelectionRead
<1> DEFINE from(n) == Range(Variables(n)) \cup (IF n.hasValue THEN {Meant(n)} ELSE {})
           set(n) == [i \in 1..Len(n.variables) |-> expected[n.variables[i]]]
           word(n) == IF n.hasValue THEN expected[Meant(n)] ELSE 0
<1>1. ASSUME SelectionInv, [Next]_vars, NEW t \in Threads,
             pc[t] = "copy", pc'[t] = "idle", t \notin upset,
             from(task[t].node) \cap spoilt = {}
      PROVE  answer'[t] = task[t].node.from[set(task[t].node)][word(task[t].node)]
  <2> DEFINE n == task[t].node
             k == Len(n.variables)
  <2>1. t \in InCall /\ Use(t, buffer)
    BY <1>1, EndsByCopy DEF SelectionInv
  <2>2. /\ answer'[t] = n.from[Held(n.variables)]
                          [IF n.hasValue THEN registers[Meant(n)] ELSE 0]
        /\ Variables(n) \in Seq(Registers) /\ Meant(n) \in Registers
        /\ \A i \in 1..k : Variables(n)[i] = n.variables[i]
        /\ k <= Len(Variables(n)) /\ k \in Nat
    BY <1>1, <2>1, LastWord
  <2>3. \A i \in 1..k :
          registers[Variables(n)[i]] = expected[Variables(n)[i]]
    BY <1>1, <2>2, AsExpected
  <2>4. \A i \in 1..k : registers[n.variables[i]] = expected[n.variables[i]]
    <3> TAKE i \in 1..k
    <3>1. Variables(n)[i] = n.variables[i]
      BY <2>2
    <3>2. registers[Variables(n)[i]] = expected[Variables(n)[i]]
      BY <2>3
    <3> HIDE DEF n, k
    <3> QED
      BY <3>1, <3>2
  <2>5. Held(n.variables) = set(n)
    <3> DEFINE v == n.variables
               S == 1..k
    <3>1. \A i \in S : registers[v[i]] = expected[v[i]]
      BY <2>4
    <3>2. [i \in S |-> registers[v[i]]] = [i \in S |-> expected[v[i]]]
      <4> HIDE DEF v, S
      <4> QED
        BY <3>1
    <3> QED
      BY <3>2 DEF Held
  <2>6. n.hasValue => registers[Meant(n)] = expected[Meant(n)]
    BY <1>1, <2>2 DEF SelectionInv, SelectionKept
  <2> QED
    BY <2>2, <2>5, <2>6
<1>2. SelectionInv /\ [Next]_vars =>
        [\A t \in Threads :
           pc[t] = "copy" /\ pc'[t] = "idle" /\ t \notin upset =>
           LET n == task[t].node
               selected == Range(Variables(n)) \cup
                           (IF n.hasValue THEN {Meant(n)} ELSE {})
               variables == [i \in 1..Len(n.variables) |-> expected[n.variables[i]]]
               last == IF n.hasValue THEN expected[Meant(n)] ELSE 0
           IN  selected \cap spoilt = {} =>
                 answer'[t] = n.from[variables][last]]_vars
  BY <1>1
<1> QED
  BY <1>2, SelectionInit, SelectionStep, PTL DEF Spec, SelectionRead
=============================================================================
