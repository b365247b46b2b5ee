-------------------------- MODULE GvspReceiverProofs --------------------------
(***************************************************************************)
(* What GvspReceiver keeps of every stream, for every value of its          *)
(* constants.  The first lemmas are about one block: each operation of      *)
(* class Block keeps its counts right.  Then come the handlers, and the     *)
(* invariant of the map of blocks.  The last four parts each strengthen it: *)
(* the order of the images, the indices into the map, the request for the   *)
(* end of a block, and what an image called intact holds.                   *)
(***************************************************************************)
EXTENDS GvspReceiver, FiniteSetTheorems, SequenceTheorems,
        WellFoundedInduction, TLAPS

\* A block whose counts agree with its segments.
Counted(block) ==
  /\ block \in Block
  /\ block.geometry \in Geometries
  /\ block.segments # <<>> =>
       /\ block.empty = Cardinality(Holes(block))
       /\ block.asked + Cardinality(Unasked(block)) <= Len(block.segments)

\* Nothing below a segment received or asked for is still to be asked for.
NoGap(block) ==
  \A j \in DOMAIN block.segments : \A i \in 1..j :
    block.segments[j] # "empty" => block.segments[i] # "empty"

\* An image has at least one segment.
LEMMA CountPositive ==
  ASSUME NEW geometry \in Nat \ {0}, NEW size \in Nat \ {0}
  PROVE  /\ SegmentsCount(geometry, size) \in Nat \ {0}
         /\ (SegmentsCount(geometry, size) - 1) * size < geometry
<1> DEFINE n == geometry + size - 1
           q == n \div size
<1>1. n \in Nat /\ n >= size
  OBVIOUS
<1>2. /\ q \in Int
      /\ n = size * q + (n % size)
      /\ n % size \in 0..(size - 1)
  BY <1>1
<1>3. q > 0
  <2>1. CASE q <= 0
    <3>1. size * q <= 0
      BY <2>1, <1>2
    <3> QED
      BY <3>1, <1>1, <1>2
  <2> QED
    BY <2>1, <1>2
<1>4. size * q <= n
  BY <1>1, <1>2
<1>5. (q - 1) * size = size * q - size
  BY <1>2
<1> HIDE DEF q
<1>6. size * q \in Int
  BY <1>2
<1>7. (q - 1) * size < geometry
  BY <1>4, <1>5, <1>6
<1> QED
  BY <1>2, <1>3, <1>7 DEF SegmentsCount, q

LEMMA SegmentsFinite ==
  ASSUME NEW block \in Block
  PROVE  /\ DOMAIN block.segments = 1..Len(block.segments)
         /\ Len(block.segments) \in Nat
         /\ IsFiniteSet(DOMAIN block.segments)
         /\ IsFiniteSet(Holes(block)) /\ Cardinality(Holes(block)) \in Nat
         /\ IsFiniteSet(Unasked(block)) /\ Cardinality(Unasked(block)) \in Nat
         /\ Unasked(block) \subseteq Holes(block)
<1>1. block.segments \in Seq(SegmentState)
  BY DEF Block
<1>2. DOMAIN block.segments = 1..Len(block.segments) /\ Len(block.segments) \in Nat
  BY <1>1, LenProperties
<1>3. IsFiniteSet(DOMAIN block.segments)
  BY <1>2, FS_Interval
<1>4. Holes(block) \subseteq DOMAIN block.segments
  BY DEF Holes
<1>5. Unasked(block) \subseteq Holes(block)
  BY <1>1 DEF Unasked, Holes, SegmentState
<1>6. IsFiniteSet(Holes(block))
  BY <1>3, <1>4, FS_Subset
<1>7. IsFiniteSet(Unasked(block))
  BY <1>5, <1>6, FS_Subset
<1> QED
  BY <1>2, <1>3, <1>5, <1>6, <1>7, FS_CardinalityType

\* mapMemory starts a block afresh.
LEMMA MapMemoryCounts ==
  ASSUME NEW block \in Block, block.geometry \in Geometries, block.segments = <<>>,
         NEW size \in Nat
  PROVE  /\ Counted(MapMemory(block, size))
         /\ NoGap(MapMemory(block, size))
         /\ MapMemory(block, size).geometry = block.geometry
         /\ MapMemory(block, size).memory = block.memory
         /\ MapMemory(block, size).leader = block.leader
<1> DEFINE count == SegmentsCount(block.geometry, size)
           new == MapMemory(block, size)
<1>1. CASE size = 0
  BY <1>1 DEF MapMemory, Counted, NoGap
<1>2. CASE size # 0
  <2>1. block.geometry \in Nat \ {0}
    BY ReceiverAssumption
  <2>2. count \in Nat \ {0}
    BY <1>2, <2>1, CountPositive
  <2> HIDE DEF count
  <2>3. new = [block EXCEPT !.size = Least(size, block.geometry),
                            !.segments = [i \in 1..count |-> "empty"],
                            !.empty = count,
                            !.asked = 0]
    BY <1>2 DEF MapMemory, count
  <2>4. [i \in 1..count |-> "empty"] \in Seq(SegmentState)
    BY <2>2, IsASeq DEF SegmentState
  <2>5. new \in Block
    <3> DEFINE b1 == [block EXCEPT !.size = Least(size, block.geometry)]
               b2 == [b1 EXCEPT !.segments = [i \in 1..count |-> "empty"]]
               b3 == [b2 EXCEPT !.empty = count]
               b4 == [b3 EXCEPT !.asked = 0]
    <3>1. Least(size, block.geometry) \in Nat
      BY <2>1 DEF Least
    <3>2. b1 \in Block
      BY <3>1 DEF Block
    <3> HIDE DEF b1
    <3>3. b2 \in Block
      BY <2>4, <3>2 DEF Block
    <3> HIDE DEF b2
    <3>4. b3 \in Block
      <4>1. count \in Int
        BY <2>2
      <4> QED
        BY <3>3, <4>1 DEF Block
    <3> HIDE DEF b3
    <3>5. b4 \in Block
      BY <3>4 DEF Block
    <3>6. new = b4
      BY <2>3 DEF b1, b2, b3
    <3> QED
      BY <3>5, <3>6
  <2>6. Holes(new) = 1..count /\ Unasked(new) = 1..count
    BY <2>3 DEF Holes, Unasked, Block
  <2>7. Cardinality(1..count) = count
    BY <2>2, FS_Interval
  <2>8. Len(new.segments) = count
    BY <2>2, <2>3, <2>4, LenProperties DEF Block
  <2>9. /\ new.geometry = block.geometry /\ new.memory = block.memory
        /\ new.leader = block.leader
        /\ new.empty = count /\ new.asked = 0
        /\ new.segments = [i \in 1..count |-> "empty"]
    BY <2>3 DEF Block
  <2>10. Counted(new)
    BY <2>2, <2>5, <2>6, <2>7, <2>8, <2>9 DEF Counted
  <2>11. NoGap(new)
    BY <2>9, <2>2 DEF NoGap
  <2> QED
    BY <2>9, <2>10, <2>11
<1> QED
  BY <1>1, <1>2

\* Copying a payload into a hole leaves one hole less.
LEMMA FillCounts ==
  ASSUME NEW block, Counted(block), NEW id, NEW size
  PROVE  /\ Counted(Fill(block, id, size))
         /\ Fill(block, id, size).geometry = block.geometry
         /\ Fill(block, id, size).memory = block.memory
         /\ DOMAIN Fill(block, id, size).segments = DOMAIN block.segments
         /\ \A i \in DOMAIN block.segments : i # id =>
              Fill(block, id, size).segments[i] = block.segments[i]
<1> DEFINE new == Fill(block, id, size)
<1> block \in Block
  BY DEF Counted
<1>1. CASE new = block
  BY <1>1
<1>2. CASE new # block
  <2>1. /\ id \in 1..Len(block.segments)
        /\ block.segments[id] # "filled"
        /\ new = [block EXCEPT !.segments[id] = "filled", !.empty = @ - 1]
    BY <1>2 DEF Fill
  <2> HIDE DEF new
  <2>2. block.segments \in Seq(SegmentState)
    BY DEF Block
  <2>3. /\ DOMAIN block.segments = 1..Len(block.segments)
        /\ Len(block.segments) \in Nat
    BY SegmentsFinite
  <2> DEFINE segments == [block.segments EXCEPT ![id] = "filled"]
  <2>4. segments \in Seq(SegmentState) /\ Len(segments) = Len(block.segments)
    BY <2>1, <2>2, ExceptSeq DEF SegmentState
  <2>5. /\ new.segments = segments
        /\ new.empty = block.empty - 1
        /\ new.asked = block.asked
        /\ new.geometry = block.geometry /\ new.memory = block.memory
    BY <2>1 DEF Block
  <2>6. new \in Block
    <3> DEFINE b1 == [block EXCEPT !.segments = segments]
    <3>1. b1 \in Block
      BY <2>4 DEF Block
    <3>2. b1.empty = block.empty
      BY DEF Block
    <3>3. new = [b1 EXCEPT !.empty = @ - 1]
      BY <2>1
    <3> HIDE DEF b1
    <3> QED
      BY <3>1, <3>3, SMTT(30) DEF Block
  <2>7. Holes(new) = Holes(block) \ {id} /\ id \in Holes(block)
    BY <2>1, <2>3, <2>5 DEF Holes
  <2>8. Unasked(new) \subseteq Unasked(block)
    BY <2>1, <2>3, <2>5 DEF Unasked
  <2>9. block.segments # <<>>
    BY <2>1, <2>3
  <2>10. Cardinality(Holes(new)) = Cardinality(Holes(block)) - 1
    BY <2>7, SegmentsFinite, FS_RemoveElement
  <2>11. Cardinality(Unasked(new)) <= Cardinality(Unasked(block))
    BY <2>8, SegmentsFinite, FS_Subset
  <2>12. Counted(new)
    <3>1. new.empty = Cardinality(Holes(new))
      BY <2>5, <2>9, <2>10 DEF Counted
    <3>2. /\ Cardinality(Unasked(new)) \in Nat
          /\ Cardinality(Unasked(block)) \in Nat
          /\ block.asked \in Nat
      BY <2>6, SegmentsFinite DEF Block
    <3>3. new.asked + Cardinality(Unasked(new)) <= Len(new.segments)
      BY <2>3, <2>4, <2>5, <2>9, <2>11, <3>2 DEF Counted
    <3> QED
      BY <2>5, <2>6, <3>1, <3>3 DEF Counted
  <2> QED
    BY <2>3, <2>4, <2>5, <2>12 DEF new
<1> QED
  BY <1>1, <1>2

\* Asking for the run below a packet moves it from one count to the other and
\* leaves no gap that was not there below the packet.
LEMMA DoResendCounts ==
  ASSUME NEW block, Counted(block), NEW id \in Nat
  PROVE  /\ Counted(DoResend(block, id))
         /\ DoResend(block, id).geometry = block.geometry
         /\ DoResend(block, id).memory = block.memory
         /\ InMap(block, id)
              /\ (\A j \in DOMAIN block.segments : j # id =>
                    \A i \in 1..j : block.segments[j] # "empty"
                                      => block.segments[i] # "empty")
              => NoGap(DoResend(block, id))
<1> DEFINE new == DoResend(block, id)
           missing == MissingBefore(block, id)
<1> block \in Block
  BY DEF Counted
<1>1. CASE ~InMap(block, id)
  BY <1>1 DEF DoResend
<1>2. CASE InMap(block, id)
  <2>1. block.segments \in Seq(SegmentState)
    BY DEF Block
  <2>2. /\ DOMAIN block.segments = 1..Len(block.segments)
        /\ Len(block.segments) \in Nat
    BY SegmentsFinite
  <2>3. missing \subseteq Unasked(block)
    BY <1>2, <2>2 DEF MissingBefore, Unasked, InMap
  <2>4. IsFiniteSet(missing) /\ Cardinality(missing) \in Nat
    BY <2>3, SegmentsFinite, FS_Subset, FS_CardinalityType
  <2> DEFINE segments == [i \in DOMAIN block.segments |->
                IF i \in missing THEN "askedAgain" ELSE block.segments[i]]
             count == Cardinality(missing)
  <2>5. new = [block EXCEPT !.segments = segments, !.asked = @ + count]
    BY <1>2 DEF DoResend
  <2>6. segments \in Seq(SegmentState) /\ Len(segments) = Len(block.segments)
    <3>1. \A i \in 1..Len(block.segments) : block.segments[i] \in SegmentState
      BY <2>1, <2>2, ElementOfSeq
    <3>2. segments = [i \in 1..Len(block.segments) |->
             IF i \in missing THEN "askedAgain" ELSE block.segments[i]]
      BY <2>2
    <3>3. \A i \in 1..Len(block.segments) :
            (IF i \in missing THEN "askedAgain" ELSE block.segments[i])
              \in SegmentState
      BY <3>1 DEF SegmentState
    <3>4. segments \in Seq(SegmentState)
      BY <2>2, <3>2, <3>3, IsASeq
    <3> QED
      BY <2>2, <3>2, <3>4, LenProperties
  <2> HIDE DEF new, missing
  <2>7. /\ new.segments = segments
        /\ new.asked = block.asked + count
        /\ new.empty = block.empty
        /\ new.geometry = block.geometry /\ new.memory = block.memory
    BY <2>5 DEF Block
  <2>8. new \in Block
    <3> DEFINE b1 == [block EXCEPT !.segments = segments]
    <3> HIDE DEF segments, count
    <3>1. b1 \in Block
      BY <2>6 DEF Block
    <3>2. new = [b1 EXCEPT !.asked = @ + count]
      BY <2>5
    <3>3. count \in Nat
      BY <2>4 DEF count
    <3> HIDE DEF b1
    <3> QED
      BY <3>1, <3>2, <3>3, SMTT(30) DEF Block
  <2>9. Holes(new) = Holes(block)
    BY <2>2, <2>3, <2>7 DEF Holes, Unasked
  <2>10. Unasked(new) = Unasked(block) \ missing
    BY <2>2, <2>3, <2>7 DEF Unasked
  <2>11. Cardinality(Unasked(new)) = Cardinality(Unasked(block)) - count
    <3>1. Unasked(block) \cap missing = missing
      BY <2>3
    <3> QED
      BY <2>10, <3>1, SegmentsFinite, FS_Difference
  <2>12. block.segments # <<>> <=> new.segments # <<>>
    BY <2>1, <2>2, <2>6, <2>7, EmptySeq
  <2>13. Counted(new)
    <3>1. /\ Cardinality(Unasked(block)) \in Nat
          /\ block.asked \in Nat
      BY SegmentsFinite DEF Block
    <3>2. new.segments # <<>> =>
            new.asked + Cardinality(Unasked(new)) <= Len(new.segments)
      BY <2>4, <2>6, <2>7, <2>11, <2>12, <3>1 DEF Counted
    <3> QED
      BY <2>7, <2>8, <2>9, <2>12, <3>2 DEF Counted
  <2>14. ASSUME \A j \in DOMAIN block.segments : j # id =>
                  \A i \in 1..j : block.segments[j] # "empty"
                                    => block.segments[i] # "empty"
         PROVE  NoGap(new)
    <3> SUFFICES ASSUME NEW j \in DOMAIN new.segments, NEW i \in 1..j,
                        new.segments[j] # "empty", new.segments[i] = "empty"
                 PROVE  FALSE
      BY DEF NoGap
    <3>1. j \in 1..Len(block.segments) /\ i \in 1..Len(block.segments)
      BY <2>2, <2>7
    <3>2. block.segments[i] = "empty" /\ i \notin missing
      BY <2>7, <3>1, <2>2
    <3>3. i # j
      BY <2>7
    <3>4. CASE j \in missing
      \* The run that holds j starts below i.
      <4>1. \A k \in j..(id - 1) : block.segments[k] = "empty"
        BY <3>4 DEF missing, MissingBefore
      <4>2. j <= id - 1
        BY <3>4, <3>1 DEF missing, MissingBefore
      <4>3. PICK k \in i..(id - 1) : block.segments[k] # "empty"
        BY <3>1, <3>2, <4>2 DEF missing, MissingBefore
      <4>4. k < j /\ k # id /\ k \in DOMAIN block.segments /\ i \in 1..k
        BY <2>2, <3>1, <4>1, <4>2, <4>3
      <4> QED
        BY <2>14, <3>2, <4>3, <4>4
    <3>5. CASE j \notin missing /\ j # id
      <4>1. block.segments[j] # "empty"
        BY <2>2, <2>7, <3>1, <3>5
      <4> QED
        BY <2>2, <2>14, <3>1, <3>2, <3>5, <4>1
    <3>6. CASE j = id
      <4>1. i \in 1..(id - 1)
        BY <3>1, <3>3, <3>6
      <4>2. PICK k \in i..(id - 1) : block.segments[k] # "empty"
        BY <3>2, <4>1 DEF missing, MissingBefore
      <4>3. k # id /\ k \in DOMAIN block.segments /\ i \in 1..k
        BY <2>2, <3>1, <3>6, <4>1, <4>2
      <4> QED
        BY <2>14, <3>2, <4>2, <4>3
    <3> QED
      BY <3>4, <3>5, <3>6
  <2> QED
    BY <2>7, <2>13, <2>14 DEF new
<1> QED
  BY <1>1, <1>2

\* A payload is inserted into a block with no gap; only its own segment may
\* then have a gap below.
LEMMA InsertCounts ==
  ASSUME NEW block, Counted(block), NEW id, NEW size \in Nat
  PROVE  LET new == InsertSegment(block, id, size)
         IN  /\ Counted(new)
             /\ new.geometry = block.geometry
             /\ new.memory = block.memory
             /\ NoGap(block) =>
                  \A j \in DOMAIN new.segments : j # id => \A i \in 1..j :
                    new.segments[j] # "empty" => new.segments[i] # "empty"
<1> DEFINE b0 == IF block.segments = <<>> THEN MapMemory(block, size) ELSE block
           new == Fill(b0, id, size)
<1> block \in Block
  BY DEF Counted
<1>1. /\ Counted(b0) /\ b0.geometry = block.geometry /\ b0.memory = block.memory
      /\ NoGap(block) => NoGap(b0)
  <2>1. CASE block.segments = <<>>
    BY <2>1, MapMemoryCounts DEF Counted
  <2>2. CASE block.segments # <<>>
    BY <2>2
  <2> QED
    BY <2>1, <2>2
<1>2. InsertSegment(block, id, size) = new
  BY DEF InsertSegment
<1>3. b0 \in Block
  BY <1>1 DEF Counted
<1> HIDE DEF b0
<1>4. /\ Counted(new) /\ new.geometry = block.geometry /\ new.memory = block.memory
      /\ DOMAIN new.segments = DOMAIN b0.segments
      /\ \A i \in DOMAIN b0.segments : i # id => new.segments[i] = b0.segments[i]
  BY <1>1, FillCounts
<1>5. new.segments = b0.segments
        \/ (id \in DOMAIN b0.segments /\ new.segments[id] = "filled")
  BY <1>3, SegmentsFinite DEF Fill, Block
<1>6. ASSUME NoGap(block)
      PROVE  \A j \in DOMAIN new.segments : j # id => \A i \in 1..j :
               new.segments[j] # "empty" => new.segments[i] # "empty"
  <2> SUFFICES ASSUME NEW j \in DOMAIN new.segments, j # id, NEW i \in 1..j,
                      new.segments[j] # "empty"
               PROVE  new.segments[i] # "empty"
    OBVIOUS
  <2>1. j \in DOMAIN b0.segments /\ i \in DOMAIN b0.segments
    BY <1>3, <1>4, SegmentsFinite
  <2>2. b0.segments[j] # "empty"
    BY <1>4, <2>1
  <2>3. b0.segments[i] # "empty"
    BY <1>1, <1>6, <2>1, <2>2 DEF NoGap
  <2> HIDE DEF new
  <2> QED
    BY <1>4, <1>5, <2>1, <2>3
<1> QED
  BY <1>2, <1>4, <1>6

\* A leader counts on the block it finds: the new geometry forgets the map.
LEMMA LeaderCounts ==
  ASSUME NEW block \in Block, NEW geometry \in Geometries, NEW memory \in Memory,
         block.geometry = 0 => block.segments = <<>>,
         block.geometry # 0 => Counted(block)
  PROVE  LET new == WithLeader(block, geometry, memory)
         IN  /\ Counted(new)
             /\ new.memory = memory
             /\ NoGap(block) => NoGap(new)
<1> DEFINE b0 == ChangeGeometry(block, geometry)
           b1 == [b0 EXCEPT !.memory = memory]
           b2 == [b1 EXCEPT !.leader = "filled"]
<1>1. /\ b0 \in Block /\ b0.geometry = geometry
      /\ b0.segments = <<>>
           \/ /\ b0.segments = block.segments /\ b0.empty = block.empty
              /\ b0.asked = block.asked /\ Counted(block)
  <2>1. CASE block.geometry = geometry
    <3>1. b0 = block /\ block.geometry # 0
      BY <2>1, ReceiverAssumption DEF ChangeGeometry
    <3> QED
      BY <2>1, <3>1
  <2>2. CASE block.geometry # geometry
    <3> DEFINE c0 == [block EXCEPT !.geometry = geometry]
               c1 == [c0 EXCEPT !.size = 0]
               c2 == [c1 EXCEPT !.segments = <<>>]
    <3>1. c0 \in Block /\ c0.geometry = geometry
      BY DEF Block
    <3> HIDE DEF c0
    <3>2. c1 \in Block /\ c1.geometry = geometry
      BY <3>1 DEF Block
    <3> HIDE DEF c1
    <3>3. c2 \in Block /\ c2.geometry = geometry /\ c2.segments = <<>>
      <4>1. <<>> \in Seq(SegmentState)
        OBVIOUS
      <4> QED
        BY <3>2, <4>1 DEF Block
    <3>4. b0 = c2
      BY <2>2 DEF ChangeGeometry, c0, c1
    <3> QED
      BY <3>3, <3>4
  <2> QED
    BY <2>1, <2>2
<1> HIDE DEF b0
<1>2. /\ b1 \in Block /\ b1.geometry = geometry /\ b1.memory = memory
      /\ b1.segments = b0.segments /\ b1.empty = b0.empty /\ b1.asked = b0.asked
  BY <1>1 DEF Block
<1> HIDE DEF b1
<1>3. /\ b2 \in Block /\ b2.geometry = geometry /\ b2.memory = memory
      /\ b2.segments = b0.segments /\ b2.empty = b0.empty /\ b2.asked = b0.asked
  <2>1. "filled" \in SegmentState
    BY DEF SegmentState
  <2> QED
    BY <1>2, <2>1 DEF Block
<1>4. b2 = WithLeader(block, geometry, memory)
  BY DEF WithLeader, b1, b0
<1> HIDE DEF b2
<1>5. Counted(b2)
  BY <1>1, <1>3 DEF Counted, Holes, Unasked
<1>6. NoGap(block) => NoGap(b2)
  BY <1>1, <1>3 DEF NoGap
<1> QED
  BY <1>3, <1>4, <1>5, <1>6

LEMMA AskLeaderCounts ==
  ASSUME NEW block, Counted(block)
  PROVE  LET new == AskLeader(block)
         IN  /\ Counted(new)
             /\ new.geometry = block.geometry /\ new.memory = block.memory
             /\ new.segments = block.segments
<1>1. CASE block.leader = "filled"
  BY <1>1 DEF AskLeader
<1>2. CASE block.leader # "filled"
  <2> DEFINE new == [block EXCEPT !.leader = "askedAgain"]
  <2>1. AskLeader(block) = new
    BY <1>2 DEF AskLeader
  <2>2. block \in Block
    BY DEF Counted
  <2>3. "askedAgain" \in SegmentState
    BY DEF SegmentState
  <2>4. /\ new \in Block
        /\ new.geometry = block.geometry /\ new.memory = block.memory
        /\ new.segments = block.segments /\ new.empty = block.empty
        /\ new.asked = block.asked
    BY <2>2, <2>3 DEF Block
  <2> HIDE DEF new
  <2>5. Counted(new)
    BY <2>4 DEF Counted, Holes, Unasked
  <2> QED
    BY <2>1, <2>4, <2>5
<1> QED
  BY <1>1, <1>2
-----------------------------------------------------------------------------
(* The handlers *)

\* The part of the invariant that is about the map of blocks.
MapInv ==
  /\ blocks = [id \in DOMAIN blocks |-> blocks[id]]
  /\ DOMAIN blocks \subseteq BlockIds
  /\ lent = DOMAIN blocks
  /\ \A id \in DOMAIN blocks : Counted(blocks[id]) /\ blocks[id].memory = id
  /\ Resend /\ ~wild => \A id \in DOMAIN blocks : NoGap(blocks[id])

LEMMA Ids ==
  ASSUME NEW id \in BlockIds
  PROVE  /\ NextBlockId(id) \in BlockIds
         /\ PreviousBlockId(id) \in BlockIds
         /\ NextBlockId(NextBlockId(id)) \in BlockIds
         /\ NextBlockId(id) # id
         /\ PreviousBlockId(id) # id
         /\ NextBlockId(NextBlockId(id)) # id
         /\ NextBlockId(NextBlockId(id)) # NextBlockId(id)
BY ReceiverAssumption DEF BlockIds, NextBlockId, PreviousBlockId

LEMMA NewBlockOK == NewBlock \in Block /\ NewBlock.geometry = 0
                    /\ NewBlock.segments = <<>>
<1>1. <<>> \in Seq(SegmentState)
  OBVIOUS
<1> QED
  BY <1>1 DEF NewBlock, Block, SegmentState, NoMemory

\* blocksMap.crbegin() exists: some open block has the highest id.
LEMMA GreatestId ==
  ASSUME NEW n \in Nat, NEW S, S \subseteq 1..n, S # {}
  PROVE  \E i \in S : \A j \in S : j <= i
<1> DEFINE T == {n - i : i \in S}
<1>1. T \subseteq Nat /\ T # {}
  <2>1. \A i \in S : i \in 1..n /\ n - i \in Nat
    OBVIOUS
  <2>2. T \subseteq Nat
    BY <2>1
  <2>3. PICK i \in S : TRUE
    OBVIOUS
  <2>4. n - i \in T
    BY <2>3
  <2> QED
    BY <2>2, <2>4
<1> DEFINE Less == OpToRel(<, Nat)
<1>2. \A x, y \in Nat : y < x => <<y, x>> \in Less
  BY DEF OpToRel
<1>3. IsWellFoundedOn(Less, Nat)
  BY NatLessThanWellFounded
<1> HIDE DEF T, Less
<1>4. PICK x \in T : \A y \in T : ~(<<y, x>> \in Less)
  BY <1>1, <1>3, WFMin
<1>5. PICK i \in S : x = n - i
  BY <1>4 DEF T
<1>6. ASSUME NEW j \in S
      PROVE  j <= i
  <2>1. n - j \in T
    BY DEF T
  <2>2. ~(n - j < x)
    BY <1>1, <1>2, <1>4, <2>1
  <2> QED
    BY <1>5, <2>2
<1> QED
  BY <1>6

\* A block opened with a geometry and a memory is well formed.
LEMMA OpenedOK ==
  ASSUME NEW geometry \in Geometries, NEW memory \in Memory
  PROVE  LET new == OpenWith(geometry, memory)
         IN  /\ Counted(new) /\ NoGap(new)
             /\ new.geometry = geometry /\ new.memory = memory
             /\ new.segments = <<>>
<1> DEFINE b1 == [NewBlock EXCEPT !.geometry = geometry]
           b2 == [b1 EXCEPT !.memory = memory]
<1>1. b1 \in Block /\ b1.geometry = geometry /\ b1.segments = <<>>
  BY NewBlockOK DEF Block
<1> HIDE DEF b1
<1>2. /\ b2 \in Block /\ b2.geometry = geometry /\ b2.segments = <<>>
      /\ b2.memory = memory
  BY <1>1 DEF Block
<1>3. b2 = OpenWith(geometry, memory)
  BY DEF OpenWith, b1
<1> HIDE DEF b2
<1>4. Counted(b2) /\ NoGap(b2)
  BY <1>2 DEF Counted, NoGap
<1> QED
  BY <1>2, <1>3, <1>4

LEMMA AllocateOwn ==
  ASSUME NEW held, NEW id \in BlockIds, id \notin held
  PROVE  Allocate(held, id) = id /\ id \in Memory
BY ReceiverAssumption DEF Allocate, BlockIds, Memory

\* The block a payload is inserted into: the open one, or one opened with the
\* geometry of another.
Receives(id, old) ==
  \/ id \in DOMAIN blocks /\ old = blocks[id]
  \/ /\ id \notin DOMAIN blocks
     /\ \E last \in DOMAIN blocks : old = OpenWith(blocks[last].geometry, id)

LEMMA Received ==
  ASSUME MapInv, NEW id \in BlockIds, DOMAIN blocks # {}
  PROVE  Receives(id, OpenBlock(id))
<1>1. CASE id \in DOMAIN blocks
  BY <1>1 DEF Receives, OpenBlock
<1>2. CASE id \notin DOMAIN blocks
  <2> DEFINE last == CHOOSE i \in DOMAIN blocks : \A j \in DOMAIN blocks : j <= i
  <2>1. DOMAIN blocks \subseteq 1..IdMax /\ IdMax \in Nat
    BY ReceiverAssumption DEF MapInv, BlockIds
  <2>2. last \in DOMAIN blocks
    BY <2>1, GreatestId
  <2>3. Allocate(lent, id) = id
    BY <1>2, AllocateOwn DEF MapInv
  <2>4. OpenBlock(id) = OpenWith(blocks[last].geometry, id)
    BY <1>2, <2>3 DEF OpenBlock
  <2> QED
    BY <1>2, <2>2, <2>4 DEF Receives
<1> QED
  BY <1>1, <1>2

LEMMA ReceivedCounts ==
  ASSUME MapInv, NEW id \in BlockIds, NEW old, Receives(id, old)
  PROVE  Counted(old) /\ old.memory = id /\ (Resend /\ ~wild => NoGap(old))
<1>1. CASE id \in DOMAIN blocks /\ old = blocks[id]
  BY <1>1 DEF MapInv
<1>2. CASE id \notin DOMAIN blocks
  <2>1. PICK last \in DOMAIN blocks : old = OpenWith(blocks[last].geometry, id)
    BY <1>2 DEF Receives
  <2>2. blocks[last].geometry \in Geometries /\ id \in Memory
    BY <1>2, AllocateOwn DEF MapInv, Counted
  <2> QED
    BY <2>1, <2>2, OpenedOK
<1> QED
  BY <1>1, <1>2 DEF Receives

\* A leader's block has the leader's geometry; the others stay.
LEMMA LeaderBlocks ==
  ASSUME NEW packet \in Packets, HandleLeader(packet)
  PROVE  /\ DOMAIN blocks' = DOMAIN blocks \cup {packet.block}
         /\ \A i \in DOMAIN blocks : i # packet.block => blocks'[i] = blocks[i]
         /\ \E memory :
              blocks'[packet.block]
                = WithLeader(IF packet.block \in DOMAIN blocks
                             THEN blocks[packet.block] ELSE NewBlock,
                             packet.geometry, memory)
         /\ UNCHANGED <<pushed, wild, misled>>
<1> DEFINE id == packet.block
           old == IF id \in DOMAIN blocks THEN blocks[id] ELSE NewBlock
           held == IF old.geometry # packet.geometry
                   THEN lent \ {old.memory} ELSE lent
           memory == IF old.geometry # packet.geometry
                     THEN Allocate(held, id) ELSE old.memory
           new == WithLeader(old, packet.geometry, memory)
<1>1. blocks' = Put(blocks, id, new) /\ UNCHANGED <<pushed, wild, misled>>
  BY DEF HandleLeader
<1>2. blocks'[id] = new
  BY <1>1 DEF Put
<1> QED
  BY <1>1, <1>2 DEF Put

\* A payload changes its own block, and the one before it.
LEMMA PayloadBlocks ==
  ASSUME MapInv, NEW packet \in Packets, HandlePayload(packet), DOMAIN blocks # {}
  PROVE  LET id == packet.block
             before == PreviousBlockId(id)
             old == OpenBlock(id)
             new == InsertSegment(old, packet.id, packet.size)
         IN  /\ Receives(id, old)
             /\ blocks' = [i \in DOMAIN blocks' |-> blocks'[i]]
             /\ lent' = lent \cup {old.memory}
             /\ DOMAIN blocks' = DOMAIN blocks \cup {id}
             /\ \A i \in DOMAIN blocks : i # id /\ i # before => blocks'[i] = blocks[i]
             /\ before \in DOMAIN blocks =>
                  blocks'[before] = IF Resend
                                    THEN DoResend(blocks[before], EndId(blocks[before]))
                                    ELSE blocks[before]
             /\ blocks'[id] = IF Resend THEN DoResend(AskLeader(new), packet.id)
                              ELSE new
             /\ wild' = (wild \/ (Resend /\ ~InMap(new, packet.id)))
             /\ misled' = (misled \/ (old.segments = <<>>
                                      /\ packet.size < Least(Payload, old.geometry)))
             /\ pushed' = pushed
<1> DEFINE id == packet.block
           before == PreviousBlockId(id)
           old == OpenBlock(id)
           new == InsertSegment(old, packet.id, packet.size)
           all == Put(blocks, id, new)
<1>1. id \in BlockIds /\ before # id
  BY Ids DEF Packets
<1>2. Receives(id, old)
  BY <1>1, Received
<1>3. /\ lent' = lent \cup {old.memory}
      /\ blocks' = IF Resend THEN AskMissing(all, id, packet.id) ELSE all
      /\ wild' = \/ wild
                 \/ /\ Resend
                    /\ \/ ~InMap(new, packet.id)
                       \/ /\ before \in DOMAIN all
                          /\ ~InMap(all[before], EndId(all[before]))
      /\ misled' = \/ misled
                   \/ /\ old.segments = <<>>
                      /\ packet.size < Least(Payload, old.geometry)
      /\ pushed' = pushed
  BY DEF HandlePayload
<1> HIDE DEF old, new
<1>4. /\ DOMAIN all = DOMAIN blocks \cup {id}
      /\ \A i \in DOMAIN all : all[i] = IF i = id THEN new ELSE blocks[i]
      /\ all = [i \in DOMAIN all |-> all[i]]
  BY DEF Put
<1> HIDE DEF all
<1>5. before \in DOMAIN all => InMap(all[before], EndId(all[before]))
  <2> SUFFICES ASSUME before \in DOMAIN all
               PROVE  InMap(all[before], EndId(all[before]))
    OBVIOUS
  <2>1. all[before] \in Block
    BY <1>1, <1>4 DEF MapInv, Counted
  <2>2. Len(all[before].segments) \in Nat
    BY <2>1, SegmentsFinite
  <2> QED
    BY <2>2 DEF InMap, EndId
<1>6. CASE Resend
  <2>1. blocks' = [i \in DOMAIN all |->
                     CASE i = before -> DoResend(all[i], EndId(all[i]))
                       [] i = id -> DoResend(AskLeader(all[i]), packet.id)
                       [] OTHER -> all[i]]
    BY <1>3, <1>6 DEF AskMissing
  <2> QED
    BY <1>1, <1>2, <1>3, <1>4, <1>5, <1>6, <2>1 DEF new, old
<1>7. CASE ~Resend
  BY <1>1, <1>2, <1>3, <1>4, <1>5, <1>7 DEF new, old
<1> QED
  BY <1>6, <1>7

\* A trailer closes the block before its own and keeps its own, when that is
\* open and not whole, and the two that follow.
LEMMA TrailerBlocks ==
  ASSUME MapInv, NEW packet \in Packets, HandleTrailer(packet)
  PROVE  LET id == packet.block
             before == PreviousBlockId(id)
             next == NextBlockId(id)
             afterNext == NextBlockId(next)
         IN  /\ blocks' = [i \in DOMAIN blocks' |-> blocks'[i]]
             /\ lent' = DOMAIN blocks'
             /\ (wild' <=> wild) /\ misled' = misled
             /\ \/ /\ id \notin DOMAIN blocks
                   /\ DOMAIN blocks' = DOMAIN blocks \ {before}
                   /\ \A i \in DOMAIN blocks' : blocks'[i] = blocks[i]
                \/ /\ id \in DOMAIN blocks
                   /\ DOMAIN blocks' = {next, afterNext}
                        \cup (IF blocks[id].empty = 0 THEN {} ELSE {id})
                   /\ \A i \in {next, afterNext} :
                        blocks'[i] = IF i \in DOMAIN blocks THEN blocks[i]
                                     ELSE MapMemory(OpenWith(blocks[id].geometry, i),
                                                    blocks[id].size)
                   /\ id \in DOMAIN blocks' =>
                        blocks'[id] = IF Resend
                                      THEN DoResend(blocks[id], EndId(blocks[id]))
                                      ELSE blocks[id]
<1> DEFINE id == packet.block
           before == PreviousBlockId(id)
           next == NextBlockId(id)
           afterNext == NextBlockId(next)
           held == IF before \in DOMAIN blocks
                   THEN lent \ {blocks[before].memory} ELSE lent
           open == Erase(blocks, before)
<1>1. /\ id \in BlockIds /\ next \in BlockIds /\ afterNext \in BlockIds
      /\ before # id /\ next # id /\ afterNext # id /\ next # afterNext
      /\ before # next /\ before # afterNext
  <2>1. id \in BlockIds
    BY DEF Packets
  <2> QED
    BY <2>1, Ids, ReceiverAssumption
       DEF BlockIds, NextBlockId, PreviousBlockId
<1>2. /\ DOMAIN open = DOMAIN blocks \ {before}
      /\ \A i \in DOMAIN open : open[i] = blocks[i]
      /\ open = [i \in DOMAIN open |-> open[i]]
      /\ held = DOMAIN open
  BY DEF Erase, MapInv
<1>3. CASE id \notin DOMAIN open
  <2>1. blocks' = open /\ lent' = held /\ UNCHANGED <<wild, misled>>
    BY <1>3 DEF HandleTrailer
  <2> HIDE DEF open, held
  <2> QED
    BY <1>1, <1>2, <1>3, <2>1
<1>4. CASE id \in DOMAIN open
  <2> DEFINE current == open[id]
             whole == current.empty = 0
             kept == IF whole THEN {next, afterNext} ELSE {id, next, afterNext}
             opened == {next, afterNext} \ DOMAIN open
             first == Allocate(held, next)
             second == Allocate(held \cup {first : i \in opened \ {afterNext}},
                                afterNext)
             New(i) == MapMemory(OpenWith(current.geometry,
                                          IF i = next THEN first ELSE second),
                                 current.size)
             Own == IF Resend THEN DoResend(current, EndId(current)) ELSE current
             dropped == (DOMAIN open \ kept) \cup (IF whole THEN {id} ELSE {})
  <2>1. /\ blocks' = [i \in kept |-> CASE i \in opened -> New(i)
                                       [] i = id -> Own
                                       [] OTHER -> open[i]]
        /\ lent' = (held \cup {New(i).memory : i \in opened})
                     \ {open[i].memory : i \in dropped}
        /\ wild' = (wild \/ (Resend /\ ~whole /\ ~InMap(current, EndId(current))))
        /\ misled' = misled
    BY <1>4 DEF HandleTrailer
  <2>2. /\ current = blocks[id] /\ current \in Block
        /\ current.geometry \in Geometries /\ current.size \in Nat
        /\ \A i \in DOMAIN open : open[i].memory = i
    BY <1>2, <1>4 DEF MapInv, Counted, Block
  <2>3. InMap(current, EndId(current))
    BY <2>2, SegmentsFinite DEF InMap, EndId
  <2> HIDE DEF open, held, current
  \* Each new block gets the memory named after it.
  <2>4. ASSUME NEW i \in opened
        PROVE  /\ New(i) = MapMemory(OpenWith(current.geometry, i), current.size)
               /\ New(i).memory = i
    <3>1. next \in opened => first = next
      BY <1>1, <1>2, AllocateOwn
    <3>2. afterNext \in opened => second = afterNext
      <4>1. SUFFICES ASSUME afterNext \in opened
                     PROVE  afterNext \notin held \cup {first : j \in opened \ {afterNext}}
        BY <1>1, AllocateOwn
      <4>2. opened \ {afterNext} = {} \/ next \in opened
        OBVIOUS
      <4> QED
        BY <1>1, <1>2, <3>1, <4>1, <4>2
    <3>3. (IF i = next THEN first ELSE second) = i /\ i \in Memory
      BY <1>1, <3>1, <3>2, ReceiverAssumption DEF BlockIds, Memory
    <3>4. New(i) = MapMemory(OpenWith(current.geometry, i), current.size)
      BY <3>3
    <3> DEFINE b0 == OpenWith(current.geometry, i)
    <3>5. /\ b0.geometry \in Geometries /\ b0.memory = i
          /\ b0.segments = <<>> /\ b0 \in Block
      BY <2>2, <3>3, OpenedOK DEF Counted
    <3> HIDE DEF b0
    <3>6. MapMemory(b0, current.size).memory = i
      BY <2>2, <3>5, MapMemoryCounts
    <3> QED
      BY <3>4, <3>6 DEF b0
  <2> HIDE DEF New
  <2>5. lent' = kept
    <3>1. {New(i).memory : i \in opened} = opened
      BY <2>4
    <3>2. {open[i].memory : i \in dropped} = dropped
      BY <1>4, <2>2
    <3>3. (DOMAIN open \cup opened) \ dropped = kept
      BY <1>4, <1>1
    <3> QED
      BY <1>2, <2>1, <3>1, <3>2, <3>3
  <2>6. /\ DOMAIN blocks' = kept
        /\ blocks' = [i \in DOMAIN blocks' |-> blocks'[i]]
        /\ \A i \in kept : blocks'[i] = IF i \in opened THEN New(i)
                                        ELSE IF i = id THEN Own ELSE open[i]
    BY <1>4, <2>1
  <2>7. wild' <=> wild
    BY <2>1, <2>3
  <2>8. ASSUME NEW i \in {next, afterNext}
        PROVE  blocks'[i] = IF i \in DOMAIN blocks THEN blocks[i]
                            ELSE MapMemory(OpenWith(blocks[id].geometry, i),
                                           blocks[id].size)
    <3>1. i \in kept /\ i # before /\ i # id
      BY <1>1
    <3>2. i \in opened <=> i \notin DOMAIN blocks
      BY <1>2, <3>1
    <3>3. i \in DOMAIN blocks => open[i] = blocks[i]
      BY <1>2, <3>1
    <3> HIDE DEF opened
    <3> QED
      BY <2>2, <2>4, <2>6, <3>1, <3>2, <3>3
  <2>9. id \in kept => blocks'[id] = IF Resend
                                    THEN DoResend(blocks[id], EndId(blocks[id]))
                                    ELSE blocks[id]
    <3>1. id \notin opened
      BY <1>4
    <3> QED
      BY <2>2, <2>6, <3>1
  <2>10. kept = {next, afterNext} \cup (IF blocks[id].empty = 0 THEN {} ELSE {id})
    BY <2>2
  <2>11. id \in DOMAIN blocks
    BY <1>2, <1>4
  <2> HIDE DEF kept, opened
  <2> QED
    BY <2>1, <2>5, <2>6, <2>7, <2>8, <2>9, <2>10, <2>11
<1> QED
  BY <1>3, <1>4

Images == [block : BlockIds, whole : BOOLEAN, full : BOOLEAN]

LEMMA Appended ==
  ASSUME NEW images \in Seq(Images), NEW image \in Images
  PROVE  /\ images \o <<image>> \in Seq(Images)
         /\ images \o <<>> = images
         /\ DOMAIN (images \o <<image>>) = 1..(Len(images) + 1)
         /\ Len(images) \in Nat /\ DOMAIN images = 1..Len(images)
         /\ \A k \in 1..Len(images) : (images \o <<image>>)[k] = images[k]
         /\ (images \o <<image>>)[Len(images) + 1] = image
<1> HIDE DEF Images
<1>1. /\ <<image>> \in Seq(Images) /\ Len(<<image>>) = 1 /\ <<image>>[1] = image
      /\ <<>> \in Seq(Images) /\ Len(<<>>) = 0
  OBVIOUS
<1>2. /\ images \o <<image>> \in Seq(Images)
      /\ Len(images \o <<image>>) = Len(images) + 1
      /\ \A i \in 1 .. Len(images) + 1 :
           (images \o <<image>>)[i] = IF i <= Len(images) THEN images[i]
                                      ELSE <<image>>[i - Len(images)]
  BY <1>1, ConcatProperties
<1>3. Len(images) \in Nat /\ DOMAIN images = 1..Len(images)
  BY LenProperties
<1>4. DOMAIN (images \o <<image>>) = 1..(Len(images) + 1)
  BY <1>2, LenProperties
<1>5. images \o <<>> = images
  BY ConcatEmptySeq
<1> QED
  BY <1>1, <1>2, <1>3, <1>4, <1>5

\* What a trailer leaves open, and what it hands over: the block before its own,
\* when that was open, and its own, when that is whole.
HandsOver(id) ==
  LET before == PreviousBlockId(id)
      next == NextBlockId(id)
  IN  /\ DOMAIN blocks' \subseteq
           (DOMAIN blocks \ {before}) \cup {next, NextBlockId(next)}
      /\ \E one, two \in Images, own \in BOOLEAN :
           /\ one.block = before /\ two.block = id
           /\ own => id \notin DOMAIN blocks'
           /\ pushed' = (IF before \in DOMAIN blocks THEN pushed \o <<one>>
                         ELSE pushed)
                          \o (IF own THEN <<two>> ELSE <<>>)

LEMMA TrailerOpens ==
  ASSUME MapInv, NEW packet \in Packets, HandleTrailer(packet),
         pushed \in Seq(Images)
  PROVE  HandsOver(packet.block)
<1> USE DEF HandsOver
<1> DEFINE id == packet.block
           before == PreviousBlockId(id)
           next == NextBlockId(id)
           afterNext == NextBlockId(next)
           open == Erase(blocks, before)
           current == open[id]
           behind == IF before \in DOMAIN blocks
                     THEN <<Image(before, blocks[before], FALSE)>> ELSE <<>>
           one == Image(before, blocks[before], FALSE)
           two == Image(id, current, TRUE)
<1>1. id \in BlockIds /\ before \in BlockIds /\ before # id
      /\ next # id /\ afterNext # id
  BY Ids DEF Packets
<1>2. one \in Images /\ two \in Images /\ one.block = before /\ two.block = id
  BY <1>1 DEF Image, Images
<1>3. DOMAIN open = DOMAIN blocks \ {before}
  BY DEF Erase
<1>4. CASE id \notin DOMAIN open
  <2>1. blocks' = open /\ pushed' = pushed \o behind \o <<>>
    BY <1>4 DEF HandleTrailer, HandOver
  <2>2. pushed \o <<>> = pushed
    BY ConcatEmptySeq
  <2>3. pushed' = (IF before \in DOMAIN blocks THEN pushed \o <<one>> ELSE pushed)
                    \o <<>>
    BY <2>1, <2>2
  <2> QED
    BY <1>2, <1>3, <2>1, <2>3
<1>5. CASE id \in DOMAIN open
  <2> DEFINE whole == current.empty = 0
             kept == IF whole THEN {next, afterNext} ELSE {id, next, afterNext}
  <2>1. /\ DOMAIN blocks' = kept
        /\ pushed' = pushed \o behind \o (IF whole THEN <<two>> ELSE <<>>)
    BY <1>5 DEF HandleTrailer, HandOver
  <2>2. pushed \o <<>> = pushed
    BY ConcatEmptySeq
  <2>3. pushed' = (IF before \in DOMAIN blocks THEN pushed \o <<one>> ELSE pushed)
                    \o (IF whole THEN <<two>> ELSE <<>>)
    BY <2>1, <2>2
  <2>4. whole => id \notin kept
    BY <1>1
  <2>5. kept \subseteq (DOMAIN blocks \ {before}) \cup {next, afterNext}
    BY <1>3, <1>5
  <2> HIDE DEF one, two, kept
  <2>6. whole \in BOOLEAN
    OBVIOUS
  <2> QED
    BY <1>2, <2>1, <2>3, <2>4, <2>5, <2>6
<1> QED
  BY <1>4, <1>5

LEMMA LeaderNext ==
  ASSUME MapInv, NEW packet \in Packets, packet.kind = "leader",
         HandleLeader(packet)
  PROVE  MapInv'
<1> DEFINE id == packet.block
           old == IF id \in DOMAIN blocks THEN blocks[id] ELSE NewBlock
           changed == old.geometry # packet.geometry
           held == IF changed THEN lent \ {old.memory} ELSE lent
           memory == IF changed THEN Allocate(held, id) ELSE old.memory
           new == WithLeader(old, packet.geometry, memory)
<1>1. id \in BlockIds /\ packet.geometry \in Geometries
  BY DEF Packets
<1>2. /\ old \in Block
      /\ old.geometry = 0 => old.segments = <<>>
      /\ old.geometry # 0 => Counted(old)
      /\ Resend /\ ~wild => NoGap(old)
  <2>1. CASE id \in DOMAIN blocks
    BY <2>1, ReceiverAssumption DEF MapInv, Counted
  <2>2. CASE id \notin DOMAIN blocks
    BY <2>2, NewBlockOK DEF NoGap
  <2> QED
    BY <2>1, <2>2
<1>3. memory = id /\ id \in Memory /\ held \cup {memory} = DOMAIN blocks \cup {id}
  <2>1. CASE id \in DOMAIN blocks
    <3>1. old.memory = id /\ lent = DOMAIN blocks
      BY <2>1 DEF MapInv
    <3>2. CASE changed
      <4>1. id \notin held
        BY <3>1, <3>2
      <4>2. memory = id /\ id \in Memory
        BY <1>1, <3>2, <4>1, AllocateOwn
      <4> QED
        BY <2>1, <3>1, <3>2, <4>2
    <3>3. CASE ~changed
      BY <1>1, <2>1, <3>1, <3>3, ReceiverAssumption DEF BlockIds, Memory
    <3> QED
      BY <3>2, <3>3
  <2>2. CASE id \notin DOMAIN blocks
    <3>1. changed
      BY <1>1, <2>2, NewBlockOK, ReceiverAssumption
    <3>2. old.memory = 0
      BY <2>2 DEF NewBlock, NoMemory
    <3>3. held = DOMAIN blocks
      BY <3>1, <3>2 DEF MapInv, BlockIds
    <3>4. memory = id /\ id \in Memory
      BY <1>1, <2>2, <3>1, <3>3, AllocateOwn
    <3> QED
      BY <3>3, <3>4
  <2> QED
    BY <2>1, <2>2
<1>4. blocks' = Put(blocks, id, new) /\ lent' = held \cup {memory} /\ wild' = wild
  BY DEF HandleLeader
<1> HIDE DEF old, memory, held
<1>5. Counted(new) /\ new.memory = id /\ (Resend /\ ~wild => NoGap(new))
  BY <1>1, <1>2, <1>3, LeaderCounts
<1> HIDE DEF new
<1>6. /\ DOMAIN blocks' = DOMAIN blocks \cup {id}
      /\ \A i \in DOMAIN blocks' : blocks'[i] = IF i = id THEN new ELSE blocks[i]
      /\ blocks' = [i \in DOMAIN blocks' |-> blocks'[i]]
  BY <1>4 DEF Put
<1> QED
  BY <1>1, <1>3, <1>4, <1>5, <1>6 DEF MapInv

LEMMA PayloadNext ==
  ASSUME MapInv, NEW packet \in Packets, HandlePayload(packet)
  PROVE  MapInv'
<1>1. CASE DOMAIN blocks = {}
  <2>1. UNCHANGED <<blocks, lent, wild>>
    BY <1>1 DEF HandlePayload
  <2> QED
    BY <2>1 DEF MapInv
<1>2. CASE DOMAIN blocks # {}
  <2> DEFINE id == packet.block
             before == PreviousBlockId(id)
             old == OpenBlock(id)
             new == InsertSegment(old, packet.id, packet.size)
  <2>1. id \in BlockIds /\ packet.id \in Nat /\ packet.size \in Nat
    BY DEF Packets
  <2>2. /\ Receives(id, old)
        /\ blocks' = [i \in DOMAIN blocks' |-> blocks'[i]]
        /\ lent' = lent \cup {old.memory}
        /\ DOMAIN blocks' = DOMAIN blocks \cup {id}
        /\ \A i \in DOMAIN blocks : i # id /\ i # before => blocks'[i] = blocks[i]
        /\ before \in DOMAIN blocks =>
             blocks'[before] = IF Resend
                               THEN DoResend(blocks[before], EndId(blocks[before]))
                               ELSE blocks[before]
        /\ blocks'[id] = IF Resend THEN DoResend(AskLeader(new), packet.id) ELSE new
        /\ wild' = (wild \/ (Resend /\ ~InMap(new, packet.id)))
    BY <1>2, PayloadBlocks
  <2> HIDE DEF old
  <2>3. /\ Counted(old) /\ old.memory = id
        /\ Resend /\ ~wild => NoGap(old)
    BY <2>1, <2>2, ReceivedCounts
  <2>4. /\ Counted(new) /\ new.memory = id
        /\ Resend /\ ~wild =>
             \A j \in DOMAIN new.segments : j # packet.id => \A i \in 1..j :
               new.segments[j] # "empty" => new.segments[i] # "empty"
    BY <2>1, <2>3, InsertCounts
  <2> HIDE DEF new
  <2>5. ASSUME NEW i \in DOMAIN blocks
        PROVE  /\ Counted(blocks[i]) /\ blocks[i].memory = i
               /\ Resend /\ ~wild => NoGap(blocks[i])
               /\ EndId(blocks[i]) \in Nat /\ InMap(blocks[i], EndId(blocks[i]))
    BY SegmentsFinite DEF MapInv, Counted, EndId, InMap
  <2>6. ASSUME NEW i \in DOMAIN blocks'
        PROVE  /\ Counted(blocks'[i]) /\ blocks'[i].memory = i
               /\ Resend /\ ~wild' => NoGap(blocks'[i])
    <3>1. CASE i = id /\ Resend
      <4> DEFINE asked == AskLeader(new)
      <4>1. Counted(asked) /\ asked.memory = id /\ asked.segments = new.segments
        BY <2>4, AskLeaderCounts
      <4>2. blocks'[i] = DoResend(asked, packet.id)
        BY <2>2, <3>1
      <4>3. ~wild' => InMap(asked, packet.id) /\ ~wild
        BY <2>2, <3>1, <4>1 DEF InMap
      <4>4. ~wild' => \A j \in DOMAIN asked.segments : j # packet.id =>
              \A k \in 1..j : asked.segments[j] # "empty"
                                => asked.segments[k] # "empty"
        BY <2>4, <3>1, <4>1, <4>3
      <4> HIDE DEF asked
      <4> QED
        BY <2>1, <3>1, <4>1, <4>2, <4>3, <4>4, DoResendCounts
    <3>2. CASE i = before /\ i # id /\ Resend
      <4> DEFINE b == blocks[i]
                 last == EndId(b)
      <4>1. /\ Counted(b) /\ b.memory = i /\ last \in Nat /\ InMap(b, last)
            /\ blocks'[i] = DoResend(b, last)
        BY <2>2, <2>5, <3>2
      <4>2. ~wild' => \A j \in DOMAIN b.segments : j # last =>
              \A k \in 1..j : b.segments[j] # "empty" => b.segments[k] # "empty"
        BY <2>2, <2>5, <3>2 DEF NoGap
      <4> HIDE DEF b, last
      <4> QED
        BY <4>1, <4>2, DoResendCounts
    <3>3. CASE i = id /\ ~Resend
      BY <2>2, <2>4, <3>3
    <3>4. CASE i # id /\ (i # before \/ ~Resend)
      BY <2>2, <2>5, <3>4
    <3> QED
      BY <3>1, <3>2, <3>3, <3>4
  <2>7. lent' = DOMAIN blocks' /\ DOMAIN blocks' \subseteq BlockIds
    BY <2>1, <2>2, <2>3 DEF MapInv
  <2> QED
    BY <2>2, <2>6, <2>7 DEF MapInv
<1> QED
  BY <1>1, <1>2

LEMMA TrailerNext ==
  ASSUME MapInv, NEW packet \in Packets, HandleTrailer(packet)
  PROVE  MapInv'
<1> DEFINE id == packet.block
           before == PreviousBlockId(id)
           next == NextBlockId(id)
           afterNext == NextBlockId(next)
<1>1. /\ id \in BlockIds /\ next \in BlockIds /\ afterNext \in BlockIds
      /\ id \in Memory /\ next \in Memory /\ afterNext \in Memory
  <2>1. id \in BlockIds
    BY DEF Packets
  <2>2. BlockIds \subseteq Memory
    BY ReceiverAssumption DEF BlockIds, Memory
  <2> QED
    BY <2>1, <2>2, Ids
<1>2. /\ blocks' = [i \in DOMAIN blocks' |-> blocks'[i]]
      /\ lent' = DOMAIN blocks'
      /\ (wild' <=> wild)
      /\ \/ /\ DOMAIN blocks' = DOMAIN blocks \ {before}
            /\ \A i \in DOMAIN blocks' : blocks'[i] = blocks[i]
         \/ /\ id \in DOMAIN blocks
            /\ DOMAIN blocks' = {next, afterNext}
                 \cup (IF blocks[id].empty = 0 THEN {} ELSE {id})
            /\ \A i \in {next, afterNext} :
                 blocks'[i] = IF i \in DOMAIN blocks THEN blocks[i]
                              ELSE MapMemory(OpenWith(blocks[id].geometry, i),
                                             blocks[id].size)
            /\ id \in DOMAIN blocks' =>
                 blocks'[id] = IF Resend
                               THEN DoResend(blocks[id], EndId(blocks[id]))
                               ELSE blocks[id]
  BY TrailerBlocks
<1>3. ASSUME NEW i \in DOMAIN blocks
      PROVE  /\ Counted(blocks[i]) /\ blocks[i].memory = i
             /\ blocks[i].geometry \in Geometries /\ blocks[i].size \in Nat
             /\ Resend /\ ~wild => NoGap(blocks[i])
  BY DEF MapInv, Counted, Block
<1>4. ASSUME id \in DOMAIN blocks, NEW i \in {next, afterNext}
      PROVE  LET new == MapMemory(OpenWith(blocks[id].geometry, i), blocks[id].size)
             IN  Counted(new) /\ new.memory = i /\ NoGap(new)
  <2> DEFINE b0 == OpenWith(blocks[id].geometry, i)
             size == blocks[id].size
  <2>1. /\ b0 \in Block /\ b0.geometry \in Geometries /\ b0.memory = i
        /\ b0.segments = <<>> /\ size \in Nat
    BY <1>1, <1>3, <1>4, OpenedOK DEF Counted
  <2> HIDE DEF b0, size
  <2>2. /\ Counted(MapMemory(b0, size)) /\ MapMemory(b0, size).memory = i
        /\ NoGap(MapMemory(b0, size))
    BY <2>1, MapMemoryCounts
  <2> QED
    BY <2>2 DEF b0, size
<1>5. ASSUME id \in DOMAIN blocks
      PROVE  LET new == DoResend(blocks[id], EndId(blocks[id]))
             IN  Counted(new) /\ new.memory = id /\ (Resend /\ ~wild => NoGap(new))
  <2> DEFINE b == blocks[id]
             last == EndId(b)
  <2>1. /\ Counted(b) /\ b.memory = id /\ (Resend /\ ~wild => NoGap(b))
        /\ last \in Nat /\ InMap(b, last)
    BY <1>3, <1>5, SegmentsFinite DEF Counted, EndId, InMap
  <2> HIDE DEF b, last
  <2>2. /\ Counted(DoResend(b, last)) /\ DoResend(b, last).memory = id
        /\ Resend /\ ~wild => NoGap(DoResend(b, last))
    BY <2>1, DoResendCounts DEF NoGap
  <2> QED
    BY <2>2 DEF b, last
<1>6. ASSUME NEW i \in DOMAIN blocks'
      PROVE  /\ i \in BlockIds
             /\ Counted(blocks'[i]) /\ blocks'[i].memory = i
             /\ Resend /\ ~wild' => NoGap(blocks'[i])
  <2>1. i \in BlockIds
    BY <1>1, <1>2 DEF MapInv
  <2>2. CASE i \in DOMAIN blocks /\ blocks'[i] = blocks[i]
    BY <1>2, <1>3, <2>1, <2>2
  <2>3. CASE /\ id \in DOMAIN blocks /\ i \in {next, afterNext}
             /\ blocks'[i] = MapMemory(OpenWith(blocks[id].geometry, i),
                                       blocks[id].size)
    BY <1>4, <2>1, <2>3
  <2>4. CASE /\ id \in DOMAIN blocks /\ i = id
             /\ blocks'[i] = DoResend(blocks[id], EndId(blocks[id]))
    BY <1>2, <1>5, <2>1, <2>4
  <2> QED
    BY <1>2, <2>2, <2>3, <2>4
<1> QED
  BY <1>2, <1>6 DEF MapInv

\* The images handed over by a trailer are images.
LEMMA PushedNext ==
  ASSUME MapInv, NEW packet \in Packets, HandleTrailer(packet),
         pushed \in Seq(Images)
  PROVE  pushed' \in Seq(Images)
<1> DEFINE before == PreviousBlockId(packet.block)
<1>1. \E one, two \in Images, own \in BOOLEAN :
        pushed' = (IF before \in DOMAIN blocks THEN pushed \o <<one>> ELSE pushed)
                    \o (IF own THEN <<two>> ELSE <<>>)
  BY TrailerOpens DEF HandsOver
<1>2. PICK one \in Images, two \in Images, own \in BOOLEAN :
        pushed' = (IF before \in DOMAIN blocks THEN pushed \o <<one>> ELSE pushed)
                    \o (IF own THEN <<two>> ELSE <<>>)
  BY <1>1
<1> DEFINE behind == IF before \in DOMAIN blocks THEN pushed \o <<one>> ELSE pushed
<1>3. behind \in Seq(Images)
  BY <1>2, Appended
<1>4. pushed' = behind \o (IF own THEN <<two>> ELSE <<>>)
  BY <1>2
<1> HIDE DEF behind
<1> QED
  BY <1>2, <1>3, <1>4, Appended

\* What the camera sends is a packet, and it knows what it sends next.
LEMMA CameraNext ==
  ASSUME ReceiverInv, NEW geometry \in Geometry, Advance(geometry)
  PROVE  /\ Packet(geometry) \in Packets
         /\ camera'.block \in BlockIds /\ camera'.sent \in Nat
         /\ camera'.packet \in Nat /\ camera'.geometry \in Geometries \cup {0}
         /\ camera' = [block |-> camera'.block, sent |-> camera'.sent,
                       packet |-> camera'.packet, geometry |-> camera'.geometry]
         /\ camera'.packet > 0 => /\ camera'.geometry \in Geometries
                                  /\ camera'.packet <= TrailerId(camera'.geometry)
<1> DEFINE last == TrailerId(geometry)
           id == camera.packet
<1>1. /\ camera.block \in BlockIds /\ camera.sent \in Nat /\ id \in Nat
      /\ camera = [block |-> camera.block, sent |-> camera.sent,
                   packet |-> camera.packet, geometry |-> camera.geometry]
  BY DEF ReceiverInv, TypeOK
<1>2. geometry \in Geometries
  BY <1>1 DEF Geometry, ReceiverInv
<1>3. geometry \in Nat \ {0} /\ Payload \in Nat \ {0}
  BY <1>2, ReceiverAssumption
<1>4. /\ last \in Nat /\ last >= 2
      /\ (last - 2) * Payload < geometry
  BY <1>3, CountPositive DEF TrailerId
<1>5. id <= last
  BY <1>1, <1>4 DEF Geometry, ReceiverInv
<1> HIDE DEF last
<1>6. ASSUME id \in 1..(last - 1)
      PROVE  PacketSize(geometry, id) \in Nat
  <2>1. id - 1 \in Nat /\ last - 2 \in Nat /\ id - 1 <= last - 2
    BY <1>1, <1>4, <1>6
  <2>2. \A a, b, c \in Nat : a <= b => a * c <= b * c
    OBVIOUS
  <2>3. (id - 1) * Payload <= (last - 2) * Payload
    BY <1>3, <2>1, <2>2
  <2>4. (id - 1) * Payload \in Int /\ (last - 2) * Payload \in Int
    BY <1>3, <2>1
  <2>5. geometry - (id - 1) * Payload \in Nat
    BY <1>3, <1>4, <2>3, <2>4
  <2> QED
    BY <1>3, <2>5 DEF PacketSize, Least
<1>7. Packet(geometry) \in Packets
  <2>2. (IF id \in 1..(last - 1) THEN PacketSize(geometry, id) ELSE 0) \in Nat
    BY <1>6
  <2> DEFINE kind == CASE id = 0 -> "leader"
                       [] id = last -> "trailer"
                       [] OTHER -> "payload"
  <2>3. kind \in {"leader", "payload", "trailer"}
    BY <1>1, <1>4
  <2> HIDE DEF kind
  <2>4. Packet(geometry) =
          [block |-> camera.block, kind |-> kind, id |-> id,
           geometry |-> geometry,
           size |-> IF id \in 1..(last - 1) THEN PacketSize(geometry, id) ELSE 0]
    BY DEF Packet, kind, last
  <2> QED
    BY <1>1, <1>2, <2>2, <2>3, <2>4 DEF Packets
<1>8. CASE id = last
  <2>1. camera' = [block |-> NextBlockId(camera.block), sent |-> camera.sent + 1,
                   packet |-> 0, geometry |-> 0]
    BY <1>8 DEF Advance, last
  <2> QED
    BY <1>1, <1>7, <2>1, Ids
<1>9. CASE id # last
  <2>1. camera' = [camera EXCEPT !.packet = @ + 1, !.geometry = geometry]
    BY <1>9 DEF Advance, last
  <2>2. camera' = [block |-> camera.block, sent |-> camera.sent,
                   packet |-> id + 1, geometry |-> geometry]
    BY <1>1, <2>1
  <2>3. id + 1 <= last
    BY <1>1, <1>4, <1>5, <1>9
  <2> QED
    BY <1>1, <1>2, <1>7, <2>2, <2>3 DEF last
<1> QED
  BY <1>8, <1>9
-----------------------------------------------------------------------------
(* The invariant *)

\* The other variables have their types after every packet.
LEMMA HandleTypes ==
  ASSUME ReceiverInv, NEW packet \in Packets, Handle(packet)
  PROVE  /\ MapInv' /\ thread' = "reading"
         /\ pushed' \in Seq([block : BlockIds, whole : BOOLEAN, full : BOOLEAN])
         /\ wild' \in BOOLEAN /\ misled' \in BOOLEAN /\ outgrown' \in BOOLEAN
         /\ streak' \in (BlockIds \X Nat) \cup {<<>>}
         /\ complete' \in BlockIds \cup {0}
<1>1. MapInv
  BY DEF ReceiverInv, TypeOK, MapInv, Counted, NoGap, CountsTrue,
         HolesAsked
<1>2. /\ packet.block \in BlockIds /\ packet.id \in Nat
      /\ packet.kind \in {"leader", "payload", "trailer"}
  BY DEF Packets
<1>3. /\ streak' \in (BlockIds \X Nat) \cup {<<>>}
      /\ complete' \in BlockIds \cup {0}
      /\ thread' = "reading"
  BY <1>2 DEF Handle
<1>8. outgrown' \in BOOLEAN
  BY Zenon DEF Handle, Outgrows
<1>4. /\ pushed \in Seq([block : BlockIds, whole : BOOLEAN, full : BOOLEAN])
      /\ wild \in BOOLEAN /\ misled \in BOOLEAN
  BY DEF ReceiverInv, TypeOK
<1>5. CASE packet.kind = "leader"
  <2>1. HandleLeader(packet)
    BY <1>5 DEF Handle
  <2> QED
    BY <1>1, <1>3, <1>4, <1>5, <1>8, <2>1, LeaderNext DEF HandleLeader
<1>6. CASE packet.kind = "payload"
  <2>1. HandlePayload(packet)
    BY <1>6 DEF Handle
  <2>2. pushed' = pushed /\ wild' \in BOOLEAN /\ misled' \in BOOLEAN
    BY <1>4, <2>1, Zenon DEF HandlePayload
  <2> QED
    BY <1>1, <1>3, <1>4, <1>8, <2>1, <2>2, PayloadNext
<1>7. CASE packet.kind = "trailer"
  <2>1. HandleTrailer(packet)
    BY <1>7 DEF Handle
  <2>2. wild' \in BOOLEAN /\ misled' \in BOOLEAN
    BY <1>4, <2>1, Zenon DEF HandleTrailer
  <2> QED
    BY <1>1, <1>3, <1>4, <1>8, <2>1, <2>2, TrailerNext, PushedNext DEF Images
<1> QED
  BY <1>2, <1>5, <1>6, <1>7

\* The other parts of the invariant: the thread and what it has done, the
\* camera, the network.
ThreadInv ==
  /\ pushed \in Seq([block : BlockIds, whole : BOOLEAN, full : BOOLEAN])
  /\ thread \in {"idle", "reading", "ended"}
  /\ wild \in BOOLEAN /\ misled \in BOOLEAN /\ outgrown \in BOOLEAN
  /\ streak \in (BlockIds \X Nat) \cup {<<>>}
  /\ complete \in BlockIds \cup {0}

CameraInv ==
  /\ camera.block \in BlockIds /\ camera.sent \in Nat /\ camera.packet \in Nat
  /\ camera.geometry \in Geometries \cup {0}
  /\ camera = [block |-> camera.block, sent |-> camera.sent,
               packet |-> camera.packet, geometry |-> camera.geometry]
  /\ camera.packet > 0 => /\ camera.geometry \in Geometries
                          /\ camera.packet <= TrailerId(camera.geometry)

NetworkInv == late \in BOOLEAN /\ delayed \subseteq Packets /\ delays \in Nat

\* The parts make the invariant.
LEMMA InvFromParts == MapInv /\ ThreadInv /\ CameraInv /\ NetworkInv => ReceiverInv
<1> SUFFICES ASSUME MapInv, ThreadInv, CameraInv, NetworkInv
             PROVE  ReceiverInv
  OBVIOUS
<1>1. blocks \in [DOMAIN blocks -> Block]
  BY DEF MapInv, Counted
<1>2. lent \subseteq Memory
  BY ReceiverAssumption DEF MapInv, BlockIds, Memory
<1>3. TypeOK
  BY <1>1, <1>2 DEF TypeOK, MapInv, ThreadInv, CameraInv, NetworkInv
<1>4. CountsTrue
  BY DEF MapInv, Counted, CountsTrue
<1>5. HolesAsked
  BY DEF MapInv, NoGap, HolesAsked
<1> QED
  BY <1>3, <1>4, <1>5 DEF ReceiverInv, MapInv, Counted, CameraInv

LEMMA InvFromPartsNext ==
  MapInv' /\ ThreadInv' /\ CameraInv' /\ NetworkInv' => ReceiverInv'
BY InvFromParts, PTL

LEMMA InitInv == Init => ReceiverInv
<1> SUFFICES ASSUME Init
             PROVE  ReceiverInv
  OBVIOUS
<1>1. MapInv
  BY DEF Init, MapInv
<1>2. ThreadInv
  <2>1. pushed \in Seq([block : BlockIds, whole : BOOLEAN, full : BOOLEAN])
    BY DEF Init
  <2>2. streak \in (BlockIds \X Nat) \cup {<<>>}
    BY DEF Init
  <2>3. /\ thread \in {"idle", "reading", "ended"}
        /\ wild \in BOOLEAN /\ misled \in BOOLEAN /\ outgrown \in BOOLEAN
        /\ complete \in BlockIds \cup {0}
    BY Zenon DEF Init
  <2> QED
    BY <2>1, <2>2, <2>3 DEF ThreadInv
<1>3. CameraInv
  <2>1. camera \in [block : {1, IdMax}, sent : {0}, packet : {0}, geometry : {0}]
    BY DEF Init
  <2>2. /\ camera.block \in BlockIds /\ camera.sent = 0 /\ camera.packet = 0
        /\ camera.geometry = 0
    BY <2>1, ReceiverAssumption DEF BlockIds
  <2>3. camera = [block |-> camera.block, sent |-> camera.sent,
                  packet |-> camera.packet, geometry |-> camera.geometry]
    BY <2>1
  <2> QED
    BY <2>2, <2>3 DEF CameraInv
<1>4. NetworkInv
  BY DEF Init, NetworkInv
<1> QED
  BY <1>1, <1>2, <1>3, <1>4, InvFromParts

\* preallocImages opens blocks 1 and 2, each with its memory.
LEMMA PreallocNext ==
  ASSUME MapInv, PreallocImages
  PROVE  MapInv'
<1>1. PICK geometry \in Geometries :
        LET first == Allocate(lent, 1)
            second == Allocate(lent \cup {first}, 2)
        IN  /\ blocks' = [i \in {1, 2} |->
                 MapMemory(OpenWith(geometry, IF i = 1 THEN first ELSE second),
                           Payload)]
            /\ lent' = lent \cup {first, second}
  BY DEF PreallocImages
<1>2. lent = {} /\ 1 \in BlockIds /\ 2 \in BlockIds /\ Payload \in Nat
  BY ReceiverAssumption DEF PreallocImages, MapInv, BlockIds
<1>3. /\ Allocate(lent, 1) = 1 /\ Allocate(lent \cup {1}, 2) = 2
      /\ 1 \in Memory /\ 2 \in Memory
  BY <1>2, AllocateOwn
<1>4. /\ blocks' = [i \in {1, 2} |-> MapMemory(OpenWith(geometry, i), Payload)]
      /\ lent' = {1, 2}
  BY <1>1, <1>2, <1>3
<1>5. ASSUME NEW i \in {1, 2}
      PROVE  /\ Counted(blocks'[i]) /\ blocks'[i].memory = i /\ NoGap(blocks'[i])
  <2> DEFINE b0 == OpenWith(geometry, i)
  <2>1. /\ Counted(b0) /\ b0.memory = i /\ b0.segments = <<>> /\ b0 \in Block
        /\ b0.geometry \in Geometries
    BY <1>3, OpenedOK DEF Counted
  <2>2. blocks'[i] = MapMemory(b0, Payload)
    BY <1>4
  <2> HIDE DEF b0
  <2> QED
    BY <1>2, <2>1, <2>2, MapMemoryCounts
<1>6. DOMAIN blocks' = {1, 2} /\ blocks' = [i \in DOMAIN blocks' |-> blocks'[i]]
  BY <1>4
<1> QED
  BY <1>2, <1>4, <1>5, <1>6 DEF MapInv

LEMMA MapInvOf == ReceiverInv => MapInv
BY DEF ReceiverInv, TypeOK, MapInv, Counted, NoGap, CountsTrue, HolesAsked

LEMMA NextInv == ReceiverInv /\ [Next]_vars => ReceiverInv'
<1> SUFFICES ASSUME ReceiverInv, [Next]_vars
             PROVE  ReceiverInv'
  OBVIOUS
<1>1. ThreadInv /\ CameraInv /\ NetworkInv
  BY DEF ReceiverInv, TypeOK, ThreadInv, CameraInv, NetworkInv
<1>2. MapInv
  BY DEF ReceiverInv, TypeOK, MapInv, Counted, NoGap, CountsTrue,
         HolesAsked
<1>3. MapInv' /\ ThreadInv' /\ CameraInv' /\ NetworkInv' => ReceiverInv'
  BY InvFromPartsNext
<1>4. CASE PreallocImages
  <2>1. MapInv'
    BY <1>2, <1>4, PreallocNext
  <2> QED
    BY <1>1, <1>3, <1>4, <2>1
       DEF PreallocImages, stream, ThreadInv, CameraInv, NetworkInv
<1>5. CASE Lose
  <2>1. PICK geometry \in Geometry : Advance(geometry)
    BY <1>5 DEF Lose
  <2>2. CameraInv'
    BY <2>1, CameraNext DEF CameraInv
  <2>3. UNCHANGED <<blocks, lent, pushed, thread, wild, streak, complete, misled,
                    outgrown, delayed, delays, late>>
    BY <1>5 DEF Lose
  <2>4. MapInv' /\ ThreadInv' /\ NetworkInv'
    BY <1>1, <1>2, <2>3 DEF MapInv, ThreadInv, NetworkInv
  <2> QED
    BY <1>3, <2>2, <2>4
<1>6. CASE Receive
  <2>1. PICK geometry \in Geometry :
          Advance(geometry) /\ Handle(Packet(geometry))
    BY <1>6 DEF Receive
  <2>2. CameraInv' /\ Packet(geometry) \in Packets
    BY <2>1, CameraNext DEF CameraInv
  <2>3. MapInv' /\ ThreadInv'
    BY <2>1, <2>2, HandleTypes DEF ThreadInv
  <2>4. NetworkInv'
    BY <1>1, <1>6 DEF Receive, NetworkInv
  <2> QED
    BY <1>3, <2>2, <2>3, <2>4
<1>7. CASE Delay
  <2>1. PICK geometry \in Geometry :
          /\ Advance(geometry)
          /\ \/ Handle(Packet(geometry))
             \/ UNCHANGED <<blocks, lent, pushed, thread, wild, streak, complete,
                            misled, outgrown>>
          /\ delayed' = delayed \cup {Packet(geometry)}
    BY <1>7 DEF Delay
  <2>2. CameraInv' /\ Packet(geometry) \in Packets
    BY <2>1, CameraNext DEF CameraInv
  <2>3. MapInv' /\ ThreadInv'
    <3>1. CASE Handle(Packet(geometry))
      BY <2>2, <3>1, HandleTypes DEF ThreadInv
    <3>2. CASE UNCHANGED <<blocks, lent, pushed, thread, wild, streak, complete,
                           misled, outgrown>>
      BY <1>1, <1>2, <3>2 DEF MapInv, ThreadInv
    <3> QED
      BY <2>1, <3>1, <3>2
  <2>4. NetworkInv'
    BY <1>1, <1>7, <2>1, <2>2 DEF Delay, NetworkInv
  <2> QED
    BY <1>3, <2>2, <2>3, <2>4
<1>8. CASE ReceiveLate
  <2>1. PICK packet \in delayed : Handle(packet) /\ delayed' = delayed \ {packet}
    BY <1>8 DEF ReceiveLate
  <2>2. packet \in Packets
    BY <1>1, <2>1 DEF NetworkInv
  <2>3. MapInv' /\ ThreadInv'
    BY <2>1, <2>2, HandleTypes DEF ThreadInv
  <2>4. late' = TRUE /\ UNCHANGED <<camera, delays>>
    BY <1>8 DEF ReceiveLate
  <2>5. CameraInv' /\ NetworkInv'
    BY <1>1, <2>1, <2>4 DEF CameraInv, NetworkInv
  <2> QED
    BY <1>3, <2>3, <2>5
<1>9. CASE Close
  <2>1. lent' = {}
    BY <1>2, <1>9 DEF Close, MapInv
  <2>2. blocks' = [i \in {} |-> NewBlock]
    BY <1>9 DEF Close
  <2>3. MapInv'
    BY <2>1, <2>2 DEF MapInv
  <2> QED
    BY <1>1, <1>3, <1>9, <2>3
       DEF Close, stream, ThreadInv, CameraInv, NetworkInv
<1>10. CASE UNCHANGED vars
  <2>1. MapInv' /\ ThreadInv' /\ CameraInv' /\ NetworkInv'
    BY <1>1, <1>2, <1>10 DEF vars, MapInv, ThreadInv, CameraInv, NetworkInv
  <2> QED
    BY <1>3, <2>1
<1> QED
  BY <1>4, <1>5, <1>6, <1>7, <1>8, <1>9, <1>10 DEF Next

\* The invariant holds of every stream: whatever the camera's geometries, and
\* whatever the network loses, repeats or delays.
THEOREM Invariance == Spec => []ReceiverInv
<1>1. ReceiverInv /\ [Next]_vars => ReceiverInv'
  BY NextInv
<1> QED
  BY InitInv, <1>1, PTL DEF Spec

\* The variables have their types.
THEOREM TypeCorrect == Spec => []TypeOK
<1>1. ReceiverInv => TypeOK
  BY DEF ReceiverInv
<1> QED
  BY Invariance, <1>1, PTL

\* What a block counts as empty is what it has not received, and no segment is
\* asked for twice.
THEOREM Counts == Spec => []CountsTrue
<1>1. ReceiverInv => CountsTrue
  BY DEF ReceiverInv
<1> QED
  BY Invariance, <1>1, PTL

\* With the resend policy on, every hole below a segment received or asked for
\* has been asked for.
THEOREM Holed == Spec => []HolesAsked
<1>1. ReceiverInv => HolesAsked
  BY DEF ReceiverInv
<1> QED
  BY Invariance, <1>1, PTL

\* Every memory is owned by exactly one open block until it is given back.
THEOREM Ownership == Spec => []MemoryOwned
<1>1. ReceiverInv => MemoryOwned
  <2> SUFFICES ASSUME ReceiverInv
               PROVE  MemoryOwned
    OBVIOUS
  <2>1. \A id \in DOMAIN blocks : blocks[id].memory = id
    BY DEF ReceiverInv
  <2>2. lent = DOMAIN blocks
    BY DEF ReceiverInv
  <2> QED
    BY <2>1, <2>2 DEF MemoryOwned
<1> QED
  BY Invariance, <1>1, PTL
-----------------------------------------------------------------------------
(* The order of the images *)

\* How many ids a block's id is after the one the stream started with: the
\* camera of the standard starts with 1, others after a wrap.
Pos(s, id) == IF s = IdMax /\ id = IdMax THEN 0 ELSE id

\* The stream is too short to come round to its first id again.
CountInv(s) ==
  /\ camera.sent <= MaxBlocks
  /\ Pos(s, camera.block) = IF s = 1 THEN camera.sent + 1 ELSE camera.sent

\* Until a packet comes late: no block is open beyond the one after the camera's;
\* what was handed over is older than the camera's block, closed, and in order.
Climbs(s, images, end) ==
  /\ \A k \in DOMAIN images : Pos(s, images[k].block) < end
  /\ \A i, j \in DOMAIN images :
       i < j => Pos(s, images[i].block) < Pos(s, images[j].block)

OrderInv(s) ==
  ~late =>
    /\ \A id \in DOMAIN blocks : Pos(s, id) <= Pos(s, camera.block) + 1
    /\ Climbs(s, pushed, Pos(s, camera.block))
    /\ \A k \in DOMAIN pushed : pushed[k].block \notin DOMAIN blocks

LEMMA Positions ==
  ASSUME NEW s \in {1, IdMax}, NEW id \in BlockIds
  PROVE  /\ Pos(s, id) \in 0..IdMax
         /\ \A other \in BlockIds : Pos(s, id) = Pos(s, other) => id = other
         /\ Pos(s, id) <= MaxBlocks =>
              /\ Pos(s, NextBlockId(id)) = Pos(s, id) + 1
              /\ Pos(s, NextBlockId(NextBlockId(id))) = Pos(s, id) + 2
              /\ Pos(s, PreviousBlockId(id)) = Pos(s, id) - 1
                   \/ Pos(s, PreviousBlockId(id)) > Pos(s, id) + 1
BY ReceiverAssumption DEF Pos, BlockIds, NextBlockId, PreviousBlockId

\* A step of the system, seen from the camera: it sends its next packet, which
\* may arrive and may be held back.
Sends(geometry) ==
  /\ geometry \in Geometry
  /\ Advance(geometry)
  /\ \/ Handle(Packet(geometry))
     \/ UNCHANGED <<blocks, lent, pushed, thread, wild, streak, complete, misled,
                    outgrown>>
  /\ delayed' \subseteq delayed \cup {Packet(geometry)}
  /\ late' = late

LEMMA Steps ==
  ASSUME [Next]_vars
  PROVE  \/ PreallocImages
         \/ \E geometry \in Geometry : Sends(geometry)
         \/ ReceiveLate
         \/ Close
         \/ UNCHANGED vars
<1>1. ASSUME Lose
      PROVE  \E geometry \in Geometry : Sends(geometry)
  BY <1>1 DEF Lose, Sends
<1>2. ASSUME Receive
      PROVE  \E geometry \in Geometry : Sends(geometry)
  BY <1>2 DEF Receive, Sends
<1>3. ASSUME Delay
      PROVE  \E geometry \in Geometry : Sends(geometry)
  BY <1>3 DEF Delay, Sends
<1> QED
  BY <1>1, <1>2, <1>3 DEF Next

\* The camera goes on in its block, or to the next block after the trailer.
LEMMA CameraBlock ==
  ASSUME ReceiverInv, NEW geometry \in Geometry, Advance(geometry)
  PROVE  /\ Packet(geometry) \in Packets /\ Packet(geometry).block = camera.block
         /\ camera.sent < MaxBlocks
         /\ \/ camera'.block = camera.block /\ camera'.sent = camera.sent
               /\ Packet(geometry).kind # "trailer"
            \/ camera'.block = NextBlockId(camera.block)
               /\ camera'.sent = camera.sent + 1
<1>1. Packet(geometry) \in Packets
  BY CameraNext
<1>2. Packet(geometry).block = camera.block
      /\ (Packet(geometry).kind = "trailer" => camera.packet = TrailerId(geometry))
  BY DEF Packet
<1>3. CASE camera.packet = TrailerId(geometry)
  BY <1>1, <1>2, <1>3 DEF Advance
<1>4. CASE camera.packet # TrailerId(geometry)
  <2>1. camera = [block |-> camera.block, sent |-> camera.sent,
                  packet |-> camera.packet, geometry |-> camera.geometry]
    BY DEF ReceiverInv, TypeOK
  <2>2. camera' = [camera EXCEPT !.packet = @ + 1, !.geometry = geometry]
    BY <1>4 DEF Advance
  <2>3. camera'.block = camera.block /\ camera'.sent = camera.sent
    BY <2>1, <2>2
  <2> QED
    BY <1>1, <1>2, <1>4, <2>3 DEF Advance
<1> QED
  BY <1>3, <1>4

LEMMA CountStep ==
  ASSUME ReceiverInv, NEW s \in {1, IdMax}, CountInv(s), [Next]_vars
  PROVE  CountInv(s)'
<1>1. /\ camera.block \in BlockIds /\ camera.sent \in Nat
  BY DEF ReceiverInv, TypeOK
<1>2. CASE camera' = camera
  BY <1>2 DEF CountInv
<1>3. ASSUME NEW geometry \in Geometry, Advance(geometry)
      PROVE  CountInv(s)'
  <2>1. CASE camera'.block = camera.block /\ camera'.sent = camera.sent
    BY <2>1 DEF CountInv, Pos
  <2>2. CASE camera'.block = NextBlockId(camera.block)
             /\ camera'.sent = camera.sent + 1
    <3>1. camera.sent < MaxBlocks
      BY <1>3, CameraBlock
    <3>2. Pos(s, camera.block) <= MaxBlocks
      BY <1>1, <3>1, ReceiverAssumption DEF CountInv
    <3>3. Pos(s, NextBlockId(camera.block)) = Pos(s, camera.block) + 1
      BY <1>1, <3>2, Positions
    <3>4. Pos(s, camera'.block) = Pos(s, camera.block) + 1
      BY <2>2, <3>3
    <3> QED
      BY <1>1, <2>2, <3>1, <3>4, ReceiverAssumption DEF CountInv, Pos
  <2> QED
    BY <1>3, <2>1, <2>2, CameraBlock
<1>4. camera' = camera \/ \E geometry \in Geometry : Advance(geometry)
  BY Steps DEF PreallocImages, Sends, ReceiveLate, Close, stream, vars
<1> QED
  BY <1>2, <1>3, <1>4

\* An image put behind older ones.
LEMMA ClimbsOn ==
  ASSUME NEW s \in {1, IdMax}, NEW images \in Seq(Images), NEW image \in Images,
         Climbs(s, images, Pos(s, image.block))
  PROVE  Climbs(s, images \o <<image>>, Pos(s, image.block) + 1)
<1> DEFINE all == images \o <<image>>
           n == Len(images)
           P(k) == Pos(s, all[k].block)
           last == Pos(s, image.block)
<1>1. /\ DOMAIN all = 1..(n + 1) /\ n \in Nat /\ DOMAIN images = 1..n
      /\ \A k \in 1..n : all[k] = images[k]
      /\ all[n + 1] = image
  BY Appended
<1>2. \A k \in 1..n : images[k] \in Images
  BY <1>1, ElementOfSeq
<1>3. last \in Int /\ \A k \in 1..n : Pos(s, images[k].block) \in Int
  <2>1. \A one \in Images : one.block \in BlockIds
    BY DEF Images
  <2>2. \A id \in BlockIds : Pos(s, id) \in Int
    <3> TAKE id \in BlockIds
    <3>1. Pos(s, id) \in 0..IdMax
      BY Positions
    <3> QED
      BY <3>1
  <2> QED
    BY <1>2, <2>1, <2>2
<1> HIDE DEF all, n, last
<1>4. /\ \A k \in 1..n : P(k) \in Int /\ P(k) < last
      /\ \A i, j \in 1..n : i < j => P(i) < P(j)
      /\ P(n + 1) = last
  BY <1>1, <1>3 DEF Climbs, last
<1> HIDE DEF P
<1>5. /\ \A k \in 1..(n + 1) : P(k) < last + 1
      /\ \A i, j \in 1..(n + 1) : i < j => P(i) < P(j)
  <2>1. \A k \in 1..(n + 1) : k \in 1..n \/ k = n + 1
    BY <1>1
  <2>2. \A i, j \in 1..(n + 1) : i < j => i \in 1..n
    BY <1>1
  <2> QED
    BY <1>3, <1>4, <2>1, <2>2
<1> QED
  BY <1>1, <1>5 DEF Climbs, P, all, last

\* The other packets open their own block at most, and hand nothing over.
LEMMA OthersOpen ==
  ASSUME NEW packet \in Packets, Handle(packet), packet.kind # "trailer"
  PROVE  /\ DOMAIN blocks' \subseteq DOMAIN blocks \cup {packet.block}
         /\ pushed' = pushed
<1>1. packet.kind \in {"leader", "payload", "trailer"}
  BY DEF Packets
<1>2. CASE packet.kind = "leader"
  BY <1>2 DEF Handle, HandleLeader, Put
<1>3. CASE packet.kind = "payload"
  <2>1. HandlePayload(packet)
    BY <1>3 DEF Handle
  <2>2. CASE DOMAIN blocks = {}
    BY <2>1, <2>2 DEF HandlePayload
  <2>3. CASE DOMAIN blocks # {}
    <3> DEFINE all == Put(blocks, packet.block,
                          InsertSegment(OpenBlock(packet.block), packet.id,
                                        packet.size))
    <3>1. /\ pushed' = pushed
          /\ blocks' = IF Resend THEN AskMissing(all, packet.block, packet.id)
                       ELSE all
      BY <2>1, <2>3 DEF HandlePayload
    <3>2. DOMAIN all = DOMAIN blocks \cup {packet.block}
      BY DEF Put
    <3>3. DOMAIN AskMissing(all, packet.block, packet.id) = DOMAIN all
      BY DEF AskMissing
    <3> HIDE DEF all
    <3> QED
      BY <3>1, <3>2, <3>3
  <2> QED
    BY <2>2, <2>3
<1> QED
  BY <1>1, <1>2, <1>3

\* A packet of the camera's block, in its order.
LEMMA OrderHandled ==
  ASSUME ReceiverInv, NEW s \in {1, IdMax}, CountInv(s), OrderInv(s), ~late,
         NEW geometry \in Geometry, Advance(geometry), Handle(Packet(geometry))
  PROVE  LET end == Pos(s, camera'.block)
         IN  /\ \A id \in DOMAIN blocks' : Pos(s, id) <= end + 1
             /\ Climbs(s, pushed', end)
             /\ \A k \in DOMAIN pushed' : pushed'[k].block \notin DOMAIN blocks'
<1> DEFINE packet == Packet(geometry)
           now == camera.block
           before == PreviousBlockId(now)
           next == NextBlockId(now)
           afterNext == NextBlockId(next)
           P(id) == Pos(s, id)
<1>1. /\ packet \in Packets /\ packet.block = now /\ camera.sent < MaxBlocks
      /\ \/ camera'.block = now /\ packet.kind # "trailer"
         \/ camera'.block = next
  BY CameraBlock
<1>2. /\ now \in BlockIds /\ before \in BlockIds /\ next \in BlockIds
      /\ afterNext \in BlockIds /\ before # now
  BY Ids DEF ReceiverInv, TypeOK
<1>3. camera.sent \in Nat /\ DOMAIN blocks \subseteq BlockIds /\ pushed \in Seq(Images)
  BY DEF ReceiverInv, TypeOK, Images
<1>4. /\ \A id \in BlockIds : P(id) \in Int
      /\ \A i, j \in BlockIds : P(i) = P(j) => i = j
      /\ P(next) = P(now) + 1 /\ P(afterNext) = P(now) + 2
      /\ P(before) = P(now) - 1 \/ P(before) > P(now) + 1
  <2>1. P(now) <= MaxBlocks
    BY <1>1, <1>3, ReceiverAssumption DEF CountInv
  <2> QED
    BY <1>2, <2>1, Positions
<1>5. /\ \A id \in DOMAIN blocks : P(id) <= P(now) + 1
      /\ Climbs(s, pushed, P(now))
      /\ \A k \in DOMAIN pushed : pushed[k].block \notin DOMAIN blocks
  BY DEF OrderInv
<1>6. ASSUME NEW k \in DOMAIN pushed
      PROVE  pushed[k].block \in BlockIds /\ P(pushed[k].block) < P(now)
  <2>1. pushed[k] \in Images
    BY <1>3, LenProperties, ElementOfSeq
  <2> QED
    BY <1>5, <2>1 DEF Climbs, Images
<1> HIDE DEF packet, P, next, afterNext, before
<1>7. CASE packet.kind # "trailer"
  <2>1. DOMAIN blocks' \subseteq DOMAIN blocks \cup {now} /\ pushed' = pushed
    BY <1>1, <1>7, OthersOpen DEF packet
  <2>2. P(camera'.block) \in {P(now), P(now) + 1}
    BY <1>1, <1>4
  <2>3. \A id \in DOMAIN blocks' : P(id) <= P(camera'.block) + 1
    BY <1>2, <1>3, <1>4, <1>5, <2>1, <2>2
  <2>4. Climbs(s, pushed', P(camera'.block))
    BY <1>2, <1>4, <1>5, <1>6, <2>1, <2>2 DEF Climbs, P
  <2>5. ASSUME NEW k \in DOMAIN pushed'
        PROVE  pushed'[k].block \notin DOMAIN blocks'
    <3>1. k \in DOMAIN pushed /\ pushed'[k] = pushed[k]
      BY <2>1
    <3>2. P(now) \in Int
      BY <1>2, <1>4
    <3>3. pushed[k].block # now
      BY <1>6, <3>1, <3>2
    <3> QED
      BY <1>5, <2>1, <3>1, <3>3
  <2> QED
    BY <2>3, <2>4, <2>5 DEF P
<1>8. CASE packet.kind = "trailer"
  <2>1. HandleTrailer(packet) /\ camera'.block = next
    BY <1>1, <1>8 DEF Handle, packet
  <2>2. MapInv
    BY DEF ReceiverInv, TypeOK, MapInv, Counted, NoGap, CountsTrue, HolesAsked
  <2>3. /\ DOMAIN blocks' \subseteq (DOMAIN blocks \ {before}) \cup {next, afterNext}
        /\ \E one, two \in Images, own \in BOOLEAN :
             /\ one.block = before /\ two.block = now
             /\ own => now \notin DOMAIN blocks'
             /\ pushed' = (IF before \in DOMAIN blocks THEN pushed \o <<one>>
                           ELSE pushed)
                            \o (IF own THEN <<two>> ELSE <<>>)
    <3>1. HandsOver(packet.block)
      BY <1>1, <1>3, <2>1, <2>2, TrailerOpens
    <3>2. HandsOver(now)
      BY <1>1, <3>1
    <3> QED
      BY <3>2 DEF HandsOver, before, next, afterNext
  <2>4. PICK one \in Images, two \in Images, own \in BOOLEAN :
          /\ one.block = before /\ two.block = now
          /\ own => now \notin DOMAIN blocks'
          /\ pushed' = (IF before \in DOMAIN blocks THEN pushed \o <<one>>
                        ELSE pushed)
                         \o (IF own THEN <<two>> ELSE <<>>)
    BY <2>3
  <2> DEFINE behind == IF before \in DOMAIN blocks THEN pushed \o <<one>> ELSE pushed
  \* Among what was handed over, nothing is open any more.
  <2>5. /\ behind \in Seq(Images) /\ Climbs(s, behind, P(now))
        /\ \A k \in DOMAIN behind : behind[k].block \notin DOMAIN blocks'
    <3>1. CASE before \notin DOMAIN blocks
      BY <1>2, <1>3, <1>4, <1>5, <1>6, <2>3, <3>1
    <3>2. CASE before \in DOMAIN blocks
      <4>1. P(before) = P(now) - 1
        BY <1>2, <1>4, <1>5, <3>2
      <4>2. Climbs(s, pushed, P(before))
        <5>1. ASSUME NEW k \in DOMAIN pushed
              PROVE  P(pushed[k].block) < P(before)
          BY <1>2, <1>4, <1>5, <1>6, <3>2, <4>1
        <5> QED
          BY <1>5, <5>1 DEF Climbs, P
      <4>3. behind \in Seq(Images) /\ Climbs(s, behind, P(now))
        <5>1. Climbs(s, pushed \o <<one>>, P(before) + 1)
          BY <1>3, <2>4, <4>2, ClimbsOn DEF P
        <5>2. P(before) + 1 = P(now)
          BY <1>2, <1>4, <4>1
        <5> QED
          BY <1>3, <2>4, <3>2, <5>1, <5>2, Appended
      <4>4. ASSUME NEW k \in DOMAIN behind
            PROVE  behind[k].block \notin DOMAIN blocks'
        <5>1. (k \in DOMAIN pushed /\ behind[k] = pushed[k]) \/ behind[k] = one
          BY <1>3, <3>2, Appended
        <5> HIDE DEF behind
        <5> QED
          BY <1>2, <1>4, <1>5, <1>6, <2>3, <2>4, <4>1, <5>1
      <4> QED
        BY <4>3, <4>4
    <3> QED
      BY <3>1, <3>2
  <2>6. /\ Climbs(s, pushed', P(now) + 1)
        /\ \A k \in DOMAIN pushed' : pushed'[k].block \notin DOMAIN blocks'
    <3>0. pushed' = behind \o (IF own THEN <<two>> ELSE <<>>)
      BY <2>4
    <3> HIDE DEF behind
    <3>1. CASE ~own
      <4>1. pushed' = behind
        BY <2>5, <3>0, <3>1, ConcatEmptySeq
      <4>2. Climbs(s, behind, P(now) + 1)
        <5>1. \A k \in DOMAIN behind : behind[k] \in Images
          BY <2>5, LenProperties, ElementOfSeq
        <5>2. \A k \in DOMAIN behind : P(behind[k].block) < P(now) + 1
          BY <1>2, <1>4, <2>5, <5>1 DEF Climbs, Images, P
        <5> QED
          BY <2>5, <5>2 DEF Climbs, P
      <4> QED
        BY <2>5, <4>1, <4>2
    <3>2. CASE own
      <4>1. pushed' = behind \o <<two>>
        BY <3>0, <3>2
      <4>2. Climbs(s, behind \o <<two>>, P(now) + 1)
        BY <2>4, <2>5, ClimbsOn DEF P
      <4>3. ASSUME NEW k \in DOMAIN (behind \o <<two>>)
            PROVE  (behind \o <<two>>)[k].block \notin DOMAIN blocks'
        <5>1. \/ k \in DOMAIN behind /\ (behind \o <<two>>)[k] = behind[k]
              \/ (behind \o <<two>>)[k] = two
          BY <2>5, Appended
        <5> QED
          BY <2>4, <2>5, <3>2, <5>1
      <4> QED
        BY <4>1, <4>2, <4>3
    <3> QED
      BY <3>1, <3>2
  <2>7. \A id \in DOMAIN blocks' : P(id) <= P(next) + 1
    BY <1>2, <1>3, <1>4, <1>5, <2>3
  <2> QED
    BY <1>4, <2>1, <2>6, <2>7 DEF P
<1> QED
  BY <1>7, <1>8

LEMMA OrderStep ==
  ASSUME ReceiverInv, NEW s \in {1, IdMax}, CountInv(s), OrderInv(s), [Next]_vars
  PROVE  OrderInv(s)'
<1> SUFFICES ASSUME ~late'
             PROVE  /\ \A id \in DOMAIN blocks' :
                         Pos(s, id) <= Pos(s, camera'.block) + 1
                    /\ Climbs(s, pushed', Pos(s, camera'.block))
                    /\ \A k \in DOMAIN pushed' : pushed'[k].block \notin DOMAIN blocks'
  BY DEF OrderInv, Climbs, Pos
<1>1. late \in BOOLEAN /\ pushed \in Seq(Images) /\ DOMAIN blocks \subseteq BlockIds
      /\ camera.block \in BlockIds
  BY DEF ReceiverInv, TypeOK, Images
<1>2. ASSUME ~late, UNCHANGED <<camera, pushed>>,
             DOMAIN blocks' \subseteq DOMAIN blocks
      PROVE  /\ \A id \in DOMAIN blocks' :
                  Pos(s, id) <= Pos(s, camera'.block) + 1
             /\ Climbs(s, pushed', Pos(s, camera'.block))
             /\ \A k \in DOMAIN pushed' : pushed'[k].block \notin DOMAIN blocks'
  BY <1>2 DEF OrderInv
<1>3. CASE PreallocImages
  <2>1. DOMAIN blocks' = {1, 2} /\ pushed' = pushed /\ camera' = camera
        /\ camera.block = 1 /\ camera.sent = 0 /\ late' = late
    BY <1>3 DEF PreallocImages, stream
  <2>2. Pos(s, 1) = 1 /\ Pos(s, 2) = 2
    BY <2>1, ReceiverAssumption DEF CountInv, Pos
  <2>3. Climbs(s, pushed, 1)
    BY <2>1, <2>2 DEF OrderInv
  <2>4. ASSUME NEW k \in DOMAIN pushed
        PROVE  pushed[k].block \notin {1, 2}
    BY <2>2, <2>3 DEF Climbs
  <2> QED
    BY <2>1, <2>2, <2>3, <2>4
<1>4. CASE \E geometry \in Geometry : Sends(geometry)
  <2>1. PICK geometry \in Geometry : Sends(geometry)
    BY <1>4
  <2>2. ~late /\ Advance(geometry)
    BY <2>1 DEF Sends
  <2>3. CASE Handle(Packet(geometry))
    BY <2>2, <2>3, OrderHandled
  <2>4. CASE UNCHANGED <<blocks, lent, pushed, thread, wild, streak, complete,
                         misled, outgrown>>
    <3>1. CountInv(s)'
      BY CountStep
    <3>2. Pos(s, camera'.block) \in {Pos(s, camera.block), Pos(s, camera.block) + 1}
      BY <3>1, <2>2, CameraBlock DEF CountInv, ReceiverInv, TypeOK, Pos
    <3>3. ASSUME NEW k \in DOMAIN pushed
          PROVE  Pos(s, pushed[k].block) \in Int
      <4>1. pushed[k] \in Images
        BY <1>1, LenProperties, ElementOfSeq
      <4> QED
        BY <4>1, Positions DEF Images
    <3>4. \A id \in DOMAIN blocks : Pos(s, id) \in Int
      BY <1>1, Positions
    <3>5. Pos(s, camera.block) \in Int
      BY <1>1, Positions
    <3> QED
      BY <2>2, <2>4, <3>2, <3>3, <3>4, <3>5 DEF OrderInv, Climbs
  <2> QED
    BY <2>1, <2>3, <2>4 DEF Sends
<1>5. CASE ReceiveLate
  BY <1>5 DEF ReceiveLate
<1>6. CASE Close
  <2>1. DOMAIN blocks' = {} /\ UNCHANGED <<camera, pushed, late>>
    BY <1>6 DEF Close, stream
  <2> QED
    BY <1>2, <2>1
<1>7. CASE UNCHANGED vars
  BY <1>2, <1>7 DEF vars
<1> QED
  BY <1>3, <1>4, <1>5, <1>6, <1>7, Steps

\* The order of the ids is the order InOrder states.
LEMMA OrderEnough ==
  ASSUME ReceiverInv, NEW s \in {1, IdMax}, OrderInv(s)
  PROVE  InOrder
<1> SUFFICES ASSUME ~late, NEW i \in DOMAIN pushed, NEW j \in DOMAIN pushed, i < j
             PROVE  (IF camera.block >= pushed[i].block
                     THEN pushed[i].block ELSE pushed[i].block - IdMax)
                    < (IF camera.block >= pushed[j].block
                       THEN pushed[j].block ELSE pushed[j].block - IdMax)
  BY DEF InOrder
<1>1. Climbs(s, pushed, Pos(s, camera.block))
  BY DEF OrderInv
<1>2. camera.block \in BlockIds /\ pushed \in Seq(Images)
  BY DEF ReceiverInv, TypeOK, Images
<1>3. ASSUME NEW k \in DOMAIN pushed
      PROVE  (IF camera.block >= pushed[k].block
              THEN pushed[k].block ELSE pushed[k].block - IdMax)
             = Pos(s, pushed[k].block)
  <2>1. pushed[k] \in Images
    BY <1>2, LenProperties, ElementOfSeq
  <2>2. pushed[k].block \in 1..IdMax /\ camera.block \in 1..IdMax
    BY <1>2, <2>1 DEF Images, BlockIds
  <2>3. Pos(s, pushed[k].block) < Pos(s, camera.block)
    BY <1>1 DEF Climbs
  <2> QED
    BY <2>2, <2>3, ReceiverAssumption DEF Pos
<1> QED
  BY <1>1, <1>3 DEF Climbs

LEMMA OrderInit == Init => \E s \in {1, IdMax} : CountInv(s) /\ OrderInv(s)
<1> SUFFICES ASSUME Init
             PROVE  CountInv(camera.block) /\ OrderInv(camera.block)
                    /\ camera.block \in {1, IdMax}
  BY Zenon
<1>1. /\ camera.block \in {1, IdMax} /\ camera.sent = 0
      /\ DOMAIN blocks = {} /\ pushed = <<>>
  BY DEF Init
<1>2. CountInv(camera.block)
  BY <1>1, ReceiverAssumption DEF CountInv, Pos
<1>3. DOMAIN pushed = {}
  BY <1>1
<1>4. OrderInv(camera.block)
  BY <1>1, <1>3 DEF OrderInv, Climbs
<1> QED
  BY <1>1, <1>2, <1>4

\* While nothing comes late, the application gets the images in the order they
\* were taken, each once, whatever is lost, wherever the ids wrap.
THEOREM Order == Spec => []InOrder
<1> DEFINE OInv == \E s \in {1, IdMax} : CountInv(s) /\ OrderInv(s)
<1>1. Init => OInv
  BY OrderInit
<1>2. ReceiverInv /\ OInv /\ [Next]_vars => OInv'
  <2> SUFFICES ASSUME ReceiverInv, OInv, [Next]_vars
               PROVE  OInv'
    OBVIOUS
  <2>1. PICK s \in {1, IdMax} : CountInv(s) /\ OrderInv(s)
    OBVIOUS
  <2>2. CountInv(s)' /\ OrderInv(s)'
    BY <2>1, CountStep, OrderStep
  <2> QED
    BY <2>2
<1>3. ReceiverInv /\ OInv => InOrder
  BY OrderEnough
<1> HIDE DEF OInv
<1> QED
  BY Invariance, <1>1, <1>2, <1>3, PTL DEF Spec
-----------------------------------------------------------------------------
(* The shape of a block: what a payload or a resend leaves alone *)

Shape(block) == <<block.geometry, block.size, Len(block.segments)>>

LEMMA FillShape ==
  ASSUME NEW block \in Block, NEW id, NEW size
  PROVE  Shape(Fill(block, id, size)) = Shape(block)
<1> DEFINE new == Fill(block, id, size)
<1>1. CASE new = block
  BY <1>1
<1>2. CASE new # block
  <2>1. /\ id \in 1..Len(block.segments)
        /\ new = [block EXCEPT !.segments[id] = "filled", !.empty = @ - 1]
    BY <1>2 DEF Fill
  <2>2. block.segments \in Seq(SegmentState)
    BY DEF Block
  <2>3. Len([block.segments EXCEPT ![id] = "filled"]) = Len(block.segments)
    BY <2>1, <2>2, ExceptSeq DEF SegmentState
  <2>4. /\ new.segments = [block.segments EXCEPT ![id] = "filled"]
        /\ new.geometry = block.geometry /\ new.size = block.size
    BY <2>1 DEF Block
  <2> QED
    BY <2>3, <2>4 DEF Shape
<1> QED
  BY <1>1, <1>2

LEMMA ResendShape ==
  ASSUME NEW block \in Block, NEW id
  PROVE  /\ Shape(DoResend(block, id)) = Shape(block)
         /\ DOMAIN DoResend(block, id).segments = DOMAIN block.segments
         /\ \A i \in DOMAIN block.segments :
              (DoResend(block, id).segments[i] = "filled"
                 <=> block.segments[i] = "filled")
              /\ (block.segments[i] # "empty"
                    => DoResend(block, id).segments[i] # "empty")
<1>1. CASE ~InMap(block, id)
  BY <1>1 DEF DoResend
<1>2. CASE InMap(block, id)
  <2> DEFINE new == DoResend(block, id)
             missing == MissingBefore(block, id)
             segments == [i \in DOMAIN block.segments |->
                IF i \in missing THEN "askedAgain" ELSE block.segments[i]]
             count == Cardinality(missing)
  <2>1. block.segments \in Seq(SegmentState) /\ DOMAIN block.segments = 1..Len(block.segments)
        /\ Len(block.segments) \in Nat
    BY SegmentsFinite DEF Block
  <2>2. new = [block EXCEPT !.segments = segments, !.asked = @ + count]
    BY <1>2 DEF DoResend
  <2>3. segments \in Seq(SegmentState) /\ Len(segments) = Len(block.segments)
    <3>1. \A i \in 1..Len(block.segments) : block.segments[i] \in SegmentState
      BY <2>1, ElementOfSeq
    <3>2. segments = [i \in 1..Len(block.segments) |->
             IF i \in missing THEN "askedAgain" ELSE block.segments[i]]
      BY <2>1
    <3>3. \A i \in 1..Len(block.segments) :
            (IF i \in missing THEN "askedAgain" ELSE block.segments[i])
              \in SegmentState
      BY <3>1 DEF SegmentState
    <3>4. segments \in Seq(SegmentState)
      BY <2>1, <3>2, <3>3, IsASeq
    <3> QED
      BY <2>1, <3>2, <3>4, LenProperties
  <2>4. \A i \in missing \cap DOMAIN block.segments : block.segments[i] = "empty"
    <3> SUFFICES ASSUME NEW i \in missing, i \in DOMAIN block.segments
                 PROVE  block.segments[i] = "empty"
      OBVIOUS
    <3>1. \A j \in i..(id - 1) : block.segments[j] = "empty"
      BY DEF MissingBefore
    <3>2. i \in 1..(id - 1)
      BY DEF MissingBefore
    <3>3. i \in i..(id - 1)
      BY <2>1, <3>2
    <3> QED
      BY <3>1, <3>3
  <2> HIDE DEF new, missing, count
  <2>5. /\ new.segments = segments
        /\ new.geometry = block.geometry /\ new.size = block.size
    BY <2>2 DEF Block
  <2> QED
    BY <2>3, <2>4, <2>5 DEF Shape, new
<1> QED
  BY <1>1, <1>2

LEMMA AskLeaderShape ==
  ASSUME NEW block \in Block
  PROVE  Shape(AskLeader(block)) = Shape(block)
         /\ AskLeader(block).segments = block.segments
BY DEF Shape, AskLeader, Block

\* A leader keeps the shape or, with a new geometry, forgets the map.
LEMMA LeaderShape ==
  ASSUME NEW block \in Block, NEW geometry \in Geometries, NEW memory
  PROVE  LET new == WithLeader(block, geometry, memory)
         IN  /\ new.geometry = geometry
             /\ \/ new.segments = <<>> /\ new.size = 0
                \/ /\ block.geometry = geometry /\ new.size = block.size
                   /\ new.segments = block.segments
<1> DEFINE b0 == ChangeGeometry(block, geometry)
           new == WithLeader(block, geometry, memory)
<1>1. CASE block.geometry = geometry
  <2>1. new = [block EXCEPT !.memory = memory, !.leader = "filled"]
    BY <1>1 DEF WithLeader, ChangeGeometry
  <2> QED
    BY <1>1, <2>1 DEF Block
<1>2. CASE block.geometry # geometry
  <2>1. b0 = [block EXCEPT !.geometry = geometry, !.size = 0, !.segments = <<>>]
    BY <1>2 DEF ChangeGeometry
  <2>2. new = [b0 EXCEPT !.memory = memory, !.leader = "filled"]
    BY DEF WithLeader
  <2>3. /\ b0.geometry = geometry /\ b0.size = 0 /\ b0.segments = <<>>
        /\ b0 = [geometry |-> b0.geometry, memory |-> b0.memory,
                 leader |-> b0.leader, size |-> b0.size, segments |-> b0.segments,
                 empty |-> b0.empty, asked |-> b0.asked]
    BY <2>1 DEF Block
  <2> HIDE DEF b0
  <2> QED
    BY <2>2, <2>3
<1> QED
  BY <1>1, <1>2

LEMMA OpenShape ==
  ASSUME NEW geometry, NEW memory
  PROVE  /\ OpenWith(geometry, memory).geometry = geometry
         /\ OpenWith(geometry, memory).size = 0
         /\ OpenWith(geometry, memory).segments = <<>>
BY DEF OpenWith, NewBlock

\* A map: its segments cover the image and none is yet filled.
LEMMA MapShape ==
  ASSUME NEW block \in Block, block.geometry \in Geometries, NEW size \in Nat \ {0}
  PROVE  LET new == MapMemory(block, size)
             count == SegmentsCount(block.geometry, size)
         IN  /\ Shape(new) = <<block.geometry, Least(size, block.geometry), count>>
             /\ DOMAIN new.segments = 1..count
             /\ count \in Nat \ {0}
             /\ \A i \in 1..count : new.segments[i] = "empty"
<1> DEFINE new == MapMemory(block, size)
           count == SegmentsCount(block.geometry, size)
<1>1. count \in Nat \ {0}
  BY CountPositive, ReceiverAssumption
<1> HIDE DEF count
<1>2. new = [block EXCEPT !.size = Least(size, block.geometry),
                          !.segments = [i \in 1..count |-> "empty"],
                          !.empty = count,
                          !.asked = 0]
  BY DEF MapMemory, count
<1>3. /\ new.geometry = block.geometry /\ new.size = Least(size, block.geometry)
      /\ new.segments = [i \in 1..count |-> "empty"]
  BY <1>2 DEF Block
<1>4. Len([i \in 1..count |-> "empty"]) = count
  BY <1>1
<1> QED
  BY <1>1, <1>3, <1>4 DEF Shape, count

LEMMA SameShape ==
  ASSUME NEW a \in Block, NEW b \in Block, Shape(a) = Shape(b)
  PROVE  /\ a.geometry = b.geometry /\ a.size = b.size
         /\ Len(a.segments) = Len(b.segments)
         /\ DOMAIN a.segments = DOMAIN b.segments
         /\ a.segments = <<>> <=> b.segments = <<>>
<1>1. /\ a.geometry = b.geometry /\ a.size = b.size
      /\ Len(a.segments) = Len(b.segments)
  BY DEF Shape
<1>2. a.segments \in Seq(SegmentState) /\ b.segments \in Seq(SegmentState)
  BY DEF Block
<1>3. /\ a.segments = <<>> <=> Len(a.segments) = 0
      /\ b.segments = <<>> <=> Len(b.segments) = 0
  BY <1>2, EmptySeq
<1> QED
  BY <1>1, <1>3, SegmentsFinite
-----------------------------------------------------------------------------
(* No index outside the map *)

LEMMA CountCovers ==
  ASSUME NEW geometry \in Nat \ {0}, NEW size \in Nat \ {0}
  PROVE  SegmentsCount(geometry, size) * size >= geometry
<1> DEFINE n == geometry + size - 1
           q == n \div size
<1>1. n \in Nat /\ q \in Int /\ n = size * q + (n % size) /\ n % size \in 0..(size - 1)
  OBVIOUS
<1>2. q * size = size * q
  BY <1>1
<1> HIDE DEF q
<1>3. q * size \in Int
  BY <1>1
<1>4. q * size >= geometry
  BY <1>1, <1>2, <1>3
<1> QED
  BY <1>4 DEF SegmentsCount, q

\* Larger segments are fewer.
LEMMA CountOrder ==
  ASSUME NEW geometry \in Nat \ {0}, NEW size \in Nat \ {0}, NEW larger \in Nat,
         size <= larger
  PROVE  SegmentsCount(geometry, larger) <= SegmentsCount(geometry, size)
<1> DEFINE a == SegmentsCount(geometry, larger)
           b == SegmentsCount(geometry, size)
<1>1. a \in Nat \ {0} /\ b \in Nat \ {0} /\ (a - 1) * larger < geometry
      /\ b * size >= geometry
  BY CountPositive, CountCovers
<1> HIDE DEF a, b
<1>2. SUFFICES ASSUME b <= a - 1
               PROVE  FALSE
  BY <1>1 DEF a, b
<1>3. \A x, y, z \in Nat : x <= y => x * z <= y * z
  OBVIOUS
<1>4. \A x, y, z \in Nat : x <= y => z * x <= z * y
  OBVIOUS
<1>5. b * larger <= (a - 1) * larger
  BY <1>1, <1>2, <1>3
<1>6. b * size <= b * larger
  BY <1>1, <1>4
<1>7. b * size \in Int /\ b * larger \in Int /\ (a - 1) * larger \in Int
  BY <1>1
<1> QED
  BY <1>1, <1>5, <1>6, <1>7

\* A packet of an image.
PartOf(geometry, packet) ==
  \/ packet.kind = "leader" /\ packet.id = 0 /\ packet.geometry = geometry
  \/ /\ packet.kind = "payload"
     /\ packet.id \in 1..SegmentsCount(geometry, Payload)
     /\ packet.size = PacketSize(geometry, packet.id)
  \/ packet.kind = "trailer" /\ packet.id = TrailerId(geometry)

\* A payload carries something, and no more than a full one.
LEMMA PartSize ==
  ASSUME NEW geometry \in Geometries, NEW id \in 1..SegmentsCount(geometry, Payload)
  PROVE  /\ PacketSize(geometry, id) \in 1..Payload
         /\ id < SegmentsCount(geometry, Payload) => PacketSize(geometry, id) = Payload
<1> DEFINE n == SegmentsCount(geometry, Payload)
<1>1. /\ n \in Nat \ {0} /\ (n - 1) * Payload < geometry
      /\ geometry \in Nat \ {0} /\ Payload \in Nat \ {0}
  BY CountPositive, ReceiverAssumption
<1> HIDE DEF n
<1>2. id \in 1..n
  BY DEF n
<1>3. \A x, y, z \in Nat : x <= y => x * z <= y * z
  OBVIOUS
<1>4. (id - 1) * Payload <= (n - 1) * Payload
  BY <1>1, <1>2, <1>3
<1>5. (id - 1) * Payload \in Int /\ (n - 1) * Payload \in Int
  BY <1>1, <1>2
<1>6. PacketSize(geometry, id) \in 1..Payload
  BY <1>1, <1>4, <1>5 DEF PacketSize, Least
<1>7. ASSUME id < n
      PROVE  PacketSize(geometry, id) = Payload
  <2>1. id * Payload <= (n - 1) * Payload
    BY <1>1, <1>2, <1>3, <1>7
  <2>2. id * Payload \in Int /\ (id - 1) * Payload = id * Payload - Payload
    BY <1>1, <1>2
  <2>3. Payload < geometry - (id - 1) * Payload
    BY <1>1, <1>5, <2>1, <2>2
  <2> QED
    BY <1>1, <1>5, <2>3 DEF PacketSize, Least
<1> QED
  BY <1>6, <1>7 DEF n

LEMMA SentPart ==
  ASSUME ReceiverInv, NEW geometry \in Geometry, Advance(geometry)
  PROVE  /\ geometry \in Geometries /\ PartOf(geometry, Packet(geometry))
         /\ Packet(geometry).id = camera.packet
         /\ Packet(geometry).geometry = geometry
<1> DEFINE id == camera.packet
           last == TrailerId(geometry)
           kind == CASE id = 0 -> "leader"
                     [] id = last -> "trailer"
                     [] OTHER -> "payload"
<1>1. /\ id \in Nat /\ geometry \in Geometries /\ (id > 0 => id <= last)
  BY DEF ReceiverInv, TypeOK, Geometry
<1>2. last = SegmentsCount(geometry, Payload) + 1
      /\ SegmentsCount(geometry, Payload) \in Nat \ {0}
  BY <1>1, CountPositive, ReceiverAssumption DEF TrailerId
<1>3. /\ Packet(geometry).kind = kind /\ Packet(geometry).id = id
      /\ Packet(geometry).geometry = geometry
      /\ Packet(geometry).size = IF id \in 1..(last - 1)
                                 THEN PacketSize(geometry, id) ELSE 0
  BY DEF Packet
<1> HIDE DEF last
<1>4. CASE id = 0
  <2>1. kind = "leader"
    BY <1>2, <1>4
  <2> QED
    BY <1>1, <1>3, <1>4, <2>1 DEF PartOf
<1>5. CASE id = last
  <2>1. kind = "trailer"
    BY <1>2, <1>5
  <2> QED
    BY <1>1, <1>3, <1>5, <2>1 DEF PartOf, last
<1>6. CASE id # 0 /\ id # last
  <2>1. kind = "payload" /\ id \in 1..(last - 1)
    BY <1>1, <1>2, <1>6
  <2>2. id \in 1..SegmentsCount(geometry, Payload)
    BY <1>2, <2>1
  <2>3. Packet(geometry).kind = "payload" /\ Packet(geometry).id = id
        /\ Packet(geometry).size = PacketSize(geometry, id)
    BY <1>3, <2>1
  <2>4. PartOf(geometry, Packet(geometry))
    BY <2>2, <2>3 DEF PartOf
  <2> QED
    BY <1>1, <1>3, <2>4
<1> QED
  BY <1>4, <1>5, <1>6

\* The blocks the camera has begun to send, when it has come so far.
Begun(s, id, sent) ==
  \/ Pos(s, id) < Pos(s, sent.block)
  \/ id = sent.block /\ sent.packet > 0

\* A block that the camera has begun stays so.
LEMMA BegunNext ==
  ASSUME ReceiverInv, NEW s \in {1, IdMax}, CountInv(s),
         NEW geometry \in Geometry, Advance(geometry)
  PROVE  /\ \A id \in BlockIds : Begun(s, id, camera) => Begun(s, id, camera')
         /\ Begun(s, camera.block, camera')
         /\ camera'.packet > 0 =>
              camera'.block = camera.block /\ camera'.geometry = geometry
<1> DEFINE now == camera.block
<1>1. /\ now \in BlockIds /\ camera.packet \in Nat
      /\ camera = [block |-> camera.block, sent |-> camera.sent,
                   packet |-> camera.packet, geometry |-> camera.geometry]
  BY DEF ReceiverInv, TypeOK
<1>2. /\ \A id \in BlockIds : Pos(s, id) \in Int
  BY Positions
<1>3. CASE camera.packet = TrailerId(geometry)
  <2>1. /\ camera' = [block |-> NextBlockId(now), sent |-> camera.sent + 1,
                      packet |-> 0, geometry |-> 0]
        /\ camera.sent < MaxBlocks
    BY <1>3 DEF Advance
  <2>2. Pos(s, now) <= MaxBlocks
    BY <1>1, <2>1, ReceiverAssumption DEF CountInv, ReceiverInv, TypeOK
  <2>3. Pos(s, NextBlockId(now)) = Pos(s, now) + 1
    BY <1>1, <2>2, Positions
  <2>4. camera'.block = NextBlockId(now) /\ ~(camera'.packet > 0)
    BY <2>1
  <2>5. Pos(s, camera'.block) = Pos(s, now) + 1
    BY <2>3, <2>4
  <2>6. ASSUME NEW id \in BlockIds, Pos(s, id) <= Pos(s, now)
        PROVE  Pos(s, id) < Pos(s, camera'.block)
    BY <1>1, <1>2, <2>5, <2>6
  <2> QED
    BY <1>1, <1>2, <2>4, <2>6 DEF Begun, Pos
<1>4. CASE camera.packet # TrailerId(geometry)
  <2>1. camera' = [camera EXCEPT !.packet = @ + 1, !.geometry = geometry]
    BY <1>4 DEF Advance
  <2>2. /\ camera'.block = now /\ camera'.packet = camera.packet + 1
        /\ camera'.geometry = geometry
    BY <1>1, <2>1
  <2> QED
    BY <1>1, <2>2 DEF Begun, Pos
<1> QED
  BY <1>3, <1>4

\* A map has a segment for every full packet of the image it was cut from.
Ranged(block) ==
  /\ block.size <= Payload
  /\ block.segments # <<>> =>
       Len(block.segments) >= SegmentsCount(block.geometry, Payload)

LEMMA RangedShape ==
  ASSUME NEW a \in Block, NEW b \in Block, Shape(a) = Shape(b), Ranged(a)
  PROVE  Ranged(b)
BY SameShape DEF Ranged

LEMMA RangedMap ==
  ASSUME NEW block \in Block, block.geometry \in Geometries, NEW size \in Nat \ {0},
         size <= Payload
  PROVE  LET new == MapMemory(block, size)
         IN  Ranged(new) /\ new.segments # <<>> /\ new.geometry = block.geometry
<1> DEFINE new == MapMemory(block, size)
           count == SegmentsCount(block.geometry, size)
<1>1. /\ Shape(new) = <<block.geometry, Least(size, block.geometry), count>>
      /\ DOMAIN new.segments = 1..count
      /\ count \in Nat \ {0}
  BY MapShape
<1>2. count >= SegmentsCount(block.geometry, Payload)
  BY CountOrder, ReceiverAssumption
<1>3. /\ new.geometry = block.geometry /\ new.size = Least(size, block.geometry)
      /\ Len(new.segments) = count
  BY <1>1 DEF Shape
<1>4. new.segments # <<>>
  BY <1>1
<1>5. new.size <= Payload
  <2>1. \A a, b \in Nat : Least(a, b) <= a
    BY DEF Least
  <2>2. block.geometry \in Nat /\ size \in Nat /\ Payload \in Nat
        /\ Least(size, block.geometry) \in Nat
    BY ReceiverAssumption DEF Least
  <2> HIDE DEF new
  <2> QED
    BY <1>3, <2>1, <2>2
<1> QED
  BY <1>2, <1>3, <1>4, <1>5 DEF Ranged

\* A payload finds its segment, or is the one just behind the last, unless its image
\* is larger by more than a packet than the one the block was opened for.
LEMMA RangedInsert ==
  ASSUME NEW old, Counted(old), Ranged(old), NEW geometry \in Geometries,
         NEW packet \in Packets, PartOf(geometry, packet), packet.kind = "payload"
  PROVE  LET new == InsertSegment(old, packet.id, packet.size)
         IN  /\ Counted(new) /\ Ranged(new) /\ new.geometry = old.geometry
             /\ SegmentsCount(geometry, Payload)
                  <= SegmentsCount(old.geometry, Payload) + 1
                => InMap(new, packet.id)
<1> DEFINE new == InsertSegment(old, packet.id, packet.size)
           b0 == IF old.segments = <<>> THEN MapMemory(old, packet.size) ELSE old
<1>1. /\ packet.id \in 1..SegmentsCount(geometry, Payload)
      /\ packet.size \in 1..Payload
  BY PartSize DEF PartOf
<1>2. old \in Block /\ old.geometry \in Geometries
  BY DEF Counted
<1>3. /\ Counted(b0) /\ Ranged(b0) /\ b0.segments # <<>>
      /\ b0.geometry = old.geometry
  <2>1. CASE old.segments = <<>>
    <3>1. packet.size \in Nat \ {0} /\ packet.size <= Payload /\ packet.size \in Nat
      BY <1>1, ReceiverAssumption
    <3>2. Counted(MapMemory(old, packet.size))
      BY <1>2, <2>1, <3>1, MapMemoryCounts
    <3> QED
      BY <1>2, <2>1, <3>1, <3>2, RangedMap
  <2>2. CASE old.segments # <<>>
    BY <2>2
  <2> QED
    BY <2>1, <2>2
<1>4. new = Fill(b0, packet.id, packet.size)
  BY DEF InsertSegment
<1> HIDE DEF b0
<1>5. b0 \in Block
  BY <1>3 DEF Counted
<1>6. Counted(new) /\ new \in Block
  BY <1>3, <1>4, FillCounts DEF Counted
<1>7. Shape(new) = Shape(b0)
  BY <1>4, <1>5, FillShape
<1> HIDE DEF new
<1>8. Ranged(new)
  BY <1>3, <1>5, <1>6, <1>7, RangedShape
<1>9. Len(new.segments) >= SegmentsCount(old.geometry, Payload)
  BY <1>3, <1>5, <1>6, <1>7, SameShape DEF Ranged
<1>11. /\ SegmentsCount(geometry, Payload) \in Nat
       /\ SegmentsCount(old.geometry, Payload) \in Nat
  BY <1>2, CountPositive, ReceiverAssumption
<1>12. Len(new.segments) \in Nat
  BY <1>6, SegmentsFinite
<1>13. SegmentsCount(geometry, Payload) <= SegmentsCount(old.geometry, Payload) + 1
         => InMap(new, packet.id)
  BY <1>1, <1>9, <1>11, <1>12 DEF InMap
<1>14. new.geometry = old.geometry
  BY <1>3, <1>5, <1>6, <1>7, SameShape
<1> QED
  BY <1>6, <1>8, <1>13, <1>14 DEF new

\* What a packet leaves alone of a block's leader.
LEMMA Leaders ==
  ASSUME NEW block \in Block, NEW id, NEW size
  PROVE  /\ DoResend(block, id).leader = block.leader
         /\ InsertSegment(block, id, size).leader = block.leader
         /\ MapMemory(block, size).leader = block.leader
         /\ AskLeader(block).leader = "filled" => block.leader = "filled"
<1> DEFINE b0 == MapMemory(block, size)
<1>1. "leader" \in DOMAIN block /\ "leader" \in DOMAIN b0 /\ b0.leader = block.leader
  BY DEF MapMemory, Block
<1> HIDE DEF b0
<1>2. DoResend(block, id).leader = block.leader
  BY DEF DoResend, Block
<1>3. AskLeader(block).leader = "filled" => block.leader = "filled"
  BY DEF AskLeader, Block
<1>4. ASSUME NEW b, "leader" \in DOMAIN b
      PROVE  Fill(b, id, size).leader = b.leader
  BY <1>4 DEF Fill
<1>5. InsertSegment(block, id, size).leader = block.leader
  BY <1>1, <1>4 DEF InsertSegment, b0
<1> QED
  BY <1>1, <1>2, <1>3, <1>5 DEF b0

\* A block whose leader has come had it before, and the same geometry, or the leader
\* is the packet handled.
LedBefore(packet) ==
  \A i \in DOMAIN blocks' :
    blocks'[i].leader = "filled" =>
      \/ /\ i \in DOMAIN blocks /\ blocks[i].leader = "filled"
         /\ blocks'[i].geometry = blocks[i].geometry
      \/ i = packet.block /\ blocks'[i].geometry = packet.geometry

\* Every packet of an image keeps the maps cut as they were, and makes the thread
\* look outside of one only when its block was opened for too small an image: a block
\* whose leader has come has the geometry of its packets.
LEMMA RangeHandled ==
  ASSUME MapInv, \A i \in DOMAIN blocks : Ranged(blocks[i]), ~wild,
         NEW packet \in Packets, Handle(packet), PartOf(packet.geometry, packet),
         packet.block \in DOMAIN blocks /\ blocks[packet.block].leader = "filled" =>
           blocks[packet.block].geometry = packet.geometry
  PROVE  /\ \A i \in DOMAIN blocks' : Ranged(blocks'[i])
         /\ wild' => outgrown'
         /\ LedBefore(packet)
<1> DEFINE id == packet.block
           before == PreviousBlockId(id)
<1>1. /\ id \in BlockIds /\ packet.id \in Nat /\ packet.size \in Nat
      /\ packet.kind \in {"leader", "payload", "trailer"}
      /\ before # id /\ packet.geometry \in Geometries
  BY Ids DEF Packets
<1>2. ASSUME NEW i \in DOMAIN blocks
      PROVE  blocks[i] \in Block /\ blocks[i].geometry \in Geometries
             /\ Counted(blocks[i]) /\ Ranged(blocks[i]) /\ blocks[i].size \in Nat
  BY DEF MapInv, Counted, Block
<1>3. ASSUME NEW i \in DOMAIN blocks
      PROVE  LET new == DoResend(blocks[i], EndId(blocks[i]))
             IN  /\ Ranged(new) /\ new.geometry = blocks[i].geometry
                 /\ new.leader = blocks[i].leader
  <2>1. EndId(blocks[i]) \in Nat
    BY <1>2, SegmentsFinite DEF EndId
  <2>2. DoResend(blocks[i], EndId(blocks[i])) \in Block
    BY <1>2, <2>1, DoResendCounts DEF Counted
  <2>3. Shape(DoResend(blocks[i], EndId(blocks[i]))) = Shape(blocks[i])
    BY <1>2, ResendShape
  <2> DEFINE new == DoResend(blocks[i], EndId(blocks[i]))
  <2>6. new.leader = blocks[i].leader
    BY <1>2, Leaders
  <2> HIDE DEF new
  <2>4. new \in Block /\ Shape(new) = Shape(blocks[i])
    BY <2>2, <2>3 DEF new
  <2>5. Ranged(new) /\ new.geometry = blocks[i].geometry
    BY <1>2, <2>4, RangedShape, SameShape
  <2> QED
    BY <2>5, <2>6 DEF new
<1>4. ASSUME NEW g \in Geometries, NEW memory
      PROVE  Ranged(OpenWith(g, memory)) /\ OpenWith(g, memory).leader = "empty"
  <2>1. OpenWith(g, memory).leader = "empty"
    BY DEF OpenWith, NewBlock
  <2> QED
    BY <2>1, OpenShape, ReceiverAssumption DEF Ranged
<1>5. CASE packet.kind = "leader"
  <2>1. HandleLeader(packet)
    BY <1>5 DEF Handle
  <2> DEFINE old == IF id \in DOMAIN blocks THEN blocks[id] ELSE NewBlock
  <2>2. /\ DOMAIN blocks' = DOMAIN blocks \cup {id}
        /\ \A i \in DOMAIN blocks : i # id => blocks'[i] = blocks[i]
        /\ \E memory : blocks'[id] = WithLeader(old, packet.geometry, memory)
        /\ UNCHANGED wild
    BY <2>1, LeaderBlocks
  <2>3. PICK memory : blocks'[id] = WithLeader(old, packet.geometry, memory)
    BY <2>2
  <2>4. old \in Block /\ (old.geometry # 0 => Ranged(old))
    BY <1>2, NewBlockOK
  <2>5. packet.geometry \in Geometries /\ packet.geometry # 0
    BY <1>1, ReceiverAssumption
  <2> HIDE DEF old
  <2> DEFINE new == WithLeader(old, packet.geometry, memory)
  <2>6. /\ new.geometry = packet.geometry
        /\ \/ new.segments = <<>> /\ new.size = 0
           \/ /\ old.geometry = packet.geometry /\ new.size = old.size
              /\ new.segments = old.segments
    BY <2>4, <2>5, LeaderShape
  <2> HIDE DEF new
  <2>7. Ranged(new)
    BY <2>4, <2>5, <2>6, ReceiverAssumption DEF Ranged
  <2> QED
    BY <1>2, <2>2, <2>3, <2>6, <2>7 DEF new, LedBefore
<1>6. CASE packet.kind = "payload"
  <2>1. HandlePayload(packet)
    BY <1>6 DEF Handle
  <2>2. CASE DOMAIN blocks = {}
    BY <2>1, <2>2 DEF HandlePayload, LedBefore
  <2>3. CASE DOMAIN blocks # {}
    <3> DEFINE old == OpenBlock(id)
               new == InsertSegment(old, packet.id, packet.size)
    <3>1. /\ Receives(id, old)
          /\ DOMAIN blocks' = DOMAIN blocks \cup {id}
          /\ \A i \in DOMAIN blocks : i # id /\ i # before => blocks'[i] = blocks[i]
          /\ before \in DOMAIN blocks =>
               blocks'[before] = IF Resend
                                 THEN DoResend(blocks[before], EndId(blocks[before]))
                                 ELSE blocks[before]
          /\ blocks'[id] = IF Resend THEN DoResend(AskLeader(new), packet.id)
                           ELSE new
          /\ wild' = (wild \/ (Resend /\ ~InMap(new, packet.id)))
      BY <2>1, <2>3, PayloadBlocks
    <3>7. outgrown' = (/\ old.leader # "filled"
                       /\ SegmentsCount(packet.geometry, Payload)
                            > SegmentsCount(old.geometry, Payload) + 1)
      BY <1>6, <2>3, Zenon DEF Handle, Outgrows
    <3> HIDE DEF old
    <3>2. Counted(old)
      BY <1>1, <3>1, ReceivedCounts
    <3>3. Ranged(old)
      BY <1>2, <1>4, <3>1 DEF Receives
    <3>4. /\ Counted(new) /\ Ranged(new) /\ new.geometry = old.geometry
          /\ SegmentsCount(packet.geometry, Payload)
               <= SegmentsCount(old.geometry, Payload) + 1
             => InMap(new, packet.id)
      BY <1>1, <1>6, <3>2, <3>3, RangedInsert
    <3>8. new.leader = old.leader
      BY <3>2, Leaders DEF Counted
    <3> HIDE DEF new
    <3>9. old.leader = "filled" => id \in DOMAIN blocks /\ old = blocks[id]
      BY <1>2, <1>4, <3>1 DEF Receives
    <3>10. wild' => outgrown'
      <4>1. /\ SegmentsCount(packet.geometry, Payload) \in Nat
            /\ SegmentsCount(old.geometry, Payload) \in Nat
        BY <1>1, <3>2, CountPositive, ReceiverAssumption DEF Counted
      <4>2. old.leader = "filled" => old.geometry = packet.geometry
        BY <3>9
      <4>3. ~outgrown' => InMap(new, packet.id)
        BY <3>4, <3>7, <4>1, <4>2
      <4> QED
        BY <3>1, <4>3
    <3>5. /\ Ranged(blocks'[id]) /\ blocks'[id].geometry = old.geometry
          /\ blocks'[id].leader = "filled" => old.leader = "filled"
      <4> DEFINE asked == AskLeader(new)
                 last == DoResend(asked, packet.id)
      <4>1. new \in Block /\ asked \in Block /\ Shape(asked) = Shape(new)
            /\ Counted(asked)
        BY <3>4, AskLeaderCounts, AskLeaderShape DEF Counted
      <4>5. asked.leader = "filled" => new.leader = "filled"
        BY <4>1, Leaders
      <4> HIDE DEF asked
      <4>2. last \in Block /\ Shape(last) = Shape(asked)
        BY <1>1, <4>1, DoResendCounts, ResendShape DEF Counted
      <4>6. last.leader = asked.leader
        BY <4>1, Leaders
      <4> HIDE DEF last
      <4>3. Ranged(asked) /\ asked.geometry = new.geometry
        BY <3>4, <4>1, RangedShape, SameShape
      <4>4. Ranged(last) /\ last.geometry = new.geometry
        BY <4>1, <4>2, <4>3, RangedShape, SameShape
      <4>7. blocks'[id] = IF Resend THEN last ELSE new
        BY <3>1 DEF last, asked
      <4> QED
        BY <3>4, <3>8, <4>4, <4>5, <4>6, <4>7
    <3>6. before \in DOMAIN blocks =>
            /\ Ranged(blocks'[before])
            /\ blocks'[before].geometry = blocks[before].geometry
            /\ blocks'[before].leader = blocks[before].leader
      BY <1>2, <1>3, <3>1
    <3>11. \A i \in DOMAIN blocks' : Ranged(blocks'[i])
      BY <1>2, <3>1, <3>5, <3>6
    <3>12. LedBefore(packet)
      <4> SUFFICES ASSUME NEW i \in DOMAIN blocks', blocks'[i].leader = "filled"
                   PROVE  \/ /\ i \in DOMAIN blocks /\ blocks[i].leader = "filled"
                             /\ blocks'[i].geometry = blocks[i].geometry
                          \/ i = id /\ blocks'[i].geometry = packet.geometry
        BY DEF LedBefore
      <4>1. CASE i = id
        BY <3>5, <3>9, <4>1
      <4>2. CASE i # id
        BY <3>1, <3>6, <4>2
      <4> QED
        BY <4>1, <4>2
    <3> QED
      BY <3>10, <3>11, <3>12
  <2> QED
    BY <2>2, <2>3
<1>7. CASE packet.kind = "trailer"
  <2>1. HandleTrailer(packet)
    BY <1>7 DEF Handle
  <2> DEFINE next == NextBlockId(id)
             afterNext == NextBlockId(next)
  <2>2. /\ ~wild'
        /\ \/ /\ DOMAIN blocks' = DOMAIN blocks \ {before}
              /\ \A i \in DOMAIN blocks' : blocks'[i] = blocks[i]
           \/ /\ id \in DOMAIN blocks
              /\ DOMAIN blocks' = {next, afterNext}
                   \cup (IF blocks[id].empty = 0 THEN {} ELSE {id})
              /\ \A i \in {next, afterNext} :
                   blocks'[i] = IF i \in DOMAIN blocks THEN blocks[i]
                                ELSE MapMemory(OpenWith(blocks[id].geometry, i),
                                               blocks[id].size)
              /\ id \in DOMAIN blocks' =>
                   blocks'[id] = IF Resend
                                 THEN DoResend(blocks[id], EndId(blocks[id]))
                                 ELSE blocks[id]
    BY <2>1, TrailerBlocks
  <2>3. ASSUME id \in DOMAIN blocks, NEW i \in {next, afterNext}
        PROVE  LET new == MapMemory(OpenWith(blocks[id].geometry, i), blocks[id].size)
               IN  Ranged(new) /\ new.leader = "empty"
    <3> DEFINE b0 == OpenWith(blocks[id].geometry, i)
               size == blocks[id].size
    <3>1. i \in Memory
      BY <1>1, Ids, ReceiverAssumption DEF BlockIds, Memory
    <3>2. /\ b0 \in Block /\ b0.geometry \in Geometries /\ Ranged(b0)
          /\ b0.leader = "empty"
      BY <1>2, <1>4, <2>3, <3>1, OpenedOK DEF Counted
    <3>3. size \in Nat /\ size <= Payload
      BY <1>2, <2>3 DEF Ranged
    <3> HIDE DEF b0, size
    <3>4. Ranged(MapMemory(b0, size))
      <4>1. CASE size = 0
        BY <3>2, <4>1 DEF MapMemory
      <4>2. CASE size # 0
        BY <3>2, <3>3, <4>2, RangedMap
      <4> QED
        BY <4>1, <4>2
    <3>5. MapMemory(b0, size).leader = "empty"
      BY <3>2, Leaders
    <3> QED
      BY <3>4, <3>5 DEF b0, size
  <2>4. id \notin {next, afterNext}
    BY <1>1, Ids, ReceiverAssumption DEF BlockIds, NextBlockId
  <2> HIDE DEF next, afterNext
  <2>5. ASSUME NEW i \in DOMAIN blocks'
        PROVE  /\ Ranged(blocks'[i])
               /\ blocks'[i].leader = "filled" =>
                    /\ i \in DOMAIN blocks /\ blocks[i].leader = "filled"
                    /\ blocks'[i].geometry = blocks[i].geometry
    BY <1>2, <1>3, <2>2, <2>3, <2>4
  <2> QED
    BY <2>2, <2>5 DEF LedBefore
<1> QED
  BY <1>1, <1>5, <1>6, <1>7

\* The camera and the network know one geometry for each image, which every packet
\* of it has and, once its leader has come, its block.
SizesInv(s, images) ==
  /\ images \in [BlockIds -> Geometries \cup {0}]
  /\ camera.packet > 0 => images[camera.block] = camera.geometry
  /\ \A packet \in delayed : /\ Begun(s, packet.block, camera)
                             /\ packet.geometry = images[packet.block]
                             /\ PartOf(packet.geometry, packet)
  /\ \A id \in DOMAIN blocks :
       /\ Ranged(blocks[id])
       /\ blocks[id].leader = "filled" =>
            Begun(s, id, camera) /\ blocks[id].geometry = images[id]
  /\ wild => outgrown

LEMMA SizesNext ==
  \A s, images :
    (/\ images \in [BlockIds -> Geometries \cup {0}]
     /\ camera'.packet > 0 => images[camera'.block] = camera'.geometry
     /\ \A packet \in delayed' : /\ Begun(s, packet.block, camera')
                                 /\ packet.geometry = images[packet.block]
                                 /\ PartOf(packet.geometry, packet)
     /\ \A id \in DOMAIN blocks' :
          /\ Ranged(blocks'[id])
          /\ blocks'[id].leader = "filled" =>
               Begun(s, id, camera') /\ blocks'[id].geometry = images[id]
     /\ wild' => outgrown')
    => SizesInv(s, images)'
BY DEF SizesInv, PartOf, Ranged

\* What a packet of an image whose geometry is known does to the blocks.
LEMMA SizesHandled ==
  ASSUME ReceiverInv, NEW s, NEW images, NEW packet \in Packets, Handle(packet),
         packet.geometry = images[packet.block], PartOf(packet.geometry, packet),
         \A id \in DOMAIN blocks :
           /\ Ranged(blocks[id])
           /\ blocks[id].leader = "filled" =>
                Begun(s, id, camera) /\ blocks[id].geometry = images[id],
         NEW sent, Begun(s, packet.block, sent),
         \A id \in BlockIds : Begun(s, id, camera) => Begun(s, id, sent)
  PROVE  /\ \A id \in DOMAIN blocks' :
              /\ Ranged(blocks'[id])
              /\ blocks'[id].leader = "filled" =>
                   Begun(s, id, sent) /\ blocks'[id].geometry = images[id]
         /\ wild' => outgrown'
<1>1. MapInv /\ ~wild
  BY MapInvOf DEF Handle
<1>2. DOMAIN blocks \subseteq BlockIds
  BY <1>1 DEF MapInv
<1>3. /\ \A i \in DOMAIN blocks' : Ranged(blocks'[i])
      /\ wild' => outgrown'
      /\ LedBefore(packet)
  BY <1>1, RangeHandled
<1> QED
  BY <1>2, <1>3 DEF LedBefore

LEMMA SizesSends ==
  ASSUME ReceiverInv, NEW s \in {1, IdMax}, CountInv(s), NEW images, SizesInv(s, images),
         NEW geometry \in Geometry, Sends(geometry)
  PROVE  \E new : SizesInv(s, new)'
<1> DEFINE now == camera.block
           packet == Packet(geometry)
<1>1. images \in [BlockIds -> Geometries \cup {0}]
  BY DEF SizesInv
<1>2. PICK new : new = IF camera.packet = 0
                       THEN [images EXCEPT ![now] = geometry] ELSE images
  OBVIOUS
<1>3. /\ now \in BlockIds /\ camera.packet \in Nat /\ delayed \subseteq Packets
      /\ DOMAIN blocks \subseteq BlockIds
      /\ Advance(geometry) /\ geometry \in Geometry
  BY DEF ReceiverInv, TypeOK, Sends
<1>4. /\ geometry \in Geometries /\ PartOf(geometry, packet)
      /\ packet \in Packets /\ packet.block = now /\ packet.geometry = geometry
  BY <1>3, SentPart, CameraBlock
<1>5. /\ new \in [BlockIds -> Geometries \cup {0}] /\ new[now] = geometry
      /\ \A id \in BlockIds : Begun(s, id, camera) => new[id] = images[id]
  <2>1. CASE camera.packet = 0
    <3>1. ~Begun(s, now, camera)
      BY <1>3, <2>1, Positions DEF Begun
    <3> QED
      BY <1>1, <1>2, <1>3, <1>4, <2>1, <3>1
  <2>2. CASE camera.packet # 0
    <3>1. new = images /\ images[now] = camera.geometry
      BY <1>2, <1>3, <2>2 DEF SizesInv
    <3>2. geometry = camera.geometry
      BY <1>3, <2>2 DEF Geometry
    <3> QED
      BY <1>1, <3>1, <3>2
  <2> QED
    BY <2>1, <2>2
<1>6. \A id \in DOMAIN blocks :
        /\ Ranged(blocks[id])
        /\ blocks[id].leader = "filled" =>
             Begun(s, id, camera) /\ blocks[id].geometry = new[id]
  BY <1>3, <1>5 DEF SizesInv
<1>7. /\ \A id \in BlockIds : Begun(s, id, camera) => Begun(s, id, camera')
      /\ Begun(s, now, camera')
      /\ camera'.packet > 0 => camera'.block = now /\ camera'.geometry = geometry
  BY <1>3, BegunNext
<1>8. /\ \A id \in DOMAIN blocks' :
           /\ Ranged(blocks'[id])
           /\ blocks'[id].leader = "filled" =>
                Begun(s, id, camera') /\ blocks'[id].geometry = new[id]
      /\ wild' => outgrown'
  <2>1. CASE Handle(packet)
    BY <1>4, <1>5, <1>6, <1>7, <2>1, SizesHandled
  <2>2. CASE UNCHANGED <<blocks, lent, pushed, thread, wild, streak, complete, misled,
                         outgrown>>
    <3>1. UNCHANGED <<blocks, wild, outgrown>> /\ (wild => outgrown)
      BY <2>2 DEF SizesInv
    <3> QED
      BY <1>3, <1>6, <1>7, <3>1
  <2> QED
    BY <2>1, <2>2 DEF Sends
<1>9. ASSUME NEW p \in delayed'
      PROVE  /\ Begun(s, p.block, camera')
             /\ p.geometry = new[p.block]
             /\ PartOf(p.geometry, p)
  <2>1. CASE p = packet
    BY <1>4, <1>5, <1>7, <2>1
  <2>2. CASE p \in delayed
    <3>1. /\ p.block \in BlockIds /\ Begun(s, p.block, camera)
          /\ p.geometry = images[p.block] /\ PartOf(p.geometry, p)
      BY <1>3, <2>2 DEF SizesInv, Packets
    <3> QED
      BY <1>5, <1>7, <3>1
  <2>3. delayed' \subseteq delayed \cup {packet}
    BY DEF Sends
  <2> QED
    BY <2>1, <2>2, <2>3
<1>10. camera'.packet > 0 => new[camera'.block] = camera'.geometry
  BY <1>5, <1>7
<1> QED
  BY <1>5, <1>8, <1>9, <1>10, SizesNext

LEMMA SizesStep ==
  ASSUME ReceiverInv, NEW s \in {1, IdMax}, CountInv(s), NEW images, SizesInv(s, images),
         [Next]_vars
  PROVE  \E new : SizesInv(s, new)'
<1>1. MapInv /\ delayed \subseteq Packets
  BY MapInvOf DEF ReceiverInv, TypeOK
<1>2. ASSUME UNCHANGED camera, delayed' \subseteq delayed, wild' => outgrown',
             \A id \in DOMAIN blocks' :
               /\ Ranged(blocks'[id])
               /\ blocks'[id].leader = "filled" =>
                    Begun(s, id, camera) /\ blocks'[id].geometry = images[id]
      PROVE  SizesInv(s, images)'
  BY <1>2, SizesNext DEF SizesInv
<1>3. CASE PreallocImages
  <2>1. DOMAIN blocks = {} /\ UNCHANGED <<wild, outgrown, stream>>
    BY <1>3 DEF PreallocImages
  <2>2. PICK geometry \in Geometries :
          LET one == Allocate(lent, 1)
              two == Allocate(lent \cup {one}, 2)
          IN  blocks' = [i \in {1, 2} |->
                 MapMemory(OpenWith(geometry, IF i = 1 THEN one ELSE two), Payload)]
    BY <1>3 DEF PreallocImages
  <2>3. lent = {} /\ 1 \in BlockIds /\ 2 \in BlockIds
    BY <1>1, <2>1, ReceiverAssumption DEF MapInv, BlockIds
  <2>4. Allocate(lent, 1) = 1 /\ Allocate(lent \cup {1}, 2) = 2
        /\ 1 \in Memory /\ 2 \in Memory
    BY <2>3, AllocateOwn
  <2>5. blocks' = [i \in {1, 2} |-> MapMemory(OpenWith(geometry, i), Payload)]
    BY <2>2, <2>4
  <2>6. ASSUME NEW i \in {1, 2}
        PROVE  LET new == MapMemory(OpenWith(geometry, i), Payload)
               IN  Ranged(new) /\ new.leader = "empty"
    <3> DEFINE b0 == OpenWith(geometry, i)
    <3>1. b0 \in Block /\ b0.geometry \in Geometries
      BY <2>4, OpenedOK DEF Counted
    <3>2. b0.leader = "empty"
      BY DEF OpenWith, NewBlock
    <3> HIDE DEF b0
    <3>3. Ranged(MapMemory(b0, Payload))
      BY <3>1, RangedMap, ReceiverAssumption
    <3>4. MapMemory(b0, Payload).leader = "empty"
      BY <3>1, <3>2, Leaders
    <3> QED
      BY <3>3, <3>4 DEF b0
  <2>7. \A id \in DOMAIN blocks' : Ranged(blocks'[id]) /\ blocks'[id].leader # "filled"
    BY <2>5, <2>6
  <2>8. wild => outgrown
    BY DEF SizesInv
  <2> QED
    BY <1>2, <2>1, <2>7, <2>8 DEF stream
<1>4. CASE \E geometry \in Geometry : Sends(geometry)
  BY <1>4, SizesSends
<1>5. CASE ReceiveLate
  <2>1. PICK packet \in delayed : Handle(packet) /\ delayed' = delayed \ {packet}
    BY <1>5 DEF ReceiveLate
  <2>2. /\ packet \in Packets /\ Begun(s, packet.block, camera)
        /\ packet.geometry = images[packet.block] /\ PartOf(packet.geometry, packet)
    BY <1>1 DEF SizesInv
  <2>3. \A id \in DOMAIN blocks :
          /\ Ranged(blocks[id])
          /\ blocks[id].leader = "filled" =>
               Begun(s, id, camera) /\ blocks[id].geometry = images[id]
    BY DEF SizesInv
  <2>4. /\ \A id \in DOMAIN blocks' :
             /\ Ranged(blocks'[id])
             /\ blocks'[id].leader = "filled" =>
                  Begun(s, id, camera) /\ blocks'[id].geometry = images[id]
        /\ wild' => outgrown'
    BY <2>1, <2>2, <2>3, SizesHandled
  <2>5. camera' = camera
    BY <1>5 DEF ReceiveLate
  <2> QED
    BY <1>2, <2>1, <2>4, <2>5
<1>6. CASE Close
  <2>1. DOMAIN blocks' = {} /\ ~wild' /\ UNCHANGED <<camera, delayed>>
    BY <1>6 DEF Close, stream
  <2> QED
    BY <1>2, <2>1
<1>7. CASE UNCHANGED vars
  <2>1. UNCHANGED <<blocks, wild, outgrown, camera, delayed>>
    BY <1>7 DEF vars
  <2> QED
    BY <1>2, <2>1 DEF SizesInv
<1> QED
  BY <1>3, <1>4, <1>5, <1>6, <1>7, Steps

\* Whatever the geometries the camera is given, and whatever is lost, repeated or
\* late, the thread looks outside a block's map only for a payload that comes before
\* its leader, of an image larger by more than a packet than its block was opened for.
THEOREM StaysInRange == Spec => []InRange
<1> DEFINE RInv == \E s \in {1, IdMax} : CountInv(s) /\ \E images : SizesInv(s, images)
<1>1. Init => RInv
  <2> SUFFICES ASSUME Init
               PROVE  RInv
    OBVIOUS
  <2>1. PICK s \in {1, IdMax} : CountInv(s)
    BY OrderInit
  <2>2. /\ DOMAIN blocks = {} /\ delayed = {} /\ camera.packet = 0 /\ ~wild
    BY DEF Init
  <2>3. PICK images : images = [id \in BlockIds |-> 0]
    OBVIOUS
  <2>4. SizesInv(s, images)
    BY <2>2, <2>3 DEF SizesInv
  <2> QED
    BY <2>1, <2>4
<1>2. ReceiverInv /\ RInv /\ [Next]_vars => RInv'
  <2> SUFFICES ASSUME ReceiverInv, RInv, [Next]_vars
               PROVE  RInv'
    OBVIOUS
  <2>1. PICK s \in {1, IdMax} : CountInv(s) /\ \E images : SizesInv(s, images)
    OBVIOUS
  <2>2. PICK images : SizesInv(s, images)
    BY <2>1
  <2>3. CountInv(s)' /\ \E new : SizesInv(s, new)'
    BY <2>1, <2>2, CountStep, SizesStep
  <2> QED
    BY <2>3
<1>3. RInv => InRange
  BY DEF SizesInv, InRange
<1> HIDE DEF RInv
<1> QED
  BY Invariance, <1>1, <1>2, <1>3, PTL DEF Spec
-----------------------------------------------------------------------------
(* The end of a block is asked for *)

Started(block) == \E i \in DOMAIN block.segments : block.segments[i] = "filled"
Asked(block) == \A i \in DOMAIN block.segments : block.segments[i] # "empty"

\* A block the camera has not come to has received nothing, until a packet
\* comes late; and what EndAsked states.
AskedInv(s) ==
  ~late =>
    /\ \A id \in DOMAIN blocks :
         Pos(s, id) > Pos(s, camera.block) => ~Started(blocks[id])
    /\ Resend /\ ~wild =>
         \A id \in DOMAIN blocks :
           NextBlockId(id) \in DOMAIN blocks /\ Started(blocks[NextBlockId(id)])
             => Asked(blocks[id])

\* Asking below the end leaves nothing to be asked for.
LEMMA AskedAtEnd ==
  ASSUME NEW block, Counted(block), NoGap(block)
  PROVE  Asked(DoResend(block, EndId(block)))
<1> DEFINE n == Len(block.segments)
           missing == MissingBefore(block, EndId(block))
           new == DoResend(block, EndId(block))
<1>1. block \in Block /\ n \in Nat /\ DOMAIN block.segments = 1..n
  BY SegmentsFinite DEF Counted
<1>2. EndId(block) - 1 = n /\ InMap(block, EndId(block))
  BY <1>1 DEF EndId, InMap
<1>3. new.segments = [i \in 1..n |->
                        IF i \in missing THEN "askedAgain" ELSE block.segments[i]]
  BY <1>1, <1>2 DEF DoResend, Block
<1>4. ASSUME NEW i \in 1..n, block.segments[i] = "empty"
      PROVE  i \in missing
  <2>1. ASSUME NEW j \in i..n
        PROVE  block.segments[j] = "empty"
    BY <1>1, <1>4 DEF NoGap
  <2> QED
    BY <1>1, <1>2, <2>1 DEF MissingBefore
<1> HIDE DEF new, missing
<1>5. Asked(new)
  BY <1>3, <1>4 DEF Asked
<1> QED
  BY <1>5 DEF new

LEMMA Neighbours ==
  ASSUME NEW id \in BlockIds
  PROVE  /\ NextBlockId(PreviousBlockId(id)) = id
         /\ \A i \in BlockIds : NextBlockId(i) = id <=> i = PreviousBlockId(id)
         /\ NextBlockId(id) # PreviousBlockId(id)
         /\ PreviousBlockId(PreviousBlockId(id)) # id
         /\ NextBlockId(NextBlockId(id)) # PreviousBlockId(id)
BY ReceiverAssumption DEF BlockIds, NextBlockId, PreviousBlockId

\* A mapped block has received nothing yet.
LEMMA MapUnstarted ==
  ASSUME NEW geometry \in Geometries, NEW memory \in Memory, NEW size \in Nat
  PROVE  ~Started(MapMemory(OpenWith(geometry, memory), size))
<1> DEFINE b0 == OpenWith(geometry, memory)
<1>1. b0 \in Block /\ b0.geometry \in Geometries /\ b0.segments = <<>>
  BY OpenedOK DEF Counted
<1> HIDE DEF b0
<1>2. CASE size = 0
  BY <1>1, <1>2 DEF MapMemory, Started, b0
<1>3. CASE size # 0
  BY <1>1, <1>3, MapShape DEF Started, b0
<1> QED
  BY <1>2, <1>3

\* What a packet of the camera's block leaves started and asked.
LEMMA AskedHandled ==
  ASSUME ReceiverInv, NEW s \in {1, IdMax}, CountInv(s), AskedInv(s), ~late,
         NEW geometry \in Geometry, Advance(geometry), Handle(Packet(geometry))
  PROVE  /\ \A id \in DOMAIN blocks' :
              Pos(s, id) > Pos(s, camera'.block) => ~Started(blocks'[id])
         /\ Resend /\ ~wild' =>
              \A id \in DOMAIN blocks' :
                NextBlockId(id) \in DOMAIN blocks' /\ Started(blocks'[NextBlockId(id)])
                  => Asked(blocks'[id])
<1> DEFINE packet == Packet(geometry)
           now == camera.block
           before == PreviousBlockId(now)
           next == NextBlockId(now)
           afterNext == NextBlockId(next)
           P(id) == Pos(s, id)
<1>1. /\ packet \in Packets /\ packet.block = now /\ camera.sent < MaxBlocks
      /\ \/ camera'.block = now /\ packet.kind # "trailer"
         \/ camera'.block = next
  BY CameraBlock
<1>2. /\ now \in BlockIds /\ before \in BlockIds /\ next \in BlockIds
      /\ afterNext \in BlockIds /\ camera.sent \in Nat
      /\ DOMAIN blocks \subseteq BlockIds
  BY Ids DEF ReceiverInv, TypeOK
<1>3. /\ P(next) = P(now) + 1 /\ P(afterNext) = P(now) + 2
      /\ \A id \in BlockIds : P(id) \in Int
  <2>1. P(now) <= MaxBlocks
    BY <1>1, <1>2, ReceiverAssumption DEF CountInv
  <2> QED
    BY <1>2, <2>1, Positions
<1>4. /\ \A i \in BlockIds : NextBlockId(i) = now <=> i = before
      /\ \A i \in BlockIds : NextBlockId(i) \in BlockIds
      /\ before # now /\ next # now /\ afterNext # now /\ next # before
      /\ afterNext # before /\ NextBlockId(before) = now /\ next # afterNext
      /\ \A i \in BlockIds : NextBlockId(i) = before => i # now /\ i # before
  BY <1>2, Ids, Neighbours
<1>5. /\ \A id \in DOMAIN blocks : P(id) > P(now) => ~Started(blocks[id])
      /\ Resend /\ ~wild =>
           \A id \in DOMAIN blocks :
             NextBlockId(id) \in DOMAIN blocks /\ Started(blocks[NextBlockId(id)])
               => Asked(blocks[id])
  BY DEF AskedInv
<1>6. MapInv /\ packet.kind \in {"leader", "payload", "trailer"}
  BY <1>1, MapInvOf DEF Packets
<1>7. ASSUME NEW i \in DOMAIN blocks
      PROVE  /\ Counted(blocks[i]) /\ blocks[i] \in Block
             /\ blocks[i].geometry \in Geometries /\ blocks[i].size \in Nat
             /\ Resend /\ ~wild => NoGap(blocks[i])
  BY <1>6 DEF MapInv, Counted, Block
<1>8. \A id \in BlockIds : P(id) > P(camera'.block) => P(id) > P(now)
  BY <1>1, <1>2, <1>3
<1> HIDE DEF packet, P, next, afterNext, before
<1>9. CASE packet.kind = "leader"
  <2> DEFINE old == IF now \in DOMAIN blocks THEN blocks[now] ELSE NewBlock
  <2>1. /\ DOMAIN blocks' = DOMAIN blocks \cup {now}
        /\ \A i \in DOMAIN blocks : i # now => blocks'[i] = blocks[i]
        /\ \E memory : blocks'[now] = WithLeader(old, packet.geometry, memory)
        /\ UNCHANGED wild
    BY <1>1, <1>9, LeaderBlocks DEF Handle, packet
  <2>2. PICK memory : blocks'[now] = WithLeader(old, packet.geometry, memory)
    BY <2>1
  <2>3. old \in Block /\ packet.geometry \in Geometries
    BY <1>1, <1>7, <1>9, NewBlockOK DEF Packets
  <2>4. \/ blocks'[now].segments = <<>>
        \/ blocks'[now].segments = old.segments
    BY <2>2, <2>3, LeaderShape
  <2>5. blocks'[now].segments = <<>>
          \/ (now \in DOMAIN blocks /\ blocks'[now].segments = blocks[now].segments)
    BY <2>4, NewBlockOK
  <2>6. ASSUME NEW i \in DOMAIN blocks', Started(blocks'[i])
        PROVE  i \in DOMAIN blocks /\ Started(blocks[i])
    BY <2>1, <2>5, <2>6 DEF Started
  <2>7. ASSUME NEW i \in DOMAIN blocks', i \in DOMAIN blocks => Asked(blocks[i])
        PROVE  Asked(blocks'[i])
    BY <2>1, <2>5, <2>7 DEF Asked
  <2> HIDE DEF old
  <2> QED
    <3>1. ASSUME NEW i \in DOMAIN blocks', P(i) > P(camera'.block)
          PROVE  ~Started(blocks'[i])
      BY <1>2, <1>5, <1>8, <2>6, <3>1
    <3>2. ASSUME Resend, ~wild', NEW i \in DOMAIN blocks',
                 NextBlockId(i) \in DOMAIN blocks', Started(blocks'[NextBlockId(i)])
          PROVE  Asked(blocks'[i])
      <4>1. NextBlockId(i) \in DOMAIN blocks /\ Started(blocks[NextBlockId(i)])
        BY <2>6, <3>2
      <4>2. ~wild
        BY <2>1, <3>2
      <4> QED
        BY <1>5, <2>7, <3>2, <4>1, <4>2
    <3> QED
      BY <3>1, <3>2 DEF P
<1>10. CASE packet.kind = "payload"
  <2>1. HandlePayload(packet) /\ camera'.block \in {now, next}
    BY <1>1, <1>10 DEF Handle, packet
  <2>2. CASE DOMAIN blocks = {}
    BY <2>1, <2>2 DEF HandlePayload
  <2>3. CASE DOMAIN blocks # {}
    <3> DEFINE old == OpenBlock(now)
               new == InsertSegment(old, packet.id, packet.size)
    <3>1. /\ DOMAIN blocks' = DOMAIN blocks \cup {now}
          /\ \A i \in DOMAIN blocks : i # now /\ i # before => blocks'[i] = blocks[i]
          /\ before \in DOMAIN blocks =>
               blocks'[before] = IF Resend
                                 THEN DoResend(blocks[before], EndId(blocks[before]))
                                 ELSE blocks[before]
          /\ wild' = (wild \/ (Resend /\ ~InMap(new, packet.id)))
      BY <1>1, <1>6, <2>1, <2>3, PayloadBlocks DEF before
    <3> HIDE DEF new
    <3>2. ASSUME NEW i \in DOMAIN blocks, i # now
          PROVE  Started(blocks'[i]) <=> Started(blocks[i])
      <4>1. CASE i = before /\ Resend
        BY <1>7, <3>1, <4>1, ResendShape DEF Started
      <4>2. CASE i # before \/ ~Resend
        BY <3>1, <3>2, <4>2
      <4> QED
        BY <4>1, <4>2
    <3>3. ASSUME NEW i \in DOMAIN blocks', P(i) > P(camera'.block)
          PROVE  ~Started(blocks'[i])
      BY <1>2, <1>3, <1>5, <1>8, <3>1, <3>2, <3>3
    <3>4. ASSUME Resend, ~wild', NEW i \in DOMAIN blocks',
                 NextBlockId(i) \in DOMAIN blocks', Started(blocks'[NextBlockId(i)])
          PROVE  Asked(blocks'[i])
      <4>0. ~wild /\ i \in BlockIds
        BY <1>2, <3>1, <3>4
      <4>1. CASE i = before
        BY <1>4, <1>7, <3>1, <3>4, <4>0, <4>1, AskedAtEnd
      <4>2. CASE i = now
        <5>1. next \in DOMAIN blocks /\ ~Started(blocks[next]) /\ Started(blocks'[next])
          BY <1>2, <1>3, <1>4, <1>5, <3>1, <3>4, <4>2 DEF next
        <5> QED
          BY <1>4, <3>2, <5>1
      <4>3. CASE i # before /\ i # now
        <5>1. i \in DOMAIN blocks /\ blocks'[i] = blocks[i] /\ NextBlockId(i) # now
          BY <1>4, <3>1, <4>0, <4>3
        <5>2. NextBlockId(i) \in DOMAIN blocks /\ Started(blocks[NextBlockId(i)])
          BY <3>1, <3>2, <3>4, <5>1
        <5> QED
          BY <1>5, <3>4, <4>0, <5>1, <5>2
      <4> QED
        BY <4>1, <4>2, <4>3
    <3> QED
      BY <3>3, <3>4 DEF P
  <2> QED
    BY <2>2, <2>3
<1>11. CASE packet.kind = "trailer"
  <2>1. HandleTrailer(packet) /\ camera'.block = next
    BY <1>1, <1>11 DEF Handle, packet
  <2>2. /\ (wild' <=> wild)
        /\ \/ /\ DOMAIN blocks' = DOMAIN blocks \ {before}
              /\ \A i \in DOMAIN blocks' : blocks'[i] = blocks[i]
           \/ /\ now \in DOMAIN blocks
              /\ DOMAIN blocks' = {next, afterNext}
                   \cup (IF blocks[now].empty = 0 THEN {} ELSE {now})
              /\ \A i \in {next, afterNext} :
                   blocks'[i] = IF i \in DOMAIN blocks THEN blocks[i]
                                ELSE MapMemory(OpenWith(blocks[now].geometry, i),
                                               blocks[now].size)
    BY <1>1, <1>6, <2>1, TrailerBlocks DEF before, next, afterNext
  <2>3. CASE /\ DOMAIN blocks' = DOMAIN blocks \ {before}
             /\ \A i \in DOMAIN blocks' : blocks'[i] = blocks[i]
    <3>1. ASSUME NEW i \in DOMAIN blocks', P(i) > P(camera'.block)
          PROVE  ~Started(blocks'[i])
      BY <1>2, <1>5, <1>8, <2>3, <3>1
    <3> QED
      BY <1>5, <2>2, <2>3, <3>1 DEF P
  <2>4. CASE /\ now \in DOMAIN blocks
             /\ DOMAIN blocks' = {next, afterNext}
                  \cup (IF blocks[now].empty = 0 THEN {} ELSE {now})
             /\ \A i \in {next, afterNext} :
                  blocks'[i] = IF i \in DOMAIN blocks THEN blocks[i]
                               ELSE MapMemory(OpenWith(blocks[now].geometry, i),
                                              blocks[now].size)
    <3>1. ASSUME NEW i \in {next, afterNext}
          PROVE  ~Started(blocks'[i])
      <4>1. CASE i \in DOMAIN blocks
        BY <1>2, <1>3, <1>5, <2>4, <4>1
      <4>2. CASE i \notin DOMAIN blocks
        <5>1. i \in Memory
          BY <1>2, ReceiverAssumption DEF BlockIds, Memory
        <5> QED
          BY <1>7, <2>4, <4>2, <5>1, MapUnstarted
      <4> QED
        BY <4>1, <4>2
    <3>2. ASSUME NEW i \in DOMAIN blocks', NextBlockId(i) \in DOMAIN blocks'
          PROVE  ~Started(blocks'[NextBlockId(i)])
      <4>1. i \in BlockIds /\ i # before
        BY <1>2, <1>4, <2>4
      <4>2. NextBlockId(i) \in {next, afterNext}
        BY <1>4, <2>4, <3>2, <4>1
      <4> QED
        BY <3>1, <4>2
    <3>3. ASSUME NEW i \in DOMAIN blocks', P(i) > P(next)
          PROVE  ~Started(blocks'[i])
      BY <1>2, <1>3, <2>4, <3>1, <3>3
    <3> QED
      BY <2>1, <3>2, <3>3 DEF P
  <2> QED
    BY <2>2, <2>3, <2>4
<1> QED
  BY <1>6, <1>9, <1>10, <1>11

LEMMA AskedStep ==
  ASSUME ReceiverInv, NEW s \in {1, IdMax}, CountInv(s), AskedInv(s), [Next]_vars
  PROVE  AskedInv(s)'
<1> SUFFICES ASSUME ~late'
             PROVE  /\ \A id \in DOMAIN blocks' :
                         Pos(s, id) > Pos(s, camera'.block) => ~Started(blocks'[id])
                    /\ Resend /\ ~wild' =>
                         \A id \in DOMAIN blocks' :
                           NextBlockId(id) \in DOMAIN blocks'
                             /\ Started(blocks'[NextBlockId(id)])
                             => Asked(blocks'[id])
  BY DEF AskedInv, Started, Asked, Pos, NextBlockId
<1>1. DOMAIN blocks \subseteq BlockIds /\ camera.block \in BlockIds /\ MapInv
  BY MapInvOf DEF ReceiverInv, TypeOK
<1>2. CASE PreallocImages
  <2>1. PICK geometry \in Geometries :
          LET one == Allocate(lent, 1)
              two == Allocate(lent \cup {one}, 2)
          IN  blocks' = [i \in {1, 2} |->
                 MapMemory(OpenWith(geometry, IF i = 1 THEN one ELSE two), Payload)]
    BY <1>2 DEF PreallocImages
  <2>2. lent = {} /\ 1 \in BlockIds /\ 2 \in BlockIds
    BY <1>1, <1>2, ReceiverAssumption DEF PreallocImages, MapInv, BlockIds
  <2>3. Allocate(lent, 1) = 1 /\ Allocate(lent \cup {1}, 2) = 2
        /\ 1 \in Memory /\ 2 \in Memory
    BY <2>2, AllocateOwn
  <2>4. blocks' = [i \in {1, 2} |-> MapMemory(OpenWith(geometry, i), Payload)]
    BY <2>1, <2>3
  <2>5. \A i \in {1, 2} : ~Started(MapMemory(OpenWith(geometry, i), Payload))
    BY <2>3, MapUnstarted, ReceiverAssumption
  <2> QED
    BY <2>4, <2>5
<1>3. CASE \E geometry \in Geometry : Sends(geometry)
  <2>1. PICK geometry \in Geometry : Sends(geometry)
    BY <1>3
  <2>2. ~late /\ Advance(geometry)
    BY <2>1 DEF Sends
  <2>3. CASE Handle(Packet(geometry))
    BY <2>2, <2>3, AskedHandled
  <2>4. CASE UNCHANGED <<blocks, lent, pushed, thread, wild, streak, complete,
                         misled, outgrown>>
    <3>1. CountInv(s)'
      BY CountStep
    <3>2. Pos(s, camera'.block) \in {Pos(s, camera.block), Pos(s, camera.block) + 1}
      BY <3>1, <2>2, CameraBlock DEF CountInv, ReceiverInv, TypeOK, Pos
    <3>3. /\ \A id \in BlockIds : Pos(s, id) \in Int
          /\ Pos(s, camera.block) \in Int
      BY <1>1, Positions
    <3> QED
      BY <1>1, <2>2, <2>4, <3>2, <3>3 DEF AskedInv
  <2> QED
    BY <2>1, <2>3, <2>4 DEF Sends
<1>4. CASE ReceiveLate
  BY <1>4 DEF ReceiveLate
<1>5. CASE Close
  <2>1. DOMAIN blocks' = {}
    BY <1>5 DEF Close
  <2> QED
    BY <2>1
<1>6. CASE UNCHANGED vars
  BY <1>6 DEF vars, AskedInv
<1> QED
  BY <1>2, <1>3, <1>4, <1>5, <1>6, Steps

\* With the resend policy on, and nothing late, whatever is missing at the end
\* of a block has been asked for once the next block has received a segment.
THEOREM AskedByNext == Spec => []EndAsked
<1> DEFINE AInv == \E s \in {1, IdMax} : CountInv(s) /\ AskedInv(s)
<1>1. Init => AInv
  <2> SUFFICES ASSUME Init
               PROVE  AInv
    OBVIOUS
  <2>1. PICK s \in {1, IdMax} : CountInv(s)
    BY OrderInit
  <2>2. DOMAIN blocks = {}
    BY DEF Init
  <2>3. AskedInv(s)
    BY <2>2 DEF AskedInv
  <2> QED
    BY <2>1, <2>3
<1>2. ReceiverInv /\ AInv /\ [Next]_vars => AInv'
  <2> SUFFICES ASSUME ReceiverInv, AInv, [Next]_vars
               PROVE  AInv'
    OBVIOUS
  <2>1. PICK s \in {1, IdMax} : CountInv(s) /\ AskedInv(s)
    OBVIOUS
  <2>2. CountInv(s)' /\ AskedInv(s)'
    BY <2>1, CountStep, AskedStep
  <2> QED
    BY <2>2
<1>3. AInv => EndAsked
  BY DEF AskedInv, EndAsked, Started, Asked
<1> HIDE DEF AInv
<1> QED
  BY Invariance, <1>1, <1>2, <1>3, PTL DEF Spec
-----------------------------------------------------------------------------
(* An intact image is whole *)

\* A block cut into full packets of its image, or not mapped.
Cut(block) ==
  IF block.segments = <<>> THEN block.size = 0
  ELSE /\ block.size = Least(Payload, block.geometry)
       /\ Len(block.segments) = SegmentsCount(block.geometry, Payload)

LEMMA CutCount ==
  ASSUME NEW geometry \in Nat \ {0}, NEW size \in Nat \ {0}, size <= Payload,
         Least(Payload, geometry) <= size
  PROVE  /\ SegmentsCount(geometry, size) = SegmentsCount(geometry, Payload)
         /\ Least(size, geometry) = Least(Payload, geometry)
<1>1. Payload \in Nat \ {0}
  BY ReceiverAssumption
<1>2. CASE geometry >= Payload
  <2>1. size = Payload
    BY <1>1, <1>2 DEF Least
  <2> QED
    BY <2>1
<1>3. CASE geometry < Payload
  <2>1. geometry <= size
    BY <1>1, <1>3 DEF Least
  <2>2. ASSUME NEW larger \in Nat \ {0}, geometry <= larger
        PROVE  SegmentsCount(geometry, larger) = 1
    <3> DEFINE n == SegmentsCount(geometry, larger)
    <3>1. n \in Nat \ {0} /\ (n - 1) * larger < geometry
      BY CountPositive
    <3> HIDE DEF n
    <3>2. SUFFICES ASSUME n - 1 >= 1
                   PROVE  FALSE
      BY <3>1 DEF n
    <3>3. \A x, y, z \in Nat : x <= y => x * z <= y * z
      OBVIOUS
    <3>4. 1 * larger <= (n - 1) * larger
      BY <3>1, <3>2, <3>3
    <3>5. (n - 1) * larger \in Int /\ 1 * larger = larger
      BY <3>1
    <3> QED
      BY <2>2, <3>1, <3>4, <3>5
  <2>3. SegmentsCount(geometry, size) = 1 /\ SegmentsCount(geometry, Payload) = 1
    BY <1>1, <1>3, <2>1, <2>2
  <2> QED
    BY <1>1, <1>3, <2>1, <2>3 DEF Least
<1> QED
  BY <1>1, <1>2, <1>3

LEMMA CutMap ==
  ASSUME NEW block \in Block, block.geometry \in Geometries, NEW size \in Nat \ {0},
         size <= Payload, Least(Payload, block.geometry) <= size
  PROVE  LET new == MapMemory(block, size)
         IN  /\ Cut(new) /\ new.geometry = block.geometry /\ new.segments # <<>>
             /\ \A i \in DOMAIN new.segments : new.segments[i] = "empty"
<1> DEFINE new == MapMemory(block, size)
           count == SegmentsCount(block.geometry, size)
<1>1. /\ Shape(new) = <<block.geometry, Least(size, block.geometry), count>>
      /\ DOMAIN new.segments = 1..count
      /\ count \in Nat \ {0}
      /\ \A i \in 1..count : new.segments[i] = "empty"
  BY MapShape
<1>2. /\ count = SegmentsCount(block.geometry, Payload)
      /\ Least(size, block.geometry) = Least(Payload, block.geometry)
  BY CutCount, ReceiverAssumption
<1>3. /\ new.geometry = block.geometry /\ new.size = Least(size, block.geometry)
      /\ Len(new.segments) = count
  BY <1>1 DEF Shape
<1>4. new.segments # <<>>
  BY <1>1
<1> HIDE DEF new, count
<1>5. Cut(new)
  BY <1>2, <1>3, <1>4 DEF Cut
<1> QED
  BY <1>1, <1>3, <1>4, <1>5 DEF new

LEMMA CutShape ==
  ASSUME NEW a \in Block, NEW b \in Block, Shape(a) = Shape(b), Cut(a)
  PROVE  Cut(b)
BY SameShape DEF Cut

\* Every payload of an image fits the block that is cut for it.
LEMMA CutFits ==
  ASSUME NEW block \in Block, block.geometry \in Geometries, Cut(block),
         block.segments # <<>>,
         NEW id \in 1..SegmentsCount(block.geometry, Payload)
  PROVE  /\ id \in 1..Len(block.segments)
         /\ PacketSize(block.geometry, id) \in {SegmentSize(block, id), block.size}
<1> DEFINE geometry == block.geometry
           n == SegmentsCount(geometry, Payload)
<1>1. /\ geometry \in Nat \ {0} /\ Payload \in Nat \ {0} /\ n \in Nat \ {0}
      /\ (n - 1) * Payload < geometry /\ n * Payload >= geometry
  BY CountPositive, CountCovers, ReceiverAssumption
<1>2. Len(block.segments) = n /\ block.size = Least(Payload, geometry)
  BY DEF Cut
<1>3. id < n => PacketSize(geometry, id) = Payload
  BY PartSize
<1> HIDE DEF n
<1>4. id \in 1..n
  BY DEF n
<1>5. ASSUME n >= 2
      PROVE  block.size = Payload
  <2>1. \A x, y, z \in Nat : x <= y => x * z <= y * z
    OBVIOUS
  <2>2. 1 * Payload <= (n - 1) * Payload
    BY <1>1, <1>5, <2>1
  <2>3. Payload < geometry
    BY <1>1, <2>2
  <2> QED
    BY <1>1, <1>2, <2>3 DEF Least
<1>6. CASE id < n
  BY <1>1, <1>2, <1>3, <1>4, <1>5, <1>6
<1>7. CASE id = n /\ n = 1
  <2>1. (id - 1) * Payload = 0
    BY <1>1, <1>7
  <2>2. PacketSize(geometry, id) = block.size
    BY <1>1, <1>2, <2>1 DEF PacketSize
  <2> QED
    BY <1>2, <1>4, <2>2
<1>8. CASE id = n /\ n >= 2
  <2>1. n * Payload = (n - 1) * Payload + Payload /\ (n - 1) * Payload \in Int
    BY <1>1
  <2>2. geometry - (n - 1) * Payload <= Payload
    BY <1>1, <2>1
  <2>3. PacketSize(geometry, id) = geometry - (n - 1) * Payload
    BY <1>1, <1>8, <2>1, <2>2 DEF PacketSize, Least
  <2>4. SegmentSize(block, id) = geometry - (n - 1) * Payload
    BY <1>1, <1>2, <1>5, <1>8 DEF SegmentSize
  <2> QED
    BY <1>2, <1>4, <2>3, <2>4
<1> QED
  BY <1>1, <1>4, <1>6, <1>7, <1>8

LEMMA FillFills ==
  ASSUME NEW block \in Block, NEW id \in 1..Len(block.segments),
         NEW size \in {SegmentSize(block, id), block.size}
  PROVE  Fill(block, id, size).segments[id] = "filled"
<1>1. CASE block.segments[id] = "filled"
  BY <1>1 DEF Fill
<1>2. CASE block.segments[id] # "filled"
  <2>1. Fill(block, id, size)
          = [block EXCEPT !.segments[id] = "filled", !.empty = @ - 1]
    BY <1>2 DEF Fill
  <2>2. id \in DOMAIN block.segments
    BY SegmentsFinite
  <2> QED
    BY <2>1, <2>2 DEF Block
<1> QED
  BY <1>1, <1>2

\* A block with all its segments filled is handed over as full.
LEMMA CutWhole ==
  ASSUME NEW block, Counted(block), block.segments # <<>>,
         \A i \in DOMAIN block.segments : block.segments[i] = "filled",
         NEW id
  PROVE  /\ block.empty = 0
         /\ Image(id, block, TRUE) = [block |-> id, whole |-> TRUE, full |-> TRUE]
<1>1. Holes(block) = {}
  BY DEF Holes
<1>2. block.empty = 0
  BY <1>1, FS_EmptySet DEF Counted
<1>3. Image(id, block, TRUE).full = TRUE
  BY DEF Image
<1> QED
  BY <1>2, <1>3 DEF Image

\* A payload cuts its block, when it does not mislead it.
LEMMA CutInsert ==
  ASSUME NEW old, Counted(old), Cut(old), NEW geometry \in Geometries,
         NEW packet \in Packets, PartOf(geometry, packet), packet.kind = "payload",
         ~(old.segments = <<>> /\ packet.size < Least(Payload, old.geometry))
  PROVE  LET new == InsertSegment(old, packet.id, packet.size)
         IN  /\ Counted(new) /\ Cut(new) /\ new.geometry = old.geometry
             /\ \A i \in DOMAIN old.segments : old.segments[i] = "filled"
                  => i \in DOMAIN new.segments /\ new.segments[i] = "filled"
             /\ old.geometry = geometry =>
                  /\ packet.id \in DOMAIN new.segments
                  /\ new.segments[packet.id] = "filled"
<1> DEFINE new == InsertSegment(old, packet.id, packet.size)
           b0 == IF old.segments = <<>> THEN MapMemory(old, packet.size) ELSE old
<1>1. /\ packet.id \in 1..SegmentsCount(geometry, Payload)
      /\ packet.size = PacketSize(geometry, packet.id)
      /\ packet.size \in Nat \ {0} /\ packet.size <= Payload
  BY PartSize, ReceiverAssumption DEF PartOf
<1>2. old \in Block /\ old.geometry \in Geometries /\ old.geometry \in Nat \ {0}
  BY ReceiverAssumption DEF Counted
<1>3. /\ Counted(b0) /\ Cut(b0) /\ b0.segments # <<>> /\ b0.geometry = old.geometry
      /\ \A i \in DOMAIN old.segments : old.segments[i] = "filled"
           => i \in DOMAIN b0.segments /\ b0.segments[i] = "filled"
  <2>1. CASE old.segments = <<>>
    <3>1. Counted(MapMemory(old, packet.size))
      BY <1>1, <1>2, <2>1, MapMemoryCounts
    <3>2. Least(Payload, old.geometry) <= packet.size
      BY <1>1, <1>2, <2>1, ReceiverAssumption DEF Least
    <3>3. /\ Cut(MapMemory(old, packet.size))
          /\ MapMemory(old, packet.size).geometry = old.geometry
          /\ MapMemory(old, packet.size).segments # <<>>
      BY <1>1, <1>2, <3>2, CutMap
    <3> QED
      BY <2>1, <3>1, <3>3
  <2>2. CASE old.segments # <<>>
    BY <2>2
  <2> QED
    BY <2>1, <2>2
<1>4. new = Fill(b0, packet.id, packet.size)
  BY DEF InsertSegment
<1> HIDE DEF b0, new
<1>5. b0 \in Block
  BY <1>3 DEF Counted
<1>6. /\ Counted(new) /\ new \in Block /\ new.geometry = b0.geometry
      /\ DOMAIN new.segments = DOMAIN b0.segments
      /\ \A i \in DOMAIN b0.segments : i # packet.id =>
           new.segments[i] = b0.segments[i]
  BY <1>3, <1>4, FillCounts DEF Counted
<1>7. Cut(new)
  <2>1. Shape(new) = Shape(b0)
    BY <1>4, <1>5, FillShape
  <2> QED
    BY <1>3, <1>5, <1>6, <2>1, CutShape
<1>8. ASSUME old.geometry = geometry
      PROVE  /\ packet.id \in DOMAIN new.segments
             /\ new.segments[packet.id] = "filled"
  <2>1. /\ packet.id \in 1..Len(b0.segments)
        /\ packet.size \in {SegmentSize(b0, packet.id), b0.size}
    BY <1>1, <1>2, <1>3, <1>5, <1>8, CutFits
  <2>2. new.segments[packet.id] = "filled"
    BY <1>4, <1>5, <2>1, FillFills
  <2>3. DOMAIN b0.segments = 1..Len(b0.segments)
    BY <1>5, SegmentsFinite
  <2> QED
    BY <1>6, <2>1, <2>2, <2>3
<1>9. ASSUME NEW i \in DOMAIN b0.segments, b0.segments[i] = "filled"
      PROVE  new.segments[i] = "filled"
  <2>1. CASE i # packet.id
    BY <1>6, <1>9, <2>1
  <2>2. CASE i = packet.id
    BY <1>4, <1>9, <2>2 DEF Fill
  <2> QED
    BY <2>1, <2>2
<1> QED
  BY <1>3, <1>6, <1>7, <1>8, <1>9 DEF new

CutInv == ~misled => \A id \in DOMAIN blocks : Cut(blocks[id])

\* What a streak says of its block: given the geometries of the images, all that
\* came of this one is in place.
InPlace(image, streakId, end) ==
  /\ streakId \in DOMAIN blocks /\ blocks[streakId].geometry = image
  /\ \A i \in 1..(end - 1) : /\ i \in DOMAIN blocks[streakId].segments
                             /\ blocks[streakId].segments[i] = "filled"

StreakInv(images) ==
  streak # <<>> =>
    /\ images[streak[1]] \in Geometries /\ streak[2] >= 1
    /\ ~misled /\ streak[2] <= TrailerId(images[streak[1]]) =>
         InPlace(images[streak[1]], streak[1], streak[2])

LEMMA IntactLeader ==
  ASSUME MapInv, CutInv, NEW images, NEW packet \in Packets, Handle(packet),
         images[packet.block] \in Geometries,
         PartOf(images[packet.block], packet), packet.kind = "leader"
  PROVE  CutInv' /\ StreakInv(images)' /\ IntactIsWhole'
<1> DEFINE id == packet.block
           geometry == images[id]
           old == IF id \in DOMAIN blocks THEN blocks[id] ELSE NewBlock
<1>1. /\ DOMAIN blocks' = DOMAIN blocks \cup {id}
      /\ \A i \in DOMAIN blocks : i # id => blocks'[i] = blocks[i]
      /\ \E memory : blocks'[id] = WithLeader(old, packet.geometry, memory)
      /\ UNCHANGED misled
  BY LeaderBlocks DEF Handle
<1>2. PICK memory : blocks'[id] = WithLeader(old, packet.geometry, memory)
  BY <1>1
<1>3. /\ streak' = <<id, 1>> /\ complete' = 0 /\ packet.geometry = geometry
      /\ packet.id = 0
  BY DEF Handle, PartOf
<1>4. old \in Block /\ (~misled => Cut(old))
  <2>1. Cut(NewBlock)
    BY DEF Cut, NewBlock
  <2>2. ASSUME id \in DOMAIN blocks
        PROVE  blocks[id] \in Block /\ (~misled => Cut(blocks[id]))
    BY <2>2 DEF MapInv, Counted, CutInv
  <2> QED
    BY <2>1, <2>2, NewBlockOK
<1> HIDE DEF old
<1>5. /\ blocks'[id].geometry = geometry
      /\ \/ blocks'[id].segments = <<>> /\ blocks'[id].size = 0
         \/ /\ old.geometry = geometry /\ blocks'[id].size = old.size
            /\ blocks'[id].segments = old.segments
  BY <1>2, <1>3, <1>4, LeaderShape
<1>6. CutInv'
  <2>1. ~misled => Cut(blocks'[id])
    BY <1>4, <1>5 DEF Cut
  <2> QED
    BY <1>1, <2>1 DEF CutInv
<1>7. StreakInv(images)'
  <2>1. streak'[1] = id /\ streak'[2] = 1
    BY <1>3
  <2>2. InPlace(images[streak[1]], streak[1], streak[2])'
    BY <1>1, <1>5, <2>1 DEF InPlace
  <2> QED
    BY <2>1, <2>2 DEF StreakInv
<1>8. IntactIsWhole'
  BY <1>3 DEF IntactIsWhole
<1> QED
  BY <1>6, <1>7, <1>8

LEMMA IntactPayload ==
  ASSUME MapInv, CutInv, NEW images, StreakInv(images),
         streak \in (BlockIds \X Nat) \cup {<<>>},
         NEW packet \in Packets, Handle(packet),
         images[packet.block] \in Geometries,
         PartOf(images[packet.block], packet), packet.kind = "payload"
  PROVE  CutInv' /\ StreakInv(images)' /\ IntactIsWhole'
<1> DEFINE id == packet.block
           geometry == images[id]
           before == PreviousBlockId(id)
<1>1. /\ HandlePayload(packet) /\ complete' = 0
      /\ streak' = IF streak = <<id, packet.id>> THEN <<id, packet.id + 1>> ELSE <<>>
  BY DEF Handle
<1>2. IntactIsWhole'
  BY <1>1 DEF IntactIsWhole
<1>3. id \in BlockIds /\ before # id /\ packet.id \in Nat
      /\ packet.id <= TrailerId(geometry) /\ packet.id >= 1
  <2>1. id \in BlockIds /\ packet.id \in Nat
    BY DEF Packets
  <2>2. SegmentsCount(geometry, Payload) \in Nat
        /\ packet.id \in 1..SegmentsCount(geometry, Payload)
    BY CountPositive, ReceiverAssumption DEF PartOf
  <2> QED
    BY <2>1, <2>2, Ids DEF TrailerId
\* A streak that goes on: what it says of the block before this packet.
<1>4. ASSUME ~misled, streak = <<id, packet.id>>
      PROVE  InPlace(geometry, id, packet.id)
  <2>1. streak # <<>> /\ streak[1] = id /\ streak[2] = packet.id
    BY <1>4
  <2> QED
    BY <1>3, <1>4, <2>1 DEF StreakInv
<1>5. CASE DOMAIN blocks = {}
  <2>1. UNCHANGED <<blocks, misled>>
    BY <1>1, <1>5 DEF HandlePayload
  <2>2. CutInv'
    BY <2>1 DEF CutInv
  <2>3. ASSUME ~misled', streak' # <<>>
        PROVE  FALSE
    BY <1>1, <1>4, <1>5, <2>1, <2>3 DEF InPlace
  <2>4. streak' # <<>> => /\ streak'[1] = id /\ streak'[2] = packet.id + 1
    BY <1>1
  <2>5. StreakInv(images)'
    BY <1>3, <2>3, <2>4 DEF StreakInv
  <2> QED
    BY <1>2, <2>2, <2>5
<1>6. CASE DOMAIN blocks # {}
  <2> DEFINE old == OpenBlock(id)
             new == InsertSegment(old, packet.id, packet.size)
             last == IF Resend THEN DoResend(AskLeader(new), packet.id) ELSE new
  <2>1. /\ Receives(id, old)
        /\ DOMAIN blocks' = DOMAIN blocks \cup {id}
        /\ \A i \in DOMAIN blocks : i # id /\ i # before => blocks'[i] = blocks[i]
        /\ before \in DOMAIN blocks =>
             blocks'[before] = IF Resend
                               THEN DoResend(blocks[before], EndId(blocks[before]))
                               ELSE blocks[before]
        /\ blocks'[id] = last
        /\ misled' = (misled \/ (old.segments = <<>>
                                 /\ packet.size < Least(Payload, old.geometry)))
    BY <1>1, <1>6, PayloadBlocks
  <2> HIDE DEF old
  <2>2. Counted(old)
    BY <1>3, <2>1, ReceivedCounts
  <2>3. ~misled => Cut(old)
    <3>1. \A g, m : Cut(OpenWith(g, m))
      BY OpenShape DEF Cut
    <3> QED
      BY <2>1, <3>1 DEF Receives, CutInv
  <2>4. ASSUME ~misled'
        PROVE  /\ Counted(new) /\ Cut(new) /\ new.geometry = old.geometry
               /\ \A i \in DOMAIN old.segments : old.segments[i] = "filled"
                    => i \in DOMAIN new.segments /\ new.segments[i] = "filled"
               /\ old.geometry = geometry =>
                    /\ packet.id \in DOMAIN new.segments
                    /\ new.segments[packet.id] = "filled"
    <3>1. /\ Cut(old)
          /\ ~(old.segments = <<>> /\ packet.size < Least(Payload, old.geometry))
      BY <2>1, <2>3, <2>4
    <3> QED
      BY <2>2, <3>1, CutInsert
  <2> HIDE DEF new
  \* The resend policy neither unmaps nor empties a segment.
  <2>5. ASSUME ~misled'
        PROVE  /\ Cut(last) /\ last.geometry = new.geometry
               /\ DOMAIN last.segments = DOMAIN new.segments
               /\ \A i \in DOMAIN new.segments : new.segments[i] = "filled"
                    => last.segments[i] = "filled"
    <3>1. CASE ~Resend
      BY <2>4, <2>5, <3>1
    <3>2. CASE Resend
      <4> DEFINE asked == AskLeader(new)
                 end == DoResend(asked, packet.id)
      <4>1. /\ new \in Block /\ asked \in Block /\ Counted(asked)
            /\ Shape(asked) = Shape(new) /\ asked.segments = new.segments
        BY <2>4, <2>5, AskLeaderCounts, AskLeaderShape DEF Counted
      <4> HIDE DEF asked
      <4>2. /\ end \in Block /\ Shape(end) = Shape(asked)
            /\ DOMAIN end.segments = DOMAIN asked.segments
            /\ \A i \in DOMAIN asked.segments : asked.segments[i] = "filled"
                 => end.segments[i] = "filled"
        BY <1>3, <4>1, DoResendCounts, ResendShape DEF Counted
      <4>3. last = end
        BY <3>2 DEF asked
      <4> HIDE DEF end, last
      <4>4. Cut(asked)
        BY <2>4, <2>5, <4>1, CutShape
      <4>5. Cut(end) /\ end.geometry = new.geometry
        BY <4>1, <4>2, <4>4, CutShape, SameShape
      <4> QED
        BY <4>1, <4>2, <4>3, <4>5
    <3> QED
      BY <3>1, <3>2
  <2> HIDE DEF last
  <2>6. CutInv'
    <3> SUFFICES ASSUME ~misled', NEW i \in DOMAIN blocks'
                 PROVE  Cut(blocks'[i])
      BY DEF CutInv
    <3>1. CASE i = id
      BY <2>1, <2>5, <3>1
    <3>2. CASE i # id
      <4>1. i \in DOMAIN blocks /\ ~misled
        BY <2>1, <3>2
      <4>2. Cut(blocks[i]) /\ blocks[i] \in Block /\ Counted(blocks[i])
        BY <4>1 DEF CutInv, MapInv, Counted
      <4>3. CASE blocks'[i] = blocks[i]
        BY <4>2, <4>3
      <4>4. CASE blocks'[i] = DoResend(blocks[i], EndId(blocks[i]))
        <5> DEFINE b == blocks[i]
                   end == EndId(b)
        <5>1. /\ b \in Block /\ Cut(b) /\ Counted(b) /\ end \in Nat
              /\ blocks'[i] = DoResend(b, end)
          BY <4>2, <4>4, SegmentsFinite DEF EndId
        <5> HIDE DEF b, end
        <5>2. DoResend(b, end) \in Block /\ Shape(DoResend(b, end)) = Shape(b)
          BY <5>1, DoResendCounts, ResendShape DEF Counted
        <5> DEFINE c == DoResend(b, end)
        <5>3. c \in Block /\ Shape(b) = Shape(c) /\ blocks'[i] = c
          BY <5>1, <5>2
        <5> HIDE DEF c
        <5> QED
          BY <5>1, <5>3, CutShape
      <4> QED
        BY <2>1, <3>2, <4>1, <4>3, <4>4
    <3> QED
      BY <3>1, <3>2
  <2>7. StreakInv(images)'
    <3>1. CASE streak = <<id, packet.id>>
      <4>1. /\ streak' = <<id, packet.id + 1>> /\ streak'[1] = id
            /\ streak'[2] = packet.id + 1 /\ streak'[2] - 1 = packet.id
        BY <1>1, <1>3, <3>1
      <4>2. ASSUME ~misled'
            PROVE  InPlace(geometry, id, packet.id + 1)'
        <5>1. ~misled
          BY <2>1, <4>2
        <5>2. InPlace(geometry, id, packet.id)
          BY <1>4, <3>1, <5>1
        <5>3. old = blocks[id] /\ id \in DOMAIN blocks
          BY <2>1, <5>2 DEF InPlace, Receives
        <5>4. old.geometry = geometry
              /\ \A i \in 1..(packet.id - 1) : i \in DOMAIN old.segments
                                                /\ old.segments[i] = "filled"
          BY <5>2, <5>3 DEF InPlace
        <5>5. ASSUME NEW i \in 1..packet.id
              PROVE  i \in DOMAIN blocks'[id].segments
                     /\ blocks'[id].segments[i] = "filled"
          <6>1. i \in DOMAIN new.segments /\ new.segments[i] = "filled"
            <7>1. CASE i = packet.id
              BY <2>4, <4>2, <5>4, <7>1
            <7>2. CASE i # packet.id
              <8>1. i \in 1..(packet.id - 1)
                BY <1>3, <7>2
              <8> QED
                BY <2>4, <4>2, <5>4, <8>1
            <7> QED
              BY <7>1, <7>2
          <6> QED
            BY <2>1, <2>5, <4>2, <6>1
        <5>6. blocks'[id].geometry = geometry /\ id \in DOMAIN blocks'
          BY <2>1, <2>4, <2>5, <4>2, <5>4
        <5>7. (packet.id + 1) - 1 = packet.id
          BY <1>3
        <5> QED
          BY <5>5, <5>6, <5>7 DEF InPlace
      <4> QED
        BY <1>3, <4>1, <4>2 DEF StreakInv
    <3>2. CASE streak # <<id, packet.id>>
      BY <1>1, <3>2 DEF StreakInv
    <3> QED
      BY <3>1, <3>2
  <2> QED
    BY <1>2, <2>6, <2>7
<1> QED
  BY <1>5, <1>6

\* A trailer hands its own block over last, when that is whole.
LEMMA TrailerWhole ==
  ASSUME MapInv, NEW packet \in Packets, HandleTrailer(packet),
         pushed \in Seq(Images), packet.block \in DOMAIN blocks,
         blocks[packet.block].empty = 0
  PROVE  /\ pushed' # <<>>
         /\ pushed'[Len(pushed')] = Image(packet.block, blocks[packet.block], TRUE)
<1> DEFINE id == packet.block
           before == PreviousBlockId(id)
           open == Erase(blocks, before)
           behind == IF before \in DOMAIN blocks
                     THEN <<Image(before, blocks[before], FALSE)>> ELSE <<>>
           one == Image(before, blocks[before], FALSE)
           two == Image(id, blocks[id], TRUE)
<1>1. id \in BlockIds /\ before \in BlockIds /\ before # id
  BY Ids DEF Packets
<1>2. one \in Images /\ two \in Images
  BY <1>1 DEF Image, Images
<1>3. id \in DOMAIN open /\ open[id] = blocks[id]
  BY <1>1 DEF Erase
<1>4. pushed' = pushed \o behind \o <<two>>
  BY <1>3 DEF HandleTrailer, HandOver
<1> HIDE DEF one, two
<1>5. pushed \o behind \in Seq(Images)
  <2>1. behind = <<>> \/ behind = <<one>>
    BY DEF one
  <2> HIDE DEF behind
  <2> QED
    BY <1>2, <2>1, Appended, ConcatEmptySeq
<1> DEFINE front == pushed \o behind
<1>6. front \in Seq(Images) /\ pushed' = front \o <<two>>
  BY <1>4, <1>5
<1> HIDE DEF front
<1>7. /\ front \o <<two>> \in Seq(Images)
      /\ DOMAIN (front \o <<two>>) = 1..(Len(front) + 1) /\ Len(front) \in Nat
      /\ (front \o <<two>>)[Len(front) + 1] = two
  BY <1>2, <1>6, Appended
<1> DEFINE all == front \o <<two>>
<1>8. /\ all \in Seq(Images) /\ DOMAIN all = 1..(Len(front) + 1)
      /\ Len(front) \in Nat /\ all[Len(front) + 1] = two /\ pushed' = all
  BY <1>6, <1>7
<1> HIDE DEF all
<1>9. Len(all) = Len(front) + 1
  BY <1>8, LenProperties
<1>10. all # <<>>
  BY <1>8, <1>9
<1> QED
  BY <1>8, <1>9, <1>10 DEF two

LEMMA IntactTrailer ==
  ASSUME MapInv, CutInv, NEW images, StreakInv(images), pushed \in Seq(Images),
         streak \in (BlockIds \X Nat) \cup {<<>>},
         NEW packet \in Packets, Handle(packet),
         images[packet.block] \in Geometries,
         PartOf(images[packet.block], packet), packet.kind = "trailer"
  PROVE  CutInv' /\ StreakInv(images)' /\ IntactIsWhole'
<1> DEFINE id == packet.block
           geometry == images[id]
           before == PreviousBlockId(id)
           next == NextBlockId(id)
           afterNext == NextBlockId(next)
           n == SegmentsCount(geometry, Payload)
<1>1. /\ HandleTrailer(packet) /\ packet.id = n + 1 /\ n \in Nat \ {0}
      /\ complete' = IF streak = <<id, packet.id>> THEN id ELSE 0
      /\ streak' = IF streak = <<id, packet.id>> THEN <<id, packet.id + 1>> ELSE <<>>
  BY CountPositive, ReceiverAssumption DEF Handle, PartOf, TrailerId
<1>2. /\ misled' = misled
      /\ \/ /\ DOMAIN blocks' = DOMAIN blocks \ {before}
            /\ \A i \in DOMAIN blocks' : blocks'[i] = blocks[i]
         \/ /\ id \in DOMAIN blocks
            /\ DOMAIN blocks' = {next, afterNext}
                 \cup (IF blocks[id].empty = 0 THEN {} ELSE {id})
            /\ \A i \in {next, afterNext} :
                 blocks'[i] = IF i \in DOMAIN blocks THEN blocks[i]
                              ELSE MapMemory(OpenWith(blocks[id].geometry, i),
                                             blocks[id].size)
            /\ id \in DOMAIN blocks' =>
                 blocks'[id] = IF Resend
                               THEN DoResend(blocks[id], EndId(blocks[id]))
                               ELSE blocks[id]
  BY <1>1, TrailerBlocks
<1>3. ASSUME NEW i \in DOMAIN blocks, ~misled
      PROVE  blocks[i] \in Block /\ blocks[i].geometry \in Geometries
             /\ Counted(blocks[i]) /\ Cut(blocks[i]) /\ blocks[i].size \in Nat
  BY <1>3 DEF MapInv, Counted, Block, CutInv
<1>4. id \in BlockIds /\ next \in Memory /\ afterNext \in Memory
  <2>1. id \in BlockIds
    BY DEF Packets
  <2>2. next \in BlockIds /\ afterNext \in BlockIds
    BY <2>1, Ids
  <2>3. BlockIds \subseteq Memory
    BY ReceiverAssumption DEF BlockIds, Memory
  <2> QED
    BY <2>1, <2>2, <2>3
<1> HIDE DEF n
<1>5. CutInv'
  <2> SUFFICES ASSUME ~misled', NEW i \in DOMAIN blocks'
               PROVE  Cut(blocks'[i])
    BY DEF CutInv
  <2>1. ~misled
    BY <1>2
  <2>2. ASSUME NEW j \in DOMAIN blocks
        PROVE  Cut(DoResend(blocks[j], EndId(blocks[j])))
    <3> DEFINE b == blocks[j]
               end == EndId(b)
    <3>1. b \in Block /\ Cut(b) /\ Counted(b) /\ end \in Nat
      BY <1>3, <2>1, SegmentsFinite DEF EndId
    <3> HIDE DEF b, end
    <3> DEFINE c == DoResend(b, end)
    <3>2. c \in Block /\ Shape(b) = Shape(c)
      BY <3>1, DoResendCounts, ResendShape DEF Counted
    <3> HIDE DEF c
    <3>3. Cut(c)
      BY <3>1, <3>2, CutShape
    <3> QED
      BY <3>3 DEF b, c, end
  <2>3. ASSUME id \in DOMAIN blocks, NEW j \in {next, afterNext}
        PROVE  Cut(MapMemory(OpenWith(blocks[id].geometry, j), blocks[id].size))
    <3> DEFINE current == blocks[id]
               b0 == OpenWith(current.geometry, j)
    <3>1. /\ current.geometry \in Geometries /\ Cut(current) /\ current.size \in Nat
          /\ j \in Memory
      BY <1>3, <1>4, <2>1, <2>3
    <3> HIDE DEF current
    <3>2. /\ b0 \in Block /\ b0.geometry = current.geometry
          /\ b0.geometry \in Geometries /\ Cut(b0)
      BY <3>1, OpenedOK, OpenShape DEF Counted, Cut
    <3> HIDE DEF b0
    <3>3. CASE current.size = 0
      BY <3>2, <3>3 DEF MapMemory, b0, current
    <3>4. CASE current.size # 0
      <4>1. current.size = Least(Payload, b0.geometry)
        BY <3>1, <3>2, <3>4 DEF Cut
      <4>2. current.size <= Payload /\ Least(Payload, b0.geometry) <= current.size
        <5>1. b0.geometry \in Nat /\ Payload \in Nat
          BY <3>2, ReceiverAssumption
        <5> QED
          BY <4>1, <5>1 DEF Least
      <4>3. Cut(MapMemory(b0, current.size))
        BY <3>1, <3>2, <3>4, <4>2, CutMap
      <4> QED
        BY <4>3 DEF b0, current
    <3> QED
      BY <3>3, <3>4
  <2> QED
    BY <1>2, <1>3, <2>1, <2>2, <2>3
<1>6. StreakInv(images)'
  <2>1. CASE streak = <<id, packet.id>>
    <3>1. streak'[1] = id /\ streak'[2] = n + 2
      BY <1>1, <2>1
    <3>2. ~(n + 2 <= TrailerId(geometry))
      BY <1>1 DEF TrailerId, n
    <3> QED
      BY <1>1, <3>1, <3>2 DEF StreakInv
  <2>2. CASE streak # <<id, packet.id>>
    BY <1>1, <2>2 DEF StreakInv
  <2> QED
    BY <2>1, <2>2
<1>7. IntactIsWhole'
  <2> SUFFICES ASSUME complete' # 0, ~misled'
               PROVE  /\ pushed' # <<>>
                      /\ pushed'[Len(pushed')]
                           = [block |-> complete', whole |-> TRUE, full |-> TRUE]
    BY DEF IntactIsWhole
  <2>1. streak = <<id, n + 1>> /\ complete' = id /\ ~misled
    BY <1>1, <1>2
  <2>2. InPlace(geometry, id, n + 1)
    <3>1. streak # <<>> /\ streak[1] = id /\ streak[2] = n + 1
          /\ n + 1 = TrailerId(geometry)
      BY <2>1 DEF TrailerId, n
    <3>2. n + 1 <= TrailerId(geometry)
      BY <1>1, <3>1
    <3> QED
      BY <2>1, <3>1, <3>2 DEF StreakInv
  <2> DEFINE current == blocks[id]
  <2>3. /\ id \in DOMAIN blocks /\ current.geometry = geometry
        /\ \A i \in 1..n : i \in DOMAIN current.segments
                             /\ current.segments[i] = "filled"
    <3>1. (n + 1) - 1 = n
      BY <1>1
    <3> QED
      BY <2>2, <3>1 DEF InPlace
  <2>4. current \in Block /\ Counted(current) /\ Cut(current)
    BY <1>3, <2>1, <2>3
  <2> HIDE DEF current
  <2>5. current.segments # <<>>
    BY <1>1, <2>3
  <2>6. \A i \in DOMAIN current.segments : current.segments[i] = "filled"
    <3>1. Len(current.segments) = n
      BY <2>3, <2>4, <2>5 DEF Cut, n
    <3> QED
      BY <2>3, <2>4, <3>1, SegmentsFinite
  <2>7. /\ current.empty = 0
        /\ Image(id, current, TRUE) = [block |-> id, whole |-> TRUE, full |-> TRUE]
    BY <2>4, <2>5, <2>6, CutWhole
  <2> QED
    BY <1>1, <2>1, <2>3, <2>7, TrailerWhole DEF current
<1> QED
  BY <1>5, <1>6, <1>7

\* What every packet leaves, whether the camera has just sent it or not.
LEMMA IntactHandled ==
  ASSUME ReceiverInv, CutInv, NEW images, StreakInv(images),
         NEW packet \in Packets, Handle(packet),
         images[packet.block] \in Geometries, PartOf(images[packet.block], packet)
  PROVE  CutInv' /\ StreakInv(images)' /\ IntactIsWhole'
<1>1. /\ MapInv /\ pushed \in Seq(Images)
      /\ streak \in (BlockIds \X Nat) \cup {<<>>}
  BY MapInvOf DEF ReceiverInv, TypeOK, Images
<1>2. packet.kind \in {"leader", "payload", "trailer"}
  BY DEF Packets
<1> QED
  BY <1>1, <1>2, IntactLeader, IntactPayload, IntactTrailer

\* Each image has one geometry, which its packets agree on: those the network
\* holds back, those of the streak and those the camera has still to send.
ImagesInv(s, images) ==
  /\ images \in [BlockIds -> Geometries \cup {0}]
  /\ camera.packet > 0 => images[camera.block] = camera.geometry
  /\ \A packet \in delayed : /\ Begun(s, packet.block, camera)
                             /\ images[packet.block] \in Geometries
                             /\ PartOf(images[packet.block], packet)
  /\ streak # <<>> => Begun(s, streak[1], camera)
  /\ StreakInv(images)

IntactInv(s) ==
  /\ CutInv
  /\ \E images \in [BlockIds -> Geometries \cup {0}] : ImagesInv(s, images)
  /\ IntactIsWhole

LEMMA ImagesOfNext ==
  \A s, images :
    (/\ images \in [BlockIds -> Geometries \cup {0}]
     /\ camera'.packet > 0 => images[camera'.block] = camera'.geometry
     /\ \A packet \in delayed' : /\ Begun(s, packet.block, camera')
                                 /\ images[packet.block] \in Geometries
                                 /\ PartOf(images[packet.block], packet)
     /\ streak' # <<>> => Begun(s, streak'[1], camera')
     /\ StreakInv(images)')
    => ImagesInv(s, images)'
BY DEF ImagesInv, PartOf

LEMMA IntactSends ==
  ASSUME ReceiverInv, NEW s \in {1, IdMax}, CountInv(s), IntactInv(s),
         NEW geometry \in Geometry, Sends(geometry)
  PROVE  IntactInv(s)'
<1> DEFINE now == camera.block
           packet == Packet(geometry)
<1>1. PICK images \in [BlockIds -> Geometries \cup {0}] : ImagesInv(s, images)
  BY DEF IntactInv
<1>2. PICK new : new = IF camera.packet = 0
                       THEN [images EXCEPT ![now] = geometry] ELSE images
  OBVIOUS
<1>3. /\ now \in BlockIds /\ camera.packet \in Nat /\ delayed \subseteq Packets
      /\ streak \in (BlockIds \X Nat) \cup {<<>>}
      /\ Advance(geometry) /\ geometry \in Geometry
  BY DEF ReceiverInv, TypeOK, Sends
<1>4. /\ geometry \in Geometries /\ PartOf(geometry, packet)
      /\ packet \in Packets /\ packet.block = now /\ packet.id = camera.packet
  BY <1>3, SentPart, CameraBlock
<1>5. /\ new \in [BlockIds -> Geometries \cup {0}] /\ new[now] = geometry
      /\ \A id \in BlockIds : Begun(s, id, camera) => new[id] = images[id]
  <2>1. CASE camera.packet = 0
    <3>1. ~Begun(s, now, camera)
      BY <1>3, <2>1, Positions DEF Begun
    <3> QED
      BY <1>2, <1>3, <1>4, <2>1, <3>1
  <2>2. CASE camera.packet # 0
    <3>1. new = images /\ images[now] = camera.geometry
      BY <1>1, <1>2, <1>3, <2>2 DEF ImagesInv
    <3>2. geometry = camera.geometry
      BY <1>3, <2>2 DEF Geometry
    <3> QED
      BY <3>1, <3>2
  <2> QED
    BY <2>1, <2>2
<1>6. StreakInv(new)
  <2> SUFFICES ASSUME streak # <<>>
               PROVE  StreakInv(new)
    BY DEF StreakInv
  <2>1. streak[1] \in BlockIds /\ Begun(s, streak[1], camera) /\ StreakInv(images)
    BY <1>1, <1>3 DEF ImagesInv
  <2>2. new[streak[1]] = images[streak[1]]
    BY <1>5, <2>1
  <2> QED
    BY <2>1, <2>2 DEF StreakInv
<1>7. /\ \A id \in BlockIds : Begun(s, id, camera) => Begun(s, id, camera')
      /\ Begun(s, now, camera')
      /\ camera'.packet > 0 => camera'.block = now /\ camera'.geometry = geometry
  BY <1>3, BegunNext
<1>8. CutInv /\ IntactIsWhole
  BY DEF IntactInv
<1>9. /\ CutInv' /\ StreakInv(new)' /\ IntactIsWhole'
      /\ streak' # <<>> => Begun(s, streak'[1], camera')
  <2>1. CASE Handle(packet)
    <3>1. CutInv' /\ StreakInv(new)' /\ IntactIsWhole'
      BY <1>4, <1>5, <1>6, <1>8, <2>1, IntactHandled
    <3>2. streak' # <<>> => streak'[1] = now
      BY <1>4, <2>1 DEF Handle
    <3> QED
      BY <1>7, <3>1, <3>2
  <2>2. CASE UNCHANGED <<blocks, lent, pushed, thread, wild, streak, complete,
                         misled, outgrown>>
    <3>1. CutInv' /\ StreakInv(new)' /\ IntactIsWhole'
      BY <1>6, <1>8, <2>2 DEF CutInv, StreakInv, InPlace, IntactIsWhole
    <3>2. streak # <<>> => streak[1] \in BlockIds /\ Begun(s, streak[1], camera)
      BY <1>1, <1>3 DEF ImagesInv
    <3> QED
      BY <1>7, <2>2, <3>1, <3>2
  <2> QED
    BY <2>1, <2>2 DEF Sends
<1>10. ASSUME NEW p \in delayed'
       PROVE  /\ Begun(s, p.block, camera')
              /\ new[p.block] \in Geometries
              /\ PartOf(new[p.block], p)
  <2>1. CASE p = packet
    BY <1>4, <1>5, <1>7, <2>1
  <2>2. CASE p \in delayed
    <3>1. /\ p.block \in BlockIds /\ Begun(s, p.block, camera)
          /\ images[p.block] \in Geometries /\ PartOf(images[p.block], p)
      BY <1>1, <1>3, <2>2 DEF ImagesInv, Packets
    <3> QED
      BY <1>5, <1>7, <3>1
  <2>3. delayed' \subseteq delayed \cup {packet}
    BY DEF Sends
  <2> QED
    BY <2>1, <2>2, <2>3
<1>11. camera'.packet > 0 => new[camera'.block] = camera'.geometry
  BY <1>5, <1>7
<1>12. ImagesInv(s, new)'
  BY <1>5, <1>9, <1>10, <1>11, ImagesOfNext
<1> QED
  BY <1>5, <1>9, <1>12 DEF IntactInv

LEMMA IntactStep ==
  ASSUME ReceiverInv, NEW s \in {1, IdMax}, CountInv(s), IntactInv(s), [Next]_vars
  PROVE  IntactInv(s)'
<1>1. PICK images \in [BlockIds -> Geometries \cup {0}] : ImagesInv(s, images)
  BY DEF IntactInv
<1>2. CutInv /\ IntactIsWhole
  BY DEF IntactInv
<1>3. ASSUME UNCHANGED camera, delayed' \subseteq delayed, CutInv', IntactIsWhole',
             StreakInv(images)', streak' # <<>> => Begun(s, streak'[1], camera)
      PROVE  IntactInv(s)'
  <2>1. ImagesInv(s, images)'
    BY <1>1, <1>3, ImagesOfNext DEF ImagesInv
  <2> QED
    BY <1>3, <2>1 DEF IntactInv
<1>4. CASE PreallocImages
  <2>1. DOMAIN blocks = {} /\ UNCHANGED <<pushed, streak, complete, misled, stream>>
    BY <1>4 DEF PreallocImages
  <2>2. PICK geometry \in Geometries :
          LET one == Allocate(lent, 1)
              two == Allocate(lent \cup {one}, 2)
          IN  blocks' = [i \in {1, 2} |->
                 MapMemory(OpenWith(geometry, IF i = 1 THEN one ELSE two), Payload)]
    BY <1>4 DEF PreallocImages
  <2>3. lent = {} /\ 1 \in BlockIds /\ 2 \in BlockIds
    BY <2>1, MapInvOf, ReceiverAssumption DEF MapInv, BlockIds
  <2>4. Allocate(lent, 1) = 1 /\ Allocate(lent \cup {1}, 2) = 2
        /\ 1 \in Memory /\ 2 \in Memory
    BY <2>3, AllocateOwn
  <2>5. blocks' = [i \in {1, 2} |-> MapMemory(OpenWith(geometry, i), Payload)]
    BY <2>2, <2>4
  <2>6. ASSUME NEW i \in {1, 2}
        PROVE  Cut(MapMemory(OpenWith(geometry, i), Payload))
    <3> DEFINE b0 == OpenWith(geometry, i)
    <3>1. b0 \in Block /\ b0.geometry \in Geometries
      BY <2>4, OpenedOK DEF Counted
    <3> HIDE DEF b0
    <3>2. b0.geometry \in Nat /\ Payload \in Nat \ {0}
      BY <3>1, ReceiverAssumption
    <3>3. Payload <= Payload /\ Least(Payload, b0.geometry) <= Payload
      BY <3>2 DEF Least
    <3> QED
      BY <3>1, <3>2, <3>3, CutMap DEF b0
  <2>7. CutInv'
    BY <2>5, <2>6 DEF CutInv
  <2>8. StreakInv(images)'
    BY <1>1, <2>1 DEF ImagesInv, StreakInv, InPlace
  <2>9. IntactIsWhole'
    BY <1>2, <2>1 DEF IntactIsWhole
  <2> QED
    BY <1>1, <1>3, <2>1, <2>7, <2>8, <2>9 DEF ImagesInv, stream
<1>5. CASE \E geometry \in Geometry : Sends(geometry)
  BY <1>5, IntactSends
<1>6. CASE ReceiveLate
  <2>1. PICK packet \in delayed : Handle(packet) /\ delayed' = delayed \ {packet}
    BY <1>6 DEF ReceiveLate
  <2>2. /\ packet \in Packets /\ Begun(s, packet.block, camera)
        /\ images[packet.block] \in Geometries
        /\ PartOf(images[packet.block], packet)
    BY <1>1 DEF ImagesInv, ReceiverInv, TypeOK
  <2>3. CutInv' /\ StreakInv(images)' /\ IntactIsWhole'
    BY <1>1, <1>2, <2>1, <2>2, IntactHandled DEF ImagesInv
  <2>4. streak' # <<>> => streak'[1] = packet.block
    BY <2>1 DEF Handle
  <2>5. camera' = camera
    BY <1>6 DEF ReceiveLate
  <2> QED
    BY <1>3, <2>1, <2>2, <2>3, <2>4, <2>5
<1>7. CASE Close
  <2>1. /\ DOMAIN blocks' = {} /\ streak' = <<>> /\ complete' = 0
        /\ UNCHANGED <<camera, delayed>>
    BY <1>7 DEF Close, stream
  <2>2. CutInv' /\ StreakInv(images)' /\ IntactIsWhole'
    BY <2>1 DEF CutInv, StreakInv, IntactIsWhole
  <2> QED
    BY <1>3, <2>1, <2>2
<1>8. CASE UNCHANGED vars
  <2>1. CutInv' /\ IntactIsWhole' /\ StreakInv(images)'
    BY <1>1, <1>2, <1>8
       DEF vars, CutInv, IntactIsWhole, ImagesInv, StreakInv, InPlace
  <2> QED
    BY <1>1, <1>3, <1>8, <2>1 DEF vars, ImagesInv
<1> QED
  BY <1>4, <1>5, <1>6, <1>7, <1>8, Steps

\* An image of which every packet came in order is handed over as a full one,
\* with all its segments, whatever was lost before it: unless some block was
\* mapped from a short last packet.
THEOREM Intact == Spec => []IntactIsWhole
<1> DEFINE IInv == \E s \in {1, IdMax} : CountInv(s) /\ IntactInv(s)
<1>1. Init => IInv
  <2> SUFFICES ASSUME Init
               PROVE  IInv
    OBVIOUS
  <2>1. PICK s \in {1, IdMax} : CountInv(s)
    BY OrderInit
  <2>2. /\ DOMAIN blocks = {} /\ streak = <<>> /\ complete = 0 /\ delayed = {}
        /\ camera.packet = 0
    BY DEF Init
  <2>3. PICK images : images = [id \in BlockIds |-> 0]
    OBVIOUS
  <2>4. ImagesInv(s, images)
    BY <2>2, <2>3 DEF ImagesInv, StreakInv
  <2>5. IntactInv(s)
    BY <2>2, <2>3, <2>4 DEF IntactInv, CutInv, IntactIsWhole
  <2> QED
    BY <2>1, <2>5
<1>2. ReceiverInv /\ IInv /\ [Next]_vars => IInv'
  <2> SUFFICES ASSUME ReceiverInv, IInv, [Next]_vars
               PROVE  IInv'
    OBVIOUS
  <2>1. PICK s \in {1, IdMax} : CountInv(s) /\ IntactInv(s)
    OBVIOUS
  <2>2. CountInv(s)' /\ IntactInv(s)'
    BY <2>1, CountStep, IntactStep
  <2> QED
    BY <2>2
<1>3. IInv => IntactIsWhole
  BY DEF IntactInv
<1> HIDE DEF IInv
<1> QED
  BY Invariance, <1>1, <1>2, <1>3, PTL DEF Spec
=============================================================================
