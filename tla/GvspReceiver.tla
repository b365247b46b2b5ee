----------------------------- MODULE GvspReceiver -----------------------------
(***************************************************************************)
(* The stream receiver of lycam (src/gvsp/gvspreceiver.cpp, gvspblock.cpp). *)
(* A camera sends each image as a block of packets: a leader, the payload   *)
(* packets 1, 2, ... and a trailer.  The receive thread keeps the blocks it *)
(* is assembling in `blocksMap`, asks the camera again for the packets that *)
(* are missing and hands the images to the application's allocator, which   *)
(* owns their memory from then on.  UDP loses, reorders and repeats the     *)
(* packets.  Sizes are counted in arbitrary units: `Payload` is what a      *)
(* packet carries, a geometry is the size of its image.                     *)
(***************************************************************************)
EXTENDS Integers, Sequences, FiniteSets

CONSTANTS
  IdMax,        \* block ids are 1..IdMax, UINT16_MAX in the code
  Geometries,   \* the image sizes the camera may be set to
  Payload,      \* the size of a full payload packet
  Resend,       \* Parameters::resend, set before the stream starts
  MaxBlocks,    \* bound: the images the camera sends
  Delays        \* bound: the packets the network delays or repeats

ASSUME ReceiverAssumption ==
  /\ IdMax \in Nat /\ IdMax > 3
  /\ Geometries \subseteq Nat \ {0} /\ Payload \in Nat \ {0}
  /\ Resend \in BOOLEAN
  /\ MaxBlocks \in Nat /\ MaxBlocks + 2 < IdMax
  /\ Delays \in Nat

VARIABLES
  blocks,    \* blocksMap: the blocks being assembled, by id
  lent,      \* the memory obtained from the allocator and not given back
  pushed,    \* the images handed to the application, oldest first
  thread,    \* the receive thread: "idle" (nothing read yet), "reading", "ended"
  wild,      \* the thread has indexed a block outside its memory map
  streak,    \* the block whose packets come in order from its leader, and the
             \* next one of them, or <<>>
  complete,  \* the block whose trailer has just ended such a streak, or 0
  misled,    \* a block was mapped from a short last packet
  outgrown,  \* the packet handled last came ahead of its leader, for a larger
             \* image than its block was opened for, by more than one packet
  camera,    \* what the camera sends next
  delayed,   \* the packets held back by the network
  delays,    \* how many have been
  late       \* one of them has arrived

vars == <<blocks, lent, pushed, thread, wild, streak, complete, misled,
          outgrown, camera, delayed, delays, late>>
stream == <<camera, delayed, delays, late>>

BlockIds == 1..IdMax
Memory == 1..(IdMax + 1)
NoMemory == 0

SegmentState == {"empty", "askedAgain", "filled"}

Block == [geometry : Geometries \cup {0}, memory : Memory \cup {NoMemory},
          leader : SegmentState, size : Nat, segments : Seq(SegmentState),
          empty : Int, asked : Nat]

Least(a, b) == IF a < b THEN a ELSE b

\* How many segments of a size cover an image: the division of mapMemory,
\* rounded up.
SegmentsCount(geometry, size) == (geometry + size - 1) \div size

\* The packets of an image: 0 is the leader, the trailer comes after the last
\* payload.  The last payload is short when the image is not a multiple of it.
TrailerId(geometry) == SegmentsCount(geometry, Payload) + 1
PacketSize(geometry, id) == Least(Payload, geometry - (id - 1) * Payload)

\* Mutant: the id after the last one is not a block id.
NextBlockIdNoWrap(id) == id + 1

NextBlockId(id) == IF id = IdMax THEN 1 ELSE id + 1
PreviousBlockId(id) == IF id = 1 THEN IdMax ELSE id - 1
-----------------------------------------------------------------------------
(* One block: class Block *)

NewBlock ==
  [geometry |-> 0, memory |-> NoMemory, leader |-> "empty", size |-> 0,
   segments |-> <<>>, empty |-> 0, asked |-> 0]

\* Mutant: a new geometry leaves the memory map as it is.
ChangeGeometryKeepsMap(block, geometry) == [block EXCEPT !.geometry = geometry]

\* A new geometry forgets the memory map; the counts stay as they were.
ChangeGeometry(block, geometry) ==
  IF block.geometry = geometry THEN block
  ELSE [block EXCEPT !.geometry = geometry, !.size = 0, !.segments = <<>>]

\* A block opened for an image: its geometry and its memory.
OpenWith(geometry, memory) ==
  [NewBlock EXCEPT !.geometry = geometry, !.memory = memory]

\* A block whose leader has come.
WithLeader(block, geometry, memory) ==
  [ChangeGeometry(block, geometry) EXCEPT !.memory = memory, !.leader = "filled"]

\* Cuts the image into segments of `size`; a single segment takes the size of
\* the image.
MapMemory(block, size) ==
  IF size = 0 THEN block
  ELSE LET count == SegmentsCount(block.geometry, size)
       IN  [block EXCEPT !.size = Least(size, block.geometry),
                         !.segments = [i \in 1..count |-> "empty"],
                         !.empty = count,
                         !.asked = 0]

SegmentSize(block, id) ==
  IF id < Len(block.segments) THEN block.size
  ELSE block.geometry - (Len(block.segments) - 1) * block.size

\* Mutant: a packet that comes twice is counted twice.
FillAgain(block, id, size) ==
  IF /\ id \in 1..Len(block.segments)
     /\ size \in {SegmentSize(block, id), block.size}
  THEN [block EXCEPT !.segments[id] = "filled", !.empty = @ - 1]
  ELSE block

\* Copies a payload into its segment: once, and only when the segment exists
\* and has the packet's size or the size of the others (a padded last packet).
Fill(block, id, size) ==
  IF /\ id \in 1..Len(block.segments)
     /\ size \in {SegmentSize(block, id), block.size}
     /\ block.segments[id] # "filled"
  THEN [block EXCEPT !.segments[id] = "filled", !.empty = @ - 1]
  ELSE block

\* The first payload a block gets maps its memory.
InsertSegment(block, id, size) ==
  Fill(IF block.segments = <<>> THEN MapMemory(block, size) ELSE block, id, size)

EndId(block) == Len(block.segments) + 1

\* Where emptySegmentsCount starts to look is a segment of the map.
InMap(block, id) == id - 1 <= Len(block.segments)

\* The run of segments just below a packet that nobody asked for yet.
MissingBefore(block, id) ==
  {i \in 1..(id - 1) : \A j \in i..(id - 1) : block.segments[j] = "empty"}

\* doResend: asks for the run and remembers it.
DoResend(block, id) ==
  IF ~InMap(block, id) THEN block
  ELSE LET missing == MissingBefore(block, id)
       IN  [block EXCEPT
              !.segments = [i \in DOMAIN @ |->
                              IF i \in missing THEN "askedAgain" ELSE @[i]],
              !.asked = @ + Cardinality(missing)]

\* The leader is asked for at every payload that comes before it.
AskLeader(block) ==
  IF block.leader = "filled" THEN block
  ELSE [block EXCEPT !.leader = "askedAgain"]
-----------------------------------------------------------------------------
(* The receive thread *)

\* MemoryAllocator::allocate, given what is lent: any free memory will do; the
\* one named after the block, when it is free, leaves the fewest states.
Allocate(held, id) ==
  IF id \notin held THEN id ELSE CHOOSE m \in Memory : m \notin held

Put(map, id, block) ==
  [i \in DOMAIN map \cup {id} |-> IF i = id THEN block ELSE map[i]]

Erase(map, id) == [i \in DOMAIN map \ {id} |-> map[i]]

\* An image as the application gets it: `whole` when it was handed over as
\* full, `full` when every one of its segments was received.
Image(id, block, whole) ==
  [block |-> id, whole |-> whole,
   full |-> /\ block.segments # <<>>
            /\ \A i \in DOMAIN block.segments : block.segments[i] = "filled"]

Init ==
  /\ blocks = [i \in {} |-> NewBlock]
  /\ lent = {}
  /\ pushed = <<>>
  /\ thread = "idle"
  /\ wild = FALSE
  /\ streak = <<>>
  /\ complete = 0
  /\ misled = FALSE
  /\ outgrown = FALSE
  /\ camera \in [block : {1, IdMax}, sent : {0}, packet : {0},
                 geometry : {0}]
  /\ delayed = {}
  /\ delays = 0
  /\ late = FALSE

\* preallocImages, called before the camera is started: blocks 1 and 2.
PreallocImages ==
  /\ thread = "idle"
  /\ DOMAIN blocks = {}
  /\ camera.block = 1 /\ camera.sent = 0 /\ camera.packet = 0
  /\ \E geometry \in Geometries :
       LET first == Allocate(lent, 1)
           second == Allocate(lent \cup {first}, 2)
       IN  /\ blocks' = [i \in {1, 2} |->
                 MapMemory(OpenWith(geometry, IF i = 1 THEN first ELSE second),
                           Payload)]
           /\ lent' = lent \cup {first, second}
  /\ UNCHANGED <<pushed, thread, wild, streak, complete, misled, outgrown, stream>>

\* Mutant: the memory of the old geometry is not given back.
HandleLeaderLeaks(packet) ==
  LET old == IF packet.block \in DOMAIN blocks THEN blocks[packet.block]
             ELSE NewBlock
      changed == old.geometry # packet.geometry
      memory == IF changed THEN Allocate(lent, packet.block) ELSE old.memory
  IN  /\ blocks' = Put(blocks, packet.block,
                       WithLeader(old, packet.geometry, memory))
      /\ lent' = lent \cup {memory}
      /\ UNCHANGED <<pushed, wild, misled>>

\* A leader opens its block or corrects the geometry of an open one; either
\* way the block gets the memory its image needs.
HandleLeader(packet) ==
  LET old == IF packet.block \in DOMAIN blocks THEN blocks[packet.block]
             ELSE NewBlock
      changed == old.geometry # packet.geometry
      held == IF changed THEN lent \ {old.memory} ELSE lent
      memory == IF changed THEN Allocate(held, packet.block) ELSE old.memory
  IN  /\ blocks' = Put(blocks, packet.block,
                       WithLeader(old, packet.geometry, memory))
      /\ lent' = held \cup {memory}
      /\ UNCHANGED <<pushed, wild, misled>>

\* The block of a payload: the open one, or a new one with the geometry of the
\* block of highest id.
OpenBlock(id) ==
  IF id \in DOMAIN blocks THEN blocks[id]
  ELSE LET last == CHOOSE i \in DOMAIN blocks : \A j \in DOMAIN blocks : j <= i
       IN  OpenWith(blocks[last].geometry, Allocate(lent, id))

\* Mutant: the end of the previous block is not asked for.
AskCurrentOnly(map, id, packet) ==
  [i \in DOMAIN map |->
     IF i = id THEN DoResend(AskLeader(map[i]), packet) ELSE map[i]]

\* Mutant: only the previous block is looked at.
AskPreviousOnly(map, id, packet) ==
  [i \in DOMAIN map |->
     IF i = PreviousBlockId(id) THEN DoResend(map[i], EndId(map[i])) ELSE map[i]]

\* The resend policy of a payload: what is missing at the end of the previous
\* block, then the leader and the run below the packet.
AskMissing(map, id, packet) ==
  [i \in DOMAIN map |->
     CASE i = PreviousBlockId(id) -> DoResend(map[i], EndId(map[i]))
       [] i = id -> DoResend(AskLeader(map[i]), packet)
       [] OTHER -> map[i]]

\* A payload fills its segment; with no block open it is ignored.
HandlePayload(packet) ==
  IF DOMAIN blocks = {} THEN UNCHANGED <<blocks, lent, pushed, wild, misled>>
  ELSE LET old == OpenBlock(packet.block)
           new == InsertSegment(old, packet.id, packet.size)
           all == Put(blocks, packet.block, new)
           before == PreviousBlockId(packet.block)
       IN  /\ blocks' = IF Resend THEN AskMissing(all, packet.block, packet.id)
                        ELSE all
           /\ lent' = lent \cup {old.memory}
           /\ wild' = \/ wild
                      \/ /\ Resend
                         /\ \/ ~InMap(new, packet.id)
                            \/ /\ before \in DOMAIN all
                               /\ ~InMap(all[before], EndId(all[before]))
           /\ misled' = \/ misled
                        \/ /\ old.segments = <<>>
                           /\ packet.size < Least(Payload, old.geometry)
           /\ UNCHANGED pushed

\* Mutant: a full block does not wait for the one before it.
HandOverNewestFirst(behind, own) == pushed \o own \o behind

\* What the application has after a trailer.
HandOver(behind, own) == pushed \o behind \o own

\* A trailer hands over the block before it, full or not, and its own block
\* when that is full; then it keeps its own block, when that is still open, and
\* the two that follow, opened now if need be, and drops every other.
HandleTrailer(packet) ==
  LET id == packet.block
      before == PreviousBlockId(id)
      behind == IF before \in DOMAIN blocks
                THEN <<Image(before, blocks[before], FALSE)>> ELSE <<>>
      held == IF before \in DOMAIN blocks
              THEN lent \ {blocks[before].memory} ELSE lent
      open == Erase(blocks, before)
  IN  IF id \notin DOMAIN open
      THEN /\ blocks' = open
           /\ lent' = held
           /\ pushed' = HandOver(behind, <<>>)
           /\ UNCHANGED <<wild, misled>>
      ELSE LET current == open[id]
               whole == current.empty = 0
               next == NextBlockId(id)
               afterNext == NextBlockId(next)
               kept == IF whole THEN {next, afterNext} ELSE {id, next, afterNext}
               opened == {next, afterNext} \ DOMAIN open
               first == Allocate(held, next)
               second == Allocate(held \cup {first : i \in opened \ {afterNext}},
                                  afterNext)
               New(i) == MapMemory(
                           OpenWith(current.geometry,
                                    IF i = next THEN first ELSE second),
                           current.size)
               Own == IF Resend THEN DoResend(current, EndId(current)) ELSE current
               dropped == (DOMAIN open \ kept) \cup (IF whole THEN {id} ELSE {})
           IN  /\ blocks' = [i \in kept |->
                               CASE i \in opened -> New(i)
                                 [] i = id -> Own
                                 [] OTHER -> open[i]]
               /\ lent' = (held \cup {New(i).memory : i \in opened})
                            \ {open[i].memory : i \in dropped}
               /\ pushed' = HandOver(behind,
                    IF whole THEN <<Image(id, current, TRUE)>> ELSE <<>>)
               /\ wild' = (wild \/ (Resend /\ ~whole
                                      /\ ~InMap(current, EndId(current))))
               /\ UNCHANGED misled

\* A payload that comes before its leader, to a block opened for an image that is
\* smaller than its own by more than one packet.
Outgrows(packet) ==
  /\ packet.kind = "payload" /\ DOMAIN blocks # {}
  /\ LET old == OpenBlock(packet.block)
     IN  /\ old.leader # "filled"
         /\ SegmentsCount(packet.geometry, Payload)
              > SegmentsCount(old.geometry, Payload) + 1

\* doBuffer: one packet.
Handle(packet) ==
  /\ thread # "ended"
  /\ ~wild
  /\ thread' = "reading"
  /\ CASE packet.kind = "leader" -> HandleLeader(packet)
       [] packet.kind = "payload" -> HandlePayload(packet)
       [] packet.kind = "trailer" -> HandleTrailer(packet)
  /\ streak' = IF packet.kind = "leader" \/ streak = <<packet.block, packet.id>>
               THEN <<packet.block, packet.id + 1>> ELSE <<>>
  /\ complete' = IF packet.kind = "trailer" /\ streak = <<packet.block, packet.id>>
                 THEN packet.block ELSE 0
  /\ outgrown' = Outgrows(packet)
-----------------------------------------------------------------------------
(* The camera and the network *)

\* Only the leader says what the geometry of the image is.
Packet(geometry) ==
  LET id == camera.packet
  IN  [block |-> camera.block,
       kind |-> CASE id = 0 -> "leader"
                  [] id = TrailerId(geometry) -> "trailer"
                  [] OTHER -> "payload",
       id |-> id,
       geometry |-> geometry,
       size |-> IF id \in 1..(TrailerId(geometry) - 1)
                THEN PacketSize(geometry, id) ELSE 0]

\* The camera may be given another geometry between two images.
Geometry == IF camera.packet = 0 THEN Geometries ELSE {camera.geometry}

\* The camera goes on to its next packet.  Bound: about as many packets as an
\* image has may overtake one that is held back.
Advance(geometry) ==
  /\ camera.sent < MaxBlocks
  /\ \A packet \in delayed :
       packet.block = camera.block \/ camera.packet <= packet.id
  /\ camera' = IF camera.packet = TrailerId(geometry)
               THEN [block |-> NextBlockId(camera.block), sent |-> camera.sent + 1,
                     packet |-> 0, geometry |-> 0]
               ELSE [camera EXCEPT !.packet = @ + 1, !.geometry = geometry]

\* The camera's next packet is lost.
Lose ==
  /\ thread # "ended"
  /\ \E geometry \in Geometry : Advance(geometry)
  /\ UNCHANGED <<blocks, lent, pushed, thread, wild, streak, complete, misled,
                 outgrown, delayed, delays, late>>

\* The camera's next packet arrives.
Receive ==
  /\ \E geometry \in Geometry : Advance(geometry) /\ Handle(Packet(geometry))
  /\ UNCHANGED <<delayed, delays, late>>

\* The network holds the camera's next packet back, or a copy of it.
Delay ==
  /\ thread # "ended"
  /\ delays < Delays
  /\ \E geometry \in Geometry :
       /\ Advance(geometry)
       /\ \/ Handle(Packet(geometry))
          \/ UNCHANGED <<blocks, lent, pushed, thread, wild, streak, complete, misled,
                         outgrown>>
       /\ delayed' = delayed \cup {Packet(geometry)}
  /\ delays' = delays + 1
  /\ UNCHANGED late

\* A packet that was held back arrives.
ReceiveLate ==
  /\ \E packet \in delayed :
       /\ Handle(packet)
       /\ delayed' = delayed \ {packet}
  /\ late' = TRUE
  /\ UNCHANGED <<camera, delays>>

\* ~Receiver: the thread leaves its loop, gives every memory back and ends.
Close ==
  /\ thread # "ended"
  /\ ~wild
  /\ thread' = "ended"
  /\ lent' = lent \ {blocks[i].memory : i \in DOMAIN blocks}
  /\ blocks' = [i \in {} |-> NewBlock]
  /\ streak' = <<>>
  /\ complete' = 0
  /\ UNCHANGED <<pushed, wild, misled, outgrown, stream>>

Next == PreallocImages \/ Lose \/ Receive \/ Delay \/ ReceiveLate \/ Close

Spec == Init /\ [][Next]_vars
-----------------------------------------------------------------------------
(* Properties *)

Packets ==
  [block : BlockIds, kind : {"leader", "payload", "trailer"},
   id : Nat, geometry : Geometries, size : Nat]

\* The variables have their types.
TypeOK ==
  /\ camera.block \in BlockIds /\ camera.sent \in Nat /\ camera.packet \in Nat
  /\ camera.geometry \in Geometries \cup {0}
  /\ camera = [block |-> camera.block, sent |-> camera.sent,
               packet |-> camera.packet, geometry |-> camera.geometry]
  /\ delayed \subseteq Packets /\ delays \in Nat
  /\ DOMAIN blocks \subseteq BlockIds
  /\ blocks \in [DOMAIN blocks -> Block]
  /\ lent \subseteq Memory
  /\ pushed \in Seq([block : BlockIds, whole : BOOLEAN, full : BOOLEAN])
  /\ thread \in {"idle", "reading", "ended"}
  /\ wild \in BOOLEAN /\ misled \in BOOLEAN /\ outgrown \in BOOLEAN
  /\ late \in BOOLEAN
  /\ streak \in (BlockIds \X Nat) \cup {<<>>} /\ complete \in BlockIds \cup {0}

Holes(block) == {i \in DOMAIN block.segments : block.segments[i] # "filled"}
Unasked(block) == {i \in DOMAIN block.segments : block.segments[i] = "empty"}

\* What a mapped block counts is true of its map: a packet that comes twice, or
\* late, or after it was asked for again, fills one hole, and no segment is
\* asked for twice (Block::insertSegment, setSegmentsAskedAgain).
CountsTrue ==
  \A id \in DOMAIN blocks :
    LET block == blocks[id]
    IN  block.segments # <<>> =>
          /\ block.empty = Cardinality(Holes(block))
          /\ block.asked + Cardinality(Unasked(block)) <= Len(block.segments)

\* With the resend policy on, whatever is missing below a segment received or
\* asked for has itself been asked for, in every order of arrival.
HolesAsked ==
  Resend /\ ~wild =>
    \A id \in DOMAIN blocks : \A j \in DOMAIN blocks[id].segments : \A i \in 1..j :
      blocks[id].segments[j] # "empty" => blocks[id].segments[i] # "empty"

\* While packets come in their order, lost ones aside, everything missing at
\* the end of a block has been asked for once the next block has received a
\* segment: no loss waits for a packet of its own block to be noticed.
EndAsked ==
  Resend /\ ~wild /\ ~late =>
    \A id \in DOMAIN blocks :
      LET next == NextBlockId(id)
      IN  /\ next \in DOMAIN blocks
          /\ \E i \in DOMAIN blocks[next].segments :
               blocks[next].segments[i] = "filled"
          => \A i \in DOMAIN blocks[id].segments : blocks[id].segments[i] # "empty"

\* Every memory obtained from the allocator belongs to exactly one open block
\* until it is pushed or destroyed: none is lost, none given back twice, and
\* none is left when the thread has ended.
MemoryOwned ==
  /\ lent = {blocks[id].memory : id \in DOMAIN blocks}
  /\ \A i, j \in DOMAIN blocks : blocks[i].memory = blocks[j].memory => i = j

\* The thread looks outside a block's map only for a payload that comes before its
\* leader, when the camera has been given a geometry larger by more than a packet
\* than the one its block was opened for (Block::emptySegmentsCount): never for an
\* image whose leader has come, never at the end of a block, however its map was cut.
InRange == wild => outgrown

\* While packets come in their order, lost ones aside, the application gets
\* each image once and in the order they were taken.
InOrder ==
  ~late => \A i, j \in DOMAIN pushed : i < j =>
    LET Number(k) == IF camera.block >= pushed[k].block
                     THEN pushed[k].block ELSE pushed[k].block - IdMax
    IN  Number(i) < Number(j)

\* An image of which every packet came in order is handed over as a full one,
\* and has all its segments, whatever was lost of the images before it; unless
\* some block was mapped from a short last packet.
IntactIsWhole ==
  complete # 0 /\ ~misled =>
    /\ pushed # <<>>
    /\ pushed[Len(pushed)] = [block |-> complete, whole |-> TRUE, full |-> TRUE]

\* The inductive invariant of the safety properties: an open block has a known
\* geometry and its own memory, and the camera knows the image it is sending.
ReceiverInv ==
  /\ TypeOK
  /\ camera.packet > 0 => /\ camera.geometry \in Geometries
                          /\ camera.packet <= TrailerId(camera.geometry)
  /\ \A id \in DOMAIN blocks : /\ blocks[id].geometry \in Geometries
                               /\ blocks[id].memory = id
  /\ lent = DOMAIN blocks
  /\ CountsTrue
  /\ HolesAsked
=============================================================================
