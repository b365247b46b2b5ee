# A verification project for lycam

lycam drives GigE Vision cameras: it talks to a camera over the GVCP control
protocol, reads and sets its features through a GenICam description, and
receives its images over the GVSP stream protocol. This directory holds TLA+
models of that code, the TLC runs that check them on small instances, and
theorems about them with proofs that TLAPS checks. `PROJECT.json` maps every
definition to the lines it models and lists the runs, the findings, the hazards
and the theorems. Paths below are relative to `src/src/` in the repository.

## 1. The system

| part | state it keeps | operations | meets |
|---|---|---|---|
| **GVCP command exchange**: `proceed` and the helpers of `gvcp/gvcpclient.cpp`, `headerhelper` | next request id, `_proceedMutex`, socket, one *static* receive buffer for all clients | `proceed`, `readRegisters`, `writeRegisters`, `readMemory`, `writeMemory` | every caller; the heartbeat thread; the network |
| **GVCP session**: `controlDevice`, `monitorDevice`, `releaseDevice`, `doHeartbeat` | `_state`, addresses, socket, `_heartbeatEnable`, `_timerPtr`, `_heartbeatTimeout`; how many `GvcpClient` objects share them | the three calls, copies and their destructors, the heartbeat thread | the exchange; the device's privilege register, which other hosts want too |
| **GVSP block assembly**: `gvsp/gvspreceiver.cpp` (handlers), `gvspblock.cpp` | `blocksMap`, each block's segments and counts, the allocator's memory | `handleLeader`, `handlePayload`, `handleTrailer`, resend requests, `preallocImages`, the purge | the receive thread; the application through the allocator |
| **GVSP receive thread**: `Receiver`, `loop`, `userStack`, `ringStack` | thread, mutex, condition variable, two sockets, the ring of blocks shared with the kernel | `listenUnicast`, `listenMulticast`, `acceptFrom`, the destructor | the program; the kernel; block assembly |
| **GenICam formulas**: `genicam/formula.cpp`, `token.cpp` | token queue of a formula | constructor (shunting-yard), `evaluateAsInteger`, `evaluateAsFloat` | SwissKnife and Converter nodes |
| **GenICam register nodes**: `maskedintreg.cpp`, `intreg.cpp`, `boolean.cpp`, `enumeration.cpp`, `integer.cpp`, `command.cpp` | none: the camera's registers are the state | `getValue`, `setValue` of each node | the exchange through `GvcpClient::read` and `write` |
| **GenICam features over several registers**: `converter.cpp`, `swissknife.cpp`, `intswissknife.cpp`, `swissknifehelper.cpp`, `floatjgv.cpp`, `node.cpp` | none | `getValue`, `setValue`; a formula for the value, one for the address | formulas; the exchange, once per variable |
| **XML download**: `xmlFile`, `xmlFilename` | none | one call | `readMemory` and its buffer |
| **Discovery**: `gvcp/gvdevice.cpp`, `discoveryhelper.cpp` | none | `GvDevice::list` | a broadcast on each interface |
| description: XML parser, node map | the document | lookup | `xmlFile` |
| FloatReg and StringReg nodes | none | `getValue`, `setValue` | one command each |
| timestamp correlation: `gvsp/timestampdate.cpp` | last 15 dates | `push`, `getDate` | the receive thread |

How they interact: an application's `setValue` becomes a READREG and a WRITEREG
command. Each goes through `proceed`, under one mutex, which the heartbeat
thread takes too; the answer is copied out of the shared buffer after the mutex
is free. A feature that is computed takes one such exchange per variable, with
nothing that keeps the registers still in between. A program (the `main` of
`test/feature_test.cpp`) lists the devices and for each takes control, downloads
the description and releases. The stream has a thread of its own that shares its parameters with the
program without a lock.

What is hard here: commands and acknowledgements are datagrams that are lost,
late and repeated; the request id has 16 bits; three threads share a buffer and
the registers; the heartbeat is stopped through a flag and a condition variable;
a session's calls fail half way, by an answer that does not come or by an exception of
the socket; the heartbeat must be quicker than the device's timer whatever the
network loses and however busy the application keeps the mutex; image packets come out of order and with
holes, over block ids that wrap; memory changes hands between receiver and
application.

What makes each part correct:

* exchange: what it reports done was done; a call comes to an end; a caller gets
  its own answer;
* session: state, socket, thread and privilege agree; a failed call leaves
  nothing; every call returns; the device never takes the privilege back while
  the period fits;
* bring-up: a listed device is the one that answered, and the description
  unpacked is, byte for byte, that camera's;
* assembly: the counts are true, every hole is asked for and once, images are in
  order and whole, no memory is lost or used twice;
* receive thread: datagrams are read once and in order from a ring the kernel
  writes, no wake-up is missed, nothing is left after the destructor;
* formulas: the tree of the text, and its value;
* registers: setting a feature changes that feature, getting it returns what was
  set;
* computed features: the register written or read and the formula used belong to
  the same selection.

## 2. The modules

| module | models | state and actions |
|---|---|---|
| `GvcpRpc` | the promise of `proceed` | calls, executed commands; `Call`, `Execute`, `Succeed`, `Fail` |
| `GvcpProceed` | `proceed` and its helpers, devices, the network | each thread's place in the loop (`send`, `poll`, `check`, `copy`), ids, retries, the mutex, the static buffer, datagrams in flight and in the socket; one action per branch of the loop |
| `GvcpSession` | the three calls, the heartbeat thread, copies of the client | the program's place in a call, `_state`, the socket, flag, thread and wait, the handles; one action per command or step of a call, each with its failure and its exception |
| `GvcpHeartbeat` | the same thread against the clock | the device's countdown, the wait, the poll and the retries, the mutex, the datagrams in the socket; one action per step of `proceed` and of the thread, and `Tick` |
| `Discovery` | `GvDevice::list` | the loop over the interfaces, the socket of one, the packet nobody clears, `devLst` |
| `XmlDownload` | `xmlFile` | the camera asked, address and destination of the segment, the vector, the shared buffer; one action per command and one per copy out of the buffer, and what other calls receive in between (`Receive`) |
| `BringUp` | the program's loop over the list; composes `Discovery` and `XmlDownload` | `ListDevices`, `Control`, `XmlFile`, `Release` |
| `GvspReceiver` | the block map | `blocks`, the allocator's memory, what was handed over; one action per packet that is lost, received or late |
| `GvspQueue` | the promise of the receive thread | waiting and handled datagrams |
| `GvspListener` | `Receiver` and the thread | where program, thread and kernel are, mutex, sockets, ring; one action per step that another of the three can see |
| `Formula` | the reader and the evaluator | text, output, stack, then queue and values; one action per token |
| `FormulaReference` | what a formula means | expressions: a constructor per form computes text, postfix queue and value from those of the operands |
| `RegisterNodes` | the nodes over the registers | registers, shared buffer, each thread's task (`read`, `copy`, `write`), late writes |
| `SelectedNodes` | converters, SwissKnives and registers whose address is a formula | the same, with the words each thread has read so far; one action per command and one per copy |

The `MC...` modules give the constants their values; the `...Proofs` modules hold
the theorems, those of `GvcpSession` and of `GvcpHeartbeat` in one
(`GvcpSessionProofs`), which is why no name of one is also in the other. Two refinements connect a promise to the code that keeps it:
`ImplementsRpc` (`GvcpProceed` implements `GvcpRpc`; commands of the session and
of the nodes are steps `GvcpRpc` allows) and `ImplementsQueue` (`GvspListener`
implements `GvspQueue`; the packets `GvspReceiver` handles are what comes out of
that queue). The queue of a listener is what its socket holds, or what the thread
has not read of its block, then of the blocks up to the kernel's (`Parts`,
`Waiting`). `BringUp` is a composition: its state is that of `Discovery` and of
`XmlDownload`, both taken by `INSTANCE`, and the program's place between them.

Definitions named "Mutant" in a comment are the plausible bugs that the
properties are tried against; no specification uses them.

### What is abstracted

* **Exchange.** The number `seq` of a command stands for its contents. `Lifetime`
  bounds how long a datagram survives in the network, counted in later commands:
  without it an acknowledgement may be as old as the id space and no id protocol
  is right. A device answers, refuses, asks for time (PENDING_ACK), or never
  sees the command.
* **Session.** A command is one step with every outcome of `GvcpRpc`. Time is
  left out: the wait of the heartbeat may end at any moment. A bind or a send may
  throw; a bind that does may have opened the socket, which is then bound to nothing. An exception out of a call is caught by the program; out of the thread or
  a destructor it ends the process.
* **Heartbeat.** Time is a number of ticks of 100 ms; what takes no time compared
  to a poll is done between two ticks. An exchange is spoilt when the request or
  its acknowledgement is lost or late; `MaxLost` are spoilt in a row. Only
  answers that carry an old id use up a try; refusals and PENDING_ACK are in
  `GvcpProceed`. The period is set from whatever word lies in the buffer by then, and
  kept when the answer that lies there holds none.
* **Discovery.** A camera answers a broadcast once. What an answer is good for is
  five booleans; what a camera says of itself is the camera.
* **Download.** A byte of the file is the camera and the address it was read from, or
  zero, or foreign. A URL is a record of what the code asks of it, and of which bytes
  of its file are zero: the text ends at the first of them, or beyond the vector. A
  command is one step. Between an answer and its copy any other call may receive, and
  what it receives lies over the answer before anything is checked: an answer of some
  registers (which begins a word before the data of a segment, so that one register
  covers none of it), a segment of this file that comes late or twice, or a stray.
* **Bring-up.** Control is what `GvcpSession` may leave behind: a session or none.
* **Assembly.** A payload is its size. The network loses a packet, lets it
  through, or delays or repeats it (`Delays` of them). Timestamps and statistics
  are left out. `preallocImages` comes before the stream. The directory's `.cpp`
  files do not match their headers and are not built; the `.cpp` files are what
  is modelled.
* **Receive thread.** A datagram is a number, whether its sender has the
  transmitter's address and whether it has its port, and whether `acceptFrom` had
  returned. Either of the two may be 0, for any. Every call of the set-up may fail. A poll
  ends with or without a datagram. The kernel's side of the ring is TPACKET_V3:
  it fills one block after the other, drops everything when the next one is
  still the thread's, and never gives an empty one.
* **Formulas.** Characters are tokens. A double is an integer rounded to
  `Precision` bits, a word has `Width` bits. LG and inexact quotients are left
  out. An expression is a record that carries its own text, queue and value, and
  the operators, exponents and values of its parts, so that the reference needs no
  recursion: `ReferenceAssumption` says that each tree of `Trees` is what one of the
  constructors makes of other trees of the set. `ResultIsValue` asks for the
  value where `Computable` says that the code can reach it: on integers no value
  leaves the word (an overflow is undefined), and what goes through a double, the
  result and every operand of `pow`, is one it can hold; on doubles no value is
  rounded, and the operators that only integers have, and the division, which may
  leave a fraction, are absent. Exponents are not negative.
* **Registers.** A word is the set of its bits at 1. `Strays` are the words that a
  heartbeat, or a command that fails, may leave in the buffer. The history variables
  `expected`, `disturbed` and `stale` record what was set and which bits another
  actor, a failure or a value too wide may have spoilt.
* **Computed features.** A formula is a function of the words of its variables
  (`Formula` says how it is evaluated). `expected` holds what each register should;
  `spoilt` names the registers something else overwrote, `upset` the threads
  that go by a word no longer in the camera.

## 3. The runs

| run | question | states | expected |
|---|---|---|---|
| `proceed` | is what is reported done really done, does the loop implement the abstract call, and end? | 605 K | pass |
| `proceed_race` | does a reader get its own answer? | | violated |
| `session` | do state, socket, thread and privilege agree, with copies and exceptions, and do calls return? | 44 K | pass |
| `session_heartbeat` | does every controller have a heartbeat? | | violated |
| `heartbeat` | does the heartbeat beat in time? | 374 K | pass |
| `gvsp_receiver` | counts, requests, memory, indices, order, wholeness | 1.1 M | pass |
| `gvsp_listener` | order, once-only and sender of datagrams, start and end of the thread | 585 K | pass |
| `bring_up` | is what is unpacked the listed camera's description, within bounds, and does the program end? | 1.0 M | pass |
| `xml_last_segment` | is the last segment read? | | violated |
| `formula` | is the queue the expression, the result its value? | 175 K | pass |
| `register_nodes` | what may a set damage, what may a get return? | 2.1 M | pass |
| `selected_nodes` | which register does a set reach, what may a get return? | 869 K | pass |

**Bounds.** `proceed`: three commands of two threads with two ids, so that ids
wrap and an old acknowledgement carries the id in use; two tries; one datagram
in the socket, so that a stale one hides a fresh one; one stray of another host.
`session`: five calls over two devices and two handles, enough for control,
release, control again, a change of device, and a copy destroyed under the other.
`heartbeat`: timeouts of 300 ms (below the margin), 600 ms and 1 s, three tries,
one late acknowledgement and three calls of the application, which put the next
beat off. One exchange in a row is spoilt: the margin of 400 ms is two polls, and
with two spoilt in a row the privilege is lost, which TLC shows when `MaxLost` is 2.
`gvsp_receiver`: three images of two geometries (one packet, and three, the last one
short: far enough apart for an index outside the smaller map) with ids 1..6, started at the last id so that they wrap, and
one packet late or repeated, which may arrive an image later. `gvsp_listener`: a
ring of two blocks of two datagrams, which the kernel gives away full or not, and three
datagrams, so that it comes round to a block the thread still reads; a sender that is
the transmitter, one with another port and one with another address; one spurious
wakeup. `bring_up`: two
cameras, one of them on two interfaces, and the loopback; files of 0 to 9 bytes
with segments of 4 and registers of 2, so that a file ends within, at the end
of, or just after a segment or a register, and texts with no zero byte or with one at
the start, inside or at the end; two datagrams received by other calls in each
download. `formula`: every operator over one operator of each level, in each of
its operands, so that every pair of precedences meets in every position, and
malformed texts; a choice over fewer operands, and shifts and powers of at most
4; words of 24 bits, and a precision of six bits so that rounding happens. `register_nodes`: two
threads, three calls, one register of three bits with overlapping nodes of both
byte orders, one late write. `selected_nodes`: two threads (symmetric), three
calls, a selector of two channels with one register and one formula each, a
third register for what selects neither, a SwissKnife of two variables, words
of two bits, one late write.

`CHECK_DEADLOCK FALSE` stands in every run but those of the session and of the
heartbeat: the models stop when the bound on commands, packets, tokens or calls
is reached, the listener when it is destroyed, the program of `bring_up` when it
is over.

**Fairness.** `proceed`: a thread inside `proceed` is scheduled and its polls
time out (200 ms); nothing is asked of the device or the network. `session`: the
program inside a call and the heartbeat are scheduled, and the heartbeat's wait
times out. `heartbeat`: both threads are scheduled and the clock runs, the
device's timer with it. `gvsp_listener`: the program inside a call and the receive thread are
scheduled, whose polls end after 200 or 10 ms; no datagram need come and nothing
forces the program to call. `bring_up`: the program is scheduled and its polls
end; no camera need answer. Each is what the operating system's scheduler and a
timeout in the code give.

### What the failing runs show

1. `proceed_race`: the comment "assure l'appel threadsafe" covers the exchange
   but not the answer, which is copied after the mutex is released
   (`gvcpclient.cpp:368`).
2. `session_heartbeat`: "lance le heartbeat" starts a thread that ends at once in
   every session after the first release (`gvcpclient.cpp:335`).
3. `xml_last_segment`: "le dernier segment" reads nothing when the size of the file
   is a multiple of 512, and the last 512 bytes stay zero (`gvcpclient.cpp:479`).

Where a property speaks only of part of the behaviours, the rest is a behaviour
of the code too: `InOrder` and `EndAsked` while no packet is late (a late payload
reopens a block that was handed over and it is handed over again), `IntactIsWhole`
while no block was mapped from a short last packet, `NotifiedKnowsPort` without spurious wakeups,
`ControllerIsWhole` outside sessions an exception has broken (they count as
controller, and the next `controlDevice` returns true), `PrivilegeKept` while the
period in use fits the timeout (it does not for a beat after the application
has shortened it, nor for a timeout below the 400 ms that are taken off, where the
period wraps to 2^32 ms), `DescribesListed` for acknowledgements of discovery, a size that is not a multiple
of a segment, and answers over which nothing was received before they were copied but
a register of the heartbeat or the same segment once more (a segment that comes late, or
a stray, taken by a beat, goes into the file),
`FieldsKept`, `SelectionKept` and `SelectionRead` outside what the history blames on
somebody. Two properties name the cases instead. `InRange`: the thread indexes outside
a map for a payload ahead of its leader only, of an image larger by more than a packet
than the one its block was opened for (`outgrown`). `OnlyTransmitter`: a datagram of
somebody else is handled after `acceptFrom` only from a ring whose packet socket was
not open yet (`early`), so that no filter was set; and one that `acceptFrom` asks for
is turned away (`spurned`) only by a filter, on a stream sent to a group or for a
wildcard, which the UDP socket takes for anyone and the filter for nobody. The models
also have what no property forbids: a wrong
acknowledgement has the command sent again, where the comment says the poll goes on
(`gvcpclient.cpp:173`); a block no payload has reached is handed over as full
(`gvspreceiver.cpp:560`).

## 4. The proofs

All theorems hold for every value of the constants that satisfies the named
assumption of the module. TLC has checked each invariant first.

* **`GvcpProceedProofs`**: `TypeCorrect`; and for one client in the process
  (`OneClient`) `Invariance`, `Success` and `Refinement`. `SuccessMeansExecuted` is
  not inductive: why an acknowledgement with the right id is the right one depends
  on how old it can be. `IndInv` counts that age. A datagram in the network is
  younger than `Lifetime` commands; every command takes at least one datagram
  out of the socket or finds it empty, so the i-th in the socket is at most
  `MaxAge` commands old; with `Lifetime + RxCapacity <= IdMax` ids tell all of
  these apart, across the wrap. The refinement then maps every step to a step of
  `GvcpRpc` or to none. `OneClient` is needed: a second client of the same
  process receives into the same buffer, between a receive and its check.
* **`GvcpSessionProofs`**, the session: `SessionInv` ties the thread to the session
  (a joinable thread means a bound socket, a granted privilege and no exception on
  the way), from which `ThreadSafety`, `SessionSafety`, `FailureIsClean` and
  `HeartbeatStops` follow, for any devices, calls and copies.
* **`GvcpSessionProofs`**, the heartbeat against the clock: `ClockTypeCorrect`; and
  `BeatsInTime`, that the device's timer never runs out while the period fits, under
  `Spared`: the polls that can be lost in a row take less than the margin, and a
  command has more tries than that. With the code's 200 ms polls, 400 ms margin and
  3 tries this is one lost exchange, and TLC shows the privilege lost with two. The
  invariant `ClockInv` compares what is left of the device's timer with what the
  lost polls have cost since the device was last heard of (`Spent`), and with what
  they may still cost (`Budget`). While the thread waits, what is left covers the
  wait, the margin and what remains of a poll of the application; or the
  application, which has just put the beat off, is in an exchange that the device
  has not heard of and will, by one of the tries that are left (`Unheard`, `InTime`,
  `Enough`): an old acknowledgement uses up a try but no time, which is why tries
  are counted apart from time. While the heartbeat is in its own exchange, either the
  device has executed a request, and its timer has lost no more than the polls since
  (`Executed`), or it has not, and will in time.
* **`GvspReceiverProofs`**: `ReceiverInv` with lemmas on how many segments a fill
  or a request changes; from it `Counts`, `Holed` and `Ownership`. That holes are
  closed downwards is what makes the backward search of `emptySegmentsCount`
  find them all. Four more theorems follow the stream. Each needs where the camera
  is and where the ids wrap, so they rest on lemmas that give every id the number of
  its image (`MaxBlocks + 2 < IdMax`: a stream that came round to its first id could
  not be told from its beginning).
  * `Order`: while nothing is late, no block is open beyond the one after the
    camera's; what was handed over is older than the camera's, closed, and in order
    (`OrderInv`).
  * `StaysInRange`, for any geometries: a map has a segment for every full packet of
    the image it was cut for, however short the packet it was cut by (`Ranged`), so that
    only a payload of a larger image goes past it; and every packet of an image has one
    geometry, which its block has once the leader has come (`SizesInv`), so that such a
    payload is ahead of its leader.
  * `AskedByNext`: a block the camera has not come to has received nothing, so the first
    payload that fills a segment of it finds the block before it as it was left, and
    asks for the rest of it (`AskedInv`).
  * `Intact`: `streak` follows an image whose packets have all come in order; its block
    is open, has its own geometry and is filled up to the last packet (`StreakInv`,
    with `CutInv` that maps are cut into full packets), whatever the purge and the
    requests for other blocks do.
* **`GvspListenerProofs`**: `Start` rests on the mutex (the thread knows its port
  before it notifies, and the program cannot return before), `End` on the join.
  `TypeCorrect` bounds the ring and what the thread reads of it; `Transmitter`
  needs that a datagram counts as arrived after `acceptFrom` only once that is so,
  that by then the ring has its filter or was opened too late for it (`early`), and that
  only the filter turns away what `acceptFrom` asks for. `Implements` is the refinement of `GvspQueue`.
  It needs `RingInv`: the thread's blocks are those from `current` up to
  `head`, the kernel fills the one there, and those beyond are empty. The queue is
  then the concatenation of what each of these blocks holds, and the lemmas say what
  a step of kernel or thread does to it: append to the last part, take from the
  first, pass from one part to the next, or nothing.
* **`BringUpProofs`**: `TypeCorrect`, `Described` and `Copies`, for any cameras,
  interfaces and answers, files, segments and registers of any size. `BringUpInv` has a
  part for the list (a device of it is one that answered, and the list is no longer
  than the interfaces visited), one for the file (what has been copied is, byte for
  byte, that of the camera asked, unless something lay over it), one for the loop over
  the segments, and one for the program. `Copies` comes down to arithmetic: the
  segments read and the last one, aligned to a word, end where the file, aligned to a
  word, ends (`LastFits`).
* **`FormulaProofs`**: `Parser`, for texts of every length and form: the stack is
  ordered and no parenthesis reaches the output. `Understanding` and `Evaluation`, for
  expressions of every depth, any names, width and precision: the queue is the
  expression's, and the result its value. Neither property is inductive, since
  what a half-read text will become is nowhere in the state. `ReadInv` says instead
  that the place reached still leads to the expression's queue (`Ahead`), and
  `EvaluationInv` that the rest of the queue still leads to its value
  (`Outstanding`). "Leads to" is written without counting steps: every set of
  configurations that the steps do not leave, and that holds the first, holds the
  second. Such facts compose (`LeadsBy`), and as only one step is possible from a
  configuration, what leads to an end leads to it after a step too (`LeadsAfter`).
  It remains to show that the text of an expression leads from any configuration to
  the one with its tokens. Induction over the trees is done by hand: among those for
  which it failed there would be one with the shortest text (`SmallestTree`), and
  its operands are shorter. What has to be carried through it is what may be left on
  the stack: `Reads` says that the output and the stack reversed are what they were
  with the expression's tokens between, and that only operators as tight as the
  expression's level were pushed, so that the next operator, or the parenthesis
  around it, puts out what it must. That the levels of the reference
  and the precedences of `token.cpp` agree on which operator gives way is a lemma
  (`YieldsIs`, `BinaryYields`). For the value, `2^n` is the number of subsets of `1..n`
  (the library's `FS_SUBSET`), from which follow how it grows (`PowerNext`, `PowerGrows`)
  and that a double holds a small number exactly (`FloatIs`).
* **`RegisterNodesProofs`**: `Neighbours` and `ReadBack`, for every width, any
  nodes and threads; the invariant says that what a thread holds is right outside
  the bits its history blames.
* **`SelectedNodesProofs`**: `Selection` and `SelectedAnswer`, for any formulas, any
  number of variables, words and threads. `SelectionKept` is not inductive: it
  needs that a thread that is not upset holds, word by word, what the registers of
  its variables still hold (`Fresh`), so that the register it computes is the one
  that is selected, and that an answer not yet copied is that of the register looked
  at.

Only model-checked: the liveness properties `EveryCallReturns`, `Adapts` and `Ends`
(fairness and ENABLED are outside the prover's reach); and the type invariant of
`Formula`, which needs for any operands that `a^b` and the value of a set of bits are
integers: both are defined by recursion over data, which the provers cannot unfold
to the end. The two theorems on expressions do not need it, as the values are
those of the tree.

## 5. Not modelled

* FloatReg and StringReg nodes: each is one command on a fixed run of registers,
  which `RegisterNodes` covers but for the conversion. Converters whose value is a
  float, and registers of 64 bits: the repository's description has none.
* XML parser and node map: a static document without state after construction.
* Timestamps: a regression over floating-point dates, out of TLC's reach.
* Logger; byte layouts of packets; `forceiphelper` and the acknowledgements'
  setters (no caller); the register bank of a device (commented out).
* Races on `std::map` when `preallocImages` or `setResendActive` are called during
  the stream: undefined, with no outcomes to list.

## 6. Plan

Done, in this order: the exchange with its abstract call; the session; block
assembly; formulas; register nodes; the receive thread with its abstract queue;
copies and exceptions in the session; the heartbeat against the clock;
download, discovery and the program that uses both; computed features, with
their proofs; groups and wildcards of the receive thread, and whose datagrams it
handles, proved; the refinement of the queue, the four properties of
the stream, the bring-up and the heartbeat's time, proved; the meaning of
formulas, proved.

Left:

1. The composition of `GvspListener` with `GvspReceiver`.
2. Proofs: what several clients of one process, which receive into the same buffer,
   can still rely on (`Success` holds for one).
3. `GvcpHeartbeat` with refusals and PENDING_ACK, which prolong a try.
