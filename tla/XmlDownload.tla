----------------------------- MODULE XmlDownload -----------------------------
(***************************************************************************)
(* xmlFile of GvcpClientImpl (gvcpclient.cpp): the URL of the description  *)
(* is read from the camera's memory, then the file it names, in segments,  *)
(* each with a READMEM command, then it is unpacked.                       *)
(*                                                                         *)
(* A command is one step and may fail.  Its answer stays in the buffer all *)
(* threads share, and is copied by the step after: what the heartbeat or   *)
(* another thread receives in between, before any check, lies over it.  A  *)
(* byte is the camera it comes from and its address there.                 *)
(***************************************************************************)
EXTENDS Integers

CONSTANTS
  Cameras,
  Nobody,     \* no camera
  Urls,       \* what the URL register of a camera may hold
  Chunk,      \* READMEM_ACK_PAYLOAD_MAX_SIZE, 512 bytes
  Word,       \* the bytes of a register, 4
  Reads,      \* how many registers others read at a time
  Strays,     \* how many bytes of a segment other datagrams cover
  MaxOthers   \* bound: what others receive during a download

(* A URL: "Local:" or not, its fields, the extension of the file, whether  *)
(* the numbers are numbers, where the file is, how long, which of its      *)
(* bytes are zero, and whether an archive holds the entry looked for.      *)
DownloadAssumption ==
  /\ Nobody \notin Cameras
  /\ Word \in Nat \ {0}
  /\ Chunk \in Nat \ {0} /\ Chunk % Word = 0
  /\ Reads \subseteq Nat \ {0} /\ Strays \subseteq Nat \ {0} /\ MaxOthers \in Nat
  /\ \A u \in Urls :
       /\ u.local \in BOOLEAN /\ u.numbers \in BOOLEAN /\ u.entry \in BOOLEAN
       /\ u.fields \in Nat /\ u.extension \in {"xml", "zip", "other", "none"}
       /\ u.address \in Nat /\ u.size \in Nat /\ u.zeros \subseteq 0..(u.size - 1)

VARIABLES
  pc,         \* where the call stands
  configured, \* _state # none
  device,     \* _deviceIP: the camera that is asked
  camera,     \* what its URL register holds
  url,        \* the URL as it was read
  address,    \* of the next segment
  dest,       \* where it goes in the file
  file,       \* the vector
  written,    \* how far memcpy has written
  buffer,     \* the data of the last READMEM answer
  others,     \* datagrams others received during this call
  disturbed,  \* history: one lay over an answer before it was copied
  result      \* "none", "empty", "text", "cut" at a zero, or "overrun"

vars == <<pc, configured, device, camera, url, address, dest, file, written, buffer,
          others, disturbed, result>>

Zero == <<Nobody, 0>>      \* a byte that is zero
Foreign == <<Nobody, 1>>   \* a byte of another answer

NoUrl == [local |-> FALSE, fields |-> 1, extension |-> "none", numbers |-> FALSE,
          address |-> 0, size |-> 0, zeros |-> {}, entry |-> FALSE]

(* The memory of camera c when its URL register holds what camera says.    *)
Content(c, a) == IF a - camera.address \in camera.zeros THEN Zero ELSE <<c, a>>

Memory(a) == Content(device, a)

Init ==
  /\ pc = "idle" /\ configured = FALSE
  /\ device = Nobody /\ camera = NoUrl /\ url = NoUrl
  /\ address = 0 /\ dest = 0 /\ file = [i \in {} |-> Zero] /\ written = 0
  /\ buffer = [i \in 0..(Chunk - 1) |-> Zero]
  /\ others = 0 /\ disturbed = FALSE /\ result = "none"

-----------------------------------------------------------------------------
Goto(next) == pc' = next

Return(r) == pc' = "done" /\ result' = r

(* The call is made, on a client of camera c with a session or without.    *)
Begin(c, u, session) ==
  /\ pc = "idle"
  /\ configured' = session /\ device' = c /\ camera' = u
  /\ Goto("url")
  /\ UNCHANGED <<url, address, dest, file, written, buffer, others, disturbed,
                 result>>

(* The string is made from a null pointer when there is no answer.         *)
ReadUrl ==
  /\ pc = "url"
  /\ \/ configured /\ Goto("parse")
     \/ Goto("threw")
  /\ UNCHANGED <<configured, device, camera, url, address, dest, file, written, buffer,
                 others, disturbed, result>>

Accepted(u) ==
  u.local /\ u.fields = 3 /\ u.extension \in {"xml", "zip"}

(* Mutant: the vector is reserved and has no size.                         *)
ParseReserves ==
  /\ pc = "parse"
  /\ url' = camera
  /\ Accepted(url') /\ url'.numbers
  /\ Goto("chunk")
  /\ address' = url'.address
  /\ dest' = 0
  /\ UNCHANGED <<configured, device, camera, file, written, buffer, others, disturbed,
                 result>>

(* The URL is copied from the buffer and taken to pieces.                  *)
Parse ==
  /\ pc = "parse"
  /\ url' \in IF disturbed THEN Urls ELSE {camera}
  /\ \/ ~Accepted(url') /\ Return("empty") /\ UNCHANGED <<address, dest, file>>
     \/ /\ Accepted(url') /\ ~url'.numbers /\ Goto("threw")
        /\ UNCHANGED <<address, dest, file, result>>
     \/ /\ Accepted(url') /\ url'.numbers /\ Goto("chunk")
        /\ address' = url'.address
        /\ dest' = 0
        /\ file' = [i \in 0..(url'.size - 1) |-> Zero]
        /\ UNCHANGED result
  /\ UNCHANGED <<configured, device, camera, written, buffer, others, disturbed>>

(* The answer of a READMEM of count bytes at a.                            *)
Answered(a, count) ==
  buffer' = [i \in DOMAIN buffer |-> IF i < count THEN Memory(a + i) ELSE buffer[i]]

(* memcpy of count bytes to dest, the end of the vector or not.            *)
Copied(count) ==
  /\ file' = [i \in DOMAIN file |->
                IF dest <= i /\ i < dest + count THEN buffer[i - dest] ELSE file[i]]
  /\ written' = IF count = 0 THEN written ELSE dest + count

End == url.address + url.size

(* Mutant: the loop goes on to the end of the file.                        *)
InsideToEnd == address < End

Inside == address + Chunk < End

(* Without an answer, memcpy reads from a null pointer.                    *)
ReadChunk ==
  /\ pc = "chunk"
  /\ Inside
  /\ \/ Answered(address, Chunk) /\ Goto("copy")
     \/ UNCHANGED buffer /\ Goto("crashed")
  /\ UNCHANGED <<configured, device, camera, url, address, dest, file, written, others,
                 disturbed, result>>

CopyChunk ==
  /\ pc = "copy"
  /\ Copied(Chunk)
  /\ address' = address + Chunk
  /\ dest' = dest + Chunk
  /\ Goto("chunk")
  /\ UNCHANGED <<configured, device, camera, url, buffer, others, disturbed, result>>

(* BootstrapRegisters::align.                                              *)
Align(n) == IF n % Word = 0 THEN n ELSE n + (Word - (n % Word))

LastSize == Align(url.size % Chunk)

ReadLast ==
  /\ pc = "chunk"
  /\ ~Inside
  /\ \/ Answered(address, LastSize) /\ Goto("lastCopy")
     \/ UNCHANGED buffer /\ Goto(IF LastSize = 0 THEN "lastCopy" ELSE "crashed")
  /\ UNCHANGED <<configured, device, camera, url, address, dest, file, written, others,
                 disturbed, result>>

CopyLast ==
  /\ pc = "lastCopy"
  /\ Copied(LastSize)
  /\ Goto("unpack")
  /\ UNCHANGED <<configured, device, camera, url, address, dest, buffer, others,
                 disturbed, result>>

(* The file in the vector is, byte for byte, the one the URL names in c.   *)
Describes(c) ==
  file = [i \in 0..(camera.size - 1) |-> Content(c, camera.address + i)]

Whole == Describes(device)

(* The text in the vector ends at offset n, the first that holds a zero: a *)
(* byte of another answer may be one.                                      *)
EndsAt(n) ==
  /\ file[n] \in {Zero, Foreign}
  /\ \A i \in 0..(n - 1) : file[i] # Zero

(* What a text that ends at n is.                                          *)
TextOf(n) ==
  IF \E i \in DOMAIN file : i > n /\ file[i] # Zero THEN "cut"
  ELSE IF n = 0 THEN "empty" ELSE "text"

(* A text that no zero ends goes on past the vector; the pointer to an     *)
(* empty vector is null.                                                   *)
UnpackText ==
  /\ url.extension = "xml"
  /\ \/ \E n \in DOMAIN file : EndsAt(n) /\ Return(TextOf(n))
     \/ /\ \A i \in DOMAIN file : file[i] # Zero
        /\ \/ url.size > 0 /\ Return("overrun")
           \/ Goto("crashed") /\ UNCHANGED result

(* An archive that is not one makes the library throw, or has no entry.    *)
UnpackArchive ==
  /\ url.extension = "zip"
  /\ \/ /\ url.size > 0 /\ Whole
        /\ Return(IF url.entry THEN "text" ELSE "empty")
     \/ /\ url.size = 0 \/ ~Whole
        /\ \/ Return("empty")
           \/ Goto("threw") /\ UNCHANGED result

Unpack ==
  /\ pc = "unpack"
  /\ UnpackText \/ UnpackArchive
  /\ UNCHANGED <<configured, device, camera, url, address, dest, file, written,
                 buffer, others, disturbed>>

-----------------------------------------------------------------------------
(* proceed receives a datagram into the buffer before it looks at it.      *)

(* Some other call receives, before what this one got has been copied.     *)
Received ==
  /\ pc \in {"parse", "copy", "lastCopy"}
  /\ others < MaxOthers
  /\ others' = others + 1
  /\ UNCHANGED <<pc, configured, device, camera, url, address, dest, file, written,
                 result>>

Overlaid(n) ==
  buffer' = [i \in DOMAIN buffer |-> IF i < n THEN Foreign ELSE buffer[i]]

(* Mutant: the data of a READREG answer begins where that of READMEM does. *)
CoveredAll(k) == Word * k

(* The bytes of READMEM's data that lie under an answer of k registers:    *)
(* its own data begins one word before theirs.                             *)
Covered(k) == Word * (k - 1)

(* Another thread reads k registers, the heartbeat one.                    *)
ReceiveRegisters(k) ==
  /\ Received
  /\ Overlaid(Covered(k))
  /\ disturbed' = (disturbed \/ k > 1)

(* The heartbeat, too, may take the answer of a segment that comes late or *)
(* twice: the one of j segments ago.                                       *)
ReceiveSegment(j) ==
  /\ Received
  /\ pc # "parse"
  /\ Answered(address - Chunk * j, IF j = 0 /\ pc = "lastCopy" THEN LastSize ELSE Chunk)
  /\ disturbed' = (disturbed \/ j # 0)

(* Or any other datagram, that covers n bytes.                             *)
ReceiveStray(n) ==
  /\ Received
  /\ Overlaid(n)
  /\ disturbed' = TRUE

Receive ==
  \/ \E k \in Reads : ReceiveRegisters(k)
  \/ \E j \in 0..(dest \div Chunk) : ReceiveSegment(j)
  \/ \E n \in Strays : ReceiveStray(n)

XmlFile ==
  \/ ReadUrl \/ Parse \/ ReadChunk \/ CopyChunk \/ ReadLast \/ CopyLast \/ Unpack

Next ==
  \/ \E c \in Cameras, u \in Urls, session \in BOOLEAN : Begin(c, u, session)
  \/ XmlFile
  \/ Receive

Spec == Init /\ [][Next]_vars

-----------------------------------------------------------------------------
Bytes == (Cameras \cup {Nobody}) \X Int

(* The variables have their types.                                         *)
TypeOK ==
  /\ pc \in {"idle", "url", "parse", "chunk", "copy", "lastCopy", "unpack",
             "done", "threw", "crashed"}
  /\ configured \in BOOLEAN
  /\ device \in Cameras \cup {Nobody}
  /\ camera \in Urls \cup {NoUrl} /\ url \in Urls \cup {NoUrl}
  /\ address \in Nat /\ dest \in Nat /\ written \in Nat
  /\ pc \in {"chunk", "copy", "lastCopy", "unpack"} =>
       DOMAIN file = 0..(url.size - 1)
  /\ \A i \in DOMAIN file : file[i] \in Bytes
  /\ buffer \in [0..(Chunk - 1) -> Bytes]
  /\ others \in 0..MaxOthers
  /\ disturbed \in BOOLEAN
  /\ result \in {"none", "empty", "text", "cut", "overrun"}

(* memcpy never writes past the vector, but for what the alignment of the  *)
(* last segment adds to a file that is not a whole number of words.        *)
InBounds == written <= Align(url.size)
=============================================================================
