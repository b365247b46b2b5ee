---------------------------- MODULE BringUpProofs ----------------------------
(***************************************************************************)
(* A program brings its cameras up: for any interfaces, cameras, answers,  *)
(* descriptions and sizes of a segment and of a register, the list names   *)
(* the cameras that answered, and a description is the camera's.           *)
(***************************************************************************)
EXTENDS BringUp, FiniteSetTheorems, SequenceTheorems, TLAPS

-----------------------------------------------------------------------------
(* The list *)

\* What the list takes from its assumption.
LEMMA ListConstants ==
  /\ IsFiniteSet(Interfaces) /\ Cardinality(Interfaces) \in Nat
  /\ \A a \in Answers : a.type \in {"discovery", "other"}
<1> USE BringUpAssumption DEF Listing!DiscoveryAssumption
<1>1. IsFiniteSet(Interfaces)
  OBVIOUS
<1>2. Cardinality(Interfaces) \in Nat
  BY <1>1, FS_CardinalityType
<1>3. \A a \in Answers : a.type \in {"discovery", "other"}
  OBVIOUS
<1> QED
  BY <1>1, <1>2, <1>3

\* What the socket holds, and what the list is made of.
Datagrams == [camera : Cameras, answer : Answers]
Found == [address : Cameras, data : Cameras \cup {Garbage},
          type : {"discovery", "other"}]

\* A device of the list has an interface of its own.
Polled == IF stage = "poll" THEN 1 ELSE 0

ListInv ==
  /\ Listing!TypeOK
  /\ Listing!NamesItsSender
  /\ Len(devices) + Cardinality(todo) + Polled <= Cardinality(Interfaces)

LEMMA ListInit == Listing!Init => ListInv
<1> SUFFICES ASSUME Listing!Init PROVE ListInv
  OBVIOUS
<1> USE DEF Listing!Init
<1>1. Listing!TypeOK
  BY DEF Listing!TypeOK
<1>2. Listing!NamesItsSender
  BY DEF Listing!NamesItsSender
<1>3. Cardinality(Interfaces) \in Nat
  BY ListConstants
<1> QED
  BY <1>1, <1>2, <1>3 DEF ListInv, Polled

\* What a loop leaves to visit is one less.
LEMMA Visited ==
  ASSUME Listing!TypeOK, NEW i \in todo, todo' = todo \ {i}
  PROVE  /\ Cardinality(todo) \in Nat
         /\ Cardinality(todo') = Cardinality(todo) - 1
<1>1. IsFiniteSet(todo)
  BY ListConstants, FS_Subset DEF Listing!TypeOK
<1> QED
  BY <1>1, FS_CardinalityType, FS_RemoveElement

LEMMA ListNext == ListInv /\ Listing!Next => ListInv'
<1> SUFFICES ASSUME ListInv, Listing!Next PROVE ListInv'
  OBVIOUS
<1>0. /\ Listing!TypeOK
      /\ Listing!NamesItsSender
      /\ Len(devices) + Cardinality(todo) + Polled <= Cardinality(Interfaces)
      /\ Cardinality(todo) \in Nat /\ Cardinality(Interfaces) \in Nat
      /\ Len(devices) \in Nat
  <2>1. IsFiniteSet(todo)
    BY ListConstants, FS_Subset DEF ListInv, Listing!TypeOK
  <2> QED
    BY <2>1, ListConstants, FS_CardinalityType DEF ListInv, Listing!TypeOK
<1>1. ASSUME NEW i \in Interfaces, Listing!Skip(i)
      PROVE  ListInv'
  <2>1. Listing!TypeOK' /\ Listing!NamesItsSender'
    BY <1>0, <1>1 DEF Listing!Skip, Listing!TypeOK, Listing!NamesItsSender
  <2>2. Cardinality(todo') = Cardinality(todo) - 1
    BY <1>0, <1>1, Visited DEF Listing!Skip
  <2> QED
    BY <1>0, <1>1, <2>1, <2>2 DEF Listing!Skip, ListInv, Polled
<1>2. ASSUME NEW i \in Interfaces, Listing!Broadcast(i)
      PROVE  ListInv'
  <2>0. devices' = devices \/ devices' = <<>>
    BY <1>2 DEF Listing!Broadcast
  <2>1. Listing!TypeOK' /\ Listing!NamesItsSender'
    <3>1. devices' \in Seq(Found)
      <4>1. devices \in Seq(Found)
        BY <1>0 DEF Listing!TypeOK, Found
      <4> QED
        BY <2>0, <4>1, EmptySeq
    <3>2. queue' \in Seq(Datagrams)
      BY <1>2 DEF Listing!Broadcast
    <3>3. Listing!TypeOK'
      BY <1>0, <1>2, <3>1, <3>2 DEF Listing!Broadcast, Listing!TypeOK, Found, Datagrams
    <3>4. Listing!NamesItsSender'
      BY <1>0, <2>0 DEF Listing!NamesItsSender
    <3> QED
      BY <3>3, <3>4
  <2>2. Cardinality(todo') = Cardinality(todo) - 1
    BY <1>0, <1>2, Visited DEF Listing!Broadcast
  <2>3. stage = "next" /\ Len(devices') <= Len(devices) /\ Len(devices') \in Nat
    BY <1>0, <1>2, <2>0 DEF Listing!Broadcast
  <2> QED
    BY <1>0, <2>1, <2>2, <2>3 DEF ListInv, Polled
<1>3. ASSUME NEW c \in Cameras, NEW a \in Answers, Listing!Answer(c, a)
      PROVE  ListInv'
  <2>1. Listing!TypeOK' /\ Listing!NamesItsSender'
    <3> DEFINE datagram == [camera |-> c, answer |-> a]
    <3>1. datagram \in Datagrams /\ queue \in Seq(Datagrams)
      BY <1>0 DEF Listing!TypeOK, Datagrams
    <3>2. queue' = Append(queue, datagram)
      BY <1>3 DEF Listing!Answer
    <3> HIDE DEF datagram
    <3>3. queue' \in Seq(Datagrams)
      BY <3>1, <3>2, AppendProperties
    <3> QED
      BY <1>0, <1>3, <3>3 DEF Listing!Answer, Listing!TypeOK, Datagrams,
                              Listing!NamesItsSender
  <2> QED
    BY <1>0, <1>3, <2>1 DEF Listing!Answer, ListInv, Polled
<1>4. CASE Listing!Take
  <2> DEFINE c == Head(queue).camera
             a == Head(queue).answer
             new == [address |-> c, data |-> packet', type |-> a.type]
  <2>1. /\ queue \in Seq(Datagrams) /\ queue # <<>>
        /\ devices \in Seq(Found)
        /\ packet \in Cameras \cup {Garbage}
    BY <1>0, <1>4 DEF Listing!Take, Listing!TypeOK, Datagrams, Found
  <2>2. c \in Cameras /\ a \in Answers
    <3>1. Head(queue) \in Datagrams
      BY <2>1, HeadTailProperties
    <3> QED
      BY <3>1 DEF Datagrams
  <2>3. /\ packet' = IF a.type = "discovery" THEN IF a.sized THEN c ELSE Garbage
                     ELSE packet
        /\ devices' = IF Listing!IsPacketComplete(a) THEN Append(devices, new)
                      ELSE devices
        /\ stage = "poll" /\ stage' = "next" /\ queue' = <<>>
        /\ todo' = todo /\ iface' = iface
    BY <1>4 DEF Listing!Take
  <2>4. packet' \in Cameras \cup {Garbage}
    BY <2>1, <2>2, <2>3
  <2>5. new \in Found
    BY <2>2, <2>4, ListConstants DEF Found
  <2>6. Listing!IsPacketComplete(a) /\ new.type = "discovery" =>
          new.data = new.address
    BY <2>3 DEF Listing!IsPacketComplete
  <2> HIDE DEF new, c, a
  <2>7. \/ devices' = devices
        \/ /\ devices' \in Seq(Found) /\ Len(devices') = Len(devices) + 1
           /\ \A k \in 1..Len(devices) : devices'[k] = devices[k]
           /\ devices'[Len(devices) + 1] = new
           /\ Listing!IsPacketComplete(a)
    BY <2>1, <2>3, <2>5, AppendProperties
  <2>8. Listing!TypeOK'
    BY <1>0, <2>1, <2>3, <2>4, <2>7 DEF Listing!TypeOK, Found
  <2>9. ASSUME NEW k \in DOMAIN devices', devices'[k].type = "discovery"
        PROVE  devices'[k].data = devices'[k].address
    <3>1. CASE devices' = devices
      BY <1>0, <2>9, <3>1 DEF Listing!NamesItsSender
    <3>2. CASE devices' # devices
      <4> DEFINE n == Len(devices)
      <4>0. n \in Nat /\ DOMAIN devices' = 1..(n + 1)
        BY <2>1, <2>7, <3>2, LenProperties
      <4>1. k \in 1..n \/ k = n + 1
        <5> HIDE DEF n
        <5> QED
          BY <4>0
      <4>2. CASE k \in 1..Len(devices)
        <5>1. devices'[k] = devices[k] /\ k \in DOMAIN devices
          BY <2>1, <2>7, <3>2, <4>2, LenProperties
        <5> QED
          BY <1>0, <2>9, <5>1 DEF Listing!NamesItsSender
      <4>3. CASE k = Len(devices) + 1
        BY <2>6, <2>7, <2>9, <3>2, <4>3
      <4> QED
        BY <4>1, <4>2, <4>3
    <3> QED
      BY <3>1, <3>2
  <2>10. Len(devices') <= Len(devices) + 1 /\ Len(devices') \in Nat
    BY <1>0, <2>1, <2>7
  <2> QED
    BY <1>0, <2>3, <2>8, <2>9, <2>10 DEF ListInv, Polled, Listing!NamesItsSender
<1>5. CASE Listing!PollEnds \/ Listing!Finish
  <2>1. Listing!TypeOK' /\ Listing!NamesItsSender'
    BY <1>0, <1>5 DEF Listing!PollEnds, Listing!Finish, Listing!TypeOK,
                      Listing!NamesItsSender
  <2> QED
    BY <1>0, <1>5, <2>1 DEF Listing!PollEnds, Listing!Finish, ListInv, Polled
<1> QED
  BY <1>1, <1>2, <1>3, <1>4, <1>5 DEF Listing!Next, Listing!List
-----------------------------------------------------------------------------
(* Arithmetic *)

\* Division with remainder is unique.
LEMMA Division ==
  ASSUME NEW n \in Nat \ {0}, NEW q \in Int, NEW r \in 0..(n - 1)
  PROVE  (n * q + r) % n = r /\ (n * q + r) \div n = q
<1> DEFINE m == n * q + r
           p == m \div n
           t == m % n
<1>1. m \in Int /\ n * q \in Int
  OBVIOUS
<1>2. p \in Int /\ t \in 0..(n - 1) /\ m = n * p + t
  BY <1>1
<1>3. n * (q - p) = t - r
  BY <1>1, <1>2
<1> HIDE DEF p, t
<1>4. p = q
  <2>1. CASE q - p >= 1
    <3>1. n * (q - p) >= n
      BY <1>2, <2>1
    <3> QED
      BY <1>2, <1>3, <3>1
  <2>2. CASE q - p <= -1
    <3>1. n * (q - p) <= -n
      BY <1>2, <2>2
    <3> QED
      BY <1>2, <1>3, <3>1
  <2> QED
    BY <1>2, <2>1, <2>2
<1>5. t = r
  BY <1>2, <1>4, <1>1
<1> QED
  BY <1>4, <1>5 DEF p, t
\* A number that is no remainder away from another is a multiple.
LEMMA Multiple ==
  ASSUME NEW n \in Nat \ {0}, NEW m \in Nat
  PROVE  /\ m \div n \in Nat /\ m % n \in 0..(n - 1)
         /\ m = n * (m \div n) + (m % n)
<1>1. m \div n \in Int /\ m % n \in 0..(n - 1) /\ m = n * (m \div n) + (m % n)
  OBVIOUS
<1>2. m \div n >= 0
  <2>1. CASE m \div n <= -1
    <3>1. n * (m \div n) <= -n
      BY <1>1, <2>1
    <3> QED
      BY <1>1, <3>1
  <2> QED
    BY <1>1, <2>1
<1> QED
  BY <1>1, <1>2

\* A register and a segment are not empty, and a segment is some registers.
LEMMA FileConstants ==
  /\ Word \in Nat \ {0} /\ Chunk \in Nat \ {0}
  /\ Chunk \div Word \in Nat /\ Chunk = Word * (Chunk \div Word)
  /\ Reads \subseteq Nat \ {0} /\ Strays \subseteq Nat \ {0} /\ MaxOthers \in Nat
<1>1. Word \in Nat \ {0} /\ Chunk \in Nat \ {0} /\ Chunk % Word = 0
  BY BringUpAssumption DEF Download!DownloadAssumption
<1>2. Reads \subseteq Nat \ {0} /\ Strays \subseteq Nat \ {0} /\ MaxOthers \in Nat
  BY BringUpAssumption DEF Download!DownloadAssumption
<1>3. Chunk \div Word \in Nat /\ Chunk = Word * (Chunk \div Word)
  <2>1. Chunk = Word * (Chunk \div Word) + (Chunk % Word)
    BY <1>1, Multiple
  <2>2. Chunk \div Word \in Nat
    BY <1>1, Multiple
  <2> QED
    BY <1>1, <2>1, <2>2
<1> QED
  BY <1>1, <1>2, <1>3

\* The alignment of a number is the least multiple of a register's size that
\* is not below it.
LEMMA Aligned ==
  ASSUME NEW n \in Nat
  PROVE  /\ Download!Align(n) \in Nat /\ n <= Download!Align(n)
         /\ \E m \in Nat : Download!Align(n) = Word * m
         /\ \A m \in Int : n <= Word * m => Download!Align(n) <= Word * m
<1> DEFINE q == n \div Word
           t == n % Word
           up == IF t = 0 THEN q ELSE q + 1
<1>1. q \in Nat /\ t \in 0..(Word - 1) /\ n = Word * q + t /\ Word \in Nat \ {0}
  BY FileConstants, Multiple
<1>2. Download!Align(n) = IF t = 0 THEN n ELSE n + (Word - t)
  BY DEF Download!Align
<1> HIDE DEF q, t
<1>3. Word * (q + 1) = Word * q + Word
  BY <1>1
<1>4. up \in Nat /\ Download!Align(n) = Word * up /\ n <= Download!Align(n)
      /\ Download!Align(n) \in Nat
  BY <1>1, <1>2, <1>3
<1>5. ASSUME NEW m \in Int, n <= Word * m
      PROVE  Download!Align(n) <= Word * m
  <2>1. up <= m
    <3>1. CASE m <= q
      <4>1. Word * m <= Word * q
        BY <1>1, <3>1
      <4>2. t = 0 /\ Word * m = Word * q
        BY <1>1, <1>5, <4>1
      <4>3. Word * (q - m) = 0
        BY <1>1, <4>2
      <4>4. q - m = 0
        BY <1>1, <3>1, <4>3
      <4> QED
        BY <1>1, <4>2, <4>4
    <3>2. CASE m >= q + 1
      BY <1>1, <3>2
    <3> QED
      BY <1>1, <3>1, <3>2
  <2>2. Word * up <= Word * m
    BY <1>1, <1>4, <2>1
  <2> QED
    BY <1>4, <2>2
<1> QED
  BY <1>4, <1>5

\* What is left of a file after whole segments: the last one fits in the buffer,
\* and ends where the file does but for its alignment.
LEMMA LastFits ==
  ASSUME NEW size \in Nat, NEW d \in Nat, d = Chunk * (d \div Chunk),
         d = 0 \/ d < size, size <= d + Chunk
  PROVE  LET last == Download!Align(size % Chunk)
         IN  /\ last \in 0..Chunk
             /\ last # 0 => d + last <= Download!Align(size)
             /\ size % Chunk # 0 => size <= d + last
<1> DEFINE r == size % Chunk
           last == Download!Align(r)
           q == d \div Chunk
           c == Chunk \div Word
<1>1. /\ Chunk \in Nat \ {0} /\ Word \in Nat \ {0}
      /\ c \in Nat /\ Chunk = Word * c
  BY FileConstants
<1>2. q \in Nat /\ d = Chunk * q /\ r \in 0..(Chunk - 1)
  BY <1>1, Multiple
<1>3. ASSUME NEW k \in Int, NEW x \in 0..(Chunk - 1), size = Chunk * k + x
      PROVE  r = x
  BY <1>1, <1>3, Division
<1> HIDE DEF r, q, c
<1>4. r \in Nat
  BY <1>1, <1>2
<1>5. /\ last \in Nat /\ r <= last
      /\ \A m \in Int : r <= Word * m => last <= Word * m
  BY <1>4, Aligned
<1>6. last <= Chunk
  <2>1. c \in Int /\ r <= Word * c
    BY <1>1, <1>2
  <2>2. last <= Word * c
    BY <1>5, <2>1
  <2> QED
    BY <1>1, <2>2
<1>7. CASE r = 0
  <2>1. Word * 0 = 0
    BY <1>1
  <2>2. last <= 0
    BY <1>5, <1>7, <2>1
  <2> QED
    BY <1>1, <1>5, <1>7, <2>2 DEF r
<1>8. CASE r # 0
  <2>1. size = d + r
    <3>1. CASE size - d = Chunk
      <4>1. size = Chunk * (q + 1) + 0 /\ q + 1 \in Int /\ 0 \in 0..(Chunk - 1)
        BY <1>1, <1>2, <3>1
      <4> QED
        BY <1>3, <1>8, <4>1
    <3>2. CASE size - d \in 0..(Chunk - 1)
      <4>1. size = Chunk * q + (size - d) /\ q \in Int
        BY <1>1, <1>2
      <4>2. r = size - d
        BY <1>3, <3>2, <4>1
      <4> QED
        BY <1>1, <1>2, <4>2
    <3> QED
      BY <1>1, <3>1, <3>2
  <2>2. PICK m \in Nat : Download!Align(size) = Word * m
    BY Aligned
  <2>3. size <= Word * m
    BY <2>2, Aligned
  <2> DEFINE e == c * q
  <2>4. e \in Nat /\ d = Word * e
    <3>1. Chunk * q = Word * (c * q) /\ c * q \in Nat
      BY <1>1, <1>2
    <3> QED
      BY <1>2, <3>1
  <2> HIDE DEF e
  <2>5. Word * (m - e) = Word * m - d /\ m - e \in Int
    BY <1>1, <2>2, <2>4
  <2>6. last <= Word * (m - e)
    <3>1. Word * m \in Int /\ r <= Word * m - d
      BY <1>1, <1>4, <2>1, <2>2, <2>3
    <3> QED
      BY <1>5, <2>5, <3>1
  <2>7. d + last <= Word * m
    <3>1. Word * m \in Int /\ last <= Word * m - d
      BY <1>1, <2>2, <2>5, <2>6
    <3> QED
      BY <1>5, <3>1
  <2>8. last \in 0..Chunk /\ size <= d + last
    BY <1>1, <1>4, <1>5, <1>6, <2>1
  <2> QED
    BY <2>2, <2>7, <2>8 DEF r
<1> QED
  BY <1>7, <1>8
-----------------------------------------------------------------------------
(* The file *)

\* The bytes of the file that have been copied are the camera's.
CopiedSo(n) ==
  \A i \in DOMAIN file : i < n => file[i] = Download!Memory(url.address + i)

Held(n) == \A i \in 0..(n - 1) : buffer[i] = Download!Memory(address + i)

LoopInv ==
  /\ address = url.address + dest
  /\ dest = Chunk * (dest \div Chunk)
  /\ dest = 0 \/ dest < url.size
  /\ written = dest
  /\ pc = "copy" => dest + Chunk < url.size
  /\ pc = "lastCopy" => url.size <= dest + Chunk
  /\ ~disturbed =>
       /\ url = camera
       /\ CopiedSo(dest)
       /\ pc = "copy" => Held(Chunk)
       /\ pc = "lastCopy" => Held(Download!LastSize)

FileInv ==
  /\ Download!TypeOK
  /\ Download!InBounds
  /\ pc \in {"idle", "url", "parse"} => written = 0
  /\ pc \in {"chunk", "copy", "lastCopy"} => LoopInv
  /\ pc = "unpack" /\ ~disturbed /\ url.size % Chunk # 0 => Download!Whole

\* The numbers of a URL, and the bytes of a camera's memory.
LEMMA Fields ==
  ASSUME Download!TypeOK
  PROVE  /\ url.address \in Nat /\ url.size \in Nat
         /\ camera.size \in Nat
         /\ \A u \in Urls : u.address \in Nat /\ u.size \in Nat
         /\ \A a \in Int : Download!Memory(a) \in Download!Bytes
<1> DEFINE Good(u) == u.address \in Nat /\ u.size \in Nat
<1>1. \A u \in Urls : Good(u)
  BY BringUpAssumption DEF Download!DownloadAssumption
<1>2. Good(Download!NoUrl)
  BY DEF Download!NoUrl
<1>3. Good(url) /\ Good(camera)
  BY <1>1, <1>2 DEF Download!TypeOK
<1>4. \A a \in Int : Download!Memory(a) \in Download!Bytes
  BY DEF Download!Memory, Download!Content, Download!Zero, Download!Bytes,
         Download!TypeOK
<1> QED
  BY <1>1, <1>3, <1>4

\* A byte of no camera.
LEMMA Nowhere ==
  Download!Zero \in Download!Bytes /\ Download!Foreign \in Download!Bytes
BY DEF Download!Zero, Download!Foreign, Download!Bytes

\* What the steps that touch neither the file nor what goes into it keep.
LEMMA FileKept ==
  ASSUME FileInv, pc' \in {"idle", "url", "parse", "done", "threw", "crashed"},
         pc' \in {"idle", "url", "parse"} => pc \in {"idle", "url", "parse"},
         configured' \in BOOLEAN, device' \in Cameras \cup {Nobody},
         camera' \in Urls \cup {Download!NoUrl},
         others' \in 0..MaxOthers, disturbed' \in BOOLEAN,
         result' \in {"none", "empty", "text", "cut", "overrun"},
         UNCHANGED <<url, address, dest, file, written, buffer>>
  PROVE  FileInv'
<1>1. Download!TypeOK'
  BY DEF FileInv, Download!TypeOK
<1>2. Download!InBounds'
  BY DEF FileInv, Download!InBounds, Download!Align
<1> QED
  BY <1>1, <1>2 DEF FileInv

LEMMA FileBegin ==
  ASSUME FileInv, NEW c \in Cameras, NEW u \in Urls, NEW session \in BOOLEAN,
         Download!Begin(c, u, session)
  PROVE  FileInv'
<1>1. /\ pc' = "url" /\ pc = "idle"
      /\ configured' \in BOOLEAN /\ device' \in Cameras \cup {Nobody}
      /\ camera' \in Urls \cup {Download!NoUrl}
      /\ UNCHANGED <<url, address, dest, file, written, buffer, others, disturbed, result>>
  BY DEF Download!Begin, Download!Goto
<1>2. others \in 0..MaxOthers /\ disturbed \in BOOLEAN
      /\ result \in {"none", "empty", "text", "cut", "overrun"}
  BY DEF FileInv, Download!TypeOK
<1> QED
  BY <1>1, <1>2, FileKept

LEMMA FileUrl ==
  ASSUME FileInv, Download!ReadUrl
  PROVE  FileInv'
<1>1. /\ pc' \in {"parse", "threw"} /\ pc = "url"
      /\ UNCHANGED <<configured, device, camera, url, address, dest, file, written, buffer,
                     others, disturbed, result>>
  BY DEF Download!ReadUrl, Download!Goto
<1>2. /\ configured \in BOOLEAN /\ device \in Cameras \cup {Nobody}
      /\ camera \in Urls \cup {Download!NoUrl}
      /\ others \in 0..MaxOthers /\ disturbed \in BOOLEAN
      /\ result \in {"none", "empty", "text", "cut", "overrun"}
  BY DEF FileInv, Download!TypeOK
<1> QED
  BY <1>1, <1>2, FileKept

LEMMA FileUnpack ==
  ASSUME FileInv, Download!Unpack
  PROVE  FileInv'
<1>1. /\ pc' \in {"done", "threw", "crashed"}
      /\ result' \in {result, "text", "empty", "cut", "overrun"}
      /\ UNCHANGED <<configured, device, camera, url, address, dest, file, written, buffer,
                     others, disturbed>>
  BY DEF Download!Unpack, Download!UnpackText, Download!UnpackArchive, Download!TextOf,
         Download!Goto, Download!Return
<1>2. /\ configured \in BOOLEAN /\ device \in Cameras \cup {Nobody}
      /\ camera \in Urls \cup {Download!NoUrl}
      /\ others \in 0..MaxOthers /\ disturbed \in BOOLEAN
      /\ result \in {"none", "empty", "text", "cut", "overrun"}
  BY DEF FileInv, Download!TypeOK
<1> QED
  BY <1>1, <1>2, FileKept

LEMMA FileParse ==
  ASSUME FileInv, Download!Parse
  PROVE  FileInv'
<1>1. /\ pc = "parse" /\ written = 0 /\ Download!TypeOK
      /\ UNCHANGED <<configured, device, camera, written, buffer, others, disturbed>>
  BY DEF Download!Parse, FileInv
<1>2. /\ url' \in Urls \cup {Download!NoUrl}
      /\ ~disturbed => url' = camera
  BY <1>1 DEF Download!Parse, Download!TypeOK
<1>3. url'.address \in Nat /\ url'.size \in Nat
  BY <1>1, <1>2, Fields DEF Download!NoUrl
<1>4. Download!InBounds'
  <2>1. Download!Align(url'.size) \in Nat
    BY <1>3, Aligned
  <2> QED
    BY <1>1, <2>1 DEF Download!InBounds, Download!Align
<1>5. CASE /\ pc' \in {"done", "threw"} /\ result' \in {result, "empty"}
           /\ UNCHANGED <<address, dest, file>>
  <2>1. Download!TypeOK'
    BY <1>1, <1>2, <1>5 DEF Download!TypeOK
  <2> QED
    BY <1>4, <1>5, <2>1 DEF FileInv
<1>6. CASE /\ pc' = "chunk" /\ address' = url'.address /\ dest' = 0
           /\ file' = [i \in 0..(url'.size - 1) |-> Download!Zero]
           /\ UNCHANGED result
  <2>1. Download!TypeOK'
    BY <1>1, <1>2, <1>3, <1>6, Nowhere DEF Download!TypeOK
  <2>2. 0 = Chunk * (0 \div Chunk)
    BY FileConstants
  <2>3. CopiedSo(0)'
    BY <1>6 DEF CopiedSo
  <2>4. LoopInv'
    <3>1. dest' = Chunk * (dest' \div Chunk)
      BY <1>6, <2>2
    <3>2. CopiedSo(dest)'
      BY <1>6 DEF CopiedSo
    <3> QED
      BY <1>1, <1>2, <1>3, <1>6, <3>1, <3>2 DEF LoopInv
  <2> QED
    BY <1>4, <1>6, <2>1, <2>4 DEF FileInv
<1> QED
  BY <1>5, <1>6 DEF Download!Parse, Download!Goto, Download!Return

\* What a READMEM of count bytes leaves in the buffer.
LEMMA AnsweredIs ==
  ASSUME Download!TypeOK, NEW from \in Int, NEW count \in 0..Chunk,
         Download!Answered(from, count)
  PROVE  /\ buffer' \in [0..(Chunk - 1) -> Download!Bytes]
         /\ \A i \in 0..(count - 1) : buffer'[i] = Download!Memory(from + i)
<1>1. Chunk \in Nat /\ buffer \in [0..(Chunk - 1) -> Download!Bytes]
  BY FileConstants DEF Download!TypeOK
<1>2. buffer' = [i \in 0..(Chunk - 1) |-> IF i < count THEN Download!Memory(from + i)
                                         ELSE buffer[i]]
  BY <1>1 DEF Download!Answered
<1> DEFINE M(a) == Download!Memory(a)
<1>3. \A a \in Int : M(a) \in Download!Bytes
  BY Fields
<1> HIDE DEF M
<1>4. \A i \in 0..(Chunk - 1) : M(from + i) \in Download!Bytes /\ buffer[i] \in Download!Bytes
  BY <1>1, <1>3
<1>5. buffer' \in [0..(Chunk - 1) -> Download!Bytes]
  BY <1>2, <1>4 DEF M
<1>6. \A i \in 0..(count - 1) : i \in 0..(Chunk - 1) /\ i < count
  BY <1>1
<1> QED
  BY <1>2, <1>5, <1>6

LEMMA FileReadChunk ==
  ASSUME FileInv, Download!ReadChunk
  PROVE  FileInv'
<1>1. /\ Download!TypeOK /\ Download!InBounds /\ LoopInv /\ pc = "chunk"
      /\ address + Chunk < url.address + url.size
      /\ UNCHANGED <<configured, device, camera, url, address, dest, file, written, others,
                     disturbed, result>>
  BY DEF Download!ReadChunk, FileInv, Download!Inside, Download!End
<1>2. Download!InBounds'
  BY <1>1 DEF Download!InBounds, Download!Align
<1>3. CASE pc' = "crashed" /\ UNCHANGED buffer
  <2>1. Download!TypeOK'
    BY <1>1, <1>3 DEF Download!TypeOK
  <2> QED
    BY <1>2, <1>3, <2>1 DEF FileInv
<1>4. CASE pc' = "copy" /\ Download!Answered(address, Chunk)
  <2>1. /\ buffer' \in [0..(Chunk - 1) -> Download!Bytes]
        /\ \A i \in 0..(Chunk - 1) : buffer'[i] = Download!Memory(address + i)
    <3>1. Chunk \in 0..Chunk /\ address \in Int
      BY <1>1, FileConstants DEF Download!TypeOK
    <3> QED
      BY <1>1, <1>4, <3>1, AnsweredIs
  <2>2. Download!TypeOK'
    BY <1>1, <1>4, <2>1 DEF Download!TypeOK
  <2>3. Held(Chunk)'
    BY <1>1, <2>1 DEF Held, Download!Memory, Download!Content
  <2>4. dest + Chunk < url.size
    <3>1. /\ Chunk \in Nat /\ dest \in Nat /\ url.address \in Nat /\ url.size \in Nat
          /\ address = url.address + dest
      BY <1>1, FileConstants, Fields DEF LoopInv, Download!TypeOK
    <3> QED
      BY <1>1, <3>1
  <2>5. ~disturbed => CopiedSo(dest)'
    BY <1>1 DEF LoopInv, CopiedSo, Download!Memory, Download!Content
  <2>6. LoopInv'
    BY <1>1, <1>4, <2>3, <2>4, <2>5 DEF LoopInv
  <2> QED
    BY <1>2, <1>4, <2>2, <2>6 DEF FileInv
<1> QED
  BY <1>3, <1>4 DEF Download!ReadChunk, Download!Goto

\* What a copy of count bytes leaves in the file.
LEMMA CopiedIs ==
  ASSUME Download!TypeOK, LoopInv, NEW count \in 0..Chunk, Download!Copied(count),
         pc \in {"chunk", "copy", "lastCopy"}, UNCHANGED <<camera, url>>
  PROVE  /\ DOMAIN file' = DOMAIN file
         /\ \A i \in DOMAIN file' : file'[i] \in Download!Bytes
         /\ written' = dest + count /\ written' \in Nat
         /\ CopiedSo(dest) /\ Held(count) =>
              \A i \in DOMAIN file' : i < dest + count =>
                file'[i] = Download!Memory(url.address + i)
<1>1. /\ Chunk \in Nat /\ buffer \in [0..(Chunk - 1) -> Download!Bytes]
      /\ address \in Nat /\ dest \in Nat /\ url.address \in Nat
      /\ address = url.address + dest /\ written = dest
      /\ \A i \in DOMAIN file : i \in Nat /\ file[i] \in Download!Bytes
  <2>1. Chunk \in Nat /\ url.address \in Nat /\ url.size \in Nat
    BY FileConstants, Fields
  <2>2. DOMAIN file = 0..(url.size - 1)
    BY DEF Download!TypeOK
  <2> QED
    BY <2>1, <2>2 DEF Download!TypeOK, LoopInv
<1>2. file' = [i \in DOMAIN file |-> IF dest <= i /\ i < dest + count
                                     THEN buffer[i - dest] ELSE file[i]]
  BY DEF Download!Copied
<1>3. written' = dest + count /\ written' \in Nat
  BY <1>1 DEF Download!Copied
<1>4. \A i \in DOMAIN file :
        /\ dest <= i /\ i < dest + count =>
             i - dest \in 0..(count - 1) /\ i - dest \in 0..(Chunk - 1)
        /\ address + (i - dest) = url.address + i
  <2> SUFFICES ASSUME NEW i \in DOMAIN file
               PROVE  /\ dest <= i /\ i < dest + count =>
                           i - dest \in 0..(count - 1) /\ i - dest \in 0..(Chunk - 1)
                      /\ address + (i - dest) = url.address + i
    OBVIOUS
  <2>1. /\ i \in Nat /\ Chunk \in Nat /\ dest \in Nat /\ url.address \in Nat
        /\ address = url.address + dest
    BY <1>1
  <2>2. dest <= i /\ i < dest + count =>
          i - dest \in 0..(count - 1) /\ i - dest \in 0..(Chunk - 1)
    BY <2>1
  <2>3. address + (i - dest) = url.address + i
    BY <2>1
  <2> QED
    BY <2>2, <2>3
<1>5. \A i \in DOMAIN file' : file'[i] \in Download!Bytes
  BY <1>1, <1>2, <1>4
<1>6. ASSUME CopiedSo(dest), Held(count), NEW i \in DOMAIN file', i < dest + count
      PROVE  file'[i] = Download!Memory(url.address + i)
  <2>1. i \in DOMAIN file /\ i \in Nat
    BY <1>1, <1>2
  <2>2. CASE dest <= i
    <3>1. file'[i] = buffer[i - dest]
      BY <1>2, <1>6, <2>1, <2>2
    <3>2. buffer[i - dest] = Download!Memory(address + (i - dest))
      BY <1>4, <1>6, <2>1, <2>2 DEF Held
    <3> QED
      BY <1>4, <2>1, <3>1, <3>2
  <2>3. CASE i < dest
    <3>1. file'[i] = file[i]
      BY <1>1, <1>2, <2>1, <2>3
    <3> QED
      BY <1>6, <2>1, <2>3, <3>1 DEF CopiedSo
  <2> QED
    BY <1>1, <2>1, <2>2, <2>3
<1> QED
  BY <1>2, <1>3, <1>5, <1>6

LEMMA FileCopyChunk ==
  ASSUME FileInv, Download!CopyChunk
  PROVE  FileInv'
<1>1. /\ Download!TypeOK /\ LoopInv /\ pc = "copy" /\ Download!Copied(Chunk)
      /\ address' = address + Chunk /\ dest' = dest + Chunk /\ pc' = "chunk"
      /\ UNCHANGED <<configured, device, camera, url, buffer, others, disturbed, result>>
  BY DEF Download!CopyChunk, Download!Goto, FileInv
<1>2. /\ Chunk \in Nat \ {0} /\ address \in Nat /\ dest \in Nat
      /\ url.size \in Nat /\ url.address \in Nat
      /\ address = url.address + dest /\ dest + Chunk < url.size
      /\ dest = Chunk * (dest \div Chunk)
  BY <1>1, FileConstants, Fields DEF Download!TypeOK, LoopInv
<1>3. Chunk \in 0..Chunk
  BY <1>2
<1>4. /\ DOMAIN file' = DOMAIN file
      /\ \A i \in DOMAIN file' : file'[i] \in Download!Bytes
      /\ written' = dest + Chunk /\ written' \in Nat
      /\ CopiedSo(dest) /\ Held(Chunk) =>
           \A i \in DOMAIN file' : i < dest + Chunk =>
             file'[i] = Download!Memory(url.address + i)
  BY <1>1, <1>3, CopiedIs
<1>5. Download!TypeOK'
  <2>1. address' \in Nat /\ dest' \in Nat
    BY <1>1, <1>2
  <2>2. DOMAIN file' = 0..(url'.size - 1)
    BY <1>1, <1>4 DEF Download!TypeOK
  <2> QED
    BY <1>1, <1>4, <2>1, <2>2 DEF Download!TypeOK
<1>6. Download!InBounds'
  <2>1. url.size <= Download!Align(url.size) /\ Download!Align(url.size) \in Nat
    BY <1>2, Aligned
  <2>2. written' <= Download!Align(url.size)
    BY <1>2, <1>4, <2>1
  <2> QED
    BY <1>1, <2>2 DEF Download!InBounds, Download!Align
<1>7. dest' = Chunk * (dest' \div Chunk)
  <2> DEFINE q == dest \div Chunk
  <2>1. q \in Nat
    BY <1>2, Multiple
  <2>2. dest' = Chunk * (q + 1) + 0
    <3> HIDE DEF q
    <3>1. dest = Chunk * q
      BY <1>2 DEF q
    <3> QED
      BY <1>1, <1>2, <2>1, <3>1
  <2>3. q + 1 \in Int /\ 0 \in 0..(Chunk - 1)
    BY <1>2, <2>1
  <2> DEFINE m == q + 1
  <2>4. m \in Int /\ dest' = Chunk * m + 0
    BY <2>2, <2>3
  <2> HIDE DEF q, m
  <2>5. dest' \div Chunk = m
    BY <1>2, <2>3, <2>4, Division
  <2>6. Chunk * m \in Int
    BY <1>2, <2>4
  <2> QED
    BY <2>4, <2>5, <2>6
<1>8. ~disturbed => url = camera /\ CopiedSo(dest)'
  BY <1>1, <1>4 DEF LoopInv, CopiedSo, Download!Memory, Download!Content
<1>9. LoopInv'
  <2>1. /\ address' = url'.address + dest' /\ written' = dest'
        /\ dest' < url'.size
    BY <1>1, <1>2, <1>4
  <2> QED
    BY <1>1, <1>7, <1>8, <2>1 DEF LoopInv
<1> QED
  BY <1>1, <1>5, <1>6, <1>9 DEF FileInv

LEMMA FileReadLast ==
  ASSUME FileInv, Download!ReadLast
  PROVE  FileInv'
<1> DEFINE last == Download!LastSize
<1>1. /\ Download!TypeOK /\ Download!InBounds /\ LoopInv /\ pc = "chunk"
      /\ ~(address + Chunk < url.address + url.size)
      /\ UNCHANGED <<configured, device, camera, url, address, dest, file, written, others,
                     disturbed, result>>
  BY DEF Download!ReadLast, FileInv, Download!Inside, Download!End
<1>2. Download!InBounds'
  BY <1>1 DEF Download!InBounds, Download!Align
<1>3. /\ url.size \in Nat /\ dest \in Nat /\ dest = Chunk * (dest \div Chunk)
      /\ dest = 0 \/ dest < url.size
      /\ url.size <= dest + Chunk
  <2>1. /\ Chunk \in Nat /\ dest \in Nat /\ url.address \in Nat /\ url.size \in Nat
        /\ address = url.address + dest
    BY <1>1, FileConstants, Fields DEF LoopInv, Download!TypeOK
  <2>2. url.size <= dest + Chunk
    BY <1>1, <2>1
  <2> QED
    BY <1>1, <2>1, <2>2 DEF LoopInv
<1>4. last \in 0..Chunk
  BY <1>3, LastFits DEF Download!LastSize
<1>5. /\ last' = last
      /\ ~disturbed => CopiedSo(dest)'
  BY <1>1 DEF Download!LastSize, Download!Align, LoopInv, CopiedSo, Download!Memory, Download!Content
<1> HIDE DEF last
<1>6. CASE UNCHANGED buffer /\ pc' = IF last = 0 THEN "lastCopy" ELSE "crashed"
  <2>1. Download!TypeOK'
    BY <1>1, <1>6 DEF Download!TypeOK
  <2>2. pc' = "lastCopy" => LoopInv'
    <3>1. last = 0 => Held(last)'
      <4>1. ~\E i \in 0..(0 - 1) : TRUE
        OBVIOUS
      <4> QED
        BY <1>5, <4>1 DEF Held
    <3> QED
      BY <1>1, <1>3, <1>5, <1>6, <3>1 DEF LoopInv, last
  <2> QED
    BY <1>2, <1>6, <2>1, <2>2 DEF FileInv
<1>7. CASE pc' = "lastCopy" /\ Download!Answered(address, last)
  <2>1. /\ buffer' \in [0..(Chunk - 1) -> Download!Bytes]
        /\ \A i \in 0..(last - 1) : buffer'[i] = Download!Memory(address + i)
    <3>1. address \in Int
      BY <1>1 DEF Download!TypeOK
    <3> QED
      BY <1>1, <1>4, <1>7, <3>1, AnsweredIs
  <2>2. Download!TypeOK'
    BY <1>1, <1>7, <2>1 DEF Download!TypeOK
  <2>3. Held(last)'
    BY <1>1, <1>5, <2>1 DEF Held, Download!Memory, Download!Content
  <2>4. LoopInv'
    BY <1>1, <1>3, <1>5, <1>7, <2>3 DEF LoopInv, last
  <2> QED
    BY <1>2, <1>7, <2>2, <2>4 DEF FileInv
<1> QED
  BY <1>6, <1>7 DEF Download!ReadLast, Download!Goto, last

LEMMA FileCopyLast ==
  ASSUME FileInv, Download!CopyLast
  PROVE  FileInv'
<1> DEFINE last == Download!LastSize
<1>1. /\ Download!TypeOK /\ Download!InBounds /\ LoopInv /\ pc = "lastCopy"
      /\ Download!Copied(last) /\ pc' = "unpack"
      /\ UNCHANGED <<configured, device, camera, url, address, dest, buffer, others,
                     disturbed, result>>
  BY DEF Download!CopyLast, Download!Goto, FileInv
<1>2. /\ url.size \in Nat /\ dest \in Nat /\ dest = Chunk * (dest \div Chunk)
      /\ dest = 0 \/ dest < url.size
      /\ url.size <= dest + Chunk
  BY <1>1, Fields DEF LoopInv, Download!TypeOK
<1>3. /\ last \in 0..Chunk
      /\ last # 0 => dest + last <= Download!Align(url.size)
      /\ url.size % Chunk # 0 => url.size <= dest + last
  BY <1>2, LastFits DEF Download!LastSize
<1> HIDE DEF last
<1>4. /\ DOMAIN file' = DOMAIN file
      /\ \A i \in DOMAIN file' : file'[i] \in Download!Bytes
      /\ written' = dest + last /\ written' \in Nat
      /\ CopiedSo(dest) /\ Held(last) =>
           \A i \in DOMAIN file' : i < dest + last =>
             file'[i] = Download!Memory(url.address + i)
  BY <1>1, <1>3, CopiedIs
<1>5. Download!TypeOK'
  BY <1>1, <1>4 DEF Download!TypeOK
<1>6. Download!InBounds'
  <2>1. written' <= Download!Align(url.size)
    <3>1. CASE last = 0
      BY <1>1, <3>1 DEF Download!InBounds, Download!Copied
    <3>2. CASE last # 0
      BY <1>3, <1>4, <3>2
    <3> QED
      BY <3>1, <3>2
  <2> QED
    BY <1>1, <2>1 DEF Download!InBounds, Download!Align
<1>7. ASSUME ~disturbed', url'.size % Chunk # 0
      PROVE  Download!Whole'
  <2>1. url = camera /\ CopiedSo(dest) /\ Held(last)
    BY <1>1, <1>7 DEF LoopInv, last
  <2>2. DOMAIN file' = 0..(camera.size - 1)
    BY <1>1, <1>4, <2>1 DEF Download!TypeOK
  <2>3. file' = [i \in 0..(camera.size - 1) |-> file'[i]]
    <3>1. file' = [i \in DOMAIN file' |-> file'[i]]
      BY <1>1 DEF Download!Copied
    <3> QED
      BY <2>2, <3>1
  <2>4. ASSUME NEW i \in 0..(camera.size - 1)
        PROVE  file'[i] = Download!Memory(camera.address + i)
    <3>1. i \in DOMAIN file' /\ i \in 0..(url.size - 1)
      BY <2>1, <2>2, <2>4
    <3>2. Chunk \in Nat
      BY FileConstants
    <3>3. i < dest + last
      BY <1>1, <1>2, <1>3, <1>7, <3>1, <3>2
    <3> QED
      BY <1>4, <2>1, <3>1, <3>3
  <2>5. file' = [i \in 0..(camera.size - 1) |-> Download!Content(device, camera.address + i)]
    BY <2>3, <2>4 DEF Download!Memory
  <2> QED
    BY <1>1, <2>5 DEF Download!Whole, Download!Describes, Download!Content
<1> QED
  BY <1>1, <1>5, <1>6, <1>7 DEF FileInv

\* A datagram received by another call disturbs nothing but the buffer, and that
\* only as far as the history says.
LEMMA FileReceived ==
  ASSUME FileInv, Download!Received, buffer' \in [0..(Chunk - 1) -> Download!Bytes],
         disturbed' \in BOOLEAN, ~disturbed' => ~disturbed,
         ~disturbed' =>
           /\ pc = "copy" /\ Held(Chunk) => Held(Chunk)'
           /\ pc = "lastCopy" /\ Held(Download!LastSize) => Held(Download!LastSize)'
  PROVE  FileInv'
<1>1. /\ Download!TypeOK /\ Download!InBounds /\ others < MaxOthers
      /\ pc \in {"parse", "copy", "lastCopy"} /\ others' = others + 1
      /\ UNCHANGED <<pc, configured, device, camera, url, address, dest, file,
                     written, result>>
  BY DEF Download!Received, FileInv
<1>2. MaxOthers \in Nat
  BY FileConstants
<1>3. Download!TypeOK'
  BY <1>1, <1>2 DEF Download!TypeOK
<1>4. Download!InBounds'
  BY <1>1 DEF Download!InBounds, Download!Align
<1>5. CASE pc = "parse"
  BY <1>1, <1>3, <1>4, <1>5 DEF FileInv
<1>6. CASE pc \in {"copy", "lastCopy"}
  <2>1. LoopInv
    BY <1>6 DEF FileInv
  <2>2. CopiedSo(dest) => CopiedSo(dest)'
    BY <1>1 DEF CopiedSo, Download!Memory, Download!Content
  <2>3. ~disturbed' =>
          /\ url = camera /\ CopiedSo(dest)'
          /\ pc = "copy" => Held(Chunk)'
          /\ pc = "lastCopy" => Held(Download!LastSize)'
    BY <2>1, <2>2 DEF LoopInv
  <2>4. LoopInv'
    BY <1>1, <2>1, <2>3 DEF LoopInv
  <2> QED
    BY <1>1, <1>3, <1>4, <1>6, <2>4 DEF FileInv
<1> QED
  BY <1>1, <1>5, <1>6

LEMMA HeldKept ==
  ASSUME UNCHANGED <<buffer, device, camera, url, address>>, NEW n \in Int
  PROVE  Held(n) => Held(n)'
BY DEF Held, Download!Memory, Download!Content

\* Bytes of another answer are bytes.
LEMMA OverlaidIs ==
  ASSUME Download!TypeOK, NEW n \in Int, Download!Overlaid(n)
  PROVE  /\ buffer' \in [0..(Chunk - 1) -> Download!Bytes]
         /\ n = 0 => buffer' = buffer
<1>1. buffer' = [i \in 0..(Chunk - 1) |->
                   IF i < n THEN Download!Foreign ELSE buffer[i]]
  BY DEF Download!Overlaid, Download!TypeOK
<1>2. buffer \in [0..(Chunk - 1) -> Download!Bytes]
  BY DEF Download!TypeOK
<1>3. n = 0 => buffer' = buffer
  <2>1. \A i \in 0..(Chunk - 1) : ~(i < 0)
    OBVIOUS
  <2> QED
    BY <1>1, <1>2, <2>1
<1> QED
  BY <1>1, <1>2, <1>3, Nowhere

LEMMA FileReceiveRegisters ==
  ASSUME FileInv, NEW k \in Reads, Download!ReceiveRegisters(k)
  PROVE  FileInv'
<1>1. /\ Download!TypeOK /\ Download!Received
      /\ Download!Overlaid(Download!Covered(k)) /\ disturbed' = (disturbed \/ k > 1)
      /\ UNCHANGED <<device, camera, url, address>>
  BY DEF Download!ReceiveRegisters, Download!Received, FileInv
<1>2. k \in Nat \ {0} /\ Word \in Nat /\ Chunk \in Nat
  BY FileConstants
<1>3. Download!Covered(k) \in Int /\ (k = 1 => Download!Covered(k) = 0)
  BY <1>2 DEF Download!Covered
<1>4. disturbed' \in BOOLEAN /\ (~disturbed' => ~disturbed /\ k = 1)
  <2>1. disturbed \in BOOLEAN
    BY <1>1 DEF Download!TypeOK
  <2>2. disturbed' \in BOOLEAN /\ (~disturbed' => ~disturbed /\ ~(k > 1))
    BY <1>1, <2>1, Zenon
  <2> QED
    BY <1>2, <2>2
<1>5. /\ buffer' \in [0..(Chunk - 1) -> Download!Bytes]
      /\ k = 1 => buffer' = buffer
  BY <1>1, <1>3, OverlaidIs
<1>6. ~disturbed' => /\ Held(Chunk) => Held(Chunk)'
                     /\ Held(Download!LastSize) => Held(Download!LastSize)'
  <2> SUFFICES ASSUME ~disturbed'
               PROVE  /\ Held(Chunk) => Held(Chunk)'
                      /\ Held(Download!LastSize) => Held(Download!LastSize)'
    OBVIOUS
  <2>1. UNCHANGED buffer
    BY <1>4, <1>5
  <2> QED
    BY <1>1, <2>1 DEF Held, Download!Memory, Download!Content, Download!LastSize,
                      Download!Align
<1> QED
  BY <1>1, <1>4, <1>5, <1>6, FileReceived

LEMMA FileReceiveStray ==
  ASSUME FileInv, NEW n \in Strays, Download!ReceiveStray(n)
  PROVE  FileInv'
<1>1. /\ Download!TypeOK /\ Download!Received /\ Download!Overlaid(n)
      /\ disturbed' = TRUE
  BY DEF Download!ReceiveStray, FileInv
<1>2. n \in Int
  BY FileConstants
<1>3. buffer' \in [0..(Chunk - 1) -> Download!Bytes]
  BY <1>1, <1>2, OverlaidIs
<1> QED
  BY <1>1, <1>3, FileReceived

LEMMA FileReceiveSegment ==
  ASSUME FileInv, NEW j \in 0..(dest \div Chunk), Download!ReceiveSegment(j)
  PROVE  FileInv'
<1> DEFINE last == Download!LastSize
           count == IF j = 0 /\ pc = "lastCopy" THEN last ELSE Chunk
           from == address - Chunk * j
<1>1. /\ Download!TypeOK /\ Download!Received /\ LoopInv
      /\ pc \in {"copy", "lastCopy"}
      /\ Download!Answered(from, count) /\ disturbed' = (disturbed \/ j # 0)
      /\ UNCHANGED <<device, camera, url, address>>
  BY DEF Download!ReceiveSegment, Download!Received, FileInv
<1>2. /\ Chunk \in Nat /\ address \in Int /\ j \in Int
      /\ url.size \in Nat /\ dest \in Nat
  BY <1>1, FileConstants, Fields DEF Download!TypeOK
<1>3. pc = "lastCopy" => last \in 0..Chunk
  BY <1>1, <1>2, LastFits DEF LoopInv, Download!LastSize
<1>4. disturbed' \in BOOLEAN /\ (~disturbed' => ~disturbed /\ j = 0)
  <2>1. disturbed \in BOOLEAN
    BY <1>1 DEF Download!TypeOK
  <2> QED
    BY <1>1, <2>1, Zenon
<1>5. from \in Int /\ (j = 0 => from = address)
  BY <1>2
<1>6. count \in 0..Chunk /\ (pc = "copy" => count = Chunk)
      /\ (pc = "lastCopy" /\ j = 0 => count = last)
  BY <1>2, <1>3
<1>7. last' = last
  BY <1>1 DEF Download!LastSize, Download!Align
<1> HIDE DEF last, count, from
<1>8. /\ buffer' \in [0..(Chunk - 1) -> Download!Bytes]
      /\ \A i \in 0..(count - 1) : buffer'[i] = Download!Memory(from + i)
  BY <1>1, <1>5, <1>6, AnsweredIs
<1>9. j = 0 => Held(count)'
  <2> SUFFICES ASSUME j = 0 PROVE Held(count)'
    OBVIOUS
  <2>1. count' = count
    BY <1>1, <1>7 DEF count, Download!Received
  <2>2. \A i \in 0..(count - 1) : buffer'[i] = Download!Memory(address + i)
    BY <1>5, <1>8
  <2> QED
    BY <1>1, <2>1, <2>2 DEF Held, Download!Memory, Download!Content
<1>10. ~disturbed' => /\ pc = "copy" => Held(Chunk)'
                      /\ pc = "lastCopy" => Held(last)'
  <2> SUFFICES ASSUME ~disturbed'
               PROVE  /\ pc = "copy" => Held(Chunk)'
                      /\ pc = "lastCopy" => Held(last)'
    OBVIOUS
  <2>1. j = 0
    BY <1>4
  <2>2. count' = count /\ last' = last
    BY <1>1, <1>7 DEF count, Download!Received
  <2> QED
    BY <1>6, <1>9, <2>1, <2>2
<1> QED
  BY <1>1, <1>4, <1>8, <1>10, FileReceived DEF last

LEMMA FileReceive ==
  ASSUME FileInv, Download!Receive
  PROVE  FileInv'
BY FileReceiveRegisters, FileReceiveSegment, FileReceiveStray DEF Download!Receive

LEMMA FileNext ==
  ASSUME FileInv,
         \/ \E c \in Cameras, u \in Urls, session \in BOOLEAN :
              Download!Begin(c, u, session)
         \/ Download!XmlFile
         \/ Download!Receive
  PROVE  FileInv'
<1>1. CASE \E c \in Cameras, u \in Urls, session \in BOOLEAN :
             Download!Begin(c, u, session)
  BY <1>1, FileBegin
<1>2. CASE Download!XmlFile
  BY <1>2, FileUrl, FileParse, FileReadChunk, FileCopyChunk, FileReadLast,
     FileCopyLast, FileUnpack DEF Download!XmlFile
<1>3. CASE Download!Receive
  BY <1>3, FileReceive
<1> QED
  BY <1>1, <1>2, <1>3

LEMMA FileStutters ==
  ASSUME FileInv, UNCHANGED fileVars
  PROVE  FileInv'
<1>1. /\ Download!TypeOK' /\ Download!InBounds'
      /\ Download!Whole => Download!Whole'
      /\ LoopInv => LoopInv'
  BY DEF FileInv, fileVars, Download!TypeOK, Download!InBounds, Download!Align,
         Download!Whole, Download!Describes, Download!Memory, Download!Content, LoopInv, CopiedSo, Held, Download!LastSize
<1> QED
  BY <1>1 DEF FileInv, fileVars

\* A client without a session, and the static buffer.
Fresh ==
  /\ pc = "idle" /\ configured = FALSE
  /\ device = Nobody /\ camera = Download!NoUrl
  /\ url = Download!NoUrl /\ address = 0 /\ dest = 0
  /\ file = [i \in {} |-> Download!Zero] /\ written = 0
  /\ buffer \in [0..(Chunk - 1) -> Download!Bytes]
  /\ others = 0 /\ disturbed = FALSE /\ result = "none"

LEMMA FileFresh == Fresh => FileInv
<1> SUFFICES ASSUME Fresh PROVE FileInv
  OBVIOUS
<1>1. url.size = 0
  BY DEF Fresh, Download!NoUrl
<1>2. Download!Align(url.size) \in Nat
  BY <1>1, Aligned
<1>3. configured \in BOOLEAN /\ disturbed \in BOOLEAN /\ others \in 0..MaxOthers
  <2>1. configured \in BOOLEAN /\ disturbed \in BOOLEAN
    BY Zenon DEF Fresh
  <2> QED
    BY <2>1, FileConstants DEF Fresh
<1>4. \A i \in DOMAIN file : file[i] \in Download!Bytes
  BY DEF Fresh
<1>5. Download!TypeOK
  <2>1. /\ device \in Cameras \cup {Nobody}
        /\ camera \in Urls \cup {Download!NoUrl} /\ url \in Urls \cup {Download!NoUrl}
    BY DEF Fresh
  <2>2. address \in Nat /\ dest \in Nat /\ written \in Nat
    BY DEF Fresh
  <2>3. pc = "idle" /\ buffer \in [0..(Chunk - 1) -> Download!Bytes] /\ result = "none"
    BY DEF Fresh
  <2> QED
    BY <1>3, <1>4, <2>1, <2>2, <2>3 DEF Download!TypeOK
<1>6. Download!InBounds
  BY <1>2 DEF Download!InBounds, Fresh
<1> QED
  BY <1>5, <1>6 DEF FileInv, Fresh

LEMMA FileFreshNext == (Fresh => FileInv)'
BY FileFresh, PTL
-----------------------------------------------------------------------------
(* The program *)

\* The loop stands at a device of the list, has a fresh client when it takes
\* control of it, and asks that device.
ProgramInv ==
  /\ program \in {"list", "control", "xmlFile", "release", "over"}
  /\ program = "list" => current = 1
  /\ program \in {"control", "xmlFile", "release"} => current \in 1..Len(devices)
  /\ program = "over" => current \in 1..(Len(devices) + 1)
  /\ program \in {"list", "control"} => pc = "idle"
  /\ program = "xmlFile" => device = devices[current].address

BringUpInv == ListInv /\ FileInv /\ ProgramInv

LEMMA BringUpInit == Init => BringUpInv
<1> SUFFICES ASSUME Init PROVE BringUpInv
  OBVIOUS
<1>1. ListInv
  BY ListInit DEF Init
<1>2. FileInv
  <2>1. Fresh
    BY Nowhere, FileConstants DEF Init, Download!Init, Fresh
  <2> QED
    BY <2>1, FileFresh
<1>3. ProgramInv
  BY DEF Init, Download!Init, ProgramInv
<1> QED
  BY <1>1, <1>2, <1>3 DEF BringUpInv

LEMMA ListStutters ==
  ASSUME ListInv, UNCHANGED listVars
  PROVE  ListInv'
BY DEF ListInv, listVars, Polled, Listing!TypeOK, Listing!NamesItsSender

LEMMA BringUpNext == BringUpInv /\ [Program]_vars => BringUpInv'
<1> SUFFICES ASSUME ListInv, FileInv, ProgramInv, [Program]_vars
             PROVE  ListInv' /\ FileInv' /\ ProgramInv'
  BY DEF BringUpInv
<1>0. Len(devices) \in Nat
  BY DEF ListInv, Listing!TypeOK
<1>1. CASE ListDevices
  <2>1. program = "list" /\ Listing!Next /\ UNCHANGED <<fileVars, program, current>>
    BY <1>1 DEF ListDevices
  <2> QED
    BY <2>1, ListNext, FileStutters DEF ProgramInv, fileVars
<1>2. CASE Listed
  <2>1. /\ program = "list" /\ UNCHANGED <<listVars, fileVars, current>>
        /\ program' \in {"control", "over"}
        /\ program' = "control" => devices # <<>>
    BY <1>2 DEF Listed
  <2>2. devices # <<>> => 1 \in 1..Len(devices)
    BY <1>0 DEF ListInv, Listing!TypeOK
  <2> QED
    BY <1>0, <2>1, <2>2, ListStutters, FileStutters DEF ProgramInv, fileVars, listVars
<1>3. CASE Control
  <2>1. /\ program = "control" /\ UNCHANGED <<listVars, current>>
        /\ \/ /\ program' = "xmlFile"
              /\ \E u \in Urls, session \in BOOLEAN :
                   Download!Begin(devices[current].address, u, session)
           \/ program' = "over" /\ UNCHANGED fileVars
    BY <1>3 DEF Control
  <2>2. devices[current].address \in Cameras
    <3>1. devices \in Seq(Found) /\ current \in 1..Len(devices)
      BY <2>1 DEF ProgramInv, ListInv, Listing!TypeOK, Found
    <3>2. devices[current] \in Found
      BY <3>1, ElementOfSeq
    <3> QED
      BY <3>2 DEF Found
  <2>3. FileInv'
    BY <2>1, <2>2, FileNext, FileStutters
  <2>4. program' = "xmlFile" => device' = devices[current].address
    BY <2>1 DEF Download!Begin
  <2> QED
    BY <1>0, <2>1, <2>3, <2>4, ListStutters DEF ProgramInv, listVars
<1>4. CASE XmlFile
  <2>1. /\ program = "xmlFile" /\ UNCHANGED <<listVars, program, current>>
        /\ Download!XmlFile \/ Download!Receive
    BY <1>4 DEF XmlFile
  <2>2. device' = device
    BY <2>1 DEF Download!XmlFile, Download!ReadUrl, Download!Parse, Download!ReadChunk,
                Download!CopyChunk, Download!ReadLast, Download!CopyLast,
                Download!Unpack, Download!Receive, Download!ReceiveRegisters,
                Download!ReceiveSegment, Download!ReceiveStray, Download!Received
  <2> QED
    BY <2>1, <2>2, ListStutters, FileNext DEF ProgramInv, listVars
<1>5. CASE Returned
  <2>1. /\ program = "xmlFile" /\ UNCHANGED <<listVars, fileVars, current>>
        /\ program' \in {"release", "over"}
    BY <1>5 DEF Returned
  <2> QED
    BY <1>0, <2>1, ListStutters, FileStutters DEF ProgramInv, listVars
<1>6. CASE Release
  <2>1. /\ program = "release" /\ UNCHANGED listVars
        /\ program' = IF current < Len(devices) THEN "control" ELSE "over"
        /\ current' = current + 1 /\ pc' = "idle"
    BY <1>6 DEF Release
  <2>2. buffer' \in [0..(Chunk - 1) -> Download!Bytes]
    BY <1>6 DEF Release, FileInv, Download!TypeOK
  <2>3. FileInv'
    <3>1. Fresh'
      BY <1>6, <2>2 DEF Release, Fresh
    <3> QED
      BY <3>1, FileFreshNext
  <2>4. ProgramInv'
    BY <1>0, <2>1 DEF ProgramInv, listVars
  <2> QED
    BY <2>1, <2>3, <2>4, ListStutters
<1>7. CASE UNCHANGED vars
  BY <1>7, ListStutters, FileStutters DEF vars, ProgramInv, listVars, fileVars
<1> QED
  BY <1>1, <1>2, <1>3, <1>4, <1>5, <1>6, <1>7 DEF Program

THEOREM Invariance == Spec => []BringUpInv
BY BringUpInit, BringUpNext, PTL DEF Spec

\* Every variable keeps its type: the list has at most one device per interface,
\* and the loop over it does not run past its end.
THEOREM TypeCorrect == Spec => []TypeOK
<1>1. BringUpInv => TypeOK
  <2> SUFFICES ASSUME BringUpInv PROVE TypeOK
    OBVIOUS
  <2>1. IsFiniteSet(todo)
    BY ListConstants, FS_Subset DEF BringUpInv, ListInv, Listing!TypeOK
  <2>2. Cardinality(todo) \in Nat /\ Cardinality(Interfaces) \in Nat
    BY <2>1, ListConstants, FS_CardinalityType
  <2>3. Len(devices) \in Nat /\ Len(devices) <= Cardinality(Interfaces)
    BY <2>2 DEF BringUpInv, ListInv, Listing!TypeOK, Polled
  <2>4. current \in 1..(Cardinality(Interfaces) + 1)
    BY <2>2, <2>3 DEF BringUpInv, ProgramInv
  <2> QED
    BY <2>4 DEF BringUpInv, ListInv, FileInv, ProgramInv, TypeOK
<1> QED
  BY <1>1, Invariance, PTL

\* What is unpacked is the description of the camera the list named for the address
\* it was asked of, for every size of the file that is not a whole number of segments
\* and whatever late or repeated answers and strays the other calls received, unless
\* one of them lay over a segment that was not its own.
THEOREM Described == Spec => []DescribesListed
<1>1. BringUpInv => DescribesListed
  <2> SUFFICES ASSUME BringUpInv, program = "xmlFile", pc = "unpack",
                      devices[current].type = "discovery",
                      ~disturbed, url.size % Chunk # 0
               PROVE  Download!Describes(devices[current].data)
    BY DEF DescribesListed
  <2>1. Download!Describes(device)
    BY DEF BringUpInv, FileInv, Download!Whole
  <2>2. /\ Len(devices) \in Nat /\ current \in DOMAIN devices
        /\ device = devices[current].address
    BY DEF BringUpInv, ListInv, Listing!TypeOK, ProgramInv
  <2>3. devices[current].data = devices[current].address
    BY <2>2 DEF BringUpInv, ListInv, Listing!NamesItsSender
  <2> QED
    BY <2>1, <2>2, <2>3
<1> QED
  BY <1>1, Invariance, PTL

\* No copy goes past the file but for the alignment of its last segment.
THEOREM Copies == Spec => []InBounds
<1>1. BringUpInv => InBounds
  BY DEF BringUpInv, FileInv, InBounds
<1> QED
  BY <1>1, Invariance, PTL
=============================================================================
