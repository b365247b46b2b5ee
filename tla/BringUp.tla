------------------------------- MODULE BringUp -------------------------------
(***************************************************************************)
(* A program brings its cameras up the way main of test/feature_test.cpp   *)
(* does: it lists them, and for each in turn takes control, downloads the  *)
(* description and releases.  Discovery and XmlDownload say what the first *)
(* and the third of these do; what controlDevice leaves behind, whatever   *)
(* it returned, is what GvcpSession allows.                                *)
(***************************************************************************)
EXTENDS Integers, Sequences, FiniteSets

CONSTANTS
  Interfaces, Cameras, Reach, Ethernet, Answers, Garbage,
  Nobody, Urls, Chunk, Word, Reads, Strays, MaxOthers

VARIABLES
  stage, todo, iface, queue, packet, devices,
  pc, configured, device, camera, url, address, dest, file, written, buffer, others,
  disturbed, result,
  program,  \* "list", "control", "xmlFile", "release" or "over"
  current   \* the device of the loop

Listing == INSTANCE Discovery
Download == INSTANCE XmlDownload

ASSUME BringUpAssumption ==
  /\ Listing!DiscoveryAssumption /\ Download!DownloadAssumption
  /\ IsFiniteSet(Interfaces)

listVars == <<stage, todo, iface, queue, packet, devices>>
fileVars == <<pc, configured, device, camera, url, address, dest, file, written, buffer,
              others, disturbed, result>>
vars == <<listVars, fileVars, program, current>>

Init ==
  /\ Listing!Init
  /\ Download!Init
  /\ program = "list" /\ current = 1

ListDevices ==
  /\ program = "list"
  /\ Listing!Next
  /\ UNCHANGED <<fileVars, program, current>>

(* The loop over the list, which may be empty; nobody catches an exception.*)
Listed ==
  /\ program = "list"
  /\ stage \in {"listed", "threw"}
  /\ program' = IF stage = "listed" /\ devices # <<>> THEN "control" ELSE "over"
  /\ UNCHANGED <<listVars, fileVars, current>>

(* controlDevice is granted the privilege, or releases what it had, or     *)
(* throws; what it returns is not looked at.                               *)
Control ==
  /\ program = "control"
  /\ \/ /\ program' = "xmlFile"
        /\ \E u \in Urls, session \in BOOLEAN :
               Download!Begin(devices[current].address, u, session)
     \/ program' = "over" /\ UNCHANGED fileVars
  /\ UNCHANGED <<listVars, current>>

XmlFile ==
  /\ program = "xmlFile"
  /\ Download!XmlFile \/ Download!Receive
  /\ UNCHANGED <<listVars, program, current>>

(* The call has returned, or ended the program.                            *)
Returned ==
  /\ program = "xmlFile"
  /\ pc \in {"done", "threw", "crashed"}
  /\ program' = IF pc = "done" THEN "release" ELSE "over"
  /\ UNCHANGED <<listVars, fileVars, current>>

(* The client is released and destroyed, and the next device has its own;  *)
(* the static buffer stays as it is.                                       *)
Release ==
  /\ program = "release"
  /\ program' = IF current < Len(devices) THEN "control" ELSE "over"
  /\ current' = current + 1
  /\ pc' = "idle" /\ configured' = FALSE
  /\ device' = Nobody /\ camera' = Download!NoUrl
  /\ url' = Download!NoUrl /\ address' = 0 /\ dest' = 0
  /\ file' = [i \in {} |-> Download!Zero] /\ written' = 0
  /\ others' = 0 /\ disturbed' = FALSE /\ result' = "none"
  /\ UNCHANGED <<listVars, buffer>>

Program ==
  \/ ListDevices \/ Listed \/ Control \/ XmlFile \/ Returned \/ Release

Spec == Init /\ [][Program]_vars

(* The program is scheduled; the network need not do anything.             *)
FairSpec ==
  /\ Spec
  /\ WF_vars(Program)

-----------------------------------------------------------------------------
(* The variables have their types.                                         *)
TypeOK ==
  /\ Listing!TypeOK
  /\ Download!TypeOK
  /\ program \in {"list", "control", "xmlFile", "release", "over"}
  /\ current \in 1..(Cardinality(Interfaces) + 1)

(* The description that is unpacked is, byte for byte, that of the camera  *)
(* whose name the list gave for the address it was asked of, if the answer *)
(* was an acknowledgement of discovery, the file is not a whole number of  *)
(* segments, and no datagram but the answer of one register or the segment *)
(* at hand once more was received by another call while one lay uncopied.  *)
DescribesListed ==
  /\ program = "xmlFile" /\ pc = "unpack"
  /\ devices[current].type = "discovery"
  /\ ~disturbed /\ url.size % Chunk # 0
  => Download!Describes(devices[current].data)

(* No copy goes past the memory it is meant for by more than what aligns   *)
(* the last segment to a word.                                             *)
InBounds == Download!InBounds

(* The comment at gvcpclient.cpp:479, "le dernier segment": after it the   *)
(* file is whole, whatever its size.                                       *)
LastSegmentRead == pc = "unpack" /\ ~disturbed => Download!Whole

(* The program comes to an end, whatever the cameras answer.               *)
Ends == <>(program = "over")
=============================================================================
