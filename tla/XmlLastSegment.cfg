SPECIFICATION Spec
CONSTANTS
  c1 = c1
  c2 = c2
  eth0 = eth0
  eth1 = eth1
  lo = lo
  Interfaces <- MCInterfaces
  Cameras <- MCCameras
  Reach <- MCReach
  Ethernet <- MCEthernet
  Answers <- MCAnswers
  Garbage = Garbage
  Nobody = Nobody
  Urls <- MCUrls
  Chunk = 4
  Word = 2
  Reads = {1, 3}
  Strays = {1, 4}
  MaxOthers = 2
INVARIANT LastSegmentRead
CHECK_DEADLOCK FALSE
