CHECK_DEADLOCK FALSE
CONSTANTS
  CoScripts <- Scripts
  McAgents = {"a1", "a2"}
  McThreads = 2
  McKeys = {5}
  McTypes = {2, 3, 4}
  RsConns = {c1, c2}
  RsPerBundle = 2
  RsBundles = 3
  RsDepth = 4
  StClients = {c1, c2}
  StItems = 4
  StMaxCas = 3
  StRefLimit = 2
  StNum = 9
  StWrap = 11
  StDeltas = {1}
  LiFds = 2
  LiIdle = 1
  LiClients = 1
  CoBuf = 6
  CoReqs = 1
  CoReply = 2
  CoSock = 3
  RtStart = 10
  RtSeconds = 5
  RtMaxDelta = 3
  RtOffset = 2
  RtExpiries = {0, 2, 7, 13}
  RtRestarts = 2
  RtMaxCas = 2
SPECIFICATION Spec
INVARIANTS
   ResponsesKept  StreamsInStep 

   
