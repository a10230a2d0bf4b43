SPECIFICATION FairSpec
CONSTANTS
  Radix = 6
  Me = 1
  Peer = {2, 3}
  Groups = {0}
  Scripts <- MCScripts
  Cut = 12
  MaxQueue = 2
  MaxFaults = 1
  Prompt = FALSE
PROPERTIES AcceptedArrives
CHECK_DEADLOCK FALSE
