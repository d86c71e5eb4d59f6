SPECIFICATION FairSpec
CONSTANTS
  Locals = {"gw", "peer", "dead"}
  gateway = "gw"
  Fars = {"far"}
  Silent = {"dead"}
  NET_ARP_CACHE_SIZE = 2
  Count = 2
  per_try = 1
  max_ticks = 1
  Budget = 2
  MaxRing = 1
  MaxDepth = 1
  MaxPings = 2
  Pinged = {"dead", "far"}
  Callers = {"peer", "far"}
  Lost = {"reply", "echo"}

  
  
PROPERTIES
  BothReturn
