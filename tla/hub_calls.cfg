SPECIFICATION Spec
CONSTANTS
  pad = pad
  kbd = kbd
  Nodes = {pad, kbd}
  Capabilities <- NodeCapabilities
  Excluded = {}
  BufferSize = 9
  MaxWatches = 2
  Box = FALSE
  MaxPlugs = 1
  MaxBursts = 1
  BurstSizes = {1}
  MaxRequests = 1
INVARIANT HubStory
PROPERTY HubServes
