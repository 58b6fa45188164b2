SPECIFICATION Spec
CONSTANTS
  Clients = {c1}
  Blocks = 2
  NoteAt = 2
  NoteSets = {{"old"}, {"new"}}
  Streams <- mcStreams
  Faults = {"latest", "tree", "blocks", "witness", "taddr", "fulltx"}
  MaxSyncs = 2
  MaxBatches = 2
CHECK_DEADLOCK FALSE
INVARIANTS
  TaddrInOrder
  IndexInRange
PROPERTIES
  DoneIsWhole
  OnlyLeftoversBlock
