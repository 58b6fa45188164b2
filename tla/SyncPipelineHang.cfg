SPECIFICATION Spec
CONSTANTS
  Clients = {c1}
  Blocks = 2
  NoteAt = 2
  NoteSets = {{"old"}, {"new"}}
  Streams <- mcStreams
  Faults = {"blocks"}
  MaxSyncs = 2
  MaxBatches = 2
CHECK_DEADLOCK FALSE
PROPERTY
  SyncsEnd
