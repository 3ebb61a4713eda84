SPECIFICATION FairSpec
CONSTANTS
  Pids = {p1, p2, p3}
  Worlds <- AllWorlds
INVARIANTS
  PidfileNamesServer
  RecoversAnother
  SnapshotWhole
PROPERTIES
  OrphanReplaced
\* Without reused pids the last spawned sidecar is the last event; and a program
\* that keeps the port for itself may outlive every sidecar.
CHECK_DEADLOCK FALSE
