SPECIFICATION Spec
CONSTANTS
  None = None
  Keys = {k1}
  Grants = {g1}
  Terms = {0, 1}
  Nodes = {n1}
  Handlers = {h1, h2}
  Sweeps = {"expirer", "refresher"}
  MaxNow = 1
  MaxChanges = 2
  MaxAborts = 1
  MaxRestarts = 1
  MaxDrops = 1
INVARIANT SnapshotsSound
PROPERTY LastSnapshotReaches
CHECK_DEADLOCK FALSE
