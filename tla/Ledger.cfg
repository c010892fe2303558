SPECIFICATION Spec
CONSTANTS
  None = None
  stream = stream
  json = json
  plain = plain
  refused = refused
  denied = denied
  mute = mute
  Requests = {stream, json, plain, refused, denied, mute}
  Kind <- MCKind
  Dialect <- MCDialect
  Streaming <- MCStreaming
  Body <- MCBody
  Columns <- MCColumns
  Subjects = {s1}
  Policy = Policy
  SSE_LINE_MAX = 2
  MAX_ATTEMPTS = 3
  MaxBackoff = 4
  POLICY_FRESH = 1
  RING_CAPACITY = 2
  BATCH_SIZE = 2
  RETAINED_BATCHES = 1
  OPS_CAPACITY = 2
  DUE_LIMIT = 2
  PAGE = 1
  Limits = {0, 2, 3}
  Scenarios <- MCScenarios
  MaxEvents = 6
  LastWindow = 1
INVARIANTS RecordsExact ToldExactly
PROPERTIES PromiseKept EverythingArrives
CHECK_DEADLOCK FALSE
