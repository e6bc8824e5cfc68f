CONSTANTS
  f = f
  g = g
  h = h
  Interfaces = {i}
  Addresses = {x, y}
  Flows = {f, g, h}
  TupleOf <- Tuples
  ZoneOf <- Zones
  BatchLimit = 2
  QueueLimit = 1
  MaxChanges = 1
  MaxFailures = 2
SPECIFICATION Spec
INVARIANTS TypeOK SocketClean
PROPERTIES FlushedAll SparesOthers FlushRecovers
CHECK_DEADLOCK FALSE
