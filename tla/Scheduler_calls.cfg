\* Four events through the queue, a limited source and a limited type.
SPECIFICATION FairSpec
CONSTANTS
  c1 = c1
  c2 = c2
  c3 = c3
  c4 = c4
  queue = queue
  running = running
  source = source
  type = type
  NoLimit = NoLimit
  Calls = {c1, c2, c3, c4}
  Limiters = {queue, running, source, type}
  Capacity <- MCCapacity
  Path <- MCPath
PROPERTY CallsReturn
