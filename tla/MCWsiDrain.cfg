CONSTANTS
  Apps = {a1}
  Builders = {}
  Owners = {o1}
  Chains = {c1}
  MaxPresents = 1
  MaxChanges = 1
  MayStop = FALSE
  Latency = 1
  Nobody = nobody
SPECIFICATION FairSpec
PROPERTIES
  QuiescenceEnds
CHECK_DEADLOCK FALSE
