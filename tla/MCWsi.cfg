CONSTANTS
  Apps = {a1}
  Builders = {b1}
  Owners = {o1, b1}
  Chains = {c1, c2}
  MaxPresents = 2
  MaxChanges = 2
  MayStop = TRUE
  Latency = 1
  Nobody = nobody
SPECIFICATION Spec
INVARIANTS
  QuiescenceProtects
  RegistryCoherent
  GateSleepersWoken
CHECK_DEADLOCK FALSE
