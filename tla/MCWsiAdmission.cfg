CONSTANTS
  Apps = {}
  Builders = {b1}
  Owners = {o1}
  Chains = {c1}
  MaxPresents = 1
  MaxChanges = 1
  MayStop = FALSE
  Latency = 1
  Nobody = nobody
SPECIFICATION FairSpec
PROPERTIES
  AdmissionResumes
CHECK_DEADLOCK FALSE
