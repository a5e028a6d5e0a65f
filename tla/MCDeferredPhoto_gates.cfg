SPECIFICATION Spec
SYMMETRY Symmetry
CONSTANTS
  Image = {i1, i2}
  Background = {}
  Info = {s1, s2}
  Workload <- GatesWorkload
INVARIANTS
  CacheGate
PROPERTIES
  GateRespected
  ImplementsLifecycle
