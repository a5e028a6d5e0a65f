SPECIFICATION Spec
SYMMETRY Symmetry
CONSTANTS
  Image = {i1}
  Background = {}
  Info = {s1}
  Workload <- CachedErrorWorkload
PROPERTIES
  CachedAnswerReturned
