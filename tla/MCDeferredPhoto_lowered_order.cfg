SPECIFICATION Spec
SYMMETRY Symmetry
CONSTANTS
  Image = {i1, i2, i3}
  Background = {}
  Info = {s1}
  Workload <- LoweredOrderWorkload
PROPERTIES
  HighestPriorityFirst
