SPECIFICATION Spec
SYMMETRY Symmetry
CONSTANTS
  Image = {i1, i2}
  Background = {}
  Info = {s1}
  Workload <- LostReleaseWorkload
PROPERTIES
  BackpressureReleased
