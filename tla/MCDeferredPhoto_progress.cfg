SPECIFICATION FairSpec
CONSTANTS
  Image = {i1, i2, b}
  Background = {b}
  Info = {s1}
  Workload <- ProgressWorkload
PROPERTIES
  RunEnds
