SPECIFICATION Spec
SYMMETRY Symmetry
CONSTANTS
  Image = {i1, i2, b}
  Background = {b}
  Info = {s1}
  Workload <- PhotosWorkload
INVARIANTS
  TypeOK
  RunningJobs
  RunningIsWatched
  NoResultLost
  QueueHoldsJobs
  NoHiddenWork
