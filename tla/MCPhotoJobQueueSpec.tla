------------------------ MODULE MCPhotoJobQueueSpec ------------------------
\* The photo job queue with symmetric jobs: jobs are interchangeable, because
\* the comparison reads ranks only.
EXTENDS PhotoJobQueueSpec, TLC

Symmetry == Permutations(Job)
=============================================================================
