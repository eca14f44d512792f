\* Two threads, one queue place and three slots, three jobs: the queue fills,
\* slots are reused, and deadlines fall on both sides of the run.  No
\* symmetry, since the run checks leads-to properties.
SPECIFICATION FairSpec
CONSTANTS
  Jobs = {j1, j2, j3}
  Workers = {w1, w2}
  QueueCapacity = 1
  SlotCount = 3
  Timeout = 1
  MaxTime = 1
  NoJob = NoJob
INVARIANT CountsAgree
INVARIANT CancelledNeverHanded
PROPERTY QueuedJobLeaves
PROPERTY StopDrains
