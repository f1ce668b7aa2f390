SPECIFICATION Spec
CONSTANTS
  K = 2
  Frames = {f1, f2}
  Files = {1}
  MaxPages = 3
  Versions = {0, 1}
  Handles = {h1, h2}
  MaxTime = 5
  NoPage = NoPage
  NoFrame = NoFrame
SYMMETRY Symmetry
INVARIANTS
  PoolConsistent
  HandlesReadTheirPage
  PinnedHandlesShareBytes
  NoFrameLost
PROPERTIES
  FlushIsDurable
  ImplementsPageStore
