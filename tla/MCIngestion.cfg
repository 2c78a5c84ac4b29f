\* Two overlapping cycles of a source whose last two items share a key.
SPECIFICATION FairSpec
CONSTANTS
  Cycles = {c1, c2}
  MaxItem = 3
  EventKey <- ThreadKey
  Page = 2
  Chunk = 2
  MaxFaults = 2
INVARIANTS
  NothingSkipped
  PublishedOnce
PROPERTIES
  EveryItemStored
