CONSTANTS
  Readers = {output}
  Hold = 1
  Stale = 2
  NoSignalAfter = 3
  Policy = "Slate"
  RING_CAPACITY = 3
  MaxSeq = 4
  MaxAt = 2
  MaxNow = 3
SPECIFICATION Spec
INVARIANTS TypeOK RingReadable
PROPERTIES PruneKeepsPicture PictureNeverRegresses
