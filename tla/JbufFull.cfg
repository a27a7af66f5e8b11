\* A stream of eight packets whose sequence numbers pass 0, a buffer of three; the
\* clock stays below its end.
SPECIFICATION Spec
CONSTANTS
  MaxSz = 3
  Half = 8
  TimeMod = 64
  MinLat = 0
  MaxLat = 1
  Ssrc = 2
  FirstK = 13
  FirstTime = 14
  Window = 2
  LastK = 20
  LastTime = 18
INVARIANTS
  PoolConserved
  Sorted
  OneSource
  PlayedInOrder
