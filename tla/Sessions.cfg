CONSTANTS
  wg = wg
  raw = raw
  Wgs <- MCWgs
  Raws <- MCRaws
  MaxLive = 1
SPECIFICATION Spec
CHECK_DEADLOCK FALSE
INVARIANTS TypeOK SilentEnds OnlineMeansHeard ShutdownBound
PROPERTIES OnlySilentDropped BothLoopsEnd
