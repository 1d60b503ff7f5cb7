\* The daemon and a second process, each of which may end or die anywhere.
CONSTANTS
  Procs = {daemon, tool}
  Connected = {daemon, tool}
  N = 3
  InitRetries = 2
  NoFile = NoFile
  Nobody = Nobody
SPECIFICATION FairSpec
INVARIANTS TypeOK NothingTornKept SoloGetsColors
PROPERTIES InitReturns
