\* Where the daemon comes to rest once its surroundings do.
CONSTANTS
  r1 = r1
  r2 = r2
  Routers = {r1, r2}
  NoRoute = NoRoute
  Worlds <- RestWorlds
  Spoilt <- Nothing
SPECIFICATION FairSpec
PROPERTIES Settles WorkingWhenOnline TroubleWhenCutOff XwCatchesUp
