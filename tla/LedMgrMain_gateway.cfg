\* The comment on the ping of is_camera_connected, against the code.
CONSTANTS
  r1 = r1
  r2 = r2
  Routers = {r1, r2}
  NoRoute = NoRoute
  Worlds <- RoamWorld
  Spoilt <- Nothing
SPECIFICATION FairSpec
PROPERTIES GatewayDecides
