\* Safety of the state machine: every fact about the camera moves at any time.
CONSTANTS
  r1 = r1
  r2 = r2
  Routers = {r1, r2}
  NoRoute = NoRoute
  Worlds <- CameraWorld
  Spoilt <- LostParts
SPECIFICATION Spec
INVARIANTS TypeOK DispatchInRange DecisionJustified ProvisioningRules
PROPERTIES Story
