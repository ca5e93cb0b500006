SPECIFICATION Spec
CONSTANTS
  Relays = {"A", "B"}
  Deployments = {{"A"}, {"A", "B"}}
  Rooms = {"room"}
  RoomChannel <- MCRoomChannel
  Configs <- MCConfigs
  MeshTexts <- MCMeshTexts
  RoomTexts <- MCRoomTexts
  MaxSaid <- MCMaxSaid
  MaxCopies = 4
  MaxRetries = 1
INVARIANTS NoEcho ThreadsKept OnlyPublicLeaves MapBounded NothingForgotten
CHECK_DEADLOCK FALSE
