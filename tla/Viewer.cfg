SPECIFICATION MCSpec
CONSTANTS
  Letters = {"a"}
  Capitals = {"A"}
  Alts = {"altL"}
  MaxSessions = 2
INVARIANTS
  ClientsAccountedFor
  HeldUnlessMissed
  InputTracked
  SoundAsChosen
CHECK_DEADLOCK FALSE
