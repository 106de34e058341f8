SPECIFICATION Spec
CONSTANTS
  Letters = {"a"}
  Capitals = {"A"}
  Alts = {"altL"}
  MaxSessions = 2
PROPERTY SessionsAlike
CHECK_DEADLOCK FALSE
