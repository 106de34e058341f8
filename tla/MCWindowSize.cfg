SPECIFICATION HSpec
CONSTANTS
  Sizes = {1, 2}
  Servers = {"extended"}
  MaxEvents = 4
PROPERTY DesktopFollowsUser
CHECK_DEADLOCK FALSE
