SPECIFICATION FairSpec
CONSTANTS
  laptop = laptop
  desktop = desktop
  agent = agent
  team = team
  other = other
  Device = {laptop}
  Session = {agent, team}
  Home <- LaptopHomes
  Entity = {e1}
  Field = {content, status}
  MaxEdits = 2
  MaxLosses = 1
  MaxForeign = 1
INVARIANTS
  LocalEditKept
  CursorSound
PROPERTIES
  Converges
CHECK_DEADLOCK FALSE
