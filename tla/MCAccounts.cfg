SPECIFICATION FairSpec
CONSTANTS
  ann = ann
  ben = ben
  left = left
  right = right
  caller = caller
  NoUser = NoUser
  Clients = {left, right, caller}
  Tabs = {left, right}
  Users = {ann, ben}
  Ids = {1, 2}
  Names = {"Mia", "Mila"}
  Zones = {"UTC", "Toronto"}
  FirstName = "Mia"
  FirstZone = "Toronto"
  Worlds <- MCWorlds
INVARIANTS TypeOK ActsAsShown OneProfile
PROPERTIES OnlyMeant Restored
CHECK_DEADLOCK FALSE
