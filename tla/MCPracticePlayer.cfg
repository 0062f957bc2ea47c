SPECIFICATION FairSpec
CONSTANTS
  self = self
  left = left
  other = other
  Clients <- MCClients
  Page = self
  Left = left
  Weeks <- MCWeeks
  MaxFaults = 1
INVARIANTS TypeOK NothingTwice NothingLost AnswerHolds StaleByOthers
PROPERTIES OnlyRaces ShownSettles
