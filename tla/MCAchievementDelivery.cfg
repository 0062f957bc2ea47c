SPECIFICATION FairSpec
CONSTANTS
  Keys = {k1, k2}
  Sockets = {c1, c2}
  NoSocket = NoSocket
  NoKey = NoKey
  Attempts = 1
  MaxFaults = 2
INVARIANTS TypeOK ListKnowsNews ToastOnce
PROPERTIES JoinsAgain
