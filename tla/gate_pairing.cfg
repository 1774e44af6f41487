SPECIFICATION Spec
CONSTANTS
  Gates = {g1, g2, g3}
  MaxWaiting = 2
  MaxIdentities = 2
  MaxRestarts = 1
  g1 = g1
  g2 = g2
  g3 = g3
INVARIANTS
  PairingTypeOK
  OnlyApprovedConnect
PROPERTIES
  RejectedStaysOut
  PairingLetsIn
