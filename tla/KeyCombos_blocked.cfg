SPECIFICATION ComboSpec
CONSTANTS
  OtherKeys = {k1}
INVARIANTS
  BlockedIsHeld
