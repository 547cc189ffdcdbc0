SPECIFICATION ComboSpec
CONSTANTS
  OtherKeys = {k1}
INVARIANTS
  ComboNeverMissed
  NoStaleBits
