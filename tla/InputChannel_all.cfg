SPECIFICATION Spec
CONSTANTS
  b1 = b1
  hw = hw
  x4 = x4
  x5 = x5
  Wheel = Wheel
  Data = Data
  Flags = {b1, hw, x4, x5, Wheel}
  XFlags = {x4, x5}
  KeyEvents <- MCKeyEvents
  MouseEvents <- MCMouse
  Range16 = 4
  Credits = 1
  MaxEvents = 2
INVARIANTS
  InjectedAsTyped
  DeltaConserved
  WheelConserved
  ClicksConserved
  NoLostWakeup
PROPERTY
  SendFailsOnlyWhenBehind
CHECK_DEADLOCK FALSE
