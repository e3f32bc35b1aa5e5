\* A letter, a function key, a joystick button, caps lock, the modifiers and a gamepad that shares
\* their bits: reports of up to two keys, an array of two.
CONSTANTS
  Letters = {j}
  ToggleKey = j
  FunctionKeys = {f1}
  Arrows = {}
  Buttons = {enter}
  CapsKeys = {caps}
  Shifts = {lshift}
  Controls = {lcontrol}
  LShift = lshift
  LControl = lcontrol
  Pads = {p1}
  ReportSize = 2
  MaxPressedKeys = 2
SPECIFICATION MCSpec
INVARIANTS
  NoStuckKey
  NoLostKey
  ModifiersFollow
  NoGhostMove
