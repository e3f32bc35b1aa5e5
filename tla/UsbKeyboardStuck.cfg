\* One typed key is enough.
CONSTANTS
  Letters = {j}
  ToggleKey = j
  FunctionKeys = {}
  Arrows = {up}
  Buttons = {}
  CapsKeys = {}
  Shifts = {lshift}
  Controls = {lcontrol}
  LShift = lshift
  LControl = lcontrol
  Pads = {}
  ReportSize = 2
  MaxPressedKeys = 3
SPECIFICATION Spec
INVARIANTS
  NoKeyNoMatrix
