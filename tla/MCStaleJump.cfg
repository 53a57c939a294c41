SPECIFICATION MCSpec
CONSTANTS
  Switch = {externals}
  Mode = {dark}
  NoMode = NoMode
  NoFile = NoFile
  NoRun = NoRun
  NoStream = NoStream
  Stream = {s1, s2}
  Page = {p}
  Slot = {k1}
  TableOf <- MCTableOf
  EditorSends = {"switch"}
  PageClicks = {"jump"}
  MaxCommands = 2
  MaxEdits = 0
  MaxExecs = 2
SYMMETRY MCSymmetry
PROPERTIES
  JumpOpensMeantLocation
CHECK_DEADLOCK FALSE
