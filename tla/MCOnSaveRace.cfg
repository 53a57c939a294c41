SPECIFICATION MCSpec
CONSTANTS
  Switch = {externals}
  Mode = {dark}
  NoMode = NoMode
  NoFile = NoFile
  NoRun = NoRun
  NoStream = NoStream
  Stream = {s1, s2}
  Page = {p}
  Slot = {k1, k2}
  TableOf <- MCTableOf
  EditorSends = {"on-save"}
  PageClicks = {"on-save"}
  MaxCommands = 2
  MaxEdits = 0
  MaxExecs = 2
SYMMETRY MCSymmetry
INVARIANTS
  OpenPagesShowOnSave
CHECK_DEADLOCK FALSE
