SPECIFICATION MCSpec
CONSTANTS
  Switch = {externals}
  Mode = {dark}
  NoMode = NoMode
  NoFile = NoFile
  NoRun = NoRun
  NoStream = NoStream
  Stream = {s1, s2}
  Page = {p}
  Slot = {k1, k2}
  TableOf <- MCTableOf
  EditorSends = {"theme", "switch", "saved", "on-save"}
  PageClicks = {"switch", "on-save"}
  MaxCommands = 2
  MaxEdits = 0
  MaxExecs = 2
SYMMETRY MCSymmetry
INVARIANTS
  ConnectedPageReloads
  PageFollowsEditorMode
  ClicksAreHeeded
  OnSaveShownUncrossed
CHECK_DEADLOCK FALSE
