SPECIFICATION Spec
CONSTANTS
  Pages = {"openlist2", "unblockneteasemusic", "timecontrol", "ddnsgo", "mwan3"}
  Edited <- MCEdited
  MaxEdits = 4
  Fw4 = TRUE
INVARIANTS ShownIsRun NeutralSave HiddenIsOff
