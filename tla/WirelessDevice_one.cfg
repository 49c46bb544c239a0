SPECIFICATION Spec
CONSTANTS
  Devices = {radio0}
  Datas = {v1, v2}
  Nets = {noifindex, disabled}
  NoNet = noifindex
  None = None
  DEFAULT_RETRY = 3
  RetryValues = {0}
  MaxEvents = 5
INVARIANTS TypeOK NoWedge StopIsHonoured DownIsDeliberate UpRunsLatestConfig MonitorBelongsToRun
PROPERTIES LinkForgottenOnlyByReconf
CHECK_DEADLOCK FALSE
