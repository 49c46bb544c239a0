SPECIFICATION FairSpec
CONSTANTS
  Devices = {radio0, radio1}
  Datas = {v1}
  Nets = {noifindex}
  NoNet = noifindex
  None = None
  DEFAULT_RETRY = 1
  RetryValues = {}
  MaxEvents = 2
INVARIANTS NoLostWakeup DoneMeansSettled
PROPERTIES Served RemovedEventually Stabilises
CHECK_DEADLOCK FALSE
