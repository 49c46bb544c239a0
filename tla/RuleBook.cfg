SPECIFICATION Spec
CONSTANTS
  W4 = 2
  W6 = 4
  FirstRules <- Shipped
  Sources <- SourceLists
  Dests <- DestLists
  Ports <- PortSpecs
  Protocols <- SomeProtocols
  Marks <- SomeMarks
  SetFamily <- TwoSets
  SetMembers <- Elements
  Masks <- SomeMasks
  Connected <- ConnectedNets
  Exempt <- ExemptNets
  DeviceOf <- Devices
  WanDevices <- Wans
  Packets <- SomePackets
  MaxEdits = 4
INVARIANTS ShadowSound SimulatorAgreesWithCore
CHECK_DEADLOCK FALSE
