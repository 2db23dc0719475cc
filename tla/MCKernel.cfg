SPECIFICATION FairSpec
CONSTANTS
  t1 = t1
  t2 = t2
  Devices <- MCDevices
  Buckets <- MCLimited
  Callers <- MCTasks
  Capacity = 1
  Declared <- MCDeclared
  DeviceKind <- MCKind
  HasTransport <- MCHasTransport
  ConnectOnStart <- MCConnectOnStart
  ReadOnly <- MCReadOnly
  Reads <- MCReads
  Commands <- MCCommands
  NoDevice = NoDevice
  Enabled <- MCEnabled
INVARIANTS
  KernelTypeOK
  
  
PROPERTIES
  Paced
  DependantsFirst
  
CHECK_DEADLOCK FALSE
