SPECIFICATION NetFairSpec
CONSTANTS
  NumServer = 2
  NumBackend = 2
  Key = {1, 2, 3}
  Hash <- ThreeHash
  NumBucket = 1
  NumSlot = 2
  MaxQueue = 2
  MaxLog = 4
  Client = {"c1", "c2"}
  KeyOf <- SharedKeys
  NumPut = 2
  NumGet = 2
  NumScan = 1
  ScanRange = 3
  NumBatch = 1
  Mss = 320
INVARIANTS NetTypeOK InStep ReadYourPuts
PROPERTIES ClientsEnd OnlyGetsHang
CHECK_DEADLOCK FALSE
