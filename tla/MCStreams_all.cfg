SPECIFICATION FairSpec
CONSTANTS
  Parts = {"stream", "edits", "writes", "answers", "requests", "sockets"}
  Consumer = {c1, c2, c3}
  Leavers = {c3}
  MaxEvents = 4
  o1 = o1
  o2 = o2
  o3 = o3
  target = target
  alias = alias
  NoOp = NoOp
  MaxBlocks = 3
  MaxPieces = 2
  MaxWire = 0
  Answers = {"limit", "cut"}
  s1 = s1
  s2 = s2
  s3 = s3
  Connections = {"fail", "close"}
INVARIANTS
  DeliveredOnceInOrder
  FileExclusion
  NoLostEdit
  AnswersArriveWhole
  RetriesAreBounded
  SocketsServeOneStream
PROPERTIES
  ImplementsFifoLock
  StreamsEnd
CHECK_DEADLOCK FALSE
