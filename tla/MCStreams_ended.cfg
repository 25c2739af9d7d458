SPECIFICATION FairSpec
CONSTANTS
  Parts = {"answers"}
  Consumer = {c1, c2, c3}
  Leavers = {c3}
  MaxEvents = 4
  o1 = o1
  o2 = o2
  o3 = o3
  target = target
  alias = alias
  NoOp = NoOp
  MaxBlocks = 3
  MaxPieces = 3
  MaxWire = 0
  Answers = {"cut"}
  s1 = s1
  s2 = s2
  s3 = s3
  Connections = {"fail", "close"}
PROPERTIES
  AnswerSettles
CHECK_DEADLOCK FALSE
