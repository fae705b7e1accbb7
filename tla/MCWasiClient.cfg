\* Bodies shorter than, as long as and longer than the host's room; a usize of
\* one bit, so that a permit of two is zero to the client and one of three is
\* one; an error code of each layout, in areas that hold zeros or ones.
CONSTANTS
  Capacity = 3
  MaxReply = 2
  MaxBody = 4
  Word = 2
  Codes = {0, 1, 14, 17, 21, 22, 24, 31}
  Strings <- SomeStrings
  Counts = {5}
  Garbage <- SomeGarbage
  Absent = Absent
  NoCode = NoCode
SPECIFICATION FairSpec
INVARIANTS WholeReply ErrorTold
PROPERTIES ChildrenGoFirst WithinPermit ContractImplemented ExchangeEnds
\* A host that keeps a body it has no room for never lets the call go on.
CHECK_DEADLOCK FALSE
