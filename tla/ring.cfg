SPECIFICATION FairSpec
CONSTANTS
  r1 = r1
  r2 = r2
  N = 4
  Readers <- MCReaders
  Hists <- MCHists
  MaxItems = 9
INVARIANTS
  TypeOK
  CountsAgree
  ReadersFindTheirItems
  CopiesStayPinned
  NoTagLost
  TagBacklogBounded
PROPERTIES
  FifoSpec
  AllDelivered
CHECK_DEADLOCK FALSE
