\* Two challenges, of one order or of two, and two validator connections.
CONSTANTS
  Conns = {c1, c2}
  Challenges = {h1, h2}
  Tokens = {h1, h2}
  Token <- OwnToken
  Nothing = Nothing
  Dummy = Dummy
  Free = Free
  MaxBacklog = 2
SPECIFICATION FairSpec
INVARIANTS ArmedIsServed NothingAfterTeardown
PROPERTIES ContractImplemented SolversProceed AcceptLoopEnds
\* The server has been dropped and every connection closed.
CHECK_DEADLOCK FALSE
