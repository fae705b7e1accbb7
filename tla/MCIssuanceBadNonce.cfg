\* A refused nonce.
CONSTANTS
  http = http
  dns = dns
  tls = tls
  Kinds <- AllKinds
  Solvers <- SomeSolvers
  NoKind = NoKind
  MaxAuthzs = 1
  ChallengeTimeout = 2
  FinalizeTimeout = 2
  Interval = 2
  MaxLatency = 1
  MaxArming = 1
SPECIFICATION Spec
INVARIANTS BadNonceRetried
\* The call returns: there is nothing to do after that.
CHECK_DEADLOCK FALSE
