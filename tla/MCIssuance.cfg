\* Orders of up to two authorizations, three-tick budgets.
CONSTANTS
  http = http
  dns = dns
  tls = tls
  Kinds <- AllKinds
  Solvers <- SomeSolvers
  NoKind = NoKind
  MaxAuthzs = 2
  ChallengeTimeout = 3
  FinalizeTimeout = 4
  Interval = 2
  MaxLatency = 1
  MaxArming = 1
SPECIFICATION FairSpec
INVARIANTS ExposureWindow CertificateEarned TimeoutHonest BoundedOvershoot
PROPERTIES ContractImplemented CallShrinks Returns
\* The call returns: there is nothing to do after that.
CHECK_DEADLOCK FALSE
