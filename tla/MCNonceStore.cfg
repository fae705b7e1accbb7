\* Two threads and a CA that sends up to none, one or two nonces per response.
CONSTANTS
  Threads = {t1, t2}
  Nonces = {n1, n2, n3, n4}
  Empty = Empty
  None = None
  MaxBurst = 2
SPECIFICATION FairSpec
INVARIANTS OnePlace PoolBounded
PROPERTIES NoReplay LifecycleImplemented RequestShrinks RequestEnds
