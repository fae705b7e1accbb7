\* Two threads: the pool changes between the steps of one get.
CONSTANTS
  Threads = {t1, t2}
  Nonces = {n1, n2, n3}
  Empty = Empty
  None = None
  MaxBurst = 1
SPECIFICATION Spec
PROPERTIES SuppliedGetSucceeds
