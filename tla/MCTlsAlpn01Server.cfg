\* Two orders, up to three challenges between them, two validator connections.
CONSTANTS
  Conns = {c1, c2}
  Challenges = {h1, h2, h3}
  Orders = {o1, o2}
  Nothing = Nothing
  Dummy = Dummy
  MaxBacklog = 2
SPECIFICATION Spec
INVARIANT WakeUpWaits
PROPERTIES NoStaleCert TurnsServed
\* The server has been dropped and every connection closed.
CHECK_DEADLOCK FALSE
