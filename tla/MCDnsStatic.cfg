\* A static lookup that lists a zone of three labels.
CONSTANTS
  Threads = {t1}
  Names <- BritishNames
  Zones <- BritishZones
  Backends = {"static"}
  Styles = {"closure"}
  MaxId = 1
  None = None
SPECIFICATION Spec
INVARIANTS StaticSkipsHeuristic
