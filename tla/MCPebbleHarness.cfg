\* Two callers of the one compose project, and a host that both may seed.
CONSTANTS
  Callers = {c1, c2}
  Hosts = {h}
  MaxPolls = 2
  None = None
SPECIFICATION FairSpec
INVARIANTS StartsFresh SeedsAnswered Accounted FileForCompose
PROPERTIES SpawnShrinks SpawnEnds
