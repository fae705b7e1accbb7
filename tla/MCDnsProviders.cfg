\* Two threads that share each of the providers, at most four records created.
CONSTANTS
  Threads = {t1, t2}
  Names <- SomeNames
  Zones <- SomeZones
  Backends = {"byname", "static", "mock", "challtestsrv"}
  Styles = {"closure", "handle"}
  MaxId = 4
  None = None
SPECIFICATION Spec
INVARIANTS TypeOK HeldIsPublished
PROPERTIES NoLeak KeepsContract
SYMMETRY ThreadSymmetry
