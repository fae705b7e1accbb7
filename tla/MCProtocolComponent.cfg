\* Both orchestrators, and one string variant besides http.
CONSTANTS
  Blocks = {b1, b2, b3, b4, b5}
  Empty = Empty
  Uninit = Uninit
  None = None
  Variants = {Other}
  Http = Http
  Other = Other
  StatusWord = StatusWord
  Guests = {"component", "any"}
  MaxArgs = 3
SPECIFICATION ProtocolSpec
INVARIANTS EveryBlockOwned HostSeesAnswer FreesOnce
SYMMETRY BlockSymmetry
CHECK_DEADLOCK FALSE
