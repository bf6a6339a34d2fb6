CONSTANTS
  Conns = {c1, c2}
  NoConn = NoConn
  MaxFailed = 1
  MaxSignIns = 3
  MaxVersion = 1
SPECIFICATION Spec
INVARIANTS TypeOK FailuresAreCounted OtpSessionsRespectChange
SYMMETRY Symmetry
