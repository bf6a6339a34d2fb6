SPECIFICATION Spec
CONSTANTS
  Procs = {p1, p2}
  Versions = {1, 2}
  Texts = {a, b, x}
  a = a
  b = b
  x = x
  NoText = NoText
  Releases <- MCReleases
  Needed = 1
  Ahead = 1
  LastMonth = 3
SYMMETRY Symmetry
INVARIANTS TypeOK UpgradesAgree DefaultRowsNeedALapse InitialPasswordOnce
