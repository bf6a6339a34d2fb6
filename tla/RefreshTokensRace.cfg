CONSTANTS
  Conns = {c1, c2}
  Tokens = {t1, t2, t3}
  Users = {ann}
  NoToken = NoToken
  NoUser = NoUser
  MaxExpired = 0
  MaxSuspended = 0
SPECIFICATION Spec
INVARIANTS ReuseKillsFamily
SYMMETRY Symmetry
