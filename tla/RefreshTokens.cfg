CONSTANTS
  Conns = {c1, c2}
  Tokens = {t1, t2, t3}
  Users = {ann, bob}
  NoToken = NoToken
  NoUser = NoUser
  MaxExpired = 1
  MaxSuspended = 1
SPECIFICATION Spec
INVARIANTS TypeOK FamilyIsAChain ReuseAnswerIsDurable
PROPERTIES RevocationStands ImplementsLedger
SYMMETRY Symmetry
