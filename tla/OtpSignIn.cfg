CONSTANTS
  Conns = {c1, c2}
  Codes = {k1, k2}
  NoCode = NoCode
  MaxAttempts = 2
  MaxGuesses = 4
SPECIFICATION Spec
INVARIANTS TypeOK OneSignInPerCode GuessesAreCounted
PROPERTIES NewestCodeOnly
SYMMETRY Symmetry
