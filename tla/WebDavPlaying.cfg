CONSTANTS
  Accounts = {a1, a2}
  Passphrases = {k1, k2}
  Identities = {i1, i2}
  Garbage = Garbage
  None = None
  NoAnswer = NoAnswer
SPECIFICATION Spec
PROPERTY IdentityFixedWhilePlaying
