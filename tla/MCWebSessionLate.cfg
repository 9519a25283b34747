\* A late rejection of an old token.
CONSTANTS
  Tab = {b1}
  Call = {c1, c2}
  Token = {t1, t2}
  NoPerms = {}
  None = None
SPECIFICATION Spec
PROPERTIES
  OnlyInvalidSessionEnds
