\* Two tabs that log in, work and log out, one account without permissions.
CONSTANTS
  Tab = {b1, b2}
  Call = {c1, c2}
  Token = {t1, t2}
  NoPerms = {t2}
  None = None
SPECIFICATION Spec
INVARIANTS
  TabsAgree
  NoResurrection
PROPERTIES
  SessionEndsForCause
  SnapshotOfSession
