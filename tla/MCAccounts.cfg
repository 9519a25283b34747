\* Two requests for one name, one replica with an administrator and one without.
CONSTANTS
  n1 = n1
  n2 = n2
  r1 = r1
  r2 = r2
  Name = {n1}
  NPerm = 1
  Replica = {r1, r2}
  AdminOf <- OneWithoutAdmin
  NoAdmin = NoAdmin
  Request = {q1, q2}
SPECIFICATION Spec
INVARIANTS
  RegistrationHasOneWinner
  ExistsReplyIsTrue
  LoginSawEnabledAccount
PROPERTIES
  OnlyAdministratorsSwitch
