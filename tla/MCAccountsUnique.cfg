\* A replica of another configuration starts while users register.
CONSTANTS
  n1 = n1
  n2 = n2
  r1 = r1
  r2 = r2
  Name = {n1, n2}
  NPerm = 1
  Replica = {r1, r2}
  AdminOf <- RenamedAdmin
  NoAdmin = NoAdmin
  Request = {q1, q2}
SPECIFICATION Spec
INVARIANTS
  NameGloballyUnique
