\* Two replicas of one configuration, three default permissions; crashes anywhere.
CONSTANTS
  n1 = n1
  n2 = n2
  r1 = r1
  r2 = r2
  Name = {n1}
  NPerm = 3
  Replica = {r1, r2}
  AdminOf <- SameAdmin
  NoAdmin = NoAdmin
SPECIFICATION FairBootstrapSpec
INVARIANTS
  ServingImpliesDefaults
PROPERTIES
  DefaultsEventuallyComplete
