\* One request of every method and token against the operator.
CONSTANTS
  alice = alice
  bob = bob
  Request = {q1}
  User = {1}
  Admin = {1}
  Name = {alice, bob}
  Token <- AnyToken
  Method <- Methods
SPECIFICATION Spec
INVARIANTS
  GuardedReplyWasCleared
  RefusalIsTrue
PROPERTIES
  SwitchWasCleared
