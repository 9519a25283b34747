\* Two publishers that both keep the guard on.
CONSTANTS
  Publisher = {p1, p2}
  MaxVersion = 2
  Modes = {"check", "apply"}
  Mixed = Mixed
  Nobody = Nobody
SPECIFICATION Spec
INVARIANTS
  PendingIsBlocked
