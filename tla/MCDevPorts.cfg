\* Two allocations next to the template, killed twice and run again and again.
CONSTANTS
  t = t
  a = a
  b = b
  Repo = {t, a, b}
  Derived = {a, b}
  IdOf <- OwnId
  Copied <- FirstWebPort
  Template = template
  MaxSlot = 2
  MaxCrash = 2
SPECIFICATION FairSpec
INVARIANTS
  WinnersDisjoint
  WinnersInParity
PROPERTIES
  PortsStayFixed
  RetryCompletes
