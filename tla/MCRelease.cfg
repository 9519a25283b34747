\* Two publishers with any checkouts and modes, three versions.
CONSTANTS
  Publisher = {p1, p2}
  MaxVersion = 3
  Modes = {"off", "check", "apply"}
  Mixed = Mixed
  Nobody = Nobody
SYMMETRY Symmetry
SPECIFICATION Spec
PROPERTIES
  OnlyARaceSkipsMigrations
  SuccessMeansMyVersion
