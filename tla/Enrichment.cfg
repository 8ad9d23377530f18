SPECIFICATION Spec
SYMMETRY Perms
CONSTANTS
  Rows <- MCRows
  Workers = {w1, w2}
  Postings = {p1}
  Nobody = Nobody
  Slots = 1
  Reasons = {"none", "policy"}
  Overrides = {"done", "processing"}
  MaxEvents = 2
INVARIANT ServedWithinCap
PROPERTY OneOwnerDecides
CHECK_DEADLOCK FALSE
CONSTRAINT Small
