SPECIFICATION Spec
CONSTANTS
  Bases = {b1}
  Sessions = {s1, s2}
  Requests = {r1, r2}
  MaxApps = 1
  Revs = {v1, v2}
  MaxEdits = 1
  MaxVersions = 2
  Windows = {}
  None = None
SYMMETRY Alike
VIEW Matters
INVARIANTS OneOpenSession TailoredAsReviewed DraftIsVersioned PdfShowsDraft
PROPERTY UserWorkKept
CHECK_DEADLOCK FALSE
