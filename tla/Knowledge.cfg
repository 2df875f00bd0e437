SPECIFICATION Spec
CONSTANTS
  Points = {p1, p2, p3}
  Items = {i1, i2}
  Texts = {t1, t2}
  MaxNotes = 1
  Slow = {"combine"}
  Windows = {}
  None = None
SYMMETRY Alike
INVARIANTS WordingsAreOneLevel ApprovedIsVouched
