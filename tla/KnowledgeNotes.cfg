SPECIFICATION Spec
CONSTANTS
  Points = {p1}
  Items = {i1, i2}
  Texts = {t1, t2}
  MaxNotes = 1
  Slow = {}
  Windows = {}
  None = None
PROPERTY NotesGoWithTheirPoint
