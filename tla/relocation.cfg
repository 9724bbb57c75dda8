SPECIFICATION Spec
CONSTANTS
  Boxes = {b1, s1}
  Shelves = {s1}
  Places = {p1, p2}
  Notes = {n1}
  Items = {i1}
  Loads = {l1, l2}
  Tasks = {t1, t2}
  MaxClicks = 3
  MaxForeign = 1
  NoBox = NoBox
  NoPlace = NoPlace
  NoNote = NoNote
  NoItem = NoItem
PROPERTIES NotesOnlyBySave
CHECK_DEADLOCK FALSE
