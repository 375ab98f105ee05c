CONSTANTS
  p1 = p1
  p2 = p2
  t1 = t1
  t2 = t2
  c1 = c1
  Nothing = Nothing
  Packets = {p1, p2}
  Concepts = {c1}
  Txns = {t1, t2}
  MaxTranslations = 3
SYMMETRY Symmetry
SPECIFICATION Spec
CHECK_DEADLOCK FALSE
INVARIANTS
  TypeOK
  CurrentIsNewest
  
  OnlyDecidedIsQuoted
