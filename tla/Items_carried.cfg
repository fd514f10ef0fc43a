SPECIFICATION Spec
CONSTANTS
  ann = ann
  ben = ben
  p1 = p1
  p2 = p2
  p3 = p3
  sword = sword
  Player <- Two
  Item <- FourItems
  KindOf <- FourKindOf
  Joinable <- OnlyPotions
  Sharing <- Two
  MaxUnits = 3
  MaxLate = 1
  None = None
  DropsAlone = FALSE
INVARIANTS
  OnePlace
  NoneStranded
  
  RowsFollow
SYMMETRY Symmetric
CONSTRAINT FewUnits
CHECK_DEADLOCK FALSE
