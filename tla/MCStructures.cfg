SPECIFICATION MCSpec
CONSTANTS
  Nodes = {n1, n2, n3}
  Vals = {v1, v2}
  NULL = NULL
  List = List
  Items0 = {i1, i2, i3, i4, i5}
  Keys0 = {k1}
SYMMETRY Symmetry
INVARIANTS
    Linked
PROPERTIES
    StructuresAbstract
