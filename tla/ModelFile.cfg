SPECIFICATION Spec
CONSTANTS
  MaxF32 = 99
  NoLeaf = NoLeaf
  NoModel = NoModel
  NoFile = NoFile
  Torn = Torn
  TableOf <- Table
  Origins <- AllOrigins
  Rows <- AllRows
  Explained <- Objects
  ProjectionOf <- Projection
CHECK_DEADLOCK FALSE
INVARIANTS EveryWalkPredictsAsTrained FilesKeepTheModel ExplanationsAddUp
