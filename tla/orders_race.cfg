SPECIFICATION Spec
CONSTANTS
  Calls = {c1, c2, c3, c4}
  Marketplaces = {"SHOPEE", "MERCADO_LIVRE"}
  Settable = {"ACTIVE", "ERROR"}
  MaxOpen = 2
SYMMETRY Symmetry
INVARIANTS
  TypeOK
  SyncIsIdempotent
  SyncIsAtomic
  LinkedHasNote
  DuplicatesOverlap
  SomeCallGoesOn
PROPERTIES
  ColumnsKept
  ReplacementActivates
  ImplementsContract
CHECK_DEADLOCK FALSE
