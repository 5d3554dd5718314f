SPECIFICATION Spec
CONSTANTS
  Calls = {c1, c2, c3}
  Marketplaces = {"SHOPEE"}
  Settable = {"ERROR"}
  MaxOpen = 2
INVARIANT OneActiveNote
CHECK_DEADLOCK FALSE
