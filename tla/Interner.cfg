SPECIFICATION Spec
CONSTANTS
  Threads = {t1, t2}
  Categories = {"plain", "getter"}
  Texts = {"x", "y", "z", "long"}
  LongTexts = {"long"}
  Slot <- MCSlot
  Caps = {0, 2, 4}
  WordSize = 16
  OverflowChecks = TRUE
  SpinTries = 2
INVARIANTS
  TypeOK
  ServesWhatWasAsked
  CachedIsMarked
  TableHolds
PROPERTIES
  RequestsEnd
