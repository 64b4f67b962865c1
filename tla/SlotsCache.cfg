CONSTANTS
  Readers = {r1, r2}
  Writers = {w1}
  Syncs = {s1}
  TTL = 2
  FillMax = 1
  MaxVersion = 2
  NoEntry = NoEntry
SPECIFICATION Spec
INVARIANTS TypeOK StaleEntryExplained
PROPERTIES RefinesView EventuallyCurrent
