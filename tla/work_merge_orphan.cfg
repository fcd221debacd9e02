SPECIFICATION WSpec
CONSTANTS
  m1 = m1
  m2 = m2
  m3 = m3
  r1 = r1
  r2 = r2
  w1 = w1
  w2 = w2
  b1 = b1
  Works = {1, 2, 3}
  Merges = {m1, m2, m3}
  Readers = {r1, r2}
  Wishers = {w1, w2}
  Translators = {b1}
  MaxClock = 3
SYMMETRY Symmetry
INVARIANTS
  NoTranslationOnMerged
CHECK_DEADLOCK FALSE
