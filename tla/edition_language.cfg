SPECIFICATION ESpec
CONSTANTS
  e1 = e1
  t1 = t1
  p1 = p1
  p2 = p2
  mg = mg
  uk = uk
  en = en
  None = None
  Works = {1, 2}
  Translations = {t1}
  Editions = {e1}
  Editors = {p1, p2}
  Mergers = {mg}
  Langs = {uk, en}
  MaxAttempts = 2
  MaxBusy = 2
SYMMETRY Symmetry
INVARIANTS
  TextsAgree
  NoCircleOfWaits
PROPERTIES
  CorrectsWhatWasSeen
