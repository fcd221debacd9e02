SPECIFICATION MGSpec
CONSTANTS
  ann = ann
  gus = gus
  kim = kim
  c1 = c1
  c2 = c2
  NULL = NULL
  Users = {ann, bob}
  Contacts = {gus, kim}
  Copies = {c1, c2}
  LoanIds = {l1, l2, l3}
  OwnerOf <- AnnOwnsAll
  ContactOwner <- AnnKnowsAll
  StatusEdits = {"AVAILABLE", "UNAVAILABLE"}
SYMMETRY LoanSymmetry
INVARIANTS
  OneClaim
  Custody
  NoRequestLeftBehind
  HandOverGoesOn
  ContactsAreKept
PROPERTIES
  HomecomingIsAccounted
  AnswersStand
