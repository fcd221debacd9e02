SPECIFICATION LSpec
CONSTANTS
  ann = ann
  bob = bob
  eve = eve
  c1 = c1
  c2 = c2
  l1 = l1
  l2 = l2
  l3 = l3
  n1 = n1
  n2 = n2
  w1 = w1
  w2 = w2
  NULL = NULL
  Users = {ann, bob, eve}
  Contacts = {}
  Copies = {c1}
  LoanIds = {l1, l2, l3}
  OwnerOf <- AnnOwnsAll
  StatusEdits = {"AVAILABLE", "UNAVAILABLE"}
  Loans = {n1, n2}
  BorrowerOf <- OneGuest
  Owner = "lender"
  Nobody = Nobody
  Processes = {w1, w2}
  Window = 1
  DayLength = 1
  EndOfTime = 1
SYMMETRY Symmetry
PROPERTIES
  StatusLockedOnLoan
