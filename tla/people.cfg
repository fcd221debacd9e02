SPECIFICATION PSpec
CONSTANTS
  ann = ann
  bob = bob
  eve = eve
  kim = kim
  link = link
  k1 = k1
  k2 = k2
  t1 = t1
  t2 = t2
  t3 = t3
  s1 = s1
  s2 = s2
  c1 = c1
  c2 = c2
  NULL = NULL
  Users = {ann, bob, eve}
  Calls = {k1, k2}
  Actions = {"request", "accept", "decline", "remove", "block"}
  MaxRows = 2
  Invites = {link}
  InviterOf <- EveInvites
  MaxUses <- Once
  Recipients = {eve, kim}
  PerUser = 1
  PerRecipient = 2
  Day = 2
  Week = 3
  MaxMails = 3
  EndOfTime = 4
  Chats = {c1, c2}
  MaxAttempts = 2
  Tokens = {t1, t2, t3}
  Sessions = {s1, s2}
SYMMETRY PeopleSymmetry
INVARIANTS
  LimitsHold
  ResetIsFinal
PROPERTIES
  FriendsAgree
  InvitationsAreSpent
  LinksAreFinal
CHECK_DEADLOCK FALSE
