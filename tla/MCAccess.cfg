SPECIFICATION Spec
CONSTANTS
  g1 = g1
  c1 = c1
  d1 = d1
  k1 = k1
  k2 = k2
  Guardians = {g1}
  Children = {c1}
  Delegates = {d1}
  Contacts = {k1, k2}
  OwnerOf <- OneOwner
  TermChoices <- ApproveForAll
  AdminRights <- NoRights
  RateLimit = 1
  MaxInvites = 3
  MaxCalls = 2
  Emails = {k1, k2}
  StudentGuardians = {g1}
  RedisFaults <- Faults
  CodeLimit = 1
  MaxAttempts = 2
  MaxCodes = 2
  MaxSessions = 2
  MaxChallenges = 1
SYMMETRY Alike
CHECK_DEADLOCK FALSE
INVARIANTS
  CodesAreLimited
PROPERTIES
  ConsentIsFinal
  WithdrawalIsEffective
