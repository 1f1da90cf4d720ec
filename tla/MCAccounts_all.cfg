SPECIFICATION FairSpec
CONSTANTS
  Rules = {r1}
  Threads = {t1}
  States = {s1}
  Callbacks = {c1, c2}
  MaxTokens = 1
  MaxIds = 2
  MaxAdmin = 3
  MaxGoogle = 1
  None = None
INVARIANTS
  CredentialsInv
  SingleUse
  DisconnectedWritesNothing
PROPERTIES
  DisconnectionsEnd
  StopsUnauthorized
CHECK_DEADLOCK FALSE
