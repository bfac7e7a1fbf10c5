\* An administrator, an operator, a name not taken; tokens expire.
SPECIFICATION FairSpec
CONSTANTS
  root = root
  olga = olga
  ivan = ivan
  first = first
  second = second
  c1 = c1
  c2 = c2
  Names = {root, olga, ivan}
  Passwords = {first, second}
  Clients = {c1, c2}
  FirstAccounts <- TwoAccounts
  NewAccounts <- AnOperator
  TTL = 1
  MaxEvents = 2
INVARIANTS
  TypeOK
  RightsWereHeld
  CredentialsWereCurrent
PROPERTIES
  DeactivationTakesEffect
CHECK_DEADLOCK FALSE
