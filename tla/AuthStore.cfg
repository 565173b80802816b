SPECIFICATION Spec
CONSTANTS
  Families = {f1, f2}
  Clients = {c1, c2}
  Audiences = {a1, a2}
  None = None
  MaxClients = 1
  MaxTokens = 3
  MaxCodes = 1
  MaxTombstones = 2
  CodeTTL = 1
  AccessTTL = 1
  RefreshTTL = 2
  MaxGen = 2
  MaxTime = 3
SYMMETRY Symmetry
INVARIANTS IInv CodeUsedOnce GrantKept RotatedIsDead ReplayIsDetected RevokedIsDead Reopenable
