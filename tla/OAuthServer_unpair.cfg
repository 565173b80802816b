SPECIFICATION Spec
CONSTANTS
  Families = {f1, f2}
  Clients = {c1, c2}
  Audiences = {a1}
  None = None
  MaxClients = 1
  MaxTokens = 2
  MaxCodes = 1
  MaxTombstones = 1
  CodeTTL = 1
  AccessTTL = 1
  RefreshTTL = 1
  MaxGen = 1
  MaxTime = 1
  Sessions = {s1, s2}
  IPs = {}
  MaxAttempts = 1
  PairingTTL = 1
  IPLimit = 1
  IPWindow = 1
  MaxTrackedIPs = 1
  Requests = {q1, q2}
  Handlers = {h1}
  MaxPending = 2
  PendingTTL = 1
  CompletedTTL = 1
INVARIANT UnpairEnds
