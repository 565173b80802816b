SPECIFICATION PartsSpec
CONSTANTS
  Families = {f1, f2}
  Clients = {c1, c2}
  Audiences = {a1}
  None = None
  MaxClients = 1
  MaxTokens = 2
  MaxCodes = 1
  MaxTombstones = 1
  CodeTTL = 1
  AccessTTL = 1
  RefreshTTL = 1
  MaxGen = 1
  MaxTime = 1
  Sessions = {s1, s2}
  IPs = {}
  MaxAttempts = 1
  PairingTTL = 1
  IPLimit = 1
  IPWindow = 1
  MaxTrackedIPs = 1
  Requests = {q1, q2}
  Handlers = {h1}
  MaxPending = 2
  PendingTTL = 1
  CompletedTTL = 1
  t1 = t1
  t2 = t2
  l1 = l1
  l2 = l2
  Tools = {t1, t2}
  Permitted = {t1}
  Modern = modern
  Legacy = {l1, l2}
  LatestLegacy = l2
  OldestLegacy = l1
  Unknown = unknown
  Absent = absent
  Repeated = repeated
  Malformed = malformed
  Posts <- McpPosts
  LineReads <- ReadingLines
  ListReads <- ReadingLists
  DiffReads <- ReadingDiffs
  FileReads <- ReadingFiles
  DefaultLines = 3
  HardLines = 4
  MinRead = 2
  DefaultBytes = 4
  HardBytes = 8
  MaxFiles = 2
  FilesMinBytes = 3
  FilesMaxBytes = 6
  FilesMaxLines = 3
  MaxOffset = 3
  ListSlack = 1
  FindEntries = 5
  DiffDefaultBytes = 4
  DiffMaxBytes = 5
  BatchCount = 2
  BatchBytes = 6
  PathCost = 2
  NoPage = nopage
  Addresses = {a1, a2, a3}
  PerAddress = 2
  Global = 3
  Window = 2
  MaxAddresses = 2
  NoBucket = nobucket
  MaxClock = 3
  u1 = u1
  u2 = u2
  u3 = u3
  k1 = k1
  k2 = k2
  Urls = {u1, u2, u3}
  Resolvers = {r1, r2}
  Documents <- ClientDocuments
  MaxEntries = 2
  CacheTTL = 2
  FetchTimeout = 1
  NoMethod = nomethod
  Nothing = nothing
  MaxMoment = 3
  Assertions <- SignedAssertions
  TokenCalls = {b1, b2}
  KeySets = {{k1}, {k2}}
  KeyTTL = 1
  Lifetime = 2
  Missing = missing
  LastMoment = 2
  Root <- PathsRoot
  FileSystems <- PathsFiles
  Requested <- PathsRequested
  Ignores <- PathsIgnores
  Sensitive <- PathsSensitive
  Noise <- PathsNoise
  MaxDepth = 2
  MaxLinks = 4
  OpenLinks = 2
  NoPath = nopath
  PublicUrls = {u1, u2}
  LocalUrl = local
  NoUrl = nourl
  MaxGranted = 1
  Others = {o1}
  Workspaces = {w1, w2}
  Hostnames = {n1, n2}
  Chooses = {d1, d2}
  NoTunnel = notunnel
  RecordIds = {1, 2, 3}
  Sizes <- RecordSizes
  LineBytes = 4
  Readers = {y1}
  ReadLimits = {0, 1, 5}
  DefaultRecords = 2
  MaxRecords = 3
  NoReader = noreader
INVARIANTS PairingOnce SameRedirect TokensHaveClients
INVARIANTS CountsAreAdmissions ResolvedIsRecent NoLateReplay KeysAreRecent
INVARIANTS SourcesAgree PagesAreWhole WithinBudget ReadsAreConfined NoFalseConnection PageIsOfEndpoint NamedIsReal RecordsRead
PROPERTIES ReplacedAfterRevoked
