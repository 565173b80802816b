SPECIFICATION SetupSpec
CONSTANTS
  PublicUrls = {u1, u2}
  LocalUrl = local
  NoUrl = nourl
  MaxGranted = 1
  Others = {o1}
INVARIANT StopIsFinal
