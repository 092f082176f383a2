SPECIFICATION ServicesSpec
CONSTANTS
  n1 = n1
  n2 = n2
  n3 = n3
  n4 = n4
  u1 = u1
  u2 = u2
  c1 = c1
  d1 = d1
  Absent = absent
  Empty = empty
  Garbled = garbled
  SaveEvery = 2
  MaxEvents = 3
  Replicas = {n1, n2, n3, n4}
  Contents = {c1}
  Hash <- MCHash
  NoState = noState
  NoHash = noHash
  Registered = {n1, n2}
  Urls = {u1, u2}
  NodeAt <- MCNodeAt
  Factor = 2
  Rounds = {r1, r2}
  Saves = {1, 2}
  NoRound = noRound
  LowSets <- MCLowSets
  MaxCalls = 2
  MaxTroubles = 1
  ShardCount = 4
  CidNumber <- MCCidNumber
  NaN = nan
  AnyShard = anyShard
  Assignments <- MCAssignments
  NoPlacement = noPlacement
  Wanted = 2
  MaxCached = 1
  MaxWrites = 2
  Timer = timer
  PeerIds = {p1, p2}
  EnvPeers = {}
  Settings = {"old", "new"}
  MaxMet = 2
  MaxMishaps = 1
  Nodes = {d1}
  NoRecord = noRecord
  Latencies = {4}
  ShortBan = 1
  LongBan = 2
  Expiry = 2
  Listed <- MCListed
  UploadCount = 1
  MaxLatency = 5
  MaxClock = 3
  MaxReports = 6
  Holders = {h1, h2, h3, h4}
  PanelSize = 3
  MaxTries = 3
  RightHash = right
  WrongHashes = {wrong}
  Refusal = refusal
  Failure = failure
  NoReply = noReply
  NoVerdict = noVerdict
  IndexCids = {i1, i2, i3}
  Metas <- MCMetas
  NoGuild = noGuild
  Limit = 1
  NoCursor = noCursor
  NoWalk = noWalk
  MaxChanges = 5
  Blockable = {x}
  ReloadInterval = 1
  MaxLoad = 1
  Checks = {k1, k2}
  NoAnswer = noAnswer
  NoCopy = noCopy
  MaxNow = 5
  MaxEdits = 2
  CacheKeys <- MCCacheKeys
  SizeOf <- MCSizeOf
  MaxSize = 4
  Fraction = 2
  MaxMillis = 3
  PrefixBytes = 4
  Lengths = {2, 5}
  Pending = pending
  NoMessage = noMessage
  FeedEvents <- MCFeedEvents
  NoParent = noParent
  NoList = noList
  NoRules = noRules
  FeedContexts <- MCFeedContexts
  Skew = 1
  MaxMoment = 4
  MaxArrived = 4
INVARIANTS
  LossBounded
  CompleteIsReplicated
  SettledIsSaved
  PlacementAgrees
  DirtyOrSaved
  ConfigKept
  CleanStopSaves
  CaughtNeverSelected
  LoneVoice
  IndexesAgree
  WalkComplete
  EditHonoured
  CacheFits
  ExchangeSound
  AssemblyAgrees
PROPERTIES
  QuietGetsSaved
  FailureNoGain
CHECK_DEADLOCK FALSE
