SPECIFICATION Spec
CONSTANTS
  Entry <- RequestEntry
  Index <- RequestIndex
  MaxWaiting = 2
  Cores <- SearchCores
  Batches = 2
  Bytes <- CacheBytes
  xx_hash <- CacheDigests
  Capacities <- CacheCapacities
  MaxAccepted = 6
  Address <- LedgerAddress
  Accounts <- LedgerAccounts
  Diffs <- LedgerDiffs
  States <- LedgerStates
  Half = 4
  MaxEvents = 4
  Hashes <- StorageHashes
  Tx <- StorageTx
  Indexes <- StorageIndexes
  Deltas <- StorageDeltas
  IntegerHalf = 4
  SmallHalf = 2
  U64Range = 64
  MAX_RECORDS_AT_ONCE = 1
  MaxCalls = 4
  ByteBase = 16
  BitsPerByte = 4
  PORT_SIZE = 1
  TIMESTAMP_SIZE = 2
  COORDINATOR_SIZE = 1
  INDEX_SIZE = 2
  HASH_SIZE = 1
  VERSIONS_MAX = 4
  TRANSACTION_MIN = 1
  TRANSACTION_MAX = 2
  Streams <- FramingStreams
  Clock = 20
  MaxSkew = 2
  COORDINATOR <- FramingCoordinator
  MWM = 2
  Port = 1
  MaxTryte = 2
  FragmentLen = 2
  SECURITY_LEVEL_MAX = 2
  DepthMax = 3
  Levels <- MilestoneLevels
  Depths <- MilestoneDepths
  IssuerSeed <- MilestoneSeed
  Trunks <- MilestoneTrunks
  ObsoleteTags <- MilestoneTags
  TagHalf = 12
  IndexBits = 3
  Pushes <- BundlePushes
  Inputs <- BundleInputs
  BundleSeed <- OwnSeed
  Addresses <- BundleAddresses
  Timestamps <- BundleTimestamps
  TagLen = 2
  TagCount = 9
  I64Half = 4
  IOTA_SUPPLY = 1
  MaxPush = 3
  SpongeStates <- BundleSponge
  EmptySponge = 0
  AbsorbEssence <- BundleAbsorb
  SqueezeHash <- BundleSqueeze
INVARIANTS
  BigIntsAgree
  BuffersReadBack
  SignedMilestonesVerify
  TransactionRoundTrips
  BuiltBundlesAreSound
  SpongesAgree
  BitSlicesAgree
  SearchOutcome
  BackendsAgree
  FramesAreRead
  NoLostRequest
  FilterForgetsInOrder
  LedgerFollowsDiffs
CHECK_DEADLOCK FALSE
