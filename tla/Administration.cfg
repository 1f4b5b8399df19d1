SPECIFICATION AdministrationSpec
CONSTANTS
  Attempts = {a1, a2}
  Users = {alice}
  Ips = {i1}
  NoUser = NoUser
  Backoffs <- SavedBackoffs
  Rates <- SavedRates
  BackoffGiven <- GivenBackoff
  RateGiven <- GivenRate
  Width = 3
  Minute = 1
  MaxFailures = 3
  MaxUpdates = 1
  Recorders = {backoffMu, ipRateMu}
  Editors = {x, y}
  BufferCap = 2
  MaxEvents = 3
  MaxEdits = 3
  Names = {alice, bob}
  NoName = NoName
  Clients = {c1}
  Requests = {r1, r2}
  Inserts = {"token"}
  Indexed = TRUE
  MaxServed = 3
  MaxCalls = 1
  FileUsers = {alice, bob}
  Cli = alice
  CliUser = "valid"
  FileEditors = {e1, e2}
  MaxEdited = 2
  MaxKilled = 1
  Holders = {alice, bob}
  Reservers = {p1, p2}
  Askers = {q1}
  MaxPort = 2
  Thresholds = {1, 3}
  GivenThreshold = 3
  MaxReserved = 3
  MaxAsked = 1
  Nobodys = Nobodys
  Keys = {k0, k1}
  GoodKeys = {k1}
  FirstKey = k0
  Testers = {t1}
  KeyEditors = {e3}
  Chats = {m1, m2, m3}
  Generations = {g1}
  MaxWritten = 2
  MaxUnsaved = 1
  NoCopy = NoCopy
INVARIANTS AdministrationTypeOK LimitsHold FailureDelays NewestBuffered DeletedHookIsSilent LeftoversAreMissed   OverlapOnlyByRace  StatusIsOfKey ChatsStay
CHECK_DEADLOCK FALSE
