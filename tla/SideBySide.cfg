SPECIFICATION Spec
CONSTANTS
  a1 = a1
  a2 = a2
  k1 = k1
  web = web
  daemon = daemon
  w1 = w1
  w2 = w2
  d1 = d1
  c1 = c1
  c2 = c2
  t1 = t1
  t2 = t2
  t3 = t3
  b1 = b1
  b2 = b2
  n1 = n1
  n2 = n2
  f1 = f1
  r1 = r1
  m1 = m1
  m2 = m2
  s1 = s1
  s2 = s2
  None = None
  Accounts = {a1, a2}
  MAX_VERSION = 3
  Addresses = {a1, a2}
  StoredChats = {k1}
  Customers = {k1}
  MaxAccounts = 2
  StoreProcesses = {web, daemon}
  StoreThreads = {w1, w2, d1}
  StoreProcessOf <- MCProcessOf
  MaxCalls = 3
  Chats = {c1, c2}
  PendingTTL = 1
  FreshSeconds = 1
  MaxCodes = 2
  MaxPosts = 2
  PendingBrowsers = {b1, b2}
  PendingTabs = {t1, t2, t3}
  PendingBrowserOf <- MCPendingBrowserOf
  MaxPending = 2
  ValueTTL = 1
  MaxRequests = 4
  PendingRotations = 1
  Browsers = {b1}
  Tabs = {t1, t2}
  BrowserOf <- MCBrowserOf
  SessionTTL = 1
  SessionRotations = 2
  Life = 2
  EXPIRY_MARGIN = 1
  MaxConsents = 2
  Machines = {n1, n2}
  Pinned = {n1}
  AddressOf <- MCAddressOf
  Files = {f1}
  Authorized = {}
  RECHECK_SECONDS = 2
  FAILURE_RECHECK_SECONDS = 1
  MaxActions = 1
  Requests = {r1}
  Mail = {m1, m2}
  Sent = {s1, s2}
  MAX_ITERATIONS = 1
  MAX_EM_DASH_RETRIES = 1
  SHARING_TTL = 1
  AclScope = TRUE
  MaxArrivals = 2
  Lower <- MCLower
  Owner = "Olga"
  Aliases <- MCAliases
  Surname = "Petrova"
  Reached <- MCReached
  Contacts <- MCContacts
  Stopwords = {"will"}
  Patterned <- MCPatterned
  Nonce = "nonce"
  DraftTexts <- MCGiven
  MaxTexts = 2
  MaxTaken = 2
  VoiceAccounts = {k1}
  AccountOf <- MCAccountOf
  JOB_RETENTION = 0
  AWAIT_TIMEOUT = 1
  MaxRuns = 2
  MaxSignUps = 2
  CERTS_TTL_MIN = 2
  CERTS_TTL_MAX = 3
  CERTS_REFETCH_FLOOR = 2
  CERTS_FETCH_TIMEOUT = 1
  Stated = {0, 9}
  MaxKeys = 2
  MaxPushes = 3
  ALERT_INTERVAL = 2
  MaxBoots = 2
  MaxClientCalls = 2
  MaxModes = 1
  Sources = {b1}
  RETENTION = 2
  PRUNE_INTERVAL = 2
  WAKE_POLL = 1
  MaxChanges = 2
  MaxFaults = 1
  FormSources = {b1, b2}
  CONTACT_BURST = 2
  CONTACT_REFILL_SECONDS = 2
  MaxFormPosts = 6
  Catalogue = {"deepseek", "nearai-glm", "nearai-gpt-oss"}
  DEFAULT_PROVIDER = "deepseek"
  Confidential = {"nearai-glm", "nearai-gpt-oss"}
  KeyOf <- MCKeyOf
  COOLDOWN = 2
  MaxModelChanges = 1
  Names = {"listed", "other"}
  Listed = {"listed"}
  DialAddresses = {n1, n2}
  Routable = {n1}
  BUF = 1
  MaxPieces = 2
  HandoffCalls = {t1, t2}
  Ops = {"chat-finish", "voice-status"}
  BACKLOG = 0
  MaxDeaths = 1
  Workers = {t1, t2}
  Loops = {d1}
  Daemon = d1
  Delay = 1
  LastTimes <- MCLastTimes
  MaxCrashes = 1
  MaxRestarts = 1
INVARIANTS
  TypesOK
  PendingValuesHold
  RecordsOpen
  VerdictsHold
  VoiceJobsHold
  CertsHold
  ClientHolds
  
  RelayHolds
  
PROPERTIES
  ManifestHolds
  ChangeAnswered
  SessionsHold
  AccessTokensHold
  DraftingHolds
  MaskingHolds
  ContactHolds
  
SYMMETRY MCAlike
CHECK_DEADLOCK FALSE
