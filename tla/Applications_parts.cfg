\* The mount: one file, two requests under way, two descriptors.  World view: two peers, two
\* overlapping updates.  The seed: three files, two crashes, three registrations, two at a
\* time.  Managed code: two roles for the target, one for
\* the other worker; one process ends, the connection to each peer breaks once.  Subtrees:
\* one repository nobody else changes.  Lenses: a tree two names deep below an underscored root.
CONSTANTS
  Parts = {"fuse", "world", "seed", "managed", "subtrees", "xpath"}
  readme = readme
  registry = registry
  app = app
  seed = seed
  peer1 = peer1
  peer2 = peer2
  url1 = url1
  url2 = url2
  Paths = {readme}
  Requests = {r1, r2}
  CacheTTL = 2
  MaxFd = 2
  MaxChanges = 2
  MaxTime = 2
  NoEntries = NoEntries
  Idle = Idle
  Peers = {peer1, peer2}
  Updates = {u1, u2}
  MaxConnections = 3
  MaxFailures = 2
  NoUpdate = NoUpdate
  Files <- MCFiles
  SeedNode <- MCSeedNode
  Nodes <- MCNodes
  Posts = {r1, r2}
  MaxPosts = 3
  MaxCrashes = 2
  NoPost = NoPost
  NoUrl = NoUrl
  echo = echo
  reverse = reverse
  a = a
  b = b
  Workers = {a, b}
  RoleFiles <- MCRoleFiles
  Assignments <- MCAssignments
  Target = b
  Service = echo
  Manager = Manager
  Registry = Registry
  MaxLosses = 1
  NoLink = NoLink
  top = top
  meta = meta
  page = page
  note = note
  word = word
  Repos = {repo}
  Dirs <- MCDirs
  Positions <- MCPositions
  Remotes = {r1, r2}
  Urls = {u1, u2}
  MaxEntries = 2
  NoRemote = NoRemote
  NoTree = NoTree
  NoCache = NoCache
  NoEntry = NoEntry
  NoAdd = NoAdd
  NoCommand = NoCommand
  NodeNames <- MCNames
  MetaNames <- MCMetaNames
  Locals <- MCRoots
  MaxKey = 2
  Contents <- MCContents
  Inside <- MCInside
  Directory = Directory
  NotFound = NotFound
  Refused = Refused
  Completed = Completed
  NoRequest = NoRequest
  SoleWriter = TRUE
  MaxEnds = 1
SPECIFICATION ApplicationsSpec
INVARIANTS
  ApplicationsTypeOK
  FreshListing
  ClosedFileIsListed
  SeedServes
  RolesServed
  ActsOnRegistry
  RegistryAgrees
PROPERTIES
  WorldViewCatchesUp
  TargetAnswers
  LensesAgree
CHECK_DEADLOCK FALSE
