\* The subtrees of a repository with an origin that others push to.
CONSTANTS
  Parts = {"subtrees"}
  readme = readme
  registry = registry
  app = app
  seed = seed
  peer1 = peer1
  peer2 = peer2
  url1 = url1
  url2 = url2
  Paths = {readme}
  Requests = {r1, r2}
  CacheTTL = 2
  MaxFd = 2
  MaxChanges = 2
  MaxTime = 2
  NoEntries = NoEntries
  Idle = Idle
  Peers = {peer1, peer2}
  Updates = {u1, u2}
  MaxConnections = 3
  MaxFailures = 2
  NoUpdate = NoUpdate
  Files <- MCFiles
  SeedNode <- MCSeedNode
  Nodes <- MCNodes
  Posts = {r1, r2}
  MaxPosts = 3
  MaxCrashes = 2
  NoPost = NoPost
  NoUrl = NoUrl
  echo = echo
  reverse = reverse
  a = a
  b = b
  Workers = {a, b}
  RoleFiles <- MCRoleFiles
  Assignments <- MCAssignments
  Target = b
  Service = echo
  Manager = Manager
  Registry = Registry
  MaxLosses = 1
  NoLink = NoLink
  top = top
  meta = meta
  page = page
  note = note
  word = word
  Repos = {repo}
  Dirs <- MCDirs
  Positions <- MCPositions
  Remotes = {r1, r2}
  Urls = {u1, u2}
  MaxEntries = 2
  NoRemote = NoRemote
  NoTree = NoTree
  NoCache = NoCache
  NoEntry = NoEntry
  NoAdd = NoAdd
  NoCommand = NoCommand
  NodeNames <- MCNames
  MetaNames <- MCMetaNames
  Locals <- MCRoots
  MaxKey = 2
  Contents <- MCContents
  Inside <- MCInside
  Directory = Directory
  NotFound = NotFound
  Refused = Refused
  Completed = Completed
  NoRequest = NoRequest
  SoleWriter = FALSE
  MaxEnds = 1
SPECIFICATION ApplicationsSpec
INVARIANTS
  ActsOnRegistry
CHECK_DEADLOCK FALSE
