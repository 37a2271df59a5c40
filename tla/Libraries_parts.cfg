\* Schemas, values and messages as the module gives them; a file of four blocks, one of them
\* empty, in chunks of any size, with codecs that fail; ten values for the encoder, two of
\* them invalid.  Two server processes, one after the other, crashing, exiting, stopped and
\* restarted by commands and by the program itself: all of them may be dead in the end.
SPECIFICATION LibrariesSpec
CONSTANTS
  Named <- MCNamed
  Letters <- MCLetters
  MaxInt = 33554431
  MaxLong = 268435456
  Samples <- MCSamples
  Readers <- MCReaders
  Lots <- MCLots
  Longs <- MCLongs
  Exchanges <- MCExchanges
  Schemas <- MCSchemaSet
  Protocols <- MCProtocols
  LogicalTypes <- MCLogicalTypes
  Counts <- MCCounts
  HeaderSize = 2
  BlockSize = 2
  MayFail = TRUE
  Sizes <- MCSizes
  Invalid = {3, 8}
  Threshold = 3
  CodecFails = TRUE
  Writes <- MCWrites
  Indices = {0, 1, 2, 3, 4}
  p1 = p1
  p2 = p2
  Procs = {p1, p2}
  NoProc = NoProc
  MaxStarts = 3
  Overlap = FALSE
  DropsInWindow = FALSE
  UserStops = TRUE
INVARIANTS
  LibrariesTypeOK
  StreamsKeepOrder
  ServerIsRecorded
PROPERTIES
  EncodingsExact
  ResolverSound
  CombinedTakesAll
  AdaptersAgree
  SchemasExact
  QueueImplements
  FilesEnd
  RestartComesBack
  CommandsObeyed
CHECK_DEADLOCK FALSE
