SPECIFICATION Spec
CONSTANTS
  MaxInode = 8
  MaxOpenInfo = 5
  MaxXhr = 6
  MaxFile = 10
  CmdFiles <- MCCmdFiles
  FileIDs = {1, 2, 3}
  Server <- MCServer
  Preload <- MCPreload
  Archives <- MCArchives
  BlockSize = 2
  MaxBlocks = 9
  CacheLimit = 2
  RootEntries <- MCRootEntries
  CmdName = ".fscmd"
  MaxQueue = 2
  CmdNames = {"f", "n"}
  CmdIDs = {1}
  Guests <- MCGuests
  MaxSize = 2
INVARIANTS
  CountsAreUses
  SizesAccounted
  LoadedIsTheServers
  OpensEnd
  FaultsKnown
