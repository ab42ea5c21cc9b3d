CONSTANTS
  Features = {"socks5", "wireguard", "tor"}
  Urls <- MCUrls
  FileEntries <- MCFileEntries
  MaxEntries = 3
  NordServers <- MCNordServers
  NordCommands <- MCNordCommands
  SshCommands <- MCSshCommands
  OldFiles <- MCOldFiles
  MaxImports = 2
SPECIFICATION ImportSpec
CHECK_DEADLOCK FALSE
INVARIANTS EveryUsableServed CountriesShared StartedBeforeWritten ImportedServed
PROPERTIES OldEntriesKept
