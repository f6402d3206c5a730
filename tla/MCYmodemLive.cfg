SPECIFICATION FairSpec
CONSTANTS
  even = even
  odd = odd
  twin = twin
  empty = empty
  huge = huge
  Names = {odd}
  Size <- MCSize
  DevPath <- MCDevPath
  PacketSize = 2
  MaxFileSize = 4
  Retries = 2
  FdMax = 1
  Handshakes = 1
  MaxQueue = 1
PROPERTIES HostEnds ShellReturns
