SPECIFICATION TimelySpec
CONSTANTS
  even = even
  odd = odd
  twin = twin
  empty = empty
  huge = huge
  Names = {even, odd, empty, huge}
  Size <- MCSize
  DevPath <- MCDevPath
  PacketSize = 2
  MaxFileSize = 4
  Retries = 2
  FdMax = 1
  Handshakes = 2
  MaxQueue = 3
PROPERTIES Delivery
