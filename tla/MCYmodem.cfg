SPECIFICATION Spec
CONSTANTS
  even = even
  odd = odd
  twin = twin
  empty = empty
  huge = huge
  Names = {even, twin, odd}
  Size <- MCSize
  DevPath <- MCDevPath
  PacketSize = 2
  MaxFileSize = 4
  Retries = 2
  FdMax = 2
  Handshakes = 1
  MaxQueue = 2
INVARIANTS TypeOK DeliveredOnSuccess PrefixWhileReceiving DescriptorIsOpen TransferInv
PROPERTIES ImplementsFileTransfer
