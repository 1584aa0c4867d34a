SPECIFICATION ListeningHostSpec
CONSTANTS
  None = None
  Packets = {p1, p2, p3, p4}
  HostMayReconfigure = FALSE
  CDC_TX_SIZE = 2
  TX_PACKET_LIMIT = 1
  FlushTimeout = 2
  MaxWrite = 3
  MaxBytes = 5
  ProgramPolls = FALSE
  ForcedJumps = FALSE
  MaxLost = 0
PROPERTIES StreamInOrder StreamDelivered CallsReturn TxInOrder
