SPECIFICATION SerialSpec
CONSTANTS
  None = None
  Packets = {p1, p2, p3}
  HostMayReconfigure = TRUE
  CDC_TX_SIZE = 2
  TX_PACKET_LIMIT = 1
  FlushTimeout = 1
  MaxWrite = 3
  MaxBytes = 4
  ProgramPolls = TRUE
  ForcedJumps = TRUE
  MaxLost = 1
SYMMETRY PacketSymmetry
INVARIANTS SerialTypeOK HoldsOnlyItsTwo WriterOwnsPacket
CHECK_DEADLOCK FALSE
