SPECIFICATION Spec
CONSTANTS
  None = None
  Packets = {p1, p2, p3, p4, p5}
  HostMayReconfigure = TRUE
SYMMETRY PacketSymmetry
INVARIANTS SweepFreesTheRest TypeOK Exclusive TxStateAgrees
PROPERTIES NoPacketVanishes OnlyForgetMiscounts OnlyBusMisaligns
