SPECIFICATION Spec
CONSTANTS
  Libraries <- MCLibraries
  Samples <- MCSamples
  Octets = {255}
  MaxPayload = 2
  MaxElements = 2
  Wires <- MCWires
  Tails <- MCTails
  SizeT = 65539
  Flows <- MCFlows
  Limit = 4
  MaxWrites = 2
  Muxed = "tlv_mux"
INVARIANTS TouchesItsHeader LoopEndsOnTime EncodedReadsBack DecodedWritesBack ChecksumsVerify FileReadsBack
