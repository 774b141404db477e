CONSTANTS
  mapped = mapped
  unmapped = unmapped
  Instrument <- MCInstrument
  ChannelsA <- MCChannelsA
  ChannelsB <- MCChannelsB
  StrayChannels <- MCStray
  ChannelOf <- MCChannelOf
  Conflation = FALSE
  SendMayFail = FALSE
  MaxSeq = 2
SPECIFICATION PubSpec
INVARIANT
  EndOfStreamSent
CHECK_DEADLOCK FALSE
