CONSTANTS
  mapped = mapped
  unmapped = unmapped
  Instrument <- MCInstrument
  ChannelsA <- MCChannelsA
  ChannelsB <- MCChannelsB
  StrayChannels <- MCStray
  ChannelOf <- MCChannelOf
  Conflation = TRUE
  SendMayFail = FALSE
  MaxSeq = 3
SPECIFICATION PubSpec
INVARIANTS
  FeedFaithful
  NoUnexplainedGap
  MirrorFeeds
  StatsAccount
PROPERTY ClosedIsSilent
CHECK_DEADLOCK FALSE
