CONSTANTS
  ByteBase = 8
  Sync0 = 5
  Sync1 = 6
  MaxLength = 4
  Profiles = {1, 2}
  CrcMode = "auto"
  NamedProfile = 2
  Crc <- MCCrc
  ReadSize = 5
  InfoMsgId = 1
  DataMsgId = 2
  InfoPayloadSize = 0
  DataPayloadSize = 2
  Noise <- MCNoise
  Transmissions <- MCTransmissions
SPECIFICATION FairSpec
INVARIANTS
  EveryByteAccounted
  BufferBounded
  NoStaleBytes
PROPERTIES
  DeliversTheStream
  PromisedFramesDelivered
