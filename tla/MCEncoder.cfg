\* Handles of every type, up to four at a time, with one failing call; an
\* encoder with four frames, and an input queue of two.
\* Types of 10, 5 and 3 bits instead of 32, 16 and 8.
CONSTANTS
  MaxHeld = 4
  MaxFaults = 1
  QueueDepth = 2
  MaxFrames = 4
  MaxWaits = 3
  U32Size = 1024
  U16Size = 32
  U8Size = 8
  Kilo = 16
  MicrosPerMilli = 3
  ClipByte = {0, 1, 2}
  MaxNalBytes = 3
  MaxNals = 5

SPECIFICATION Spec
INVARIANTS
  HeldObjectsExist
  ObjectsFollowHandles
  NoErrorWithoutFault
  EncoderStaysReady
  StreamIsOfItsFrame
  BufferSizesFit
  RateReachesEncoder
  TimeoutsKept
  ClipSplits
