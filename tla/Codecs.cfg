SPECIFICATION Spec

CONSTANTS
  Seeds <- MCSeeds
  Symbols <- MCSymbols
  MaxLen <- MCMaxLen

INVARIANT FramesDecode
INVARIANT EnrolledAppAccepted
INVARIANT PicturesAnswered
INVARIANT ConfigurationRead
PROPERTY JsonTextAccepted
PROPERTY JsonRoundTrip
PROPERTY QrReadable
PROPERTY BinaryRoundTrip
PROPERTY BinaryEncodingsRead
PROPERTY PatchesReach

CHECK_DEADLOCK FALSE
