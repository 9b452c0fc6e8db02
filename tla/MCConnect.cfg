CONSTANTS
  Names <- MCNames
  BlockSet <- MCBlockSet
  MaxBlocks <- MCMaxBlocks
  LimitDeltas <- MCLimitDeltas
  MsgTypeValues <- MCMsgTypeValues
  FlagValues <- MCFlagValues
  MsgSizeValues <- MCMsgSizeValues
  AvailValues <- MCAvailValues
  ErrorCodeValues <- MCErrorCodeValues
  TransitionValues <- MCTransitionValues
  BlobLenValues <- MCBlobLenValues
SPECIFICATION Spec
\* The connection stops once a response is refused or the license is read.
CHECK_DEADLOCK FALSE
INVARIANT TypeOK
INVARIANT GccAcceptsExactlyWellFormed
INVARIANT LicenseAcceptsExactlySpecCases
INVARIANT ClientNameRoundTrips
INVARIANT ClientNameFitsField
