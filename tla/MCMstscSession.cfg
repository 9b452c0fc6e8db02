CONSTANTS
  MaxPdus <- MCMaxPdus
  PduKinds <- MCPduKinds
SPECIFICATION Spec
INVARIANT TypeOK
INVARIANT AtMostOneReadAfterShutdown
PROPERTY SessionEventuallyEnds
PROPERTY ServerCloseEndsSession
