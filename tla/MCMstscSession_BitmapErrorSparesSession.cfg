CONSTANTS
  MaxPdus <- MCMaxPdus
  PduKinds <- MCPduKinds
SPECIFICATION Spec
INVARIANT BitmapErrorSparesSession
