CONSTANTS
  Width = 4
  Height = 3
  Events <- MCEvents
  MaxTransfers = 2
  UsizeBits = 8
SPECIFICATION Spec
INVARIANT TypeOK
INVARIANT BlitMemorySafe
INVARIANT BlitOkPaintsRectangle
