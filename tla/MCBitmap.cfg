CONSTANTS
  Width32 = 4
  Height32 = 2
  PixelValues <- MCPixelValues
  Width16 = 4
  Height16 = 3
  Orders <- MCOrders
  MaxOrders = 3
  MaxCut = 1
  FuzzBytes <- MCFuzzBytes
  FuzzLen16 = 3
  FuzzLen32 = 0
SPECIFICATION Spec
INVARIANT TypeOK
INVARIANT Rgb32RoundsChannels
PROPERTY ImplementsDecompress
