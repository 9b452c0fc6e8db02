CONSTANTS
  Width32 = 4
  Height32 = 2
  PixelValues <- MCPixelValues
  Width16 = 4
  Height16 = 3
  Orders <- MCOrders
  MaxOrders = 0
  MaxCut = 2
  FuzzBytes <- MCFuzzBytes
  FuzzLen16 = 0
  FuzzLen32 = 2
SPECIFICATION Spec
PROPERTY ImplementsDecompress
