CONSTANTS
  Width = 4
  Height = 3
  Orders <- MCOrdersZeroBackground
  MaxOrders = 4
  MaxCut = 0
SPECIFICATION Spec
INVARIANT MatchesSpecDecoder
