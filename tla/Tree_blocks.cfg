CONSTANTS
  Tokens = {x, y}
  Writers = {w1, w2}
  BlockSize = 1
  MinPrefixLen = 2
  MaxPrefixLen = 9
  MaxLen = 2
  NoBlock = noblock
SPECIFICATION TreeSpec
INVARIANTS FirstBlockMatches
SYMMETRY Symmetry
