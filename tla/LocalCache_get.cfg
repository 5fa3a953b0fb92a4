CONSTANTS
  small = small
  large = large
  Threads = {t1, t2}
  Keys = {a, b}
  EmptyKey = empty
  Values = {small, large}
  Size <- MCSize
  Compressed = {large}
  MaxSize = 2
  MaxCounter = 2
  NoEntry = noentry
SPECIFICATION Spec
PROPERTY GetReturnsStored
