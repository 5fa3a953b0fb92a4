CONSTANTS
  small = small
  large = large
  Threads = {t1, t2}
  Keys = {a, b}
  EmptyKey = empty
  Values = {large}
  Size <- MCLargeSize
  Compressed = {large}
  MaxSize = 4
  MaxCounter = 4
  NoEntry = noentry
SPECIFICATION FairSpec
INVARIANTS NoLostEviction EntriesNotOverstated
PROPERTY EvictionCompletes
