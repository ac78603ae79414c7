SPECIFICATION Spec
CONSTANTS
  l1 = l1
  l2 = l2
  c1 = c1
  c2 = c2
  gen1 = gen1
  gen2 = gen2
  rank = rank
  v1 = v1
  v2 = v2
  p1 = p1
  None = None
  Last = 3
  Loop = {l1, l2}
  ITERATOR_CACHE_SIZE = 2
  After = 0
  MaxChanges = 2
  Client = {c1, c2}
  Generative = {gen1, gen2}
  Reranker = {rank}
  Vector = {v1, v2}
  Property = {p1}
  MaxVersion = 2
  s1 = s1
  s2 = s2
  i1 = i1
  i2 = i2
  i3 = i3
  Shard = {s1, s2}
  Item = {i1, i2, i3}
  Batch = {i1, i2}
  how_many_failures = 2
  Parts = {"cursor", "schema", "indexing"}
CHECK_DEADLOCK FALSE
INVARIANTS TypeOK EachOnce OneOfAKind IndexedOnReturn
PROPERTIES LostOnlyToOverlap
