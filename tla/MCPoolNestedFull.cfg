SPECIFICATION PoolSpec
CONSTANTS
  Workers = {w1, w2}
  Tasks <- NestedTasks
  Children <- NestedChildren
  MayThrow = {}
  Root = root
  c1 = c1
  c2 = c2
  t1 = t1
  t2 = t2
  root = root
PROPERTY Returns
CHECK_DEADLOCK FALSE
