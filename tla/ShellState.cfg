SPECIFICATION MCSpec
CONSTANTS
  c1 = c1
  c2 = c2
  Cursors = {c1, c2}
  Docs <- MCDocs
  BatchSize = 2
  NetBatch = 2
  Conns = {sp1, sp2}
  Default = sp1
  Fetches = {f1, f2, f3}
  Lists = {l1, l2}
  MaxVersion = 1

  
PROPERTIES
  ItTerminates
  CachesOfOwn
