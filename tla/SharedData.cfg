SPECIFICATION MCSpec
CONSTANTS
  Shells = {s1, s2}
  Hosts = {h1, h2}
  Primary = primary
  MaxVersion = 4
  MaxId = 2
  Versions = {1, 2, 3}
  Prereleases = {2}
  URLs = {"main", "test"}
  Feeds <- MCFeeds
SYMMETRY Symmetry

  
PROPERTIES
  AddsOnlyItself
  VoteBeforePriority
\* The bound on the versions ends the changes of the replica set.
CHECK_DEADLOCK FALSE
