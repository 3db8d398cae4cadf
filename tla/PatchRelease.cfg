SPECIFICATION FairSpec
CONSTANTS
  Versions = {100, 101, 110}
  First = 100
  Branches = {"main", "support"}
  Line <- MCLine
  Variants = {1}
  MaxDrafts <- MCOneDraft
  MaxCommits <- MCNoCommits
  MaxFailures = 0
  MaxHasty = 0
PROPERTY PatchReleased
