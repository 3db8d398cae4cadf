SPECIFICATION Spec
CONSTANTS
  Versions = {100, 101, 110}
  First = 100
  Branches = {"main", "support"}
  Line <- MCLine
  Variants = {1, 2}
  MaxDrafts <- MCDrafts
  MaxCommits <- MCCommits
  MaxFailures = 1
  MaxHasty = 1
INVARIANTS
  ListedIsAvailable
  FromLastDraft
  NeverTurnedDown
PROPERTIES
  OffersNoOlder
