SPECIFICATION MCSpec
CONSTANTS
  Tasks = {t1}
  Sources = {"main", "fork"}
  MaxVersion = 1
  Flights = {"f1", "f2", "f3"}
  Commands = {c1, c2}
  Snippets = {"s1", "s2"}
INVARIANTS
  IndexSound
  RecordedIsInstalled

  
