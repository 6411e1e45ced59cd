SPECIFICATION Spec
CONSTANTS
  Task = {t1, t2, t3}
  Site <- Sites
  Day = {1, 2}
  Word <- Words
  Number = {"80", "443", "21", "22", "8080", "90"}
  MaxFinish = 2
SYMMETRY Symmetry
CHECK_DEADLOCK FALSE
INVARIANTS
  OwnFinish
  ListedHasStart
  UrlParsed
  AddressIsHost
  UnionIdIsSite
