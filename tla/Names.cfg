SPECIFICATION Spec
CONSTANTS
  Threads = {t1, t2}
  taboo = taboo
  WhiteList = white
  ZoneCities = cities
  CityLocales = locales
  Tables = {taboo, white, cities, locales}
  Entries = {e1, e2}
  Marks = {taboo, white, cities}
  Retries = {cities, locales}
  Empties = {taboo}
  Nobody = nobody
  Locales = {fy, sc}
  Items = {n1, n2}
  None = None
  Thrown = Thrown
  TabooOf <- MCTabooOf
  Faults = {"fill", "parse"}
  MaxFaults = 1
  MaxCalls = 3
SYMMETRY ThreadSymmetry
CHECK_DEADLOCK FALSE
INVARIANTS
  OnceComplete
  NamesSettle
  AnswerOfAsked
PROPERTIES
  StableOnceMarked
