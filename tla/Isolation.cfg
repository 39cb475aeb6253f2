SPECIFICATION Spec
CONSTANTS
  Threads = {t1}
  Users = {u1, u2}
  Operations = {"SetSystemLanguage", "SetExtParam", "Set24HourClock"}
  ExtKeys = {nu}
  ExtValues = {latn}
  LanguageKeys = {nu}
  CustKeys = {}
  InitialHours = {HourAuto}
  BackgroundCallers = TRUE
  Hasty = TRUE
  Faults = {"param", "load", "prefs", "event", "account", "kill"}
  MaxFaults = 1
  MaxOps = 4
  ar = ar  en = en  EG = EG  DE = DE
  nu = nu  mu = mu  nl = nl  arab = arab  latn = latn
  Hour24 = Hour24  Hour12 = Hour12  HourAuto = HourAuto  None = None
  NumberKey = nu
  Languages <- MCLanguages
  Regions <- MCRegions
  Regions24 <- MCRegions24
  LanguageValues <- MCOneLanguageValue
  LocalDigit <- MCNoLocalDigit
  CustValues <- MCOneCustValue
SYMMETRY UserSymmetry
CHECK_DEADLOCK FALSE
INVARIANTS
  TypeOK
PROPERTIES
  UserIsolation
