SPECIFICATION HistorySpec
CONSTANTS
  Threads = {t1}
  Users = {u1, u2}
  Operations = {"SetSystemLanguage", "SetExtParam", "Set24HourClock"}
  ExtKeys = {nu}
  ExtValues = {latn}
  LanguageKeys = {nu}
  CustKeys = {}
  InitialHours = {HourAuto}
  BackgroundCallers = FALSE
  Hasty = FALSE
  Faults = {"param", "load", "open", "prefs", "config", "event", "account", "kill"}
  MaxFaults = 2
  MaxOps = 5
  ar = ar  en = en  EG = EG  DE = DE
  nu = nu  mu = mu  nl = nl  arab = arab  latn = latn
  Hour24 = Hour24  Hour12 = Hour12  HourAuto = HourAuto  None = None
  NumberKey = nu
  Languages <- MCLanguages
  Regions = {DE}
  Regions24 = {DE}
  LanguageValues <- MCOneLanguageValue
  LocalDigit <- MCNoLocalDigit
  CustValues <- MCOneRegionValue
SYMMETRY UserSymmetry
CHECK_DEADLOCK FALSE
INVARIANTS
  SwitchPutsRight
