SPECIFICATION Spec
CONSTANTS
  Threads = {t1}
  Users = {u1, u2}
  Operations = {"SetSystemLanguage", "SetSystemRegion", "SetSystemLocale", "Set24HourClock"}
  ExtKeys = {nu}
  ExtValues = {arab, latn}
  LanguageKeys = {nu}
  CustKeys = {}
  InitialHours = {HourAuto}
  BackgroundCallers = FALSE
  Hasty = FALSE
  Faults = {"param"}
  MaxFaults = 1
  MaxOps = 6
  ar = ar  en = en  EG = EG  DE = DE
  nu = nu  mu = mu  nl = nl  arab = arab  latn = latn
  Hour24 = Hour24  Hour12 = Hour12  HourAuto = HourAuto  None = None
  NumberKey = nu
  Languages <- MCLanguages
  Regions <- MCRegions
  Regions24 <- MCRegions24
  LanguageValues <- MCLanguageValues
  LocalDigit <- MCLocalDigit
  CustValues <- MCCustValues
SYMMETRY UserSymmetry
CHECK_DEADLOCK FALSE
INVARIANTS
  AccountsSaved
  MirrorsForeground
  ForegroundTold
PROPERTIES
  RefinesUserSettings
