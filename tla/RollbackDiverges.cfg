SPECIFICATION Spec
CONSTANTS
  Threads = {t1}
  Users = {u1}
  Operations = {"SetSystemLanguage"}
  ExtKeys = {nu}
  ExtValues = {arab, latn}
  LanguageKeys = {nu}
  CustKeys = {}
  InitialHours = {HourAuto}
  BackgroundCallers = FALSE
  Hasty = FALSE
  Faults = {"event"}
  MaxFaults = 1
  MaxOps = 2
  ar = ar  en = en  EG = EG  DE = DE
  nu = nu  mu = mu  nl = nl  arab = arab  latn = latn
  Hour24 = Hour24  Hour12 = Hour12  HourAuto = HourAuto  None = None
  NumberKey = nu
  Languages <- MCLanguages
  Regions <- MCRegions
  Regions24 <- MCRegions24
  LanguageValues <- MCLanguageValues
  LocalDigit <- MCLocalDigit
  CustValues <- MCCustValues
CHECK_DEADLOCK FALSE
INVARIANTS
  LanguageAgrees
