SPECIFICATION Spec
CONSTANTS
  Member = {m1}
  Tier = {t1}
  NoTier = NoTier
  Rate = {1, 2}
  Amount = {1}
  DuesMonthsAhead = 1
  RateMonthsAhead = 1
  YearAhead = 1
  GridMonths = 2
  LastMonth = 2
  MaxNow = 1
  MaxRows = 3
CHECK_DEADLOCK FALSE
INVARIANTS
  WithdrawnRateFallsBack
  PaidThroughIsUnbroken
  ScreensAgree
PROPERTIES
  WaivedTakesNoMoney
