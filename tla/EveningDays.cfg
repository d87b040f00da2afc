\* Two days of the evening; the watchdog; the bar import; the bars walk.
SPECIFICATION PartsSpec
CONSTANTS
  Sessions = {1, 2}
  DayLength = 6
  Open = 1
  EquityClose = 1
  OptionClose = 2
  Deadline = 3
  CloseFifteen = 4
  None = None
  Hazards = {}
  Horizon = 11
  LastUpset = 8
  MaxSleeps = 1
  MaxCrashes = 0
  MaxFaults = 0
  qa = qa
  qb = qb
  ca = ca
  ta = ta
  tb = tb
  Quotes = {qa, qb}
  Chains = {ca}
  Ticker <- TickerOf
  VendorClasses = {"http_401", "contracts_absent"}
  WriteClasses = {"ENOSPC"}
  Spanned = {tb}
  Leaving = {tb}
  Fails <- FailsOf
  Threshold = 2
  Slots = {2}
  k1 = k1
  k2 = k2
  vintage = vintage
  schwab = schwab
  Keys = {k1, k2}
  Sources = {vintage, schwab}
  Covers <- CoversOf
  Refetched = {schwab}
  Elsewhere = Elsewhere
  Absent = Absent
  MaxImports = 3
  MaxKills = 2
  MaxElsewhere = 1
  LastSession = 2
  Lookback = 1
  Budget = 1
  Refused = {}
  Runs = {sweep, hand}
  Backfills = {sweep}
  Nightly = sweep
  Nothing = Nothing
  MaxHitches = 1
INVARIANTS  DownIsPaged ImportSound BarsSound
PROPERTIES PagedOnce NothingReplaced
CHECK_DEADLOCK FALSE
