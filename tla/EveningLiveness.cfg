\* One evening; the token with two clients; the bars walk of the sweep alone.
SPECIFICATION PartsSpec
CONSTANTS
  Sessions = {1}
  DayLength = 5
  Open = 1
  EquityClose = 1
  OptionClose = 2
  Deadline = 3
  CloseFifteen = 4
  None = None
  Hazards = {}
  Horizon = 15
  LastUpset = 5
  MaxSleeps = 1
  MaxCrashes = 0
  MaxFaults = 1
  Clients = {k1, k2}
  Spacing = 1
  MaxClock = 1
  MaxLogins = 2
  MaxRefreshes = 2
  MaxTroubles = 2
  NoToken = NoToken
  Unreadable = Unreadable
  LastSession = 2
  Lookback = 1
  Budget = 1
  Refused = {}
  Runs = {sweep}
  Backfills = {sweep}
  Nightly = sweep
  Nothing = Nothing
  MaxHitches = 1
INVARIANTS TokenSound
PROPERTIES EveningSeals RefreshSafe CaptureResumes BarsLand
CHECK_DEADLOCK FALSE
