SPECIFICATION Spec
CONSTANTS
    Nil = Nil
    Calls = {c1}
    RecordIDs = {c1}
    LogSize = 2
    CallTTL = 2
    Lateness = 0
    ClockMax = 6
    Devices = {"kettle"}
    Discovered = {}
    ClassOf <- Class
    Handlers = {h1}
    Ticker = ticker
    QuietAfter = 1
    EmptyAfter = 2
    SleepingAfter = 1
    NightHours = {2, 3}
    MaxMessages = 3
    Horizon = 3
    MaxDelay = 1

PROPERTIES EmptyIsJustified ModeGaps Converges ZombiesEnd KeepsRecent
