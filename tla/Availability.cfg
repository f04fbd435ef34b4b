SPECIFICATION FairSpec
CONSTANTS
    Nil = Nil
    Handlers = {h1, h2}
    Ticker = ticker
    Debounces = {2, 3}
    MaxDelay = 1
    Horizon = 2
    ClockMax = 6
PROPERTIES FlickerNeverConfirmed ConfirmedStays PendingResolves ToldTheState
