SPECIFICATION Spec
CONSTANTS
    Nil = Nil
    FinishedRecentlyTTL = 3
    FinishedRecentlyLowReadings = 3
    MaxIntegrationGap = 1
    Profiles <- ActivityProfiles
    Payloads <- ActivityPayloads
    MaxLag = 2
    MaxSkew = 1
    Horizon = 5
    ClockMax = 9
    MeterMax = 0
VIEW ActivityView
INVARIANTS RuntimeInv
PROPERTIES SustainedEdges
