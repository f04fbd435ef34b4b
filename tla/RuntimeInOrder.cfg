SPECIFICATION FairSpec
CONSTANTS
    Nil = Nil
    FinishedRecentlyTTL = 2
    FinishedRecentlyLowReadings = 3
    MaxIntegrationGap = 2
    Profiles <- EnergyProfiles
    Payloads <- EnergyPayloads
    MaxLag = 0
    MaxSkew = 0
    Horizon = 3
    ClockMax = 5
    MeterMax = 2
INVARIANTS CounterFaithful IntegratedWithinCycle
PROPERTIES LedgerSpec DecayIsJustified FinishedRecentlyEnds
