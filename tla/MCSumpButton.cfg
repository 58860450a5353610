CONSTANTS
    STATES_LEN = 4
    UNIT = 2
    Probes <- MCProbes
    Samples <- MCSamples
    Low <- MCLow
    Masks <- MCMasks
    Values <- MCValues
    Counts <- MCCounts
    Channels <- MCChannels
    Stale <- MCStale
    Nothing = Nothing
SPECIFICATION FairSpec
PROPERTIES ButtonInterrupts
