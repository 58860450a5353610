CONSTANTS
    Mode = "T4T"
    Cmd = {"RATS", "RATSDID", "PPS", "PPSDID", "PPSRATE", "HLTA", "IBLOCK",
           "CHAIN", "RNAK", "RETX", "DSL", "OTHER"}
    None = None
    FirstOnly = {"RATS", "RATSDID"}
    Noise = TRUE
    Hasty = TRUE
SPECIFICATION Spec
INVARIANTS TypeOK ActivatedConsistent AutoMatchesState
PROPERTIES SpeaksWhenSpokenTo
