CONSTANTS
    Mode = "T4T"
    Cmd = {"RATS", "PPS", "PPSDID", "HLTA", "IBLOCK", "CHAIN", "RNAK", "RETX", "DSL", "OTHER"}
    None = None
    FirstOnly = {"RATS"}
    Noise = TRUE
    Hasty = FALSE
SPECIFICATION FairSpec
PROPERTIES Rearm Answered Served
