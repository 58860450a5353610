CONSTANTS
    Mode = "UL"
    Cmd = {"HLTA", "READ", "BAD"}
    None = None
    FirstOnly = {}
    Noise = FALSE
    Hasty = TRUE
SPECIFICATION FairSpec
PROPERTIES Rearm
