CONSTANTS
    Mode = "UL"
    Cmd = {"RATS", "HLTA", "READ", "CWRITE", "DATA", "BAD"}
    None = None
    FirstOnly = {"RATS"}
    Noise = TRUE
    Hasty = TRUE
SPECIFICATION Spec
INVARIANTS NoEmptyCommand StatusDefined
PROPERTIES ReplyInSession
