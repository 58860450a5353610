CONSTANTS
    Mode = "UL"
    Cmd = {"HLTA", "READ", "CWRITE", "DATA", "BAD"}
    None = None
    FirstOnly = {}
    Noise = FALSE
    Hasty = FALSE
SPECIFICATION Spec
INVARIANTS PowerOffClean
