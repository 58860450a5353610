SPECIFICATION Spec
CONSTANTS
    Data <- MCData
    Answers <- MCAnswers
    None = None
    Junk = Junk
    BlockSize = 2
    IndexRange = 5
    MaxLen = 5
    MaxPieces = 2
    MaxAsked = 2
INVARIANTS InOrder Delivered Shown
PROPERTIES Ends
