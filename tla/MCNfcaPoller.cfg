SPECIFICATION Spec
CONSTANTS
    CASCADE_1_UID_LEN = 2
    BITS_IN_BYTE = 2
    SDD_CT <- MCTag
    Uids <- MCUids
    IsoCards <- MCIsoCards
    MaxCards = 3
    Airs = {"clear", "weak", "deaf", "lossy"}
    RFAL_POLLER_DEVICES = 2
    BACKTRACKS = 2
    RATS_RETRIES = 1
    None = None
INVARIANTS TypeOK RealCards NoneTwice SleepKnown AllFound WeakFound OwnAts
PROPERTIES Ends
