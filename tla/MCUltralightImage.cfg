CONSTANTS
    Bit <- MCBit
    Files <- MCFiles
    Factory <- MCFactory
    Addr <- MCAddr
    Ack = Ack
    Nak = Nak
    NoReply = NoReply
SPECIFICATION Spec
INVARIANTS TypeOK RollOverCurrent
PROPERTIES ReadOnlyPages OtpOnlySets IsUltralight
