SPECIFICATION Spec
CONSTANTS
    Data = {d1, d2}
    None = None
    MaxI = 1
    MaxR = 1
    MaxWtx = 1
    MaxNack = 1
    MaxDsl = 0
INVARIANTS TypeOK NeverDeaf GivesUpLate
PROPERTIES ExactlyOnce Settled
