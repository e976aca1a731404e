SPECIFICATION WindowSpec
CONSTANTS
    SeqnoModulus = 64
    MaxAge = 31
INVARIANTS NewestWins
