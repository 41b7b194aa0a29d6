\* COUNT_DONE as in the source.
CONSTANT COUNT_DONE = 200
SPECIFICATION FairSpec
INVARIANTS Inv InTurn NoLostSignal EndsOnePast
PROPERTY Terminates
