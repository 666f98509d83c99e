SPECIFICATION Spec
CONSTANTS
    s1 = s1
    s2 = s2
    k1 = k1
    k2 = k2
    Sharers <- MCSharers
    Talker <- MCTalker
    Found <- MCFound
    ReadSize = 3
    WriteSize = 2
    ChunkSize = 2
    Sizes = {z1, z2}
    MaxTyped = 3
CONSTRAINT OneAtATime
CHECK_DEADLOCK FALSE
INVARIANTS
    KeysKept
    ReadyMeansShared
    OutputInOrder
    SizeArrives
