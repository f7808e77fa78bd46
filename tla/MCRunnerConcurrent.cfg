SPECIFICATION Spec
CONSTANTS
    a = a
    b = b
    c = c
    sq = sq
    w1 = w1
    w2 = w2
    w3 = w3
    w4 = w4
    w5 = w5
    w6 = w6
    w7 = w7
    w8 = w8
    NoMig = NoMig
    Effect <- MCEffect
    Mig <- MCMig
    Program <- MCProgram
    Records <- MCRecords
    AtomicMig <- MCAtomic
    CanRollbackDDL = TRUE
    SupportsTransactions = TRUE
    Proc = {1, 2}
    Dirs <- Forwards
    FakeAllowed = FALSE
    MaxRuns = 5
    MaxFaults = 2
PROPERTIES EveryRunEnds ImplementsHistory
