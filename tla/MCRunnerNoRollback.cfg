SPECIFICATION Spec
CONSTANTS
    a = a
    b = b
    c = c
    sq = sq
    w1 = w1
    w2 = w2
    w3 = w3
    w4 = w4
    w5 = w5
    w6 = w6
    w7 = w7
    w8 = w8
    NoMig = NoMig
    Effect <- MCEffect
    Mig <- PlainMig
    Program <- PlainProgram
    Records <- PlainRecords
    AtomicMig <- PlainMig
    CanRollbackDDL = FALSE
    SupportsTransactions = TRUE
    Proc = {1, 2}
    Dirs <- Both
    FakeAllowed = FALSE
    MaxRuns = 4
    MaxFaults = 2
INVARIANTS RecordedIsApplied OperationAllOrNothing
CONSTRAINT OneWay
