\* Two attempts, two event types, one generation; three receipts in all,
\* those an older client left included, and one failing file operation.
CONSTANTS
    Attempts = {a1, a2}
    Types = {t1, t2}
    Gens = {g1}
    NoType = NoType
    NoGen = NoGen
    NoReceipt = NoReceipt
    MaxEvents = 3
    MaxIOErrors = 1
SPECIFICATION Spec
INVARIANT TypeOK
INVARIANT SequenceNeverReused
INVARIANT NoSequenceConflict
INVARIANT GapOnlyAfterIOError
PROPERTY ImplementsLedger
SYMMETRY SpoolSymmetry
