\* Overlapping transactions share one provider, one PIN buffer and one dumpable flag.
CONSTANTS
    Transactions = {t1, t2, t3}
    Pins = {n1, n2}
    Unreadable = Unreadable
    NoPin = NoPin
    NoTransaction = NoTransaction
    MaxPrctlFailures = 1
SPECIFICATION Spec
SYMMETRY Symmetric
INVARIANTS
    TypeOK
    PinHasALiveReader
    IdentifiableOnlyWhileAcquiring
