\* One transaction's end wipes the PIN another one is using.
CONSTANTS
    Transactions = {t1, t2}
    Pins = {n1, n2}
    Unreadable = Unreadable
    NoPin = NoPin
    NoTransaction = NoTransaction
    MaxPrctlFailures = 0
SPECIFICATION Spec
INVARIANT PinHeldForTheTransaction
