-------------------------- MODULE CredentialsProofs --------------------------
(***************************************************************************)
(* The invariants of Credentials for every number of overlapping           *)
(* transactions, every PIN and every bound on failing prctl calls.         *)
(***************************************************************************)
EXTENDS Credentials, TLAPS

USE PinAssumption, TransactionAssumption, FailureAssumption

(* A prctl call leaves the flag a Boolean and the bound respected, and does   *)
(* what was asked unless it fails.                                            *)
LEMMA SetDumpableSets ==
    ASSUME TypeOK, NEW value \in BOOLEAN, SetDumpable(value)
    PROVE  /\ dumpable' \in BOOLEAN /\ faulty' \in BOOLEAN
           /\ failures' \in 0 .. MaxPrctlFailures
           /\ ~faulty' => dumpable' = value
<1>1. failures' \in 0 .. MaxPrctlFailures
    BY DEF TypeOK, SetDumpable
<1>2. dumpable' \in BOOLEAN /\ faulty' \in BOOLEAN /\ (~faulty' => dumpable' = value)
    BY Zenon DEF TypeOK, SetDumpable
<1> QED BY <1>1, <1>2

(* The initial states satisfy the invariant.                                  *)
LEMMA InitInv == Init => Inv
<1> SUFFICES ASSUME Init PROVE Inv
    OBVIOUS
<1>1. TypeOK
  <2>1. failures \in 0 .. MaxPrctlFailures /\ identifiable_depth \in Nat
      BY DEF Init
  <2>2. /\ options \in CommandLine /\ portal \in BOOLEAN /\ file \in Pins \cup {Unreadable}
        /\ hardened \in BOOLEAN /\ dumpable \in BOOLEAN /\ faulty \in BOOLEAN
      BY Zenon DEF Init
  <2>3. /\ adapter \in [Transactions -> Adapters \cup {"unborn", "released"}]
        /\ answer \in [Transactions -> Pins \cup {"none", "declined"}]
      BY DEF Init
  <2>4. /\ phase \in {"off", "running", "exited"}
        /\ pin \in Pins \cup {NoPin}
        /\ acquiring \in Transactions \cup {NoTransaction}
        /\ reader \in Transactions \cup {NoTransaction}
      BY DEF Init
  <2> QED BY <2>1, <2>2, <2>3, <2>4 DEF TypeOK
<1>2. PinHasALiveReader /\ AcquiringIsCounted
    BY DEF Init, PinHasALiveReader, AcquiringIsCounted
<1>3. IdentifiableOnlyWhileAcquiring
    BY DEF Init, IdentifiableOnlyWhileAcquiring
<1> QED BY <1>1, <1>2, <1>3 DEF Inv

(* Hardening and configuring happen before any session and any interval.      *)
LEMMA LaunchKeeps == Inv /\ Launch => Inv'
<1> SUFFICES ASSUME Inv, Launch PROVE Inv'
    OBVIOUS
<1> USE DEF Inv, Launch, webauth_harden, external, buffer
<1>1. /\ dumpable' \in BOOLEAN /\ faulty' \in BOOLEAN
      /\ failures' \in 0 .. MaxPrctlFailures
    BY SetDumpableSets DEF TypeOK, LeaveDumpable
<1>2. TypeOK'
    BY <1>1 DEF TypeOK
<1>3. PinHasALiveReader'
    BY DEF PinHasALiveReader
<1>4. AcquiringIsCounted' /\ acquiring' = NoTransaction
    BY DEF AcquiringIsCounted
<1>5. IdentifiableOnlyWhileAcquiring'
    BY <1>4 DEF IdentifiableOnlyWhileAcquiring
<1> QED BY <1>2, <1>3, <1>4, <1>5

(* A new session takes a provider and nothing else.                           *)
LEMMA NewSessionKeeps ==
    ASSUME Inv, NEW t \in Transactions, NewSession(t)
    PROVE  Inv'
<1> USE DEF Inv, NewSession, protection, external, buffer
<1>1. TypeOK'
    BY DEF TypeOK, webauth_cert_adapter_select, Adapters
<1>2. PinHasALiveReader'
    BY DEF TypeOK, PinHasALiveReader
<1>3. IdentifiableOnlyWhileAcquiring' /\ AcquiringIsCounted'
    BY DEF IdentifiableOnlyWhileAcquiring, AcquiringIsCounted
<1> QED BY <1>1, <1>2, <1>3

(* The interval opens with the constructor.                                   *)
LEMMA AcquireKeeps ==
    ASSUME Inv, NEW t \in Transactions, portal_acquire(t)
    PROVE  Inv'
<1> USE DEF Inv, portal_acquire, webauth_harden_identifiable_begin, external, buffer, Idle
<1>1. /\ dumpable' \in BOOLEAN /\ faulty' \in BOOLEAN
      /\ failures' \in 0 .. MaxPrctlFailures
      /\ hardened' /\ ~faulty' => dumpable' = TRUE
    BY SetDumpableSets DEF AcquiringIsCounted, TypeOK, LeaveDumpable
<1>2. AcquiringIsCounted' /\ acquiring' # NoTransaction
    BY DEF AcquiringIsCounted
<1>3. TypeOK'
    BY <1>1, <1>2 DEF TypeOK, AcquiringIsCounted
<1>4. IdentifiableOnlyWhileAcquiring'
    BY <1>1, <1>2 DEF IdentifiableOnlyWhileAcquiring
<1>5. PinHasALiveReader'
    BY DEF PinHasALiveReader
<1> QED BY <1>2, <1>3, <1>4, <1>5

(* ... and closes with it.                                                    *)
LEMMA AcquiredKeeps == Inv /\ portal_acquired => Inv'
<1> SUFFICES ASSUME Inv, portal_acquired PROVE Inv'
    OBVIOUS
<1> USE DEF Inv, portal_acquired, webauth_harden_identifiable_end, external, buffer
<1>1. identifiable_depth = 1 /\ identifiable_depth' = 0
    BY DEF AcquiringIsCounted
<1>2. /\ dumpable' \in BOOLEAN /\ faulty' \in BOOLEAN
      /\ failures' \in 0 .. MaxPrctlFailures
      /\ hardened' /\ ~faulty' => dumpable' = FALSE
    BY <1>1, SetDumpableSets DEF TypeOK, LeaveDumpable
<1>3. AcquiringIsCounted'
    BY <1>1 DEF AcquiringIsCounted
<1>4. TypeOK'
    BY <1>1, <1>2 DEF TypeOK
<1>5. IdentifiableOnlyWhileAcquiring'
    BY <1>2 DEF IdentifiableOnlyWhileAcquiring
<1>6. PinHasALiveReader'
    BY DEF PinHasALiveReader
<1> QED BY <1>3, <1>4, <1>5, <1>6

(* The buffer is filled only for the session that asks.                       *)
LEMMA PinRequestKeeps ==
    ASSUME Inv, NEW t \in Transactions, OnPinRequested(t)
    PROVE  Inv'
<1> USE DEF Inv, OnPinRequested, pkcs11_pin, protection, external
<1>1. pin' \in Pins \cup {NoPin} /\ reader' \in Transactions \cup {NoTransaction}
    BY DEF TypeOK
<1>2. TypeOK'
    BY <1>1 DEF TypeOK
<1>3. PinHasALiveReader'
    BY DEF TypeOK, PinHasALiveReader
<1>4. IdentifiableOnlyWhileAcquiring' /\ AcquiringIsCounted'
    BY DEF IdentifiableOnlyWhileAcquiring, AcquiringIsCounted
<1> QED BY <1>2, <1>3, <1>4

(* The session that filled the buffer does not end without wiping it.         *)
LEMMA TeardownKeeps ==
    ASSUME Inv, NEW S \in SUBSET Transactions, Teardown(S), Idle,
           phase' \in {"running", "exited"}
    PROVE  Inv'
<1> USE DEF Inv, Teardown, Release, protection, external, Idle
<1>1. TypeOK'
    BY DEF TypeOK, Adapters
<1>2. PinHasALiveReader'
    BY DEF TypeOK, PinHasALiveReader
<1>3. IdentifiableOnlyWhileAcquiring' /\ AcquiringIsCounted'
    BY DEF IdentifiableOnlyWhileAcquiring, AcquiringIsCounted
<1> QED BY <1>1, <1>2, <1>3

(* Every step keeps the invariant.                                            *)
LEMMA StepInv == Inv /\ [Next]_vars => Inv'
<1> SUFFICES ASSUME Inv, [Next]_vars PROVE Inv'
    OBVIOUS
<1>1. CASE Outside
    BY <1>1 DEF Outside, protection, buffer, Inv, TypeOK, PinHasALiveReader,
                IdentifiableOnlyWhileAcquiring, AcquiringIsCounted
<1>2. CASE Launch
    BY <1>2, LaunchKeeps
<1>3. CASE portal_acquired
    BY <1>3, AcquiredKeeps
<1>4. CASE Shutdown
    BY <1>4, TeardownKeeps DEF Shutdown
<1>5. ASSUME NEW t \in Transactions, NewSession(t) PROVE Inv'
    BY <1>5, NewSessionKeeps
<1>6. ASSUME NEW t \in Transactions, portal_acquire(t) PROVE Inv'
    BY <1>6, AcquireKeeps
<1>7. ASSUME NEW t \in Transactions, OnPinRequested(t) PROVE Inv'
    BY <1>7, PinRequestKeeps
<1>8. ASSUME NEW t \in Transactions, Finish(t) PROVE Inv'
    BY <1>8, TeardownKeeps DEF Finish, Idle
<1>9. CASE UNCHANGED vars
    BY <1>9 DEF vars, protection, external, buffer, Inv, TypeOK, PinHasALiveReader,
                IdentifiableOnlyWhileAcquiring, AcquiringIsCounted
<1> QED BY <1>1, <1>2, <1>3, <1>4, <1>5, <1>6, <1>7, <1>8, <1>9 DEF Next

(* No PIN outlives the session it was read for, and a hardened process is     *)
(* identifiable exactly while a portal certificate is constructed, but for    *)
(* the stretch a failed prctl call leaves, however many transactions overlap. *)
THEOREM CredentialSafety ==
    Spec => [](TypeOK /\ PinHasALiveReader /\ IdentifiableOnlyWhileAcquiring)
<1>1. Inv => TypeOK /\ PinHasALiveReader /\ IdentifiableOnlyWhileAcquiring
    BY DEF Inv
<1> QED BY <1>1, InitInv, StepInv, PTL DEF Spec

(* The first half by itself.                                                  *)
THEOREM PinReaderIsAlive == Spec => []PinHasALiveReader
<1>1. Inv => PinHasALiveReader
    BY DEF Inv
<1> QED BY <1>1, InitInv, StepInv, PTL DEF Spec

(* The second half by itself.                                                 *)
THEOREM ProtectedOutsideIntervals == Spec => []IdentifiableOnlyWhileAcquiring
<1>1. Inv => IdentifiableOnlyWhileAcquiring
    BY DEF Inv
<1> QED BY <1>1, InitInv, StepInv, PTL DEF Spec

(* Every variable keeps its type, and an answered PIN is one that was read.   *)
THEOREM TypeCorrect == Spec => []TypeOK
<1>1. Inv => TypeOK
    BY DEF Inv
<1> QED BY <1>1, InitInv, StepInv, PTL DEF Spec
=============================================================================
