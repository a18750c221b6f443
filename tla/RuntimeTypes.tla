---------------------------- MODULE RuntimeTypes ----------------------------
(***************************************************************************)
(* The lease and the control row keep their types under every transaction: *)
(* the lemmas that the theorems about DurableSubmit and those about        *)
(* AutopilotSupervisor share.                                              *)
(***************************************************************************)
EXTENDS RuntimeLease, RuntimeControl, TLAPS

LEMMA RenewLeaseTypes ==
    ASSUME LeaseTypeOK, NEW c \in Credentials, NEW t \in Nat, RenewLease(c, t)
    PROVE  lease' \in LeaseRow /\ issued' \in Nat
<1>1. t + Ttl \in Nat
  BY LeaseAssumption
<1> QED
  BY <1>1 DEF LeaseTypeOK, LeaseRow, RenewLease

LEMMA TakeLeaseTypes ==
    ASSUME LeaseTypeOK, NEW r \in Owners, NEW t \in Nat, TakeLease(r, t)
    PROVE  lease' \in LeaseRow /\ issued' \in Nat
           /\ NextCredentials(r) \in Credentials
  BY LeaseAssumption
  DEF LeaseTypeOK, LeaseRow, TakeLease, NextCredentials, Credentials

LEMMA ReleaseLeaseTypes ==
    ASSUME LeaseTypeOK, NEW c \in Credentials, ReleaseLease(c)
    PROVE  lease' \in LeaseRow
  BY DEF LeaseTypeOK, LeaseRow, ReleaseLease

LEMMA ControlTypes ==
    ASSUME ControlTypeOK, OperatorWrites
    PROVE  ControlTypeOK'
<1>1. PICK enabled \in BOOLEAN, stop \in {control.stop, TRUE} :
         SetRuntimeControl(enabled, stop)
  BY DEF OperatorWrites, PauseOrResume, RequestStop
<1>2. stop \in BOOLEAN /\ control.generation \in Nat
  BY <1>1 DEF ControlTypeOK, ControlRow
<1>3. NextControlGeneration(enabled, stop) \in Nat
  BY <1>2, SMT DEF NextControlGeneration
<1>4. control' \in ControlRow
  BY <1>1, <1>2, <1>3, Zenon DEF SetRuntimeControl, ControlRow
<1>5. controlWrites' \in Nat
  BY DEF ControlTypeOK, OperatorWrites
<1> QED
  BY <1>4, <1>5 DEF ControlTypeOK
=============================================================================
