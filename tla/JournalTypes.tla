---------------------------- MODULE JournalTypes ----------------------------
(***************************************************************************)
(* The orders table keeps its type under every method of the journal: the  *)
(* lemmas that the theorems about DurableSubmit and those about            *)
(* DurableCancel share.                                                    *)
(***************************************************************************)
EXTENDS PaperBroker, RuntimeTypes

\* Every word the broker can say becomes a state of an attempted order, and a
\* terminal one exactly when the broker has ended the order.
LEMMA StatusMapping ==
    ASSUME NEW obs \in ObservationRecord
    PROVE  /\ StateFromBrokerStatus(obs) \in AttemptedStates
           /\ StateFromBrokerStatus(obs) \in TerminalStates <=> IsFinal(obs)
<1>1. obs.status \in BrokerStatuses
  BY DEF ObservationRecord
<1>2. /\ NormalizedStatus(obs.status) \in AttemptedStates
      /\ NormalizedStatus(obs.status) \in TerminalStates <=> IsFinal(obs)
  BY <1>1 DEF BrokerStatuses, NormalizedStatus, AttemptedStates,
              TerminalStates, IsFinal, FinalStatuses
<1> QED
  BY <1>2 DEF StateFromBrokerStatus, AttemptedStates, TerminalStates

\* The orders table keeps its type under every transaction.
LEMMA ReserveTypes ==
    ASSUME JournalTypeOK, NEW o \in Orders, NEW p \in Plans, NEW r \in Owners,
           Reserve(o, p, r)
    PROVE  JournalTypeOK'
  BY DEF JournalTypeOK, Reserve, OrderRow, RowStates

LEMMA ClaimTypes ==
    ASSUME JournalTypeOK, NEW o \in Orders, NEW c \in Credentials, Claim(o, c)
    PROVE  JournalTypeOK'
<1>1. c.generation \in Nat /\ "submit_attempted" \in RowStates
  BY DEF Credentials, RowStates, AttemptedStates
<1>2. journal[o] \in OrderRow
  BY DEF JournalTypeOK
<1> DEFINE row == [journal[o] EXCEPT !.state = "submit_attempted",
                                    !.generation = c.generation]
<1>3. row \in OrderRow
  BY <1>1, <1>2 DEF OrderRow
<1>4. journal' = [journal EXCEPT ![o] = row]
  BY <1>2, Zenon DEF Claim, JournalTypeOK
<1> QED
  BY <1>3, <1>4 DEF JournalTypeOK

LEMMA AmbiguousTypes ==
    ASSUME JournalTypeOK, NEW o \in Orders, MarkSubmitAmbiguous(o)
    PROVE  JournalTypeOK'
  BY DEF JournalTypeOK, MarkSubmitAmbiguous, OrderRow, RowStates,
         AttemptedStates

LEMMA WriteTypes ==
    ASSUME JournalTypeOK, NEW o \in Orders, NEW obs \in Observations,
           WriteObservation(o, obs)
    PROVE  JournalTypeOK'
<1>1. StateFromBrokerStatus(obs) \in RowStates
  BY StatusMapping, ObservationAssumption DEF RowStates
<1> QED
  BY <1>1 DEF JournalTypeOK, WriteObservation, OrderRow
=============================================================================
