--------------------------- MODULE CancelJournal ---------------------------
(***************************************************************************)
(* The cancel_intents table of SqliteOrderJournal.                         *)
(*                                                                         *)
(* The table holds at most one intent per broker order, whatever the       *)
(* intent's id: the row of an order's cancel is found by the order.        *)
(* updated_at of the orders row is kept here too, because only the         *)
(* cancellation code compares it.                                          *)
(***************************************************************************)
EXTENDS OrderJournal

VARIABLES
    cancels,   \* the rows of cancel_intents, by the order they cancel
    updatedAt  \* updated_at of each row of orders

cancelVars == <<cancels, updatedAt>>

TerminalCancelStates == {"canceled", "rejected", "not_found"}

\* The states a cancel row can be in once its cancel was claimed.
AttemptedCancelStates ==
    TerminalCancelStates \cup {"cancel_attempted", "unknown", "cancel_accepted"}

\* A cancel_intent_id is a hash of the order, its status and the time it was
\* observed at: the intents for one order differ in that observation.
CancelIntents == [at : Nat, status : BrokerStatuses]

NoIntent == [at |-> 0, status |-> "held"]

CancelRow == [state : AttemptedCancelStates \cup {"none", "reserved"},
              intent : CancelIntents, updated : Nat]

NoCancel == [state |-> "none", intent |-> NoIntent, updated |-> 0]

CancelJournalTypeOK == /\ cancels \in [Orders -> CancelRow]
                       /\ updatedAt \in [Orders -> Nat]

-----------------------------------------------------------------------------
\* Mutation: a cancel the broker is still working on counts as done.
MutCancelStateEarly(status) ==
    CASE status \in {"canceled", "cancelled", "pending_cancel"} -> "canceled"
      [] status = "rejected"                  -> "rejected"
      [] OTHER                                -> "unknown"

\* Mutation: the word accepted, too, is taken for a cancel that is done.
MutCancelStateAccepted(status) ==
    CASE status \in {"canceled", "cancelled", "accepted"} -> "canceled"
      [] status = "pending_cancel"            -> "cancel_accepted"
      [] status = "rejected"                  -> "rejected"
      [] OTHER                                -> "unknown"

\* Mutation: the broker's word is the row's state.
MutCancelStateVerbatim(status) == status

\* _cancel_status_from_order_observation and _cancel_state_from_broker_status:
\* a filled or an expired order says nothing of its cancel.
CancelStateFromOrderStatus(status) ==
    CASE status \in {"canceled", "cancelled"} -> "canceled"
      [] status = "pending_cancel"            -> "cancel_accepted"
      [] status = "rejected"                  -> "rejected"
      [] OTHER                                -> "unknown"

\* Mutation: a new intent replaces the one that is there.
MutReserveCancelReplaces(o, intent, t) ==
    cancels' = [cancels EXCEPT ![o] =
                   [state |-> "reserved", intent |-> intent, updated |-> t]]

\* reserve_cancel_intent: an intent that is there, the same or another one for
\* the same broker order, is left as it is.
ReserveCancel(o, intent, t) ==
    cancels' = IF cancels[o].state = "none"
               THEN [cancels EXCEPT ![o] = [state   |-> "reserved",
                                            intent  |-> intent,
                                            updated |-> t]]
               ELSE cancels

\* Mutation: an attempted cancel can be claimed again.
MutCancelClaimAdmittedAgain(o, intent, c, t) ==
    /\ TradingAllowed
    /\ LeaseMatches(c, t)
    /\ cancels[o].state # "none"
    /\ cancels[o].intent = intent

\* claim_pre_mutation_cancel: everything it checks inside its transaction.  The
\* identities of the intent follow from its id.
CancelClaimAdmitted(o, intent, c, t) ==
    /\ TradingAllowed
    /\ LeaseMatches(c, t)
    /\ cancels[o].state = "reserved"
    /\ cancels[o].intent = intent

\* Mutation: the claim is checked but not journaled.
MutClaimCancelNotJournaled(o, t) ==
    cancels' = [cancels EXCEPT ![o].updated = t]

ClaimCancel(o, t) ==
    cancels' = [cancels EXCEPT ![o].state = "cancel_attempted", ![o].updated = t]

\* mark_cancel_ambiguous: refused, and the row kept, from any other state.
MarkCancelAmbiguous(o, t) ==
    cancels' = IF cancels[o].state \in {"cancel_attempted", "unknown"}
               THEN [cancels EXCEPT ![o].state = "unknown", ![o].updated = t]
               ELSE cancels

\* record_cancel_observation, the read and the check.
CancelObservationAdmitted(o, status) ==
    /\ cancels[o].state # "none"
    /\ cancels[o].state \in TerminalCancelStates =>
           cancels[o].state = CancelStateFromOrderStatus(status)

\* record_cancel_observation, the write: from every state but "reserved".
WriteCancelObservation(o, status, t) ==
    cancels' = [cancels EXCEPT ![o].state = CancelStateFromOrderStatus(status),
                               ![o].updated = t]

-----------------------------------------------------------------------------
ReconcilableCancelStates == {"cancel_attempted", "unknown", "cancel_accepted"}

\* Mutation: an order whose row is over cannot be reconciled any more.
MutCancelReconcileNeedsOpenOrder(o, obs, t) ==
    /\ cancels[o].state \in ReconcilableCancelStates
    /\ journal[o].state \notin TerminalStates \cup {"none"}
    /\ t >= updatedAt[o]
    /\ t >= cancels[o].updated

\* reconcile_unresolved_cancel_observation: what it checks in its transaction.
CancelReconcileAdmitted(o, obs, t) ==
    /\ cancels[o].state \in ReconcilableCancelStates
    /\ journal[o].state # "none"
    /\ journal[o].state \in TerminalStates =>
           journal[o].state = StateFromBrokerStatus(obs)
    /\ t >= updatedAt[o]
    /\ t >= cancels[o].updated

\* The same transaction writes both rows.
ReconcileCancel(o, obs, t) ==
    /\ WriteObservation(o, obs)
    /\ updatedAt' = [updatedAt EXCEPT ![o] = t]
    /\ WriteCancelObservation(o, obs.status, t)
=============================================================================
