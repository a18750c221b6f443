---------------------------- MODULE OrderJournal ----------------------------
(***************************************************************************)
(* The orders and order_events tables of SqliteOrderJournal.               *)
(*                                                                         *)
(* One operator per method.  A method that is one BEGIN IMMEDIATE          *)
(* transaction is one step.  record_broker_observation is not: it reads    *)
(* the row and checks it in one connection (ObservationAdmitted) and       *)
(* writes in a later transaction that does not check again                 *)
(* (WriteObservation), so the process that calls it takes two steps.       *)
(***************************************************************************)
EXTENDS RuntimeLease, RuntimeControl

CONSTANTS
    Orders,        \* client_order_id values
    Plans,         \* execution_plan_id values
    OrderOf,       \* the client_order_id each plan derives
    NoPlan,        \* a cycle that plans no order
    Observations   \* what a broker may say of an order

VARIABLE journal   \* the rows of orders, by client_order_id

ASSUME PlanAssumption == /\ OrderOf \in [Plans -> Orders]
                         /\ NoPlan \notin Plans

TerminalStates == {"filled", "rejected", "canceled", "expired"}

\* The states a row can be in once its submit was claimed.
AttemptedStates == TerminalStates \cup
    {"submit_attempted", "unknown", "accepted", "open", "partially_filled"}

\* "none" is the state of an order with no row.
RowStates == AttemptedStates \cup {"none", "reserved"}

\* generation is the fencing_generation that the submit_attempted event of
\* order_events records, 0 before there is one.
OrderRow == [state : RowStates, plan : Plans \cup {NoPlan},
             run : Owners \cup {NoOwner}, generation : Nat]

NoRow == [state |-> "none", plan |-> NoPlan, run |-> NoOwner, generation |-> 0]

JournalTypeOK == journal \in [Orders -> OrderRow]

JournalInit == journal = [o \in Orders |-> NoRow]

-----------------------------------------------------------------------------
BrokerStatuses ==
    {"new", "accepted", "pending_new", "open", "pending_cancel",
     "partially_filled", "filled", "rejected", "canceled", "cancelled",
     "expired", "held"}

\* An observation: the status word and whether any quantity is filled.  "held"
\* stands for every word the journal does not know.
ObservationRecord == [status : BrokerStatuses, filled : BOOLEAN]

ASSUME ObservationAssumption == Observations \subseteq ObservationRecord

\* Mutation: a word the journal does not know is stored as it came.
MutNormalizedStatusVerbatim(status) ==
    CASE status \in {"new", "accepted", "pending_new"} -> "accepted"
      [] status \in {"open", "pending_cancel"}         -> "open"
      [] status \in {"canceled", "cancelled"}          -> "canceled"
      [] OTHER                                         -> status

\* Mutation: a pending cancel is taken for a cancel.
MutNormalizedStatusEarlyCancel(status) ==
    CASE status \in {"new", "accepted", "pending_new"} -> "accepted"
      [] status = "open"                               -> "open"
      [] status \in {"canceled", "cancelled", "pending_cancel"} -> "canceled"
      [] status \in {"partially_filled", "filled", "rejected", "expired"} -> status
      [] OTHER                                         -> "unknown"

\* _state_from_broker_status, before the filled quantity is looked at.
NormalizedStatus(status) ==
    CASE status \in {"new", "accepted", "pending_new"} -> "accepted"
      [] status \in {"open", "pending_cancel"}         -> "open"
      [] status \in {"canceled", "cancelled"}          -> "canceled"
      [] status \in {"partially_filled", "filled", "rejected", "expired"} -> status
      [] OTHER                                         -> "unknown"

\* _state_from_broker_status.
StateFromBrokerStatus(obs) ==
    IF obs.filled /\ NormalizedStatus(obs.status) \in {"accepted", "open"}
    THEN "partially_filled"
    ELSE NormalizedStatus(obs.status)

-----------------------------------------------------------------------------
\* Mutation: an ambiguous submission no longer blocks the next one.
MutUnresolvedForgetsUnknown(o) ==
    journal[o].state \notin TerminalStates \cup {"none", "unknown"}

Unresolved(o) == journal[o].state \notin TerminalStates \cup {"none"}

\* Mutation: a row that is over can be reserved again.
MutReserveAdmittedAgain(o) == ~Unresolved(o)

\* reserve: a row that exists, for the same request or for another one, is
\* left as it is and the caller is refused.
ReserveAdmitted(o) == journal[o].state = "none"

Reserve(o, plan, run) ==
    journal' = [journal EXCEPT ![o] = [state |-> "reserved", plan |-> plan,
                                       run |-> run, generation |-> 0]]

\* Mutation: the switches are not read again inside the transaction.
MutClaimAdmittedWhileHalted(o, plan, run, cred, t) ==
    /\ LeaseMatches(cred, t)
    /\ journal[o].plan = plan
    /\ journal[o].run = run
    /\ journal[o].state = "reserved"
    /\ \A other \in Orders \ {o} : ~Unresolved(other)

\* claim_pre_mutation_submit: everything it checks inside its transaction.
\* The two evidence flags of the caller are checked before it opens one.
ClaimAdmitted(o, plan, run, cred, t) ==
    /\ TradingAllowed
    /\ LeaseMatches(cred, t)
    /\ journal[o].plan = plan
    /\ journal[o].run = run
    /\ journal[o].state = "reserved"
    /\ \A other \in Orders \ {o} : ~Unresolved(other)

\* Mutation: the claim is checked but not journaled.
MutClaimNotJournaled(o, cred) ==
    journal' = [journal EXCEPT ![o].generation = cred.generation]

Claim(o, cred) ==
    journal' = [journal EXCEPT ![o].state = "submit_attempted",
                               ![o].generation = cred.generation]

\* Mutation: an exception from submit_order is taken for a rejection.
MutMarkSubmitAmbiguousRejects(o) ==
    journal' = IF journal[o].state \in {"submit_attempted", "unknown"}
               THEN [journal EXCEPT ![o].state = "rejected"]
               ELSE journal

\* Mutation: a call that raised is marked unknown whatever was recorded since.
MutMarkSubmitAmbiguousAnyRow(o) ==
    journal' = [journal EXCEPT ![o].state = "unknown"]

\* mark_submit_ambiguous: refused, and the row kept, from any other state.
MarkSubmitAmbiguous(o) ==
    journal' = IF journal[o].state \in {"submit_attempted", "unknown"}
               THEN [journal EXCEPT ![o].state = "unknown"]
               ELSE journal

\* record_broker_observation, the read and the check.
ObservationAdmitted(o, obs) ==
    /\ journal[o].state # "none"
    /\ journal[o].state \in TerminalStates =>
           journal[o].state = StateFromBrokerStatus(obs)

\* record_broker_observation, the write: allowed from every state.
WriteObservation(o, obs) ==
    journal' = [journal EXCEPT ![o].state = StateFromBrokerStatus(obs)]
=============================================================================
