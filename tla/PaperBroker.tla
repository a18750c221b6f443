---------------------------- MODULE PaperBroker ----------------------------
(***************************************************************************)
(* The broker, as the execution code uses it: an order it knows has a      *)
(* status and perhaps a filled quantity, moves forward by itself and ends  *)
(* once.                                                                   *)
(***************************************************************************)
EXTENDS OrderJournal

CONSTANT Absent   \* an order the broker does not know, or did not list

VARIABLE broker   \* the orders at the broker

ASSUME BrokerAssumption == Absent \notin Observations

\* A broker that says an order is filled, or partly, names a quantity: only then
\* does a row that says so hold one, which the reconcile must not shrink.
ASSUME FillAssumption ==
    \A obs \in Observations :
        obs.status \in {"partially_filled", "filled"} => obs.filled

NothingSeen == [o \in Orders |-> Absent]

-----------------------------------------------------------------------------
FinalStatuses == {"filled", "rejected", "canceled", "cancelled", "expired"}

IsFinal(obs) == obs.status \in FinalStatuses

BrokerSettled(o) == broker[o] # Absent /\ IsFinal(broker[o])

\* A fill is never taken back.
CanBecome(obs, next) == ~IsFinal(obs) /\ (obs.filled => next.filled)

BrokerMoves(o) ==
    /\ broker[o] # Absent
    /\ \E next \in Observations :
          /\ CanBecome(broker[o], next)
          /\ broker' = [broker EXCEPT ![o] = next]
=============================================================================
