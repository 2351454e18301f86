-------------------------- MODULE OpportunityStatus --------------------------
(***************************************************************************)
(* The status state machine of services/lifecycle.py: which moves are      *)
(* legal, and the abstract specification it promises: every opportunity    *)
(* walks along legal moves, whoever moves it.                              *)
(***************************************************************************)
CONSTANTS Opps,   \* the opportunities
          Absent  \* not ingested yet

Exits == {"ARCHIVED", "EXPIRED", "REJECTED", "DUPLICATE"}

Statuses == {"DISCOVERED", "ENRICHED", "QUALIFIED", "SCORED", "RECOMMENDED"} \union Exits

Terminal == {"ARCHIVED"}
Inactive == Exits

ASSUME StatusAssumption == Absent \notin Statuses

\* _PIPELINE
Pipeline(s) ==
    CASE s = "DISCOVERED" -> {"ENRICHED", "QUALIFIED", "SCORED", "RECOMMENDED"}
      [] s = "ENRICHED" -> {"QUALIFIED", "SCORED", "RECOMMENDED"}
      [] s = "QUALIFIED" -> {"SCORED", "RECOMMENDED"}
      [] s = "SCORED" -> {"RECOMMENDED", "QUALIFIED"}
      [] s = "RECOMMENDED" -> {"SCORED"}
      [] s \in Exits -> {}

AllowedTransitions(s) ==
    IF s \in Terminal THEN {} ELSE Pipeline(s) \union (Exits \ {s})

CanTransition(s, t) == t \in AllowedTransitions(s)

\* What ingest stores: expired on arrival, a suspected duplicate, or new.
EntryStatuses == {"DISCOVERED", "EXPIRED", "DUPLICATE"}

VARIABLE status

StatusInit == status = [o \in Opps |-> Absent]

Enter(o) ==
    /\ status[o] = Absent
    /\ \E s \in EntryStatuses : status' = [status EXCEPT ![o] = s]

Move(o) ==
    /\ status[o] # Absent
    /\ \E t \in AllowedTransitions(status[o]) : status' = [status EXCEPT ![o] = t]

StatusNext == \E o \in Opps : Enter(o) \/ Move(o)

StatusSpec == StatusInit /\ [][StatusNext]_status

\* Nothing comes back out of ARCHIVED, whoever holds an older copy of the row.
ArchivedIsTerminal ==
    [][\A o \in Opps : status[o] = "ARCHIVED" => status'[o] = "ARCHIVED"]_status

=============================================================================
