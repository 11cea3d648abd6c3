---------------------------- MODULE ProtectedLedger ----------------------------
(***************************************************************************)
(* What a protected sink promises, without its threads, queue or stores: a *)
(* ledger that grows by one row at a time, in which a row of a guarded     *)
(* route is one its authorization covers and no key or commit id is used   *)
(* twice, and witnesses and acknowledgements only of rows already there.   *)
(* HostSink implements it under the mapping of HostSinkProperties.         *)
(***************************************************************************)
EXTENDS FiniteSets

CONSTANTS Rows,      \* every row the sink may hold
          Admissible \* those a guard, where there is one, may let through

VARIABLES ledger, witnessed, acknowledged

boundaryVars == <<ledger, witnessed, acknowledged>>

BoundaryInit == ledger = {} /\ witnessed = {} /\ acknowledged = {}

Fresh(row) == \A r \in ledger : /\ r.idempotency_key # row.idempotency_key
                                /\ r.commit_id # row.commit_id

CommitRow(row) ==
    /\ row \in Admissible
    /\ Fresh(row)
    /\ ledger' = ledger \cup {row}
    /\ UNCHANGED <<witnessed, acknowledged>>

\* The observer's receipt, the client's answer, or both at once.
Confirm(row) ==
    /\ row \in ledger
    /\ witnessed' \in {witnessed, witnessed \cup {row}}
    /\ acknowledged' \in {acknowledged, acknowledged \cup {row}}
    /\ UNCHANGED ledger

BoundaryNext == \E row \in Rows : CommitRow(row) \/ Confirm(row)

BoundarySpec == BoundaryInit /\ [][BoundaryNext]_boundaryVars

=============================================================================
