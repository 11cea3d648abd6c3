---------------------------- MODULE VerdictHistory ----------------------------
(***************************************************************************)
(* HostSink with two history variables.  evidence() in host_sink.py reads  *)
(* five tables and counters one after the other while handlers and the     *)
(* worker run; `since` holds the dispositions an instantaneous verdict     *)
(* would have had from the first of those reads on, so that a verdict can  *)
(* be compared with what some instant would have answered.  `admissions`   *)
(* counts the calls of record_use, of which the unlocked counters may lose *)
(* some.                                                                   *)
(***************************************************************************)
EXTENDS HostSinkProperties

VARIABLES since, admissions

historyVars == <<vars, since, admissions>>

HistoryInit == Init /\ since = {} /\ admissions = NoUses

\* Threads whose record_use ends in this step for authorization a.
Recording(a) ==
    {t \in Threads : /\ pc[t] = "use_write" /\ pc'[t] = "commit"
                     /\ request[t].payload.authorization_id = a}

HistoryNext ==
    /\ Next
    /\ since' = IF reader # "idle" THEN since \cup {LiveDisposition}
                ELSE IF reader' # "idle" THEN {LiveDisposition}
                ELSE since
    /\ admissions' = IF restarts' # restarts THEN NoUses
                     ELSE [a \in DOMAIN admissions |->
                             admissions[a] + Cardinality(Recording(a))]

HistorySpec == HistoryInit /\ [][HistoryNext]_historyVars

\* Concurrent calls of record_use may lose an update but never invent one: the
\* counter the guard and the verifier trust never exceeds the admissions made.
UseCountNeverOverstates == \A a \in DOMAIN uses : uses[a] <= admissions[a]

Overused == \E a \in DOMAIN admissions : admissions[a] > Authorizations[a].max_uses

\* The evidence is not collected at one instant, yet an alarm is one that some
\* instant of the collection would have raised: a boundary failure that no
\* overuse explains, or an unknown, is never made up of reads that do not belong
\* together.  (A clean verdict may be: it speaks of the rows it read, and while it
\* read their receipts another row may have been without one.)
AlarmIsOfSomeInstant ==
    verdict \in {BoundaryFailure, Unknown} /\ ~ Overused => verdict \in since

\* A crossing that stands while the evidence is collected is reported: requests
\* that commit, observe and answer between the reads do not cover it up.
StandingCrossingIsReported ==
    verdict # None /\ since = {BoundaryFailure} /\ ~ Overused => verdict = BoundaryFailure

\* A verdict of no counterexample vouches for every protected commit it read:
\* each is covered by the authorization it names and witnessed, whatever ran
\* between the reads of the commits, the receipts and the token digests.
CleanVerdictCoversCommits ==
    verdict = NoCounterexample =>
        \A row \in snapshot.commits :
            row.sink_id = ProtectedSinkId =>
                CoveredByReference(row) /\ Receipt(row) \in receipts

=============================================================================
