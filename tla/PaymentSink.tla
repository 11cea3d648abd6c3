------------------------------ MODULE PaymentSink ------------------------------
(***************************************************************************)
(* The in-memory reference sink (oat/consequence/sink) and the records it  *)
(* keeps (oat/consequence/model): the interlock that admits or refuses,    *)
(* the ledger of what committed, the receipts and the route telemetry.     *)
(*                                                                         *)
(* The sink runs in the thread of its caller, so a call is one step.  The  *)
(* calls of a reference scenario are driven by ConsequenceRun; SinkSpec    *)
(* lets any caller make any call, and the theorems are about that.         *)
(***************************************************************************)
EXTENDS ConsequenceVerifier

CONSTANTS Epochs,       \* the authority store
          IssuerSecret, \* the key of the issuer
          Submissions,  \* [commit, authorization, token] given to submit
          Bypasses      \* [commit, ...] given to commit_unguarded

\* No row says which entry it came through: the callers keep them apart.
SinkAssumption ==
    {k.commit : k \in Submissions} \cap {k.commit : k \in Bypasses} = {}
ASSUME EntriesApart == SinkAssumption

VARIABLES
    commits,       \* SinkState.commits, in commit order
    receipts,      \* SinkState.receipts
    route_log,     \* one observation for every arrival
    interlock_log, \* one decision for every guarded arrival
    seen,          \* _seen_idempotency
    uses           \* issuer._uses, 0 where undefined

ledgerVars == <<commits, receipts, route_log>>
sinkVars == <<ledgerVars, interlock_log, seen, uses>>

Admitted(reason) == [outcome |-> "ADMITTED", reason |-> reason]
Refused(reason) == [outcome |-> "REFUSED", reason |-> reason]

UseCount(id) == IF id \in DOMAIN uses THEN uses[id] ELSE 0

RecordUse(id) ==
    uses' = [a \in DOMAIN uses \cup {id} |->
                IF a = id THEN UseCount(id) + 1 ELSE uses[a]]

SinkReceipt(c) ==
    [commit_id |-> c.commit_id, sink_id |-> c.sink_id, route_id |-> c.route_id,
     observed_at |-> c.committed_at, action_digest |-> c.action_digest]

RouteObservation(c, committed) ==
    [route_id |-> c.route_id, committed |-> committed,
     commit_id |-> IF committed THEN c.commit_id ELSE None]

NewSink ==
    /\ commits = <<>> /\ receipts = <<>> /\ route_log = <<>>
    /\ interlock_log = <<>> /\ seen = {} /\ uses = [a \in {} |-> 0]

\* Mutant: the counters of the run survive it.
DropSinkKeepUses ==
    /\ commits' = <<>> /\ receipts' = <<>> /\ route_log' = <<>>
    /\ interlock_log' = <<>> /\ seen' = {} /\ uses' = uses

\* The end of the process, or of the run, that held the sink.
DropSink ==
    /\ commits' = <<>> /\ receipts' = <<>> /\ route_log' = <<>>
    /\ interlock_log' = <<>> /\ seen' = {} /\ uses' = [a \in {} |-> 0]

-----------------------------------------------------------------------------
(* submit: the guarded entry.  Its three outcomes exclude one another.     *)

\* The report counts the use that admission would record.
InterlockReport(c, authorization, token) ==
    ValidateAuthorization(authorization, c, At(Epochs, c.committed_at), IssuerSecret,
        IF authorization = None THEN None
        ELSE UseCount(authorization.authorization_id) + 1,
        token)

\* _commit: ledger row, receipt and observation together.
SinkCommit(c) ==
    /\ commits' = Append(commits, c)
    /\ receipts' = Append(receipts, SinkReceipt(c))
    /\ route_log' = Append(route_log, RouteObservation(c, TRUE))

Refuse(c, reason) ==
    /\ interlock_log' = Append(interlock_log, Refused(reason))
    /\ route_log' = Append(route_log, RouteObservation(c, FALSE))
    /\ UNCHANGED <<commits, receipts, seen, uses>>

RefuseReplay(c) ==
    /\ c.idempotency_key \in seen
    /\ Refuse(c, "IDEMPOTENCY_REPLAY")

RefuseUnbound(c, authorization, token) ==
    /\ c.idempotency_key \notin seen
    /\ ~ IsValid(InterlockReport(c, authorization, token))
    /\ Refuse(c, "BINDING_NOT_SATISFIED")

\* Mutant: the interlock does not look at the exact action.
AdmitAnyAction(c, authorization, token) ==
    /\ c.idempotency_key \notin seen
    /\ Mismatches(InterlockReport(c, authorization, token)) \subseteq {"exact_action_digest"}
    /\ RecordUse(authorization.authorization_id)
    /\ seen' = seen \cup {c.idempotency_key}
    /\ interlock_log' = Append(interlock_log, Admitted("ALL_BINDINGS_SATISFIED"))
    /\ SinkCommit(c)

Admit(c, authorization, token) ==
    /\ c.idempotency_key \notin seen
    /\ IsValid(InterlockReport(c, authorization, token))
    /\ RecordUse(authorization.authorization_id)
    /\ seen' = seen \cup {c.idempotency_key}
    /\ interlock_log' = Append(interlock_log, Admitted("ALL_BINDINGS_SATISFIED"))
    /\ SinkCommit(c)

Submit(c, authorization, token) ==
    \/ RefuseReplay(c)
    \/ RefuseUnbound(c, authorization, token)
    \/ Admit(c, authorization, token)

\* commit_unguarded: no interlock, no check of the key it marks as seen.
CommitUnguarded(c) ==
    /\ seen' = seen \cup {c.idempotency_key}
    /\ SinkCommit(c)
    /\ UNCHANGED <<interlock_log, uses>>

-----------------------------------------------------------------------------

SinkStep ==
    \/ \E k \in Submissions : Submit(k.commit, k.authorization, k.token)
    \/ \E k \in Bypasses : CommitUnguarded(k.commit)

SinkSpec == NewSink /\ [][SinkStep]_sinkVars

-----------------------------------------------------------------------------

Guarded(c) == \E k \in Submissions : k.commit = c

\* What submit stored was covered, at its own tick, by an authorization the
\* caller presented with it (sink.submit, _commit).
GuardedRowsCovered ==
    \A i \in DOMAIN commits : Guarded(commits[i]) =>
        \E k \in Submissions :
            /\ k.commit = commits[i]
            /\ k.authorization # None
            /\ \E n \in 1..UseCount(k.authorization.authorization_id) :
                IsValid(ValidateAuthorization(k.authorization, commits[i],
                    At(Epochs, commits[i].committed_at), IssuerSecret, n, k.token))

\* Two rows of submit never share an idempotency key, also when the same key
\* went through the unguarded entry in between.
GuardedKeysOnce ==
    \A i, j \in DOMAIN commits :
        /\ Guarded(commits[i]) /\ Guarded(commits[j])
        /\ commits[i].idempotency_key = commits[j].idempotency_key
        => i = j

\* The ledger of the guarded entry, in one statement.
GuardedLedger == GuardedRowsCovered /\ GuardedKeysOnce

=============================================================================
