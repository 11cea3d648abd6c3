------------------------------ MODULE MCHostSink ------------------------------
(***************************************************************************)
(* The reference integration of host_sink.py (reference_authority,         *)
(* issue_reference_authorization) as constants for TLC: a grant active     *)
(* from tick 0 and revoked at tick 50, one single-use authorization bound  *)
(* to the state at tick 10, and the requests of its tests.                 *)
(***************************************************************************)
EXTENDS HostSinkProperties

CONSTANTS h1, h2, h3, worker

MCSecret == "oat-host-sink-reference-secret"
MCSink == "sink.integration-payment-ledger"

MCEpochs ==
    AddEpoch(AddEpoch(<<>>,
        [epoch |-> 1, effective_from |-> 0, active_grants |-> {"grant.treasury"},
         revoked_grants |-> {}, superseded_grants |-> {}]),
        [epoch |-> 2, effective_from |-> 50, active_grants |-> {},
         revoked_grants |-> {"grant.treasury"}, superseded_grants |-> {}])

MCAction == [quantity |-> 200000, sink_id |-> MCSink, tenant_id |-> "tenant.acme",
             principal_id |-> "principal.treasury-bot", release_id |-> "release.agent"]

MCAuthorization(id, key) ==
    Sign(MCSecret,
        [authorization_id |-> id, grant_id |-> "grant.treasury", decision |-> "ALLOW",
         tenant_id |-> "tenant.acme", principal_id |-> "principal.treasury-bot",
         agent_id |-> "agent.integration-test", release_id |-> "release.agent",
         action_digest |-> Digest(MCAction), sink_id |-> MCSink,
         scope |-> "payment.transfer",
         authority_state_digest |-> Digest(At(MCEpochs, 10)),
         not_before |-> 0, not_after |-> 100, idempotency_key |-> key,
         max_uses |-> 1, delegation |-> None, integrity |-> None])

MCAuthorizations == [id \in {"authz-1"} |-> MCAuthorization(id, "idem-1")]

Authorized(commit, key, tick) ==
    [commit_id |-> commit, committed_at |-> tick, idempotency_key |-> key,
     agent_id |-> "agent.integration-test", action |-> MCAction,
     authorization_id |-> "authz-1", token_digest |-> Digest(MCAuthorizations["authz-1"])]

Unauthorized(commit, key) ==
    [Authorized(commit, key, 10) EXCEPT !.authorization_id = None, !.token_digest = None]

To(path, payload) == [path |-> path, payload |-> payload, emit_receipt |-> TRUE]

\* Retries of one authorized payment on both guarded routes, the same commit id
\* under another key, a revoked tick, a mutated action, an authorization nobody issued,
\* an incomplete body, and the hidden route with and without the authorization.
AllRequests ==
    {To("/v1/payments", Authorized("c1", "idem-1", 10)),
     To("/v1/payments", Authorized("c2", "idem-1", 55)),
     To("/v1/async-payments", [Authorized("c3", "idem-1", 10) EXCEPT !.action.quantity = 200001]),
     To("/v1/payments", [Authorized("c5", "idem-1", 10) EXCEPT !.authorization_id = "authz-9"]),
     To("/v1/async-payments", Authorized("c1", "idem-1", 10)),
     To("/v1/async-payments", Authorized("c2", "idem-1", 10)),
     To("/v1/async-payments", None),
     To("/internal/batch-commit", Authorized("c2", "idem-1", 10)),
     To("/internal/batch-commit", Unauthorized("c1", "idem-2")),
     [To("/internal/batch-commit", Unauthorized("c4", "idem-3")) EXCEPT !.emit_receipt = FALSE],
     To("other", None)}

\* Two deliveries of one payment and another commit on the hidden route: enough
\* to race, and two rows whose receipts may come in either order.
RetryRequests ==
    {To("/v1/payments", Authorized("c1", "idem-1", 10)),
     To("/v1/async-payments", Authorized("c1", "idem-1", 10)),
     To("/internal/batch-commit", Unauthorized("c2", "idem-2"))}

\* Jobs that may end the worker: an incomplete body and a payment delivered twice.
QueueRequests ==
    {To("/v1/async-payments", Authorized("c1", "idem-1", 10)),
     To("/v1/async-payments", None)}

GuardedRequests == {To("/v1/payments", Authorized("c1", "idem-1", 10))}

HiddenRequests == {To("/internal/batch-commit", Authorized("c1", "idem-1", 10))}

=============================================================================
