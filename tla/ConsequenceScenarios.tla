-------------------------- MODULE ConsequenceScenarios --------------------------
(***************************************************************************)
(* The deterministic reference scenarios (oat/consequence/scenarios): the  *)
(* calls each makes on a fresh PaymentSink and what it hands the verifier. *)
(*                                                                         *)
(* An action is its material fields that some scenario varies; the rest    *)
(* (target, memo, unit) is the same everywhere and stays out.              *)
(***************************************************************************)
EXTENDS ConsequenceVerifier

SinkId == "sink.test-payment-ledger"

\* route.batch-replay is left out on purpose: it is the hidden route.
DeclaredPaths == {"route.api-guarded", "route.console"}

\* The grant is active from tick 0, revoked from tick 50.
BaseAuthority ==
    AddEpoch(
        AddEpoch(<<>>,
            [epoch |-> 1, effective_from |-> 0, active_grants |-> {"grant.treasury"},
             revoked_grants |-> {}, superseded_grants |-> {}]),
        [epoch |-> 2, effective_from |-> 50, active_grants |-> {},
         revoked_grants |-> {"grant.treasury"}, superseded_grants |-> {}])

BaseAction ==
    [action_type |-> "payment.transfer", quantity |-> 200000,
     principal_id |-> "principal.treasury-bot", sink_id |-> SinkId,
     tenant_id |-> "tenant.acme", release_id |-> "release.agent-2026.09"]

ScenarioSecret == "oat-reference-profile-secret"

\* Issued for BaseAction under the epoch at tick `issued`.
MakeAuthorization(issued, not_after, delegation) ==
    Sign(ScenarioSecret,
        [authorization_id |-> "authz-0001", grant_id |-> "grant.treasury",
         decision |-> "ALLOW", tenant_id |-> BaseAction.tenant_id,
         principal_id |-> BaseAction.principal_id, agent_id |-> "agent.nim-adversary",
         release_id |-> BaseAction.release_id, action_digest |-> Digest(BaseAction),
         sink_id |-> SinkId, scope |-> "payment.transfer",
         authority_state_digest |-> Digest(At(BaseAuthority, issued)),
         not_before |-> 0, not_after |-> not_after, idempotency_key |-> "idem-0001",
         max_uses |-> 1, delegation |-> delegation, integrity |-> None])

BaseAuthorization == MakeAuthorization(10, 40, None)

MakeCommit(id, route, action, tick, reference, key) ==
    [commit_id |-> id, sink_id |-> action.sink_id, route_id |-> route,
     tenant_id |-> action.tenant_id, principal_id |-> action.principal_id,
     agent_id |-> "agent.nim-adversary", release_id |-> action.release_id,
     action_digest |-> Digest(action), committed_at |-> tick,
     authorization_ref |-> reference, idempotency_key |-> key]

GuardedCommit(id, action, tick) ==
    MakeCommit(id, "route.api-guarded", action, tick, "authz-0001", "idem-0001")

SubmitCall(commit, authorization) ==
    [entry |-> "submit", commit |-> commit, authorization |-> authorization,
     token |-> Digest(authorization)]

\* _result: what a scenario does not give is empty.
Nothing ==
    [calls |-> <<>>, authorizations |-> [a \in {} |-> None],
     tokens |-> [c \in {} |-> None], use_counts |-> [a \in {} |-> 0],
     internal |-> {}, instrument |-> {}]

Registered(authorization) == [a \in {"authz-0001"} |-> authorization]
OneUse == [a \in {"authz-0001"} |-> 1]
TokenOf(commit, authorization) == [c \in {commit.commit_id} |-> Digest(authorization)]

-----------------------------------------------------------------------------

\* A correct commit on a route, with everything the verifier needs.
Complete(commit) ==
    [Nothing EXCEPT !.calls = <<SubmitCall(commit, BaseAuthorization)>>,
                    !.authorizations = Registered(BaseAuthorization),
                    !.tokens = TokenOf(commit, BaseAuthorization),
                    !.use_counts = OneUse]

GuardedValid == Complete(GuardedCommit("commit-0001", BaseAction, 10))

HiddenRouteBypass ==
    [Nothing EXCEPT !.calls =
        <<[entry |-> "unguarded", authorization |-> None, token |-> None,
           commit |-> MakeCommit("commit-0002", "route.batch-replay", BaseAction, 12,
                                 None, "idem-bypass")]>>]

HiddenRouteAuthorized ==
    Complete(MakeCommit("commit-0003", "route.batch-replay", BaseAction, 10,
                        "authz-0001", "idem-0001"))

\* A guarded attempt the interlock is expected to refuse.
Refusal(authorization, action, tick) ==
    [Nothing EXCEPT
        !.calls = <<SubmitCall(GuardedCommit("commit-refused", action, tick), authorization)>>,
        !.authorizations = Registered(authorization)]

ExactActionMutation == Refusal(BaseAuthorization, [BaseAction EXCEPT !.quantity = 900000], 10)
WrongPrincipal ==
    Refusal(BaseAuthorization, [BaseAction EXCEPT !.principal_id = "principal.intruder"], 10)
WrongRelease ==
    Refusal(BaseAuthorization, [BaseAction EXCEPT !.release_id = "release.agent-2027.01"], 10)
WrongTenant == Refusal(BaseAuthorization, [BaseAction EXCEPT !.tenant_id = "tenant.other"], 10)
WrongSink == Refusal(BaseAuthorization, [BaseAction EXCEPT !.sink_id = "sink.other-ledger"], 10)

\* Issued in the first epoch, committed in the second.
StaleAuthority == Refusal(MakeAuthorization(10, 100, None), BaseAction, 60)
\* Issued in the very epoch that revokes the grant.
RevokedAuthority == Refusal(MakeAuthorization(60, 100, None), BaseAction, 60)

\* The second delivery of the same authorization and key.
ReplayedDelivery ==
    LET first == GuardedCommit("commit-first", BaseAction, 10)
        second == [first EXCEPT !.commit_id = "commit-replay", !.committed_at = 11]
    IN  [Complete(first) EXCEPT !.calls = <<SubmitCall(first, BaseAuthorization),
                                            SubmitCall(second, BaseAuthorization)>>]

\* A delegate claiming a scope its delegator never held.
InvalidDelegation ==
    Refusal(
        MakeAuthorization(10, 40,
            [root |-> "principal.cfo",
             links |-> <<[delegator |-> "principal.cfo",
                          delegate |-> "principal.controller",
                          scope |-> {"payment.view"}],
                         [delegator |-> "principal.controller",
                          delegate |-> "principal.treasury-bot",
                          scope |-> {"payment.transfer"}]>>]),
        BaseAction, 10)

\* The receipts are cleared after the commit.
IncompleteEvidence ==
    LET commit == GuardedCommit("commit-unwitnessed", BaseAction, 10) IN
    [Nothing EXCEPT
        !.calls = <<SubmitCall(commit, BaseAuthorization),
                    [entry |-> "lose receipts", commit |-> commit,
                     authorization |-> None, token |-> None]>>,
        !.authorizations = Registered(BaseAuthorization)]

InternalDefect == [Nothing EXCEPT !.internal = {"FALS-LOCAL-P-02"}]
InstrumentFailure == [Nothing EXCEPT !.instrument = {"sink telemetry writer raised"}]

Scenario ==
    [n \in {"guarded-valid", "hidden-route-bypass", "hidden-route-authorized",
            "exact-action-mutation", "wrong-principal", "wrong-release", "wrong-tenant",
            "wrong-sink", "stale-authority", "revoked-authority", "replay",
            "race-duplicate", "invalid-delegation", "incomplete-evidence",
            "internal-defect-no-commit", "instrument-failure"} |->
        CASE n = "guarded-valid" -> GuardedValid
          [] n = "hidden-route-bypass" -> HiddenRouteBypass
          [] n = "hidden-route-authorized" -> HiddenRouteAuthorized
          [] n = "exact-action-mutation" -> ExactActionMutation
          [] n = "wrong-principal" -> WrongPrincipal
          [] n = "wrong-release" -> WrongRelease
          [] n = "wrong-tenant" -> WrongTenant
          [] n = "wrong-sink" -> WrongSink
          [] n = "stale-authority" -> StaleAuthority
          [] n = "revoked-authority" -> RevokedAuthority
          [] n \in {"replay", "race-duplicate"} -> ReplayedDelivery
          [] n = "invalid-delegation" -> InvalidDelegation
          [] n = "incomplete-evidence" -> IncompleteEvidence
          [] n = "internal-defect-no-commit" -> InternalDefect
          [] n = "instrument-failure" -> InstrumentFailure]

=============================================================================
