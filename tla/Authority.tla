------------------------------ MODULE Authority ------------------------------
(***************************************************************************)
(* The relation ValidAuthorization(a, c) and the three things it is made   *)
(* of: authority epochs over logical time (oat/authority/current_state),   *)
(* delegation chains (oat/authority/delegation) and the per-dimension      *)
(* report (oat/authority/authorization).  Everything here is a pure        *)
(* operator; the state machine that uses them is HostSink.                 *)
(*                                                                         *)
(* A digest stands for the value it was computed from: two digests are     *)
(* equal exactly when the digested values are (SHA-256 without             *)
(* collisions).  A MAC is the pair of its key and what it covers.          *)
(***************************************************************************)
EXTENDS Integers, Sequences, FiniteSets

CONSTANTS None,           \* Python's None: a value missing from the evidence
          NotApplicable   \* the marker NON_APPLICABLE of oat/consequence/model

Bound == "BOUND"
Mismatch == "MISMATCH"
Undetermined == "UNDETERMINED"
DeclaredNonApplicable == "DECLARED_NON_APPLICABLE"

Digest(x) == [digest_of |-> x]
Mac(secret, x) == [secret |-> secret, covers |-> Digest(x)]

\* dict.get: the value a partial function has at k, or None.
Get(f, k) == IF k \in DOMAIN f THEN f[k] ELSE None

-----------------------------------------------------------------------------
(* Authority over logical time: a store is its sequence of epochs.         *)

\* add: append, then a stable sort by effective_from; on a sorted store the
\* new epoch goes behind every epoch that takes effect no later than it.
AddEpoch(epochs, state) ==
    LET Earlier(s) == s.effective_from <= state.effective_from
        Later(s) == s.effective_from > state.effective_from
    IN  SelectSeq(epochs, Earlier) \o <<state>> \o SelectSeq(epochs, Later)

\* The epochs the scan of `at` passes before the first that is not in effect.
EpochsReached(epochs, tick) ==
    {i \in DOMAIN epochs : \A j \in 1..i : epochs[j].effective_from <= tick}

At(epochs, tick) ==
    LET n == Cardinality(EpochsReached(epochs, tick))
    IN  IF n = 0 THEN None ELSE epochs[n]

StatusOf(state, grant) ==
    IF grant \in state.revoked_grants THEN "REVOKED"
    ELSE IF grant \in state.superseded_grants THEN "SUPERSEDED"
    ELSE IF grant \in state.active_grants THEN "ACTIVE"
    ELSE "UNKNOWN_GRANT"

-----------------------------------------------------------------------------
(* Delegation: a chain is a root and a sequence of links.                  *)

BrokenLinks(chain) ==
    {i \in DOMAIN chain.links :
        chain.links[i].delegator #
            (IF i = 1 THEN chain.root ELSE chain.links[i - 1].delegate)}

AmplifiedLinks(chain) ==
    {i \in 2..Len(chain.links) :
        ~ (chain.links[i].scope \subseteq chain.links[i - 1].scope)}

\* The scan stops at the first faulty link, where a break is seen first.
FirstFaultIsAmplification(chain) ==
    \E i \in AmplifiedLinks(chain) :
        \A j \in BrokenLinks(chain) \cup AmplifiedLinks(chain) :
            /\ j \in BrokenLinks(chain) => i < j
            /\ i <= j

DelegationReason(chain, acting, scope) ==
    LET n == Len(chain.links) IN
    IF n = 0
    THEN IF chain.root = acting THEN "NO_DELEGATION"
         ELSE "DELEGATION_ROOT_IS_NOT_ACTING_PRINCIPAL"
    ELSE IF FirstFaultIsAmplification(chain) THEN "DELEGATION_AMPLIFIED"
    ELSE IF BrokenLinks(chain) # {} THEN "DELEGATION_CHAIN_BROKEN"
    ELSE IF chain.links[n].delegate # acting
         THEN "DELEGATION_TERMINAL_IS_NOT_ACTING_PRINCIPAL"
    ELSE IF scope \notin chain.links[n].scope THEN "DELEGATION_SCOPE_INSUFFICIENT"
    ELSE "DELEGATION_VALID"

-----------------------------------------------------------------------------
(* Authorizations and the report of ValidAuthorization.                    *)

\* payload: every field but the integrity tag.
SignedPayload(a) == [f \in DOMAIN a \ {"integrity"} |-> a[f]]

Sign(secret, a) == [a EXCEPT !.integrity = Mac(secret, SignedPayload(a))]

VerifyIntegrity(secret, a) == a.integrity = Mac(secret, SignedPayload(a))

Compare(expected, actual) ==
    IF expected = NotApplicable THEN DeclaredNonApplicable
    ELSE IF expected = None \/ actual = None THEN Undetermined
    ELSE IF expected = actual THEN Bound
    ELSE Mismatch

Check(holds) == IF holds THEN Bound ELSE Mismatch

DelegationOutcome(a, c, dimension) ==
    IF a.delegation = None THEN DeclaredNonApplicable
    ELSE LET reason == DelegationReason(a.delegation, c.principal_id, a.scope) IN
         IF dimension = "delegation_chain"
         THEN Check(reason \in {"NO_DELEGATION", "DELEGATION_VALID"})
         ELSE Check(reason # "DELEGATION_AMPLIFIED")

\* secret is the issuer's key, None when there is no issuer to verify with.
Report(a, c, state, secret, uses, token) ==
    [positive_decision |-> Check(a.decision = "ALLOW"),
     tenant |-> Compare(a.tenant_id, c.tenant_id),
     principal |-> Compare(a.principal_id, c.principal_id),
     agent_identity |-> Compare(a.agent_id, c.agent_id),
     release_identity |-> Compare(a.release_id, c.release_id),
     exact_action_digest |-> Compare(a.action_digest, c.action_digest),
     protected_sink |-> Compare(a.sink_id, c.sink_id),
     idempotency_binding |-> Compare(a.idempotency_key, c.idempotency_key),
     normalized_action_scope |-> IF a.scope = "" THEN Undetermined ELSE Bound,
     authorization_integrity |->
        IF secret = None THEN Undetermined ELSE Check(VerifyIntegrity(secret, a)),
     validity_interval |->
        Check(a.not_before <= c.committed_at /\ c.committed_at <= a.not_after),
     authority_state_at_commit |->
        IF state = None THEN Undetermined
        ELSE Compare(a.authority_state_digest, Digest(state)),
     revocation_state |->
        IF state = None THEN Undetermined
        ELSE Check(StatusOf(state, a.grant_id) = "ACTIVE"),
     delegation_chain |-> DelegationOutcome(a, c, "delegation_chain"),
     non_amplification |-> DelegationOutcome(a, c, "non_amplification"),
     authorization_use_count |->
        IF uses = None THEN Undetermined ELSE Check(uses <= a.max_uses),
     commit_authorization_correlation |->
        IF token = None THEN Undetermined ELSE Compare(Digest(a), token)]

ValidateAuthorization(a, c, state, secret, uses, token) ==
    IF a = None
    THEN [authorization_present |-> Mismatch]
    ELSE Report(a, c, state, secret, uses, token)

Mismatches(report) == {d \in DOMAIN report : report[d] = Mismatch}
UndeterminedDimensions(report) == {d \in DOMAIN report : report[d] = Undetermined}

\* A dimension that could not be checked is never permission.
IsValid(report) == Mismatches(report) = {} /\ UndeterminedDimensions(report) = {}

=============================================================================
