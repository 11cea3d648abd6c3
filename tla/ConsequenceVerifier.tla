------------------------- MODULE ConsequenceVerifier -------------------------
(***************************************************************************)
(* The verifier of protected consequences (oat/verifier/consequence) and   *)
(* the reconciliation of declared with observed routes it reads            *)
(* (oat/paths).  Pure operators over an evidence record                    *)
(*                                                                         *)
(*   protected_sink            the sink id whose commits are judged        *)
(*   commits                   the set of ledger rows                      *)
(*   receipts                  the set of receipts                         *)
(*   authorizations            authorization id -> artifact (partial)      *)
(*   authority                 the epochs, or None                         *)
(*   secret                    the issuer's key, or None                   *)
(*   correlated_token_digests  commit id -> token digest (partial)         *)
(*   use_counts                authorization id -> count (partial)         *)
(*   reconciliation            declared/observed differences, or None      *)
(*   internal_property_failures, instrument_failures    sets               *)
(***************************************************************************)
EXTENDS Authority

BoundaryFailure == "CONSEQUENCE_BOUNDARY_FAILURE"
InternalFailure == "VEIP_INTERNAL_PROPERTY_FAILURE"
HarnessFailure == "HARNESS_OR_INSTRUMENT_FAILURE"
IntegrationFailure == "INTEGRATION_FAILURE"
Unknown == "UNKNOWN_OR_UNESTABLISHED"
NoCounterexample == "NO_BOUNDARY_COUNTEREXAMPLE"

Disposition == {BoundaryFailure, InternalFailure, HarnessFailure,
                IntegrationFailure, Unknown, NoCounterexample}

Reconcile(declared, observed) ==
    [unknown_observed_paths |-> observed \ declared,
     unexercised_declared_paths |-> declared \ observed]

Protected(evidence) ==
    {c \in evidence.commits : c.sink_id = evidence.protected_sink}

Witnessed(c, evidence) == \E r \in evidence.receipts : r.commit_id = c.commit_id

\* The report on a commit against the one authorization it refers to.
CommitReport(c, evidence) ==
    ValidateAuthorization(
        Get(evidence.authorizations, c.authorization_ref), c,
        At(evidence.authority, c.committed_at), evidence.secret,
        Get(evidence.use_counts, c.authorization_ref),
        Get(evidence.correlated_token_digests, c.commit_id))

ReferenceMissing(c, evidence) ==
    /\ c.authorization_ref # None
    /\ c.authorization_ref \notin DOMAIN evidence.authorizations

\* Mutant: a commit no observer witnessed is judged all the same.
AdjudicateUnwitnessed(c, evidence) ==
    IF evidence.authority = None \/ ReferenceMissing(c, evidence)
    THEN Unknown
    ELSE LET report == CommitReport(c, evidence) IN
         IF IsValid(report) THEN NoCounterexample
         ELSE IF Mismatches(report) = {} THEN Unknown
         ELSE BoundaryFailure

AdjudicateCommit(c, evidence) ==
    IF \/ ~ Witnessed(c, evidence)
       \/ evidence.authority = None
       \/ ReferenceMissing(c, evidence)
    THEN Unknown
    ELSE LET report == CommitReport(c, evidence) IN
         IF IsValid(report) THEN NoCounterexample
         ELSE IF Mismatches(report) = {} THEN Unknown
         ELSE BoundaryFailure

Findings(evidence) == {AdjudicateCommit(c, evidence) : c \in Protected(evidence)}

UndeclaredRoutes(evidence) ==
    IF evidence.reconciliation = None THEN {}
    ELSE evidence.reconciliation.unknown_observed_paths

\* Mutant: one commit that cannot be judged hides a counterexample.
AdjudicateUnknownFirst(evidence) ==
    IF evidence.instrument_failures # {} THEN HarnessFailure
    ELSE IF Unknown \in Findings(evidence) THEN Unknown
    ELSE IF BoundaryFailure \in Findings(evidence) THEN BoundaryFailure
    ELSE IF UndeclaredRoutes(evidence) # {} THEN IntegrationFailure
    ELSE IF evidence.internal_property_failures # {} THEN InternalFailure
    ELSE NoCounterexample

\* The precedence of the taxonomy, highest first.
Adjudicate(evidence) ==
    IF evidence.instrument_failures # {} THEN HarnessFailure
    ELSE IF BoundaryFailure \in Findings(evidence) THEN BoundaryFailure
    ELSE IF Unknown \in Findings(evidence) THEN Unknown
    ELSE IF UndeclaredRoutes(evidence) # {} THEN IntegrationFailure
    ELSE IF evidence.internal_property_failures # {} THEN InternalFailure
    ELSE NoCounterexample

=============================================================================
