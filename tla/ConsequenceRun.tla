----------------------------- MODULE ConsequenceRun -----------------------------
(***************************************************************************)
(* A deterministic consequence run (oat/evidence/replay): the calls of one *)
(* scenario on a fresh sink, one step each, then the evidence, the verdict *)
(* of the verifier, the graph of every commit (oat/evidence/graph) and the *)
(* package that binds them under one digest.                               *)
(***************************************************************************)
EXTENDS PaymentSink, ConsequenceScenarios

\* One call of a scenario function on its sink.
SubmitStep(call) ==
    call.entry = "submit" /\ Submit(call.commit, call.authorization, call.token)

UnguardedStep(call) == call.entry = "unguarded" /\ CommitUnguarded(call.commit)

\* state.receipts.clear(): telemetry lost.
LoseReceipts(call) ==
    /\ call.entry = "lose receipts"
    /\ receipts' = <<>>
    /\ UNCHANGED <<commits, route_log, interlock_log, seen, uses>>

-----------------------------------------------------------------------------
(* The package of the scenario named n, from the sink it left behind.      *)

SinkState ==
    [commits |-> commits, receipts |-> receipts, route_log |-> route_log,
     interlock_log |-> interlock_log]

EvidenceFrom(n, sink) ==
    [protected_sink |-> SinkId,
     commits |-> {sink.commits[i] : i \in DOMAIN sink.commits},
     receipts |-> {sink.receipts[i] : i \in DOMAIN sink.receipts},
     authorizations |-> Scenario[n].authorizations,
     authority |-> Epochs,
     secret |-> IssuerSecret,
     correlated_token_digests |-> Scenario[n].tokens,
     use_counts |-> Scenario[n].use_counts,
     reconciliation |->
        Reconcile(DeclaredPaths, {sink.route_log[i].route_id : i \in DOMAIN sink.route_log}),
     internal_property_failures |-> Scenario[n].internal,
     instrument_failures |-> Scenario[n].instrument]

\* The nodes of a chain, in the order of REQUIRED_EDGES: each edge joins a node
\* to the next, and exists when both do.
ChainNodes ==
    <<"agent", "principal", "route", "attempted_action", "authorization_decision",
      "authorization_artifact", "authority_state_at_issue", "authority_state_at_commit",
      "sink_decision", "committed_consequence", "independent_receipt", "verifier_trace",
      "disposition">>

Always == {"agent", "principal", "route", "attempted_action", "committed_consequence"}

\* Mutant: the artifact is looked up under the wrong identifier.
AuthorizedByCommit(c, n) == Get(Scenario[n].authorizations, c.commit_id) # None

Authorized(c, n) == Get(Scenario[n].authorizations, c.authorization_ref) # None

\* build_graph is given the payloads that exist for commit c.  A verdict that
\* quarantines the run has no findings.
NodesOf(c, n, sink) ==
    LET authorized == Authorized(c, n)
        witnessed == \E i \in DOMAIN sink.receipts : sink.receipts[i].commit_id = c.commit_id
        judged == Scenario[n].instrument = {} /\ c.sink_id = SinkId
        state == At(Epochs, c.committed_at) # None
    IN  Always
        \cup (IF authorized
              THEN {"authorization_decision", "authorization_artifact"} ELSE {})
        \cup (IF authorized /\ state THEN {"authority_state_at_issue"} ELSE {})
        \cup (IF state THEN {"authority_state_at_commit"} ELSE {})
        \cup (IF sink.interlock_log # <<>> THEN {"sink_decision"} ELSE {})
        \cup (IF witnessed THEN {"independent_receipt"} ELSE {})
        \cup (IF judged THEN {"verifier_trace", "disposition"} ELSE {})

\* The edges the audit of a graph reports missing.
MissingEdges(nodes) ==
    {<<ChainNodes[i], ChainNodes[i + 1]>> : i \in
        {j \in 1..(Len(ChainNodes) - 1) :
            ~ ({ChainNodes[j], ChainNodes[j + 1]} \subseteq nodes)}}

\* sink_decision is the last the sink took, whichever commit it was about.
GraphOf(c, n, sink) ==
    [commit_id |-> c.commit_id,
     nodes |-> NodesOf(c, n, sink),
     sink_decision |-> IF sink.interlock_log = <<>> THEN None
                       ELSE sink.interlock_log[Len(sink.interlock_log)].outcome,
     missing_edges |-> MissingEdges(NodesOf(c, n, sink))]

\* "runtime"-free, so its digest covers all of it.
PackageBody(n, sink) ==
    [scenario |-> n,
     sink |-> sink,
     verdict |-> Adjudicate(EvidenceFrom(n, sink)),
     path_reconciliation |-> EvidenceFrom(n, sink).reconciliation,
     graphs |-> [i \in DOMAIN sink.commits |-> GraphOf(sink.commits[i], n, sink)]]

Package(n, sink) ==
    LET body == PackageBody(n, sink)
    IN  [f \in DOMAIN body \cup {"evidence_digest"} |->
            IF f = "evidence_digest" THEN Digest(body) ELSE body[f]]

\* verify_package, on a package that was read.
PackageVerifies(package) ==
    package.evidence_digest =
        Digest([f \in DOMAIN package \ {"evidence_digest"} |-> package[f]])

\* replay_scenario compares the disposition and the stored digest, not the rest.
ReplayMatches(fresh, package) ==
    /\ fresh.verdict = package.verdict
    /\ fresh.evidence_digest = package.evidence_digest

=============================================================================
