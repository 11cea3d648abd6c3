----------------------------- MODULE MCCommandLine -----------------------------
(***************************************************************************)
(* Small scenarios: the three of scenarios/rb001 with shorter axes, and a  *)
(* second VULN-A.json of another directory, which is corrected.            *)
(***************************************************************************)
EXTENDS CommandLineProperties

LOCAL INSTANCE TLC

MCScenario(id, enforcement_path, delays) ==
    [scenario_id |-> id, enforcement_path |-> enforcement_path,
     action_quantity |-> 200000,
     authority |-> [max_quantity |-> 250000, valid_from |-> 0, valid_until |-> 1000,
                    status |-> "ACTIVE"],
     search_space |->
        [check_tick |-> <<10>>, commit_offset |-> <<-3, 1>>,
         duplicate_request |-> <<FALSE, TRUE>>, propagation_delay |-> delays]]

MCScenarioDocs ==
    (<<"scenarios/rb001", "VULN-A.json">> :> MCScenario("RB-001-VULN-A", CheckOnceCached, <<0>>))
    @@ (<<"scenarios/rb001", "VULN-B.json">> :> MCScenario("RB-001-VULN-B", StalePropagation, <<0, 4>>))
    @@ (<<"scenarios/rb001", "CONTROL.json">> :> MCScenario("RB-001-CONTROL", RecheckAtCommit, <<0>>))
    @@ (<<"elsewhere", "VULN-A.json">> :> MCScenario("RB-001-VULN-A", RecheckAtCommit, <<0>>))

MCAbsent == <<"elsewhere", "NONE.json">>

CallsOf ==
    [entry \in {"submit", "unguarded"} |->
        {call \in KnownCalls : call.entry = entry}]

MCSubmissions == CallsOf["submit"]
MCBypasses == CallsOf["unguarded"]

=============================================================================
