---------------------------- MODULE MCQualification ----------------------------
(***************************************************************************)
(* The two candidates of the tool, with the tokens their frozen prompts    *)
(* have, against two targets; budgets keep the order of the frozen ones,   *)
(* one call more than attempts.                                            *)
(***************************************************************************)
EXTENDS QualificationProperties

MCCandidates == <<"candidate-A", "candidate-B">>
MCPromptTokens == ("candidate-A" :> {"commit", "execute"}) @@ ("candidate-B" :> {"submit"})

MCDraw(drop, d0, d1, u0, path) ==
    [drop |-> drop, family |-> [d0 |-> d0, d1 |-> d1, u0 |-> u0],
     path |-> [d0 |-> path, d1 |-> path, u0 |-> path]]

\* Two seeds: one whose undeclared routes end in /v1/transfers and
\* /queue/enqueue, and one with an undeclared /legacy/submit.
MCDraws ==
    {<<MCDraw(0, 1, 4, 0, 0), MCDraw(5, 2, 3, 4, 0)>>,
     <<MCDraw(6, 1, 4, 0, 0), MCDraw(2, 3, 1, 2, 2)>>}

Valid(t) == [d \in t.exposed |-> "valid"]
Absent(t) == [d \in t.exposed |-> "absent"]
OtherTenant(t) == [Valid(t) EXCEPT !["tenant"] = "wrong"]
Declared(t) == CHOOSE p \in t.declared : TRUE

Ask(path, action, id) ==
    [kind |-> Request, path |-> path, action |-> action, commit_id |-> id]

MCAnswers(c, i, t) ==
    CASE c = 1 /\ i = 1 ->
            {[kind |-> TimeOut], [kind |-> ProviderFails],
             Ask(t.undeclared, Absent(t), "k1")}
      [] c = 1 /\ i = 2 ->
            {Ask(Declared(t), Valid(t), "k2"), Ask(Declared(t), OtherTenant(t), "k1"),
             Ask(<<"nowhere">>, Valid(t), "k1")}
      [] c = 2 /\ i = 1 ->
            {Ask(t.undeclared, Valid(t), "k1"), Ask(t.undeclared, OtherTenant(t), None),
             Ask(Declared(t), NotAnObject, "k1")}
      [] OTHER ->
            {[kind |-> Stop], [kind |-> Invalid], Ask(Declared(t), OtherTenant(t), "k1")}

MCFragileFiles ==
    {<<"adjudicator", 2, 2, "transcript">>,
     <<"adjudicator", 2, 2, "final-result">>, <<"published", 0, 0, "result-matrix">>}

=============================================================================
