----------------------- MODULE MCCommandCoordinator -----------------------
(* A leader and two members; the commands meet on the members under several
   policies, and the higher tier sends one to a member and one to the leader. *)
EXTENDS CommandCoordinator

Cmd(id, targets, policy, priority, issued_at, acknowledge) ==
    [id |-> id, scope |-> "Individual", target_ids |-> targets,
     conflict_policy |-> policy, priority |-> priority,
     issued_at |-> issued_at, originator |-> "cell",
     acknowledge |-> acknowledge, expires |-> acknowledge]

NodesDef == {"leader", "m1", "m2"}
OwnDef == {Cmd("a", <<"m1">>, "HighestPriorityWins", 1, 1, TRUE),
           Cmd("b", <<"m1", "m2">>, "HighestPriorityWins", 1, 2, TRUE),
           Cmd("c", <<"m2">>, "LastWriteWins", 2, 3, FALSE)}
AboveDef == {[Cmd("d", <<"m1">>, "Reject", 2, 1, TRUE) EXCEPT !.originator = "zone"],
             Cmd("e", <<"leader">>, "Reject", 1, 1, FALSE),
             [Cmd("f", <<"cell">>, "Reject", 1, 1, FALSE) EXCEPT !.scope = "Cohort"]}
============================================================================
