---------------------------- MODULE MCNavigation ----------------------------
(* Small instances of plan execution.  Tasks share a session (the first    *)
(* contract; start_navigation_agent_task_v1 creates one for each), so that *)
(* a newer task takes the write authority from an older one.               *)
EXTENDS NavigationExecution

MCSessionOf == [t \in Tasks |-> 1]
MCStepsOf == [finish |-> <<"human", "process">>,
              process |-> <<"process", "process">>,
              review |-> <<"workflow">>]
MCLocking == [ph \in Phases |-> {i \in DOMAIN MCStepsOf[ph] :
                                  MCStepsOf[ph][i] # "human"}]
MCPhaseSteps == [ph \in Phases |-> MCStepsOf[ph]]
AllFaults == {"control", "reset", "disk", "changed", "oversize", "chat",
              "slow", "gateway", "crash"}
MCScenarios == {[tasks |-> 1, plans |-> 2, faults |-> 2, kinds |-> AllFaults \ {"gateway"}],
                [tasks |-> 2, plans |-> 1, faults |-> 1, kinds |-> AllFaults],
                [tasks |-> 2, plans |-> 2, faults |-> 0, kinds |-> {}]}
MCOutcomeOf == [ph \in Phases |-> CASE ph = "finish" -> "fix_pending"
                                    [] ph = "review" -> "review_completed"
                                    [] OTHER -> "none"]
=============================================================================
