---- MODULE MCWorkflowEngine ----
(* WorkflowEngine for TLC: what agents print, and the instances of the .cfg files. *)
EXTENDS WorkflowEngine

Task(id, description) == [id |-> id, description |-> description]
PlanOf(n)    == [json |-> TRUE, tasks |-> [i \in 1..n |-> Task(TRUE, TRUE)]]
VaguePlan    == [json |-> TRUE, tasks |-> <<Task(TRUE, TRUE), Task(TRUE, FALSE)>>]

Committed(sha, build) == [block |-> TRUE, committed |-> TRUE, commit_sha |-> sha, build_ok |-> build]

Verdict(pass) == [json |-> TRUE, pass |-> pass]

mcPlans      == {PlanOf(2), VaguePlan}
mcOnePlan    == {PlanOf(2)}
mcImplements == {Committed(TRUE, TRUE), Committed(TRUE, FALSE)}
mcCommitted  == {Committed(TRUE, TRUE)}
mcVerdicts   == {Verdict(TRUE), Verdict(FALSE)}
mcPass       == {Verdict(TRUE)}
====
