-------------------------- MODULE WorkflowEngineMC --------------------------
(* Instances of WorkflowEngine that TLC can exhaust.                       *)
EXTENDS WorkflowEngineProps

mc_key(name) == [category |-> "d", name |-> name]
mc_bare(name) == [category |-> "", name |-> name]
mc_script == [kind |-> "script", ref |-> NoRef, timeout |-> FALSE]
mc_timed == [kind |-> "script", ref |-> NoRef, timeout |-> TRUE]
mc_call(name) == [kind |-> "workflow", ref |-> mc_bare(name), timeout |-> FALSE]
mc_flow(key, stages, cron) == key :> [key |-> key, stages |-> stages, cron |-> cron]

mc_clients == Permutations(Clients)

\* p calls q, whose schedule may be replaced by one that is rejected.
mc_p == mc_flow(mc_key("p"), <<mc_call("q"), mc_script>>, "")
mc_q == mc_flow(mc_key("q"), <<mc_timed>>, "valid")
mc_q2 == mc_flow(mc_key("q"), <<mc_script>>, "rejected")
mc_r == mc_flow(mc_key("r"), <<mc_script>>, "")
mc_batches == {mc_p @@ mc_q, mc_q2}
mc_saved == {mc_p @@ mc_flow(mc_key("q"), <<mc_timed>>, "") @@ mc_r}
mc_refs == {mc_bare("p"), mc_bare("q"), mc_key("r")}
=============================================================================
