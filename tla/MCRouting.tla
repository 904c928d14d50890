------------------------------ MODULE MCRouting ------------------------------
(* A model of Routing for TLC: every trigger configured. *)
EXTENDS Routing

AllTriggers == {"pr_opened", "label", "mention", "explain", "merge",
                "ci_fix", "issue_plan", "issue_implement"}
==============================================================================
