----------------------------- MODULE MCMockPortal -----------------------------
(***************************************************************************)
(* Small instances of the mock portal: policies that prompt, skip and      *)
(* fail, by default or for one reason.                                     *)
(***************************************************************************)
EXTENDS MockPortal, TLC

Nothing == [r \in {} |-> Prompt]

MCPolicies == {[default |-> 7, actions |-> [source_unavailable |-> Skip]],
               [default |-> Error, actions |-> [token_not_found |-> Skip]]}

MCCalls == [token : {Absent, "stale"}, policy : MCPolicies]

\* One scenario of each kind; the failing ones for a reason that surfaces at Start and one that
\* does not.
MCScenarios ==
  {NormalSession, UserCancels, ErrorWithoutFlag, MultiSource, FailThenSucceed}
    \cup {RestoreTokenFails(why) : why \in {"source_unavailable", "token_not_found"}}
    \cup {ExternallyTriggeredRescue(why) : why \in {"source_unavailable", "token_not_found"}}

OneScenario == {RestoreTokenFails("source_unavailable")}

MCTriggers == {Success}
==============================================================================
