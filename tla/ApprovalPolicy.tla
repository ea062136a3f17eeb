--------------------------- MODULE ApprovalPolicy ---------------------------
(***************************************************************************)
(* The approval policy engine: the pure decision whether a governance      *)
(* subject needs a human approval, and whether a reason must be given.     *)
(*                                                                         *)
(* A policy row is abstracted to what the decision reads of it.  "present" *)
(* is FALSE when no row has the requested key.  "ruleMatches" says whether *)
(* one of the row's rules matches the subject's payload (an absent payload *)
(* field satisfies no comparison; an unknown operator never matches).      *)
(***************************************************************************)

SubjectType == {"release_bundle", "action_execution", "rollback", "kill_switch"}

ApprovalPolicy ==
    [present: BOOLEAN,
     requireApproval: BOOLEAN,
     ruleMatches: BOOLEAN,
     reasonRequired: {"unset", "yes", "no"},
     allowEmergencyBypass: BOOLEAN]

\* A reason is demanded by default to enable a kill switch or to roll back.
defaultReasonRequired(subjectType) == subjectType \in {"kill_switch", "rollback"}

emergencyBypass(policy, subjectType, emergency) ==
    /\ subjectType = "rollback"
    /\ policy.allowEmergencyBypass
    /\ emergency

\* Mutated: a missing policy row is taken to require nothing.
evaluateFailingOpen(policy, subjectType, emergency) ==
    [approvalRequired |-> policy.present /\ (policy.requireApproval \/ policy.ruleMatches),
     reasonRequired |-> defaultReasonRequired(subjectType)]

evaluateApprovalPolicy(policy, subjectType, emergency) ==
    CASE ~policy.present ->
            [approvalRequired |-> TRUE, reasonRequired |-> TRUE]
      [] policy.present /\ emergencyBypass(policy, subjectType, emergency) ->
            [approvalRequired |-> FALSE, reasonRequired |-> TRUE]
      [] OTHER ->
            [approvalRequired |-> policy.requireApproval \/ policy.ruleMatches,
             reasonRequired |->
                IF policy.reasonRequired = "unset"
                THEN defaultReasonRequired(subjectType)
                ELSE policy.reasonRequired = "yes"]

=============================================================================
