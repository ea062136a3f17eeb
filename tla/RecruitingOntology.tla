-------------------------- MODULE RecruitingOntology --------------------------
(***************************************************************************)
(* The ontology the repository registers: the canonical object schemas,    *)
(* the relationship definitions and the default graph rules                *)
(* (src/lib/dataops/ontology/schemas, relationships and graph).            *)
(***************************************************************************)
EXTENDS GraphIntegrity

\* Statuses, whether a title is required, and the alternatives of which an object's
\* properties must name at least one each.
RecruitingSchemas ==
    [Candidate |-> [statuses |-> {"new", "active", "placed", "archived"},
                    requireTitle |-> FALSE, required |-> {{"fullName", "email"}}],
     Submission |-> [statuses |-> {"new", "screen", "submitted", "interview", "offer", "placed", "rejected"},
                     requireTitle |-> FALSE, required |-> {{"jobKey"}, {"candidateKey"}, {"stage"}}],
     Job |-> [statuses |-> {"open", "on_hold", "filled", "closed", "cancelled"},
              requireTitle |-> TRUE, required |-> {}],
     Account |-> [statuses |-> {"active", "prospect", "at_risk", "churned", "inactive"},
                  requireTitle |-> TRUE, required |-> {}]]

Relationship(linkType, source, target, cardinality) ==
    [linkType |-> linkType, sourceType |-> source, targetType |-> target, cardinality |-> cardinality]

RecruitingRelationships ==
    {Relationship("submitted", "Candidate", "Submission", "one_to_many"),
     Relationship("targets", "Submission", "Job", "many_to_one"),
     Relationship("for", "Job", "Account", "many_to_one"),
     Relationship("associated_with", "Candidate", "Account", "many_to_many"),
     Relationship("owned_by", "Candidate", "Recruiter", "many_to_one"),
     Relationship("owned_by", "Submission", "Recruiter", "many_to_one"),
     Relationship("about", "RecruiterNote", "Candidate", "many_to_one"),
     Relationship("for", "RecruiterNote", "Job", "many_to_one"),
     Relationship("about", "DecisionMemo", "Account", "many_to_one"),
     Relationship("for", "OnboardingTask", "OnboardingCase", "many_to_one"),
     Relationship("onboarding.case_has_task", "OnboardingCase", "OnboardingTask", "one_to_many"),
     Relationship("finding_of", "ValidationFinding", "ValidationCase", "many_to_one"),
     Relationship("draft_for", "SupportDraftResponse", "SupportTicket", "many_to_one"),
     Relationship("has_interview", "Submission", "Interview", "one_to_many"),
     Relationship("resulted_in_offer", "Interview", "Offer", "one_to_one"),
     Relationship("resulted_in_placement", "Offer", "Placement", "one_to_one"),
     Relationship("produces", "Mission", "Recommendation", "one_to_many")}

-----------------------------------------------------------------------------
NoMaximum == 1000

\* No rule of the repository sets a severity, so each has the default.
Degree(linkType, direction, otherType, min, max) ==
    [linkType |-> linkType, direction |-> direction, otherType |-> otherType,
     min |-> min, max |-> max, severity |-> "error"]

Policy(linkType, otherType, withStatus) ==
    [linkType |-> linkType, direction |-> "in", otherType |-> otherType,
     withStatus |-> withStatus, severity |-> "error"]

NoRule ==
    [mustConnect |-> FALSE, required |-> {}, cardinality |-> {}, forbiddenParents |-> {},
     forbiddenTargets |-> {}, mustReach |-> {}, via |-> AnyType, policies |-> {}]

RecruitingGraphRules ==
    [Candidate |-> [NoRule EXCEPT !.mustConnect = TRUE,
                      !.required = {Degree("has_resume", "out", "Resume", 1, NoMaximum)},
                      !.cardinality = {Degree("has_primary_resume", "out", AnyType, 0, 1)}],
     Resume |-> [NoRule EXCEPT !.mustConnect = TRUE],
     Submission |-> [NoRule EXCEPT !.required = {Degree("targets", "out", "Job", 1, NoMaximum)},
                       !.cardinality = {Degree("targets", "out", "Job", 1, 1)},
                       !.policies = {Policy("submitted", "Candidate", AnyType)}],
     Job |-> [NoRule EXCEPT !.cardinality = {Degree("targets", "in", "Submission", 1, NoMaximum)}],
     Interview |-> [NoRule EXCEPT !.required = {Degree("has_interview", "in", "Submission", 1, NoMaximum)},
                      !.policies = {Policy("has_interview", "Submission", AnyType)}],
     Offer |-> [NoRule EXCEPT !.required = {Degree("resulted_in_offer", "in", "Interview", 1, NoMaximum)},
                  !.forbiddenParents = {"Candidate"},
                  !.policies = {Policy("resulted_in_offer", "Interview", "approved")}],
     Placement |-> [NoRule EXCEPT !.required = {Degree("resulted_in_placement", "in", "Offer", 1, NoMaximum)},
                      !.forbiddenParents = {"Candidate", "Submission", "Interview"},
                      !.policies = {Policy("resulted_in_placement", "Offer", "accepted")}],
     Artifact |-> [NoRule EXCEPT !.mustConnect = TRUE,
                     !.required = {Degree("owned_by", "out", AnyType, 1, NoMaximum)}],
     Mission |-> [NoRule EXCEPT !.mustReach = {"Candidate", "Job", "Client", "Task", "Artifact"}]]

RecruitingCycleAllowed == {"references"}

=============================================================================
